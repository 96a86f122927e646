------------------------ MODULE MCConnectionManager -------------------------
(* Small instances of ConnectionManager for TLC. *)
EXTENDS ConnectionManager, TLC

CONSTANTS u1, u2, c1, c2, c3, m1, m2, m3, p1, p2

\* Two connections of one user, one of another; two messages and one.
MCUserOf == [c \in Conns |-> IF c = c3 THEN u2 ELSE u1]
MCTo == [m \in Msgs |-> IF m = m3 THEN u2 ELSE u1]
=============================================================================
