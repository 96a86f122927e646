--------------------------- MODULE MCRiderPreview ---------------------------
(* Small instances of RiderPreview for TLC. *)
EXTENDS RiderPreview

CONSTANTS town, island

\* A place that is reached, and an island.
MCMetres == [p \in Places |-> IF p \in Unreachable THEN 0 ELSE 1200]
MCSeconds == [p \in Places |-> IF p \in Unreachable THEN 0 ELSE 90]
=============================================================================
