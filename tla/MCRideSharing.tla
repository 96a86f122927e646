--------------------------- MODULE MCRideSharing ----------------------------
(* Small instances of RideSharing for TLC: the values of the constants. *)
EXTENDS RideSharingLifeCycle, TLC

CONSTANTS t1, t2, u1, u2, d1, d2

\* One fare: trips, and drivers, are interchangeable.
VanOwner == [f \in {"van"} |-> u1]
VanPrice == [f \in {"van"} |-> 4217]
VanDrivers == [d \in Drivers |-> "van"]
Symmetry == Permutations({t1, t2}) \cup Permutations({d1, d2})

\* Two riders with a fare each.
TwoOwners == [f \in {"van", "suv"} |-> IF f = "van" THEN u1 ELSE u2]
TwoPrices == [f \in {"van", "suv"} |-> IF f = "van" THEN 4217 ELSE 2003]

Package == [f \in Fares |-> f]
=============================================================================
