SPECIFICATION Spec
CONSTANTS
    d1 = d1
    d2 = d2
    d3 = d3
    Drivers = {d1, d2, d3}
    Suitable = {d1, d2}
    NoDriver = NoDriver
    FreshIds = TRUE
    MaxRegistrations = 4
SYMMETRY Symmetry
INVARIANTS TypeOK RegistryIsPresent FoundWasPresent OverlookedOnlyBesideRemovals
CHECK_DEADLOCK FALSE
