SPECIFICATION Spec
CONSTANTS
    d1 = d1
    d2 = d2
    d3 = d3
    Drivers = {d1, d2, d3}
    Suitable = {d1, d2}
    NoDriver = NoDriver
    FreshIds = FALSE
    MaxRegistrations = 4
SYMMETRY Symmetry
INVARIANT UnregisterReturns
CHECK_DEADLOCK FALSE
