SPECIFICATION Spec
CONSTANTS
    t1 = t1
    t2 = t2
    u1 = u1
    u2 = u2
    d1 = d1
    d2 = d2
    TripIds = {t1}
    Drivers = {d1, d2}
    NoTrip = NoTrip
    Dispatch = Dispatch
    NoDriver = NoDriver
    FarePackage <- Package
    MaxFaults = 0
    MaxSessions = 2
    MaxWebhooks = 2
    Riders = {u1}
    Fares = {"van"}
    FareOwner <- VanOwner
    FarePrice <- VanPrice
    DriverPackage <- VanDrivers
SYMMETRY Symmetry
INVARIANTS OffersInv OneOfferAtATime OneSessionPerTrip RequestsAreRecalled
PROPERTIES PayedIsFinal FollowsLifeCycle
CHECK_DEADLOCK FALSE
