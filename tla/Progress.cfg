SPECIFICATION FairSpec
CONSTANTS
    t1 = t1
    t2 = t2
    u1 = u1
    u2 = u2
    d1 = d1
    d2 = d2
    TripIds = {t1}
    Drivers = {d1}
    NoTrip = NoTrip
    Dispatch = Dispatch
    NoDriver = NoDriver
    FarePackage <- Package
    MaxFaults = 0
    MaxSessions = 1
    MaxWebhooks = 1
    Riders = {u1}
    Fares = {"van"}
    FareOwner <- VanOwner
    FarePrice <- VanPrice
    DriverPackage <- VanDrivers
PROPERTIES SearchIsAnswered AcceptedIsCharged PaymentIsRecorded
CHECK_DEADLOCK FALSE
