SPECIFICATION FairSpec
CONSTANTS
    town = town
    island = island
    Places = {town, island}
    NoPlace = NoPlace
    Unreachable = {island}
    Metres <- MCMetres
    Seconds <- MCSeconds
    MaxRequests = 2
    MaxStarts = 2
    MaxCancels = 2
INVARIANTS TypeOK ListedFaresExist TripsAreKept
PROPERTY PreviewEnds
CHECK_DEADLOCK FALSE
