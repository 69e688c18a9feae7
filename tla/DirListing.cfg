SPECIFICATION ListingSpec
CONSTANTS
    dot = dot
    dotdot = dotdot
    A = A
    B = B
    C = C
    D = D
    NoMinor = NoMinor
    Dots <- MCDots
    Buses <- MCBuses
    Minor <- MCMinor
    Devs <- MCDevs
    Listings <- MCListings
    Texts <- MCTexts
    MaxGpus = 3
    MaxBatch = 3
CHECK_DEADLOCK FALSE
INVARIANT AllowedExact
INVARIANT SeenFiltered
INVARIANT MountedListed
PROPERTY ReaddirReturns
