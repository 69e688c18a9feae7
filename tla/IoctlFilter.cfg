SPECIFICATION IoctlSpec
CONSTANTS
    Threads = {t1, t2}
    dot = dot
    A = A
    B = B
    C = C
    NoMinor = NoMinor
    Dots <- MCDots
    Buses <- MCBuses
    Minor <- MCMinor
    Devs <- MCDevs
    Listings <- MCListings
    Texts <- MCTexts
    m1 = m1
    m2 = m2
    h = h
    Ids <- MCIds
    InvalidId = InvalidId
    Cards <- MCCards
    MaxGpus = 4
    MaxAttached = 3
    MaxActive = 4
    AttachedLists <- MCAttachedLists
    ActiveLists <- MCActiveLists
SYMMETRY Symmetry
INVARIANT LearnedWhole
INVARIANT RewrittenClean
INVARIANT MountedKept
INVARIANT FilteredOnceLearned
