SPECIFICATION Spec
CONSTANTS
    t1 = t1
    t2 = t2
    Letter = Letter
    None = None
    Threads = {t1, t2}
    Machines <- MCMachines
    Groups <- MCGroups
    LimitTokens <- MCLimitTokens
    UsageTokens <- MCUsageTokens
    U64Max = 63
    Sentinel = 28
    UIntMax = 7
    MaxPath = 3
    PageSize = 4
    Kilo = 2
    LineLen = 3
    BufLen = 12
    HostSwap = 20
    MaxWrites = 1
INVARIANT LeastLimit
INVARIANT PodWhenLimited
INVARIANT TotalsAgree
INVARIANT FreeWithinTotal
INVARIANT SizesFit
INVARIANT MeminfoWhole
INVARIANT LockProtects
SYMMETRY AnyThread
