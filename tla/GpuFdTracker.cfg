SPECIFICATION Spec
CONSTANTS
    Fds = {0, 1, 2}
    Nodes = {n1, n2, n3}
    Names <- MCNames
    Allowed = {}
    Devices <- MCDevices
    Files <- MCFiles
    AbsNames <- MCAbsNames
    RelNames <- MCRelNames
    SegLen <- MCSegLen
    MaxSegments = 6
    PathMax = 16
    BusMax = 4
    Null = Null
    Free = Free
    Closed = Closed
    Fail = Fail
SYMMETRY AnyNode
INVARIANT ListWhole
INVARIANT RecordsTrue
INVARIANT MapOperations
