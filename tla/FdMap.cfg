SPECIFICATION Spec
CONSTANTS
    Threads = {t1, t2}
    Fds <- MCFds
    Capacity = 2
    Blocks = {b1, b2, b3}
    Payloads <- MCPayloads
    PayloadLen <- MCPayloadLen
    Counts <- MCCounts
    Free = Free
    Null = Null
    None = None
SYMMETRY Symmetry
INVARIANT UniqueFd
INVARIANT BlocksOwnedOnce
INVARIANT ReadsInBounds
PROPERTY ImplementsMap
