SPECIFICATION Spec
CONSTANTS
    Procs = {p1, p2}
    Chars <- MCChars
    NL = "newline"
    Contents <- MCContents
    Lib <- MCLib
    MaxRuns = 4
    MaxFaults = 2
    None = None
CHECK_DEADLOCK FALSE
INVARIANT OthersKept
INVARIANT LastCommandHolds
