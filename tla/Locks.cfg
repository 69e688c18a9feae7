SPECIFICATION Spec
CONSTANTS
    t1 = t1
    t2 = t2
    None = None
    Threads = {t1, t2}
    MaxCalls = 2
    MaxInterrupts = 1
    Calls <- MCCalls
    HandlerCalls = {"read", "close"}
CHECK_DEADLOCK FALSE
INVARIANT GuardBalanced
INVARIANT NoHoldAndWait
INVARIANT NoRecursion
PROPERTY CallsReturn
