\* Two calls of any function, one fault of any kind.
SPECIFICATION FairConSpec
CONSTANTS
    Callers = {p1, p2}
    Keys = {k1}
    Values = {v1, v2}
    Conns = {c1, c2}
    Functions <- AllFunctions
    None = None
    ErrorText = ErrorText
    ZeroKey = ZeroKey
    Faults <- AllFaults
    MaxFaults = 1
INVARIANT WholeRequests
PROPERTIES ImplementsKVStore CallsEnd HandlersEnd
CHECK_DEADLOCK FALSE
