SPECIFICATION Spec
CONSTANTS
    gateway = gateway
    cli = cli
    a1 = a1
    a2 = a2
    b1 = b1
    Procs = {gateway, cli}
    Callers = {a1, a2, b1}
    ProcOf <- MCProcOf
    Reentrant = {a1, a2, b1}
    HasStarttime = TRUE
    LongRuns = FALSE
    MaxRequests = 3
    MaxDisturbances = 1
INVARIANTS
    SingleWriter
    SharedUntilLast
PROPERTIES
    WaitersGetIn
CHECK_DEADLOCK FALSE
