SPECIFICATION Spec
CONSTANTS
    long = long
    Messages = {long}
    Payloads <- MCPayloads
    Options <- MCOptions
    Hooked <- MCHooked
    MaxRetries = 2
    MaxBoots = 3
    MaxFaults = 2
INVARIANTS
    BestEffortIsRetried
CHECK_DEADLOCK FALSE
