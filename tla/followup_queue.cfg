SPECIFICATION FairSpec
CONSTANTS
    m1 = m1
    m2 = m2
    m3 = m3
    m4 = m4
    direct = direct
    thread = thread
    Msgs = {m1, m2, m3, m4}
    Origin <- MCOrigin
    Settings <- MCSettings
    MaxFails = 1
    MaxUnbegun = 1
    MaxClears = 1
INVARIANTS
    TypeOK
    NoSilentLoss
    NoRepeat
PROPERTIES
    OrderKept
    DrainsSettle
CHECK_DEADLOCK FALSE
