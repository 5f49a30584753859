CONSTANTS
    Tenants = {t}
    Threads = {c1, c2}
    MaxRuns = 3
    MaxFaults = 1
    MaxCrashes = 1
SPECIFICATION Spec
SYMMETRY MCSymmetry
INVARIANTS TypeOK ReadyIsEarned ReadyHasWorkspace ReadyIsBuilt WorkInPlace SettledTenant
CHECK_DEADLOCK FALSE
