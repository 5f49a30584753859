SPECIFICATION Spec
CONSTANTS
    ticket = ticket
    tenant = tenant
    Runs <- MCOneRun
    WorkflowOf <- MCWorkflowOf
    Clients = {c1, c2}
    Operator = "any"
    MaxRequests = 2
    MaxCrashes = 0
SYMMETRY MCSymmetry
INVARIANTS
    TypeOK
    GatesRespected
    OneSessionPerAgent
PROPERTIES
    KeepsPromise
CHECK_DEADLOCK FALSE
