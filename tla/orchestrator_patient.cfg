SPECIFICATION FairSpec
CONSTANTS
    ticket = ticket
    tenant = tenant
    Runs <- MCBothRuns
    WorkflowOf <- MCWorkflowOf
    Clients = {c1, c2}
    Operator = "patient"
    MaxRequests = 2
    MaxCrashes = 0
INVARIANTS
    SucceededMeansAllAgentsDone
    ReplayIsValid
PROPERTIES
    RunsReachVerdict
CHECK_DEADLOCK FALSE
