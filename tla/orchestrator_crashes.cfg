SPECIFICATION Spec
CONSTANTS
    ticket = ticket
    tenant = tenant
    Runs <- MCOneRun
    WorkflowOf <- MCWorkflowOf
    Clients = {c1}
    Operator = "any"
    MaxRequests = 2
    MaxCrashes = 1
INVARIANTS
    TasksFollowLog
    VerdictHasCause
PROPERTIES
    TasksAreKept
CHECK_DEADLOCK FALSE
