SPECIFICATION FairSpec
CONSTANTS
    ticket = ticket
    tenant = tenant
    Runs <- MCOneRun
    WorkflowOf <- MCWorkflowOf
    Clients = {c1}
    Operator = "patient"
    MaxRequests = 2
    MaxCrashes = 1
PROPERTIES
    RunsReachVerdict
CHECK_DEADLOCK FALSE
