CONSTANTS
    Tasks <- TwoTasks
    Deps <- Chain
    ResultStatuses = {"SUCCESS", "BLOCKED"}
    LegacyTasks <- TwoTasks
    MaxSubmissions = 1
    MaxFaults = 2
    MaxControls = 2
    MaxCalls = 1
SPECIFICATION Spec
INVARIANT VerdictOnSubmission
INVARIANT DependencySubmitted
PROPERTY DecisionStands
CHECK_DEADLOCK FALSE
