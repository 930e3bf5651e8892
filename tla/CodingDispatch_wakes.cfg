CONSTANTS
    Tasks <- OneRun
    Names = {"n1"}
    NameOf <- OneName
    Listeners <- OneRun
    Rules = {r1}
    MaxRules = 1
    MaxAttempts = 1
    MaxExtensions = 0
    MaxCrashes = 1
    PidReuse = FALSE
    Asks = {}
    r1 = r1
SPECIFICATION Spec
PROPERTY RecordEnds
CHECK_DEADLOCK FALSE
