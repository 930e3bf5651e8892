CONSTANTS
    Tasks <- OneRun
    Names = {"n1"}
    NameOf <- OneName
    Listeners = {}
    Rules = {}
    MaxRules = 1
    MaxAttempts = 1
    MaxExtensions = 1
    MaxCrashes = 1
    PidReuse = TRUE
    Asks <- OneRun
    r1 = r1
SPECIFICATION FairSpec
INVARIANT TypeOK
INVARIANT OwnChildOnly
INVARIANT NoRunawayChild
PROPERTY CancelWins
PROPERTY RunDecided
CHECK_DEADLOCK FALSE
