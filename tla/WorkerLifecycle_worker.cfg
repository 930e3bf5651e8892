CONSTANTS
    Calls = {c1, c2}
    Ops <- AllOps
    MaxSpec = 2
    Mentions = {m1}
    MaxChanges = 2
    MaxFaults = 1
SPECIFICATION Spec
INVARIANTS TypeOK HashHonest
PROPERTIES Converges MentionWakes
CHECK_DEADLOCK FALSE
