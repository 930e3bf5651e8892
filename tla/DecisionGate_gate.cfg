SPECIFICATION Spec
CONSTANTS
  w = w
  l = l
  h = h
  s = s
  Nobody = Nobody
  Members <- Team
  Role <- TeamRole
  Account <- TeamAccount
  Assignee = w
  Kinds <- TwoKinds
  BlockedAt = 1
  FrozenAt = 2
  MaxAttempts = 2
  MaxCalls = 5
  Tools <- TeamTools
  MaxOpen = 2
INVARIANT OneOpenLoop
INVARIANT AcceptedApproved
PROPERTY DecisionsKept
CHECK_DEADLOCK FALSE
