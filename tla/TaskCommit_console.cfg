SPECIFICATION Spec
CONSTANTS
  Workers = {w1}
  Leader = lead
  Cancels = {c1}
  NoOne = NoOne
  Results = {"SUCCESS", "BLOCKED"}
  Outcome <- TwoOutcomes
  Ops = {"ack_task", "submit_task", "report_progress", "accept", "reject", "cancel_task"}
  MaxAttempts = 2
  MaxCalls <- TwoByWorkers
  Endless = {}
INVARIANTS
  TypeOK
  VettedCommit
  SuccessStands
PROPERTIES
  CommitsAreAtomic
  ContractFollowed
  CancelledForever
CHECK_DEADLOCK FALSE
