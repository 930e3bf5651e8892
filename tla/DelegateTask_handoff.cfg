SPECIFICATION DelegationSpec
CONSTANTS
  Workers = {alice, bob}
  Leader = lead
  Cancels = {c1}
  NoOne = NoOne
  Results = {"SUCCESS"}
  Outcome <- Passed
  MaxDelegations = 3
  MaxPauses = 1
  MaxStops = 1
INVARIANTS
  AnnouncedOnce
  AssignedAnnounced
PROPERTIES
  ToldOfPublished
  PauseHonoured
  DelegationInContract
CHECK_DEADLOCK FALSE
SYMMETRY Exchange
