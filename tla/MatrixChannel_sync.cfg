SPECIFICATION FairSpec
CONSTANTS
  Senders = {a}
  Self = self
  Kinds = {"chat", "caption", "aside", "mention", "command", "thread", "noreply"}
  HistoryLimit = 1
  TimelineLimit = 1
  MaxRetriggers = 0
  MaxEvents = 2
  MaxBefore = 1
  MaxFaults = 1
  MaxCrashes = 1
  MaxStreams = 0
INVARIANTS
  NothingSkipped
PROPERTIES
  EventsHandled
CHECK_DEADLOCK FALSE
