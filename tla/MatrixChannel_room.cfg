SPECIFICATION FairSpec
CONSTANTS
  Senders = {a}
  Self = self
  Kinds = {"chat", "mention"}
  HistoryLimit = 1
  TimelineLimit = 3
  MaxRetriggers = 1
  MaxEvents = 3
  MaxBefore = 0
  MaxFaults = 1
  MaxCrashes = 0
  MaxStreams = 1
PROPERTIES
  FreshReply
  PlaceholdersClose
CHECK_DEADLOCK FALSE
