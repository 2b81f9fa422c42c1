SPECIFICATION FairSpec
CONSTANTS
  Push = Push
  Snapshot = Snapshot
  Undecodable = Undecodable
  Latest = Latest
  Count = 2
  DeleteOnConsume = TRUE
  MaxEntries = 2
  MaxFailures = 0
  MaxRestarts = 0
PROPERTY EventsPushed
CHECK_DEADLOCK FALSE
