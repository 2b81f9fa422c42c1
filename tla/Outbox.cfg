SPECIFICATION FairSpec
CONSTANTS
  Push = Push
  Snapshot = Snapshot
  Undecodable = Undecodable
  Latest = Latest
  Count = 2
  DeleteOnConsume = TRUE
  MaxEntries = 4
  MaxFailures = 1
  MaxRestarts = 1
INVARIANTS TypeOK DeletedDispatched
PROPERTIES FeedSpec PositionFollowed
CHECK_DEADLOCK FALSE
