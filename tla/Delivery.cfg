SPECIFICATION Spec
CONSTANTS
  c1 = c1
  c2 = c2
  raw = raw
  normal = normal
  tab1 = tab1
  tab2 = tab2
  Close = Close
  outbox = outbox
  Conn = {c1, c2}
  WebTransport = {c1}
  Dispatcher = {outbox}
  Subject = {raw, normal}
  SubjectsOf <- BothSubjects
  InstanceOf <- Tabs
  Message = {1, 2, 3}
  Push = {1, 2}
  Audience <- RelayOrRaw
  MaxPending = 2
  PendingTTL = 1
  MaxTime = 2
  MaxWorkers = 2
INVARIANTS TypeOK NoDuplicates InOrder Accounted NoneStranded
PROPERTIES QueueKept
CONSTRAINT Bounded
CHECK_DEADLOCK FALSE
