SPECIFICATION Spec
CONSTANTS
  c1 = c1
  c2 = c2
  c3 = c3
  c4 = c4
  Alice = Alice
  alice = alice
  tab = tab
  NoInstance = NoInstance
  None = None
  Conn <- Four
  UserOf <- TabsUser
  InstanceOf <- TabsInstance
  SubjectsOf <- TabsSubjects
  Subject = {Alice, alice}
  MaxPerUser = 2
  Workers = 1
  Sweeper = {pruner}
  Dispatcher = {outbox}
INVARIANTS TypeOK IndexExact OneActivePerInstance
PROPERTIES EvictsOldest ReplacedNotLost
CHECK_DEADLOCK FALSE
SYMMETRY TabsAlike
CONSTRAINT ThreeOpened
