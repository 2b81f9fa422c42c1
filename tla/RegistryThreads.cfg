SPECIFICATION FairSpec
CONSTANTS
  c1 = c1
  c2 = c2
  c3 = c3
  c4 = c4
  Alice = Alice
  alice = alice
  tab = tab
  NoInstance = NoInstance
  None = None
  Conn <- Two
  UserOf <- OneUserUser
  InstanceOf <- OneUserInstance
  SubjectsOf <- OneUserSubjects
  Subject = {alice}
  MaxPerUser = 1
  Workers = 2
  Sweeper = {pruner}
  Dispatcher = {outbox}
INVARIANTS ReadyLimit EmptyKeysDropped
PROPERTIES MethodsReturn JudgementsHold
