SPECIFICATION Spec
CONSTANTS
  a1 = a1
  a2 = a2
  b1 = b1
  alice = alice
  bob = bob
  Conn = {a1, a2, b1}
  UserOf <- Users
  RequestId = {r1, r2}
  Outbox = Outbox
  Evictor = Evictor
  MaxTime = 1
  MaxRequests = 2
  RouteTTL = 0
  RouteMax = 1
  Workers = 2
INVARIANTS TypeOK Confined RoutesCleaned
PROPERTIES RoutedToSender AnswerKept
SYMMETRY Alike
CHECK_DEADLOCK FALSE
