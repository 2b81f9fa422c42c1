SPECIFICATION Spec
CONSTANTS
  alice = alice
  mallory = mallory
  bob = bob
  carol = carol
  transfer = transfer
  chunk = chunk
  s1 = s1
  s2 = s2
  nonce1 = nonce1
  nonce2 = nonce2
  id1 = id1
  id2 = id2
  NoNonce = NoNonce
  User = {alice}
  Subject = {alice, mallory}
  Session = {s1, s2}
  UserOf <- BothAlice
  Operation = {transfer}
  ContextId = {id1}
  Peer = {bob}
  Command = {chunk}
  Nonce = {nonce1}
  Grantable <- LongLived
  MaxVersion = 1
  MaxTime = 3
  ReplayTTL = 1
  ReplayMax = 0
  RateLimit = 2
  MaxWorkers = 2
PROPERTIES NoReplay
CHECK_DEADLOCK FALSE
