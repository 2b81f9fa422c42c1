SPECIFICATION FairSpec
CONSTANTS
  c1 = c1
  c2 = c2
  c3 = c3
  Conn = {c1, c2}
  None = None
  code = code
  now = now
  Name = {code}
  Instance = {"tab"}
  Claim = {"ann", "bob", ""}
  JwtSource = "jwks"
  Moment = {now}
  Commands <- TableCommands
  QueryOf <- QueryOfClient
  Offers <- OffersOfClient
  Issued <- IssuedTokens
  Workers = 1
PROPERTY EndPublished
CHECK_DEADLOCK FALSE
