SPECIFICATION Spec
CONSTANTS
  c1 = c1
  c2 = c2
  r1 = r1
  None = None
  Conn = {c1, c2}
  RequestId = {r1}
  Type <- Types
  Message <- Samples
  Build <- Builds
  RegistryOf <- RegistryOfBuild
  MaxTaken <- TwoAndOne
INVARIANTS TypeOK BackendSeesEffects
PROPERTIES ContractSpec
CHECK_DEADLOCK FALSE
