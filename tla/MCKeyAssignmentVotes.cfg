SPECIFICATION LiveSpec
CONSTANTS
  r1 = r1
  r2 = r2
  n1 = n1
  n2 = n2
  zero = zero
  u1 = u1
  u2 = u2
  app = app
  own = own
  Replicas = {r1}
  Voters = {n1, n2}
  Faulty = {}
  Unverified = {zero}
  K = 2
  Curves = {"secp256k1"}
  KeyBuffer = 2
  Users = {u1}
  Apps = {app}
  GlobalApps = {app}
  GatewayFails = FALSE
  Crashers = {}
  MaxIndex = 2
  MaxHeight = 30
  MaxBlock = 1
  MaxTx = 8
  MaxAssigns = 1
  MaxCrashes = 1
CONSTRAINT InTurnOrShort
INVARIANTS
  
  BufferNotExceeded
PROPERTIES
  BufferRefilled
CHECK_DEADLOCK FALSE
