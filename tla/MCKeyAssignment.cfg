SPECIFICATION Spec
CONSTANTS
  r1 = r1
  r2 = r2
  n1 = n1
  n2 = n2
  zero = zero
  u1 = u1
  u2 = u2
  app = app
  own = own
  Replicas = {r1, r2}
  Voters = {n1, n2}
  Faulty = {}
  Unverified = {}
  K = 1
  Curves = {"secp256k1"}
  KeyBuffer = 3
  Users = {u1, u2}
  Apps = {app, own}
  GlobalApps = {app}
  GatewayFails = TRUE
  Crashers = {r1}
  MaxIndex = 2
  MaxHeight = 4
  MaxBlock = 2
  MaxTx = 5
  MaxAssigns = 2
  MaxCrashes = 1
CONSTRAINT AloneOrTogether
INVARIANTS
  KeyHasOneHolder
  HaltsOnlyTorn
PROPERTY KeysAreKept
CHECK_DEADLOCK FALSE
