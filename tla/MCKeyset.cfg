SPECIFICATION Spec
CONSTANTS
  n1 = n1
  n2 = n2
  n3 = n3
  n4 = n4
  Nodes = {n1, n2, n3, n4}
  F = 1
  Invalid <- OneInvalid
  Crashers = {n3}
INVARIANTS
  KeysetAgreement
  DecidedKeysetHeld
  OneBeforeZero
CONSTRAINT SmallBound
CHECK_DEADLOCK FALSE
