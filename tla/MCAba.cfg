SPECIFICATION Spec
CONSTANTS
  n1 = n1
  n2 = n2
  n3 = n3
  n4 = n4
  Nodes = {n1, n2, n3, n4}
  F = 1
  Crashers = {n4}
INVARIANTS
  Validity
  SecondHalfConsistent
  DirectAgreement
  CoinOnlyInRoundZero
CONSTRAINT ThreeWays
CHECK_DEADLOCK FALSE
