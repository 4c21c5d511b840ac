SPECIFICATION FairSpec
CONSTANTS
  n1 = n1
  n2 = n2
  n3 = n3
  n4 = n4
  Nodes = {n1, n2, n3, n4}
  F = 1
  K = 2
  Window <- OneCurve
  MaxIndex = 0
  Settled = {n3, n4}
  Crashers = {n1}
  Expirers = {n1}
  MaxCrashes = 2
  MaxExpiries = 1
CONSTRAINT LaggardIsLast
INVARIANTS
  DealsOnce
  IntactSharesStored
PROPERTY DecisionTakesEffect
CHECK_DEADLOCK FALSE
