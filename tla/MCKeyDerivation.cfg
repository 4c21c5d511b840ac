SPECIFICATION FairSpec
CONSTANTS
  n1 = n1
  n2 = n2
  n3 = n3
  n4 = n4
  Nodes = {n1, n2, n3, n4}
  F = 1
  K = 2
  Leaders = {n1, n2}
  Keyset <- TwoKeysets
  Crashers = {n4}
  Expirers = {n3}
  Waiting = {n1}
INVARIANTS
  ShareIsAgreed
  DecidedKeyIsAgreed
  NoStrandedShare
PROPERTY EveryNodeStores
CONSTRAINT OneStops
CHECK_DEADLOCK FALSE
