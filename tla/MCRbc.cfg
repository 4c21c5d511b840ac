SPECIFICATION FairSpec
CONSTANTS
  n1 = n1
  n2 = n2
  n3 = n3
  n4 = n4
  Nodes = {n1, n2, n3, n4}
  F = 1
  K = 2
  Crashers = {n4}
  Cleaners = {n1}
  Expirers = {n1}
INVARIANTS
  ReadyHasEchoQuorum
PROPERTIES
  ImplementsReliableBroadcast
  Totality
  Validity
CONSTRAINT OneStops
CHECK_DEADLOCK FALSE
