SPECIFICATION LiveSpec
CONSTANTS
  n1 = n1
  n2 = n2
  Nodes = {n1, n2}
  N = 2
  MaxRestarts = 2
INVARIANTS
  GenesisAgree
  SendersFound
PROPERTY EveryoneJoins
CHECK_DEADLOCK FALSE
