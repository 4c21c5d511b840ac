SPECIFICATION Algorithms
CONSTANTS
  d1 = d1
  d2 = d2
  P = 5
  N = 4
  K = 3
  Dealers = {d1, d2}
  H = 2
  GTilde = 3
  MaxNumber = 17
  W = 8
  Bytes = {0, 1, 2, 3}
  MaxLen = 4
  Blocks = {1, 2, 3, 4, 255}
INVARIANTS
  KeyOfSecrets
  CoinIsCommon
  ReadBack
CHECK_DEADLOCK FALSE
