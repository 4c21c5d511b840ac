SPECIFICATION RequestsSpec
CONSTANTS
  q1 = q1
  q2 = q2
  q3 = q3
  u1 = u1
  u2 = u2
  w1 = w1
  n1 = n1
  n2 = n2
  n3 = n3
  c1 = c1
  c2 = c2
  Requests = {q1, q2, q3}
  Users = {u1, u2}
  UserOf <- MCUserOf
  Slots = 1
  Workers = {w1}
  Attempts = 2
  MaxSubscriptions = 1
  Losses = 2
  \* one of three nodes signs wrong data, another has no cache yet
  Servers = {n1, n2, n3}
  Clients = {c1, c2}
  K = 2
  Straying = {n3}
  Warm = {n1, n3}
  MaxCopies = 2
  MaxExpiries = 1
  MaxLosses = 1
CONSTRAINT FewRequests
INVARIANTS
  AnswerIsTrue
  NothingHeld
  RecordedIsFound
PROPERTIES
  EveryRequestAnswered
  SharesReach
CHECK_DEADLOCK FALSE
