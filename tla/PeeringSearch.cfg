\* The system rests once MaxRequests requests are answered.
SPECIFICATION Spec
CONSTANTS
  s1 = s1
  s2 = s2
  m1 = m1
  Sids = {s1, s2}
  Magnets = {m1}
  max_peer_count = 2
  MinExp <- MCMinExp
  MaxExp = 2
  Workers = {w1, w2}
  max_depth = 2
  Distance <- MCDistance
  NearLists <- MCNear
  Reliable = {}
  Malformed = TRUE
  MaxObjects = 2
  MaxCrashes = 0
  MaxRequests = 2
INVARIANTS
  Answers
  DbCatchesUp
PROPERTIES
  ExhaustiveSearch
CHECK_DEADLOCK FALSE
