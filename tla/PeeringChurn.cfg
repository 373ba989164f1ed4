\* The system rests once MaxRequests requests are answered.
SPECIFICATION FairSpec
CONSTANTS
  s1 = s1
  s2 = s2
  m1 = m1
  Sids = {s1, s2}
  Magnets = {m1}
  max_peer_count = 1
  MinExp <- MCMinExp
  MaxExp = 2
  Workers = {w1}
  max_depth = 2
  Distance <- MCDistance
  NearLists <- MCNear
  Reliable = {}
  Malformed = TRUE
  MaxObjects = 4
  MaxCrashes = 1
  MaxRequests = 1
INVARIANTS
  BookConsistent
PROPERTIES
  ExhaustiveSearch
  EvictsLowest
  EveryRowRestored
CHECK_DEADLOCK FALSE
