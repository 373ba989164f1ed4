\* The system rests once every publication was handled.
SPECIFICATION Spec
CONSTANTS
  s1 = s1
  s2 = s2
  s3 = s3
  m1 = m1
  Sids = {s1, s2}
  Magnets = {m1}
  max_peer_count = 2
  MinExp <- MCMinExp
  MaxExp = 0
  Workers = {w1}
  max_depth = 2
  Distance <- MCDistance
  NearLists <- MCNoNear
  Reliable = {}
  Malformed = FALSE
  MaxObjects = 4
  MaxCrashes = 1
  Loaders = {l1}
  DownloadMayRaise = TRUE
  BundleMayFail = TRUE
  MaxAnswers = 6
INVARIANTS
  PostsHaveFiles
  NoSecondTry
CHECK_DEADLOCK FALSE
