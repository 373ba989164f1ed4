\* The system rests once every publication was handled.
SPECIFICATION FairSpec
CONSTANTS
  s1 = s1
  s2 = s2
  s3 = s3
  m1 = m1
  Sids = {s1, s2}
  Magnets = {m1}
  max_peer_count = 2
  MinExp <- MCMinExp
  MaxExp = 1
  Workers = {w1}
  max_depth = 2
  Distance <- MCDistance
  NearLists <- MCNear
  Reliable = {s2}
  Malformed = FALSE
  MaxObjects = 2
  MaxCrashes = 0
  Loaders = {l1}
  DownloadMayRaise = TRUE
  BundleMayFail = FALSE
  MaxAnswers = 4
PROPERTIES
  SeederSuffices
CHECK_DEADLOCK FALSE
