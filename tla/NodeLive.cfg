\* The system rests once every publication was handled.
SPECIFICATION FairSpec
CONSTANTS
  s1 = s1
  s2 = s2
  s3 = s3
  m1 = m1
  Sids = {s1, s2, s3}
  Magnets = {m1}
  max_peer_count = 3
  MinExp <- MCMinExp
  MaxExp = 1
  Workers = {w1}
  max_depth = 3
  Distance <- MCDistance
  NearLists <- MCNear
  Reliable = {s2}
  Malformed = FALSE
  MaxObjects = 3
  MaxCrashes = 0
  Loaders = {l1}
  DownloadMayRaise = FALSE
  BundleMayFail = FALSE
  MaxAnswers = 4
PROPERTIES
  SearchEnds
  SeederSuffices
CHECK_DEADLOCK FALSE
