\* The calls of a client end, the searches of Gossip are bounded, and the last process
\* may have ended.
SPECIFICATION partsSpec
CONSTANTS
  Processes = {1, 2}
  Migrations = {1, 2}
  MaxVersion = 2
  MaxRuns = 3
  n1 = n1
  n2 = n2
  n3 = n3
  n4 = n4
  Nodes = {n1, n2, n3, n4}
  Registered <- MCRegistered
  Searchers = {n1, n2}
  Holders = {n4}
  Reliable = {n1, n3, n4}
  Distance <- MCDistance
  MinExp <- MCMinExp
  MaxExp = 1
  hot_count = 4
  MaxSearches = 1
  s1 = s1
  s2 = s2
  s3 = s3
  Sids = {s1, s2, s3}
  PeerDistance <- MCPeerDistance
  Seeders = {s2}
  Liars = {s3}
  LowExp <- MCLowExp
  HighExp = 0
  max_peer_count = 3
  peers_count = 2
  min_peers_count = 1
  MaxObjects = 3
INVARIANTS
  RunsMigrated
  FreshAddresses
  TorAgrees
  RatingsEarned
  NearestClaimant
  UploadQuorum
PROPERTIES
  HolderReached
  HolderSuffices
CHECK_DEADLOCK FALSE
