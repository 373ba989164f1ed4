\* Every part stops at its bounds.
SPECIFICATION partsSpec
CONSTANTS
  m1 = m1
  m2 = m2
  Magnets = {m1, m2}
  c1 = c1
  c2 = c2
  Calls = {c1, c2}
  MaxCreated = 2
  MaxTx = 2
  MaxCrashes = 1
  Strangers = TRUE
  FeedMagnets = {"p1", "p2", "p3", "p4"}
  per_page = 2
  SameSecond = FALSE
  Restored = TRUE
  MaxStores = 6
  Nodes = {1, 2}
  TextNames = {"index.md", "index.txt"}
  ImageNames = {"index.png"}
  Texts = {"", "t1"}
  ForeignBundles <- MCForeignBundles
  MaxDrafts = 2
  MaxStarts = 1
  Hashes <- MCHashes
  Replies <- MCReplies
  ServiceIds <- MCServiceIds
  ForeignWords <- MCForeignWords
  Word = 2
  MaxUint32 = 1
  Sizes = {1, 2}
  MaxLogs = 2
INVARIANTS
  AnnouncedOnce
  PlacedAccepted
  RegistersOnce
  NoDuplicates
  NothingSkipped
  CreatedReadable
  JSONDecides
  ReadAsSent
SYMMETRY Symmetry
CHECK_DEADLOCK FALSE
