SPECIFICATION Spec
CONSTANTS
  m1 = m1
  m2 = m2
  c1 = c1
  c2 = c2
  s1 = s1
  s2 = s2
  f1 = f1
  f2 = f2
  f3 = f3
  Magnets = {m1, m2}
  Stores = {c1, c2}
  Suffixes = {s1, s2}
  Size = 1
  Files = {f1, f2, f3}
  MaxCrashes = 1
INVARIANTS
  InPlaceIntact
  NoLitter
PROPERTIES
  ActsAsContentStore
SYMMETRY Interchangeable
