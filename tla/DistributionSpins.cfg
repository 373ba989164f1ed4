SPECIFICATION Spec
CONSTANTS
  Magnets = {m1, m2}
  MaxLooks = 3
PROPERTIES
  BundleDistributed
