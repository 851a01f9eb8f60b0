\* Two files of one or two units, in a cache that has room for three.
SPECIFICATION CacheSpec
CONSTANTS
  Urls = {u1, u2}
  Readers = {r1}
  None = None
  Gens = {1, 2}
  MaxSize = 3
  MaxTargets = 1
SYMMETRY Symmetry
INVARIANTS
  RowsAndFilesAgree
  DiskWithinLimit
  ServedWithItsHeaders
  TempsOwned
CHECK_DEADLOCK FALSE
