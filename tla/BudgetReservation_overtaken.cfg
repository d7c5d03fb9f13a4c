\* Three builds, none dies, the manifest advances at any time.
SPECIFICATION Spec
CONSTANTS
  Requests = {q1, q2, q3}
  Budget = 3
  Pays = {1, 2}
  NoLock = NoLock
  NoResv = NoResv
  NoBuild = NoBuild
  Crashes = FALSE
  AtomicReclaim = TRUE
  Overtaken = TRUE
  MaxOutpoint = 1
INVARIANTS
  NoOverCommit
SYMMETRY RequestSymmetry
CHECK_DEADLOCK FALSE
