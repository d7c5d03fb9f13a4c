\* Three builds, any of which may die; several may reclaim a stale lock.
SPECIFICATION Spec
CONSTANTS
  Requests = {q1, q2, q3}
  Budget = 3
  Pays = {1, 2}
  NoLock = NoLock
  NoResv = NoResv
  NoBuild = NoBuild
  Crashes = TRUE
  AtomicReclaim = FALSE
  Overtaken = FALSE
  MaxOutpoint = 1
INVARIANTS
  AdmissionSerialized
SYMMETRY RequestSymmetry
CHECK_DEADLOCK FALSE
