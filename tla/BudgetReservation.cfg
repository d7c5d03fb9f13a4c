\* Three builds, any of which may die; in one case of the initial state the manifest also advances under them and several reclaim one lock.
SPECIFICATION MCSpec
CONSTANTS
  Requests = {q1, q2, q3}
  Budget = 3
  Pays = {1, 2}
  NoLock = NoLock
  NoResv = NoResv
  NoBuild = NoBuild
  Crashes = TRUE
  AtomicReclaim = TRUE
  Overtaken = FALSE
  MaxOutpoint = 1
INVARIANTS
  KeptNoOverCommit
  SerializedUntilDeath
  ReservedFits
PROPERTIES
  LostOnlyToOvertaken
SYMMETRY RequestSymmetry
CHECK_DEADLOCK FALSE
