\* Two spends and a pause compete for a vault in two handlers, one of which dies; blocks are undone.
SPECIFICATION Spec
CONSTANTS
  Spends = {s1, s2}
  Pauses = {p1}
  Unpauses = {}
  Recovers = {}
  Outside = Outside
  Genesis = Genesis
  Closed = Closed
  None = None
  Workers = {w1, w2}
  Hidden = {}
  SelfBroadcast = {p1}
  Outsider = FALSE
  Reorgs = TRUE
  MaxAborts = 1
  AbortOps = {"finalize", "submit", "verify"}
  OneHandler = TRUE
  Prompt = FALSE
INVARIANTS
  ArmedHoldsClaim
  OneOrdinaryAtWork
  ContestedPauseWaits
  SentStaleWhenLost
PROPERTIES
  ReleasedOnEvidence
SYMMETRY WorkerSymmetry
CHECK_DEADLOCK FALSE
