\* A spend and a recover, one Verify dies; no symmetry, which liveness does not allow.
SPECIFICATION FairSpec
CONSTANTS
  Spends = {s1}
  Pauses = {}
  Unpauses = {}
  Recovers = {r1}
  Outside = Outside
  Genesis = Genesis
  Closed = Closed
  None = None
  Workers = {w1, w2}
  Hidden = {}
  SelfBroadcast = {s1, r1}
  Outsider = FALSE
  Reorgs = FALSE
  MaxAborts = 1
  AbortOps = {"verify"}
  OneHandler = TRUE
  Prompt = FALSE
INVARIANTS
  RecoveredAtDepth
PROPERTIES
  Converges
CHECK_DEADLOCK FALSE
