\* Two handlers release one claim, each with its read before its removal.
SPECIFICATION Spec
CONSTANTS
  Spends = {s1, s2}
  Pauses = {}
  Unpauses = {}
  Recovers = {}
  Outside = Outside
  Genesis = Genesis
  Closed = Closed
  None = None
  Workers = {w1, w2}
  Hidden = {}
  SelfBroadcast = {}
  Outsider = FALSE
  Reorgs = FALSE
  MaxAborts = 0
  AbortOps = {}
  OneHandler = TRUE
  Prompt = FALSE
PROPERTIES
  OnlyOwnClaimReleased
SYMMETRY WorkerSymmetry
CHECK_DEADLOCK FALSE
