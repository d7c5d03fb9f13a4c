\* Two handlers die between two writes of a spend or an unpause; the owner also pauses without the application.
SPECIFICATION Spec
CONSTANTS
  Spends = {s1}
  Pauses = {}
  Unpauses = {u1}
  Recovers = {}
  Outside = Outside
  Genesis = Genesis
  Closed = Closed
  None = None
  Workers = {w1, w2}
  Hidden = {s1}
  SelfBroadcast = {s1, u1}
  Outsider = TRUE
  Reorgs = FALSE
  MaxAborts = 2
  AbortOps = {"finalize", "submit", "verify"}
  OneHandler = TRUE
  Prompt = TRUE
INVARIANTS
  ReceiptNeverStale
  ExecutedNeverStale
PROPERTIES
  OneHopAtATime
SYMMETRY WorkerSymmetry
CHECK_DEADLOCK FALSE
