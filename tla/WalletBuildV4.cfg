\* One of three scenarios: agents and tree edits, timing and fees, approvals.
SPECIFICATION SdkSpec
CONSTANTS
  r1 = r1
  Agents = {a1, a2}
  Keys = {k1, k2}
  Slots = {1, 2}
  NoKey = NoKey
  NoLeaf = NoLeaf
  Recipients = {r1}
  Leaves <- Anchored
  Amounts = {2}
  WalletNets <- Nets
  InitValue = 4
  InitReserve = 1
  MaxPeriodsElapsed = 1
  MaxDeposits = 8
  MaxNonce = 1
  MaxDaa = 3
  AcceptMargin = 1
  MinWindow = 1
  Scenarios <- ThreeScenarios
  MaxRequests = 2
  MaxTransitions = 2
INVARIANTS
  ManifestNotAhead
  NoBankedBudgetWithinMargin
  FinalizedIsApproved
PROPERTIES
  CovenantSpec
  EditsLeaveOthersAlone
SYMMETRY Symmetry
CHECK_DEADLOCK FALSE
