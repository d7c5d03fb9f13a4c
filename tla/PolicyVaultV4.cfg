\* One agent, two policies, three approver slots over two keys from every genesis,
\* reserve, fees, deposits and periods.
SPECIFICATION Spec
CONSTANTS
  Agents = {a1}
  Keys = {k1, k2}
  Slots = {1, 2, 3}
  NoKey = NoKey
  NoLeaf = NoLeaf
  r1 = r1
  Recipients = {r1}
  Leaves <- TieredLeaves
  Amounts = {1, 2}
  WalletNets <- Nets
  InitValue = 3
  InitReserve = 1
  MaxPeriodsElapsed = 1
  MaxDeposits = 5
  MaxNonce = 1
  MaxDaa = 2
INVARIANTS
  TypeOK
  BudgetPerPeriodBegun
  Conservation
  ApprovalQuorum
  ReserveOnlyPaysFees
PROPERTIES
  ApproverTierStaysSound
  PauseFreezesPrincipal
CHECK_DEADLOCK FALSE
