\* Merkle tree: up to three agents, a padded level among them; every co-path of
\* nodes of the tree one level deeper than the tree itself.  Webhooks: three
\* events, two attempts, a batch of two rows, one outage.  Audit: three appends.
SPECIFICATION MCSpec
CONSTANTS
  MaxAgents = 3
  Budget = 3
  MaxProofDepth = 3
  endpoint = endpoint
  event1 = event1
  event2 = event2
  event3 = event3
  Endpoints = {endpoint}
  Events = {event1, event2, event3}
  Wants <- MCWants
  MaxAttempts = 2
  ScanBatch = 2
  Nothing = Nothing
  MaxOutages = 1
  Writers = {w1, w2, w3}
  Genesis = Genesis
  MaxFailures = 2
  call1 = call1
  call2 = call2
  call3 = call3
  call4 = call4
  call5 = call5
  need1 = need1
  need2 = need2
  need3 = need3
  output1 = output1
  output2 = output2
  Settles = {call1, call2, call3, call4, call5}
  Requirements = {need1, need2, need3}
  Outputs = {output1, output2}
  ReqOf <- MCReqOf
  OutOf <- MCOutOf
  SameDestination <- MCSameDestination
  Unset = Unset
  MaxCuts = 1
  key1 = key1
  key2 = key2
  successor = successor
  Heads <- MCHeads
  Successor = successor
  RecoveryDelay = 1
  SuccessionDelay = 2
  Vaults = {v1, v2}
  Terms7 = {t1, t2}
  MaxValue = 1
  NoKey = NoKey
INVARIANTS
  RootCommitsRegistry
  OneLanePerAgent
  ProofsVerify
  BrokenOnlyAfterLoss
  SingleUse
PROPERTIES
  OrderedDelivery
  EventuallySettled
  QuorumRulesVaults
CHECK_DEADLOCK FALSE
