\* A request is broadcast before it is bound to its proposal.
SPECIFICATION HostedSpec
CONSTANTS
  build = build
  retry = retry
  clash = clash
  other = other
  cancel = cancel
  repair = repair
  keyB = keyB
  keyO = keyO
  keyC = keyC
  bodyB = bodyB
  bodyO = bodyO
  bodyC = bodyC
  None = None
  NoOne = NoOne
  Calls = {build, retry, clash, other, cancel, repair}
  Recoveries = {repair}
  Groups <- CallGroups
  Keys = {keyB, keyO, keyC}
  KeyOf <- KeyTable
  BodyOf <- BodyTable
  Outcomes = {"done", "refused"}
  Builds = {build, retry, clash, other}
  Cancels = {cancel}
  MaxFaults = 2
  MaxMishaps = 2
  MaxTrouble = 4
  Asked = {build}
INVARIANTS
  EverySentIsConsumer
CHECK_DEADLOCK FALSE
