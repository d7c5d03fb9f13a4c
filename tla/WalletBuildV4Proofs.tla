------------------------ MODULE WalletBuildV4Proofs ------------------------
(***************************************************************************)
(* Proofs about the requests of WalletBuildV4, for every set of agents,    *)
(* keys and leaves, every scenario and every bound: each transaction that  *)
(* is built and finalized is one the covenant accepts, so the theorems     *)
(* about the covenant hold of the vault the SDK works on.                  *)
(***************************************************************************)
EXTENDS WalletBuildV4, PolicyVaultV4Proofs

-----------------------------------------------------------------------------
\* What the requests are.
SpendRequest ==
  [op: {"agentSpend"}, outpoint: Nat, successor: VaultState, lockTime: Nat,
   agent: Agents, pay: Amounts, periods: 0..MaxPeriodsElapsed,
   consumed: Nat, net: WalletNets \cap Nat, approvals: SUBSET Keys,
   above: BOOLEAN,
   stage: {"AWAITING_APPROVALS", "BUILT", "PREFLIGHT_VERIFIED"}]

ChangeOps == {"ownerSetAgentRoot", "ownerSetApprovers", "ownerTopUp",
              "ownerTopUpReserve", "ownerPause", "ownerUnpause"}

ChangeRequest ==
  [op: ChangeOps \cup {"ownerRecover"}, outpoint: Nat, successor: VaultState,
   lockTime: {0}, deposit: Nat, edited: SUBSET Agents, checkedAt: Nat,
   stage: {"BUILT", "PREFLIGHT_VERIFIED"}]

\* The approvals of a request are those of different approvers of the frozen
\* transaction, and enough of them once it has left AWAITING_APPROVALS.
Counted(r) ==
  /\ r.approvals \subseteq {r.successor.approvers[s] : s \in Slots} \ {NoKey}
  /\ r.above => r.successor.approvalM >= 1
  /\ r.above /\ r.stage # "AWAITING_APPROVALS" =>
       EnoughApprovals(r, r.approvals)

\* The request is what the builder makes of the covenant state v.
DerivedSpend(r, v) ==
  /\ AgentSpendAllowed(v, r.agent, r.pay, r.periods, r.consumed)
  /\ v.agentRoot[r.agent].recipients # {}
  /\ r.successor
       = AgentSpendSuccessor(v, r.agent, r.pay, r.periods, r.consumed)
  /\ r.lockTime = SpendLockTime(v, r.agent, r.periods)
  /\ r.above = (r.pay > v.agentRoot[r.agent].approvalThreshold)

RootsFrom(v) ==
  [Agents -> Leaves \cup {NoLeaf} \cup {v.agentRoot[a] : a \in Agents}]

DerivedEdit(r, v) ==
  /\ r.op = "ownerSetAgentRoot" /\ r.deposit = 0
  /\ v.policyNonce < MaxNonce
  /\ \E root \in RootsFrom(v) :
       /\ r.successor = SetAgentRootSuccessor(v, root)
       /\ \A a \in Agents \ r.edited : root[a] = v.agentRoot[a]

DerivedApprovers(r, v) ==
  /\ r.op = "ownerSetApprovers" /\ r.deposit = 0
  /\ v.policyNonce < MaxNonce
  /\ \E approvers \in [Slots -> Keys \cup {NoKey}],
        m \in 0..Cardinality(Slots) :
       /\ SetApproversAllowed(v, approvers, m)
       /\ r.successor = SetApproversSuccessor(v, approvers, m)

DerivedTopUp(r, v) ==
  /\ r.deposit \in Amounts
  /\ \/ /\ r.op = "ownerTopUp"
        /\ r.successor = TopUpSuccessor(v, r.deposit)
     \/ /\ r.op = "ownerTopUpReserve"
        /\ r.successor = TopUpReserveSuccessor(v, r.deposit)

DerivedPause(r, v) ==
  /\ r.deposit = 0
  /\ \/ /\ r.op = "ownerPause" /\ v.paused = 0
        /\ r.successor = PauseSuccessor(v, 1)
     \/ /\ r.op = "ownerUnpause" /\ v.paused = 1
        /\ r.successor = PauseSuccessor(v, 0)

Derived(r, v) ==
  \/ r \in SpendRequest /\ DerivedSpend(r, v)
  \/ /\ r \in ChangeRequest
     /\ \/ DerivedEdit(r, v)
        \/ DerivedApprovers(r, v)
        \/ DerivedTopUp(r, v)
        \/ DerivedPause(r, v)
        \/ r.op = "ownerRecover" /\ r.successor = v

\* An edit was finalized with fresh starts.
Checked(r, v) ==
  r.op = "ownerSetAgentRoot" /\ r.stage = "PREFLIGHT_VERIFIED" =>
    StartsFresh(v.agentRoot, r.successor.agentRoot, r.checkedAt)

\* A request never names an outpoint to come; one that names the live
\* outpoint is derived from the state there.
OnTime(r, v, o, l) ==
  /\ r.outpoint <= o
  /\ r.outpoint = o => l = TRUE /\ Derived(r, v) /\ Checked(r, v)

RequestOK(r, v, o, l) ==
  /\ r \in SpendRequest \cup ChangeRequest
  /\ r.op = "agentSpend" => Counted(r)
  /\ OnTime(r, v, o, l)

RequestsOK == \A r \in requests : RequestOK(r, vault, outpoint, live)

SdkTypeOK ==
  /\ outpoint \in Nat
  /\ manifest \in [outpoint: Nat, state: VaultState, live: BOOLEAN]
  /\ scenario \in Scenarios
  /\ daa <= MaxDaa

SdkInv ==
  /\ SoundInv
  /\ NormalState(vault)
  /\ SdkTypeOK
  /\ ManifestNotAhead
  /\ RequestsOK

-----------------------------------------------------------------------------
\* What the successor builders return.

\* A spend leaves a covenant state, less by the payment and the reserve drawn.
LEMMA SpendSuccessorType ==
  ASSUME NEW v \in VaultState, NEW a \in Agents, NEW pay \in Amounts,
         NEW k \in 0..MaxPeriodsElapsed, NEW consumed \in Nat,
         AgentSpendAllowed(v, a, pay, k, consumed)
  PROVE  LET new == AgentSpendSuccessor(v, a, pay, k, consumed)
         IN /\ new \in VaultState
            /\ new.protectedValue = v.protectedValue - pay
            /\ new.feeReserve = v.feeReserve - consumed
            /\ new.approvers = v.approvers /\ new.approvalM = v.approvalM
            /\ SpendLockTime(v, a, k) \in Nat
<1>. DEFINE leaf == v.agentRoot[a]
            new  == AgentSpendSuccessor(v, a, pay, k, consumed)
<1>1. pay \in Nat /\ k \in Nat
  BY AmountAssumption
<1>2. v.agentRoot \in [Agents -> Leaf \cup {NoLeaf}]
  BY DEF VaultState, Root
<1>3. leaf \in Leaf
  BY <1>2 DEF AgentSpendAllowed
<1>4. SpentLeaf(leaf, pay, k) \in Leaf
  BY <1>1, <1>3, SpentLeafType
<1>5. [v.agentRoot EXCEPT ![a] = SpentLeaf(leaf, pay, k)] \in Root
  BY <1>2, <1>4 DEF Root
<1>6. v.protectedValue - pay \in Int /\ v.feeReserve - consumed \in Int
  BY <1>1 DEF VaultState
<1>7. new = [v EXCEPT !.protectedValue = v.protectedValue - pay,
                      !.feeReserve = v.feeReserve - consumed,
                      !.agentRoot = [v.agentRoot EXCEPT ![a] = SpentLeaf(leaf, pay, k)]]
  BY DEF AgentSpendSuccessor, VaultState
<1>8. SpendLockTime(v, a, k) \in Nat
  <2>1. k * leaf.periodLength \in Nat /\ leaf.periodStart \in Nat
    BY <1>1, <1>3 DEF Leaf
  <2>. QED  BY <2>1 DEF SpendLockTime, NewStart
<1>. HIDE DEF leaf, new
<1>. QED  BY <1>5, <1>6, <1>7, <1>8 DEF VaultState, new

\* So does every operation of the owner.
LEMMA OwnerSuccessorType ==
  ASSUME NEW v \in VaultState
  PROVE  /\ \A root \in Root : SetAgentRootSuccessor(v, root) \in VaultState
         /\ \A approvers \in [Slots -> Keys \cup {NoKey}], m \in Nat :
              SetApproversSuccessor(v, approvers, m) \in VaultState
         /\ \A amount \in Amounts :
              /\ TopUpSuccessor(v, amount) \in VaultState
              /\ TopUpReserveSuccessor(v, amount) \in VaultState
         /\ \A target \in {0, 1} : PauseSuccessor(v, target) \in VaultState
<1>. v.policyNonce \in Nat /\ v.policyNonce + 1 \in Nat
  BY DEF VaultState
<1>1. ASSUME NEW root \in Root PROVE SetAgentRootSuccessor(v, root) \in VaultState
  <2>. DEFINE n == v.policyNonce + 1
  <2>1. SetAgentRootSuccessor(v, root) = [v EXCEPT !.agentRoot = root, !.policyNonce = n]
    BY DEF VaultState, SetAgentRootSuccessor
  <2>. HIDE DEF n
  <2>. QED  BY <2>1 DEF VaultState, n
<1>2. ASSUME NEW approvers \in [Slots -> Keys \cup {NoKey}], NEW m \in Nat
      PROVE  SetApproversSuccessor(v, approvers, m) \in VaultState
  <2>. DEFINE n == v.policyNonce + 1
  <2>1. SetApproversSuccessor(v, approvers, m)
          = [v EXCEPT !.approvers = approvers, !.approvalM = m, !.policyNonce = n]
    BY DEF VaultState, SetApproversSuccessor
  <2>. HIDE DEF n
  <2>. QED  BY <2>1 DEF VaultState, n
<1>3. ASSUME NEW amount \in Amounts
      PROVE  /\ TopUpSuccessor(v, amount) \in VaultState
             /\ TopUpReserveSuccessor(v, amount) \in VaultState
  <2>1. amount \in Int
    BY AmountAssumption
  <2>. QED  BY <2>1 DEF VaultState, TopUpSuccessor, TopUpReserveSuccessor
<1>4. ASSUME NEW target \in {0, 1} PROVE PauseSuccessor(v, target) \in VaultState
  BY DEF VaultState, PauseSuccessor
<1>. QED  BY <1>1, <1>2, <1>3, <1>4

-----------------------------------------------------------------------------
\* Steps that leave the chain and the manifest alone keep the invariant when
\* every request they leave is one.
LEMMA QuietKept ==
  ASSUME SdkInv, UNCHANGED <<vars, outpoint, manifest, scenario>>,
         \A r \in requests' : r \in requests \/ RequestOK(r, vault, outpoint, live)
  PROVE  SdkInv'
<1>1. SoundInv'
  BY SoundNext DEF SdkInv
<1>2. /\ vault' = vault /\ live' = live /\ daa' = daa /\ outpoint' = outpoint
      /\ manifest' = manifest /\ scenario' = scenario
  BY DEF vars
<1>3. NormalState(vault)' /\ SdkTypeOK' /\ ManifestNotAhead'
  BY <1>2 DEF SdkInv, SdkTypeOK, ManifestNotAhead
<1>4. RequestsOK'
  BY <1>2 DEF SdkInv, RequestsOK
<1>. QED  BY <1>1, <1>3, <1>4 DEF SdkInv

\* A new request keeps the invariant when it is one,
LEMMA AddKept ==
  ASSUME SdkInv, NEW r, AddRequest(r), RequestOK(r, vault, outpoint, live)
  PROVE  SdkInv'
BY QuietKept DEF AddRequest

\* and so does one that replaces an older version of itself.
LEMMA UpdateKept ==
  ASSUME SdkInv, NEW r \in requests, NEW new, Update(r, new),
         RequestOK(new, vault, outpoint, live)
  PROVE  SdkInv'
BY QuietKept DEF Update

\* What a build reads: the state of the live outpoint, if the manifest is
\* not behind.
LEMMA ManifestRead ==
  ASSUME SdkInv, manifest.live
  PROVE  /\ manifest.state \in VaultState /\ manifest.outpoint \in Nat
         /\ manifest.outpoint <= outpoint
         /\ manifest.outpoint = outpoint => manifest.state = vault /\ live = TRUE
BY DEF SdkInv, SdkTypeOK, ManifestNotAhead

\* A request that has been built is one.
LEMMA BuiltOK ==
  ASSUME SdkInv, manifest.live, NEW r \in SpendRequest \cup ChangeRequest,
         r.outpoint = manifest.outpoint, Derived(r, manifest.state),
         r.op = "agentSpend" => Counted(r),
         r.op = "ownerSetAgentRoot" => r.stage = "BUILT"
  PROVE  RequestOK(r, vault, outpoint, live)
BY ManifestRead DEF RequestOK, OnTime, Checked
-----------------------------------------------------------------------------
\* One lemma per builder: what it freezes is derived from the state it read.

\* BuildSpend: a fee out of the reserve, the fuel input, or both.
LEMMA SpendBuilt ==
  ASSUME SdkInv, NEW a \in scenario.agents, NEW pay \in Amounts,
         NEW k \in 0..MaxPeriodsElapsed, NEW fee \in scenario.fees,
         NEW consumed \in 0..fee, BuildSpend(a, pay, k, consumed, fee)
  PROVE  SdkInv'
<1>. DEFINE s == manifest.state
            above == pay > s.agentRoot[a].approvalThreshold
            r == [op |-> "agentSpend", outpoint |-> manifest.outpoint,
                  successor |-> AgentSpendSuccessor(s, a, pay, k, consumed),
                  lockTime |-> SpendLockTime(s, a, k),
                  agent |-> a, pay |-> pay, periods |-> k, consumed |-> consumed,
                  net |-> fee - consumed, approvals |-> {},
                  above |-> above,
                  stage |-> IF above THEN "AWAITING_APPROVALS" ELSE "BUILT"]
<1>1. AddRequest(r) /\ AgentSpendAllowed(s, a, pay, k, consumed)
      /\ s.agentRoot[a].recipients # {}
  BY DEF BuildSpend
<1>2. manifest.live
  BY <1>1 DEF AddRequest
<1>3. /\ a \in Agents /\ fee \in Nat /\ consumed \in Nat
      /\ fee - consumed \in WalletNets \cap Nat
  <2>1. scenario \in Scenario /\ scenario \in Scenarios
    BY WalletAssumption DEF SdkInv, SdkTypeOK
  <2>2. a \in Agents /\ fee \in Nat
    BY <2>1 DEF Scenario
  <2>3. fee - consumed \in 0..fee
    BY <2>2
  <2>4. 0..fee \subseteq WalletNets
    BY <2>1, FeeAssumption
  <2>. QED  BY <2>2, <2>3, <2>4
<1>4. /\ s \in VaultState /\ manifest.outpoint \in Nat
  BY <1>2, ManifestRead
<1>5. /\ AgentSpendSuccessor(s, a, pay, k, consumed) \in VaultState
      /\ AgentSpendSuccessor(s, a, pay, k, consumed).approvalM = s.approvalM
      /\ SpendLockTime(s, a, k) \in Nat
  BY <1>1, <1>3, <1>4, SpendSuccessorType
<1>6. r \in SpendRequest
  <2>1. above \in BOOLEAN
    OBVIOUS
  <2>. HIDE DEF above, s
  <2>. QED  BY <1>3, <1>4, <1>5, <2>1 DEF SpendRequest
<1>7. Derived(r, s)
  BY <1>1, <1>6 DEF Derived, DerivedSpend
<1>8. Counted(r)
  BY <1>1, <1>5 DEF Counted, AgentSpendAllowed
<1>9. r.outpoint = manifest.outpoint /\ r.op = "agentSpend"
  OBVIOUS
<1>. HIDE DEF r
<1>. QED  BY <1>1, <1>2, <1>6, <1>7, <1>8, <1>9, BuiltOK, AddKept

\* What the builds of the owner have in common.
LEMMA OwnerBuilt ==
  ASSUME SdkInv, NEW op \in ChangeOps \cup {"ownerRecover"},
         NEW successor \in VaultState, NEW deposit \in Nat,
         NEW edited \in SUBSET Agents,
         AddRequest(OwnerRequest(op, successor, deposit, edited)),
         LET r == OwnerRequest(op, successor, deposit, edited)
         IN \/ DerivedEdit(r, manifest.state)
            \/ DerivedApprovers(r, manifest.state)
            \/ DerivedTopUp(r, manifest.state)
            \/ DerivedPause(r, manifest.state)
            \/ r.op = "ownerRecover" /\ r.successor = manifest.state
  PROVE  SdkInv'
<1>. DEFINE r == OwnerRequest(op, successor, deposit, edited)
<1>1. manifest.live
  BY DEF AddRequest
<1>2. daa \in Nat /\ manifest.outpoint \in Nat
  BY <1>1, ManifestRead DEF SdkInv, SoundInv, TypeOK
<1>3. /\ r \in ChangeRequest /\ r.op # "agentSpend" /\ r.stage = "BUILT"
      /\ r.outpoint = manifest.outpoint
  BY <1>2 DEF OwnerRequest, ChangeRequest, ChangeOps
<1>. HIDE DEF r
<1>4. Derived(r, manifest.state)
  BY <1>3 DEF Derived, r
<1>5. RequestOK(r, vault, outpoint, live)
  BY <1>1, <1>3, <1>4, BuiltOK
<1>. QED  BY <1>5, AddKept DEF r

\* BuildAgentEdit: new and changed leaves are anchored, others carried over.
LEMMA EditBuilt ==
  ASSUME SdkInv, NEW edits \in AgentEdits, BuildAgentEdit(edits)
  PROVE  SdkInv'
<1>. DEFINE s     == manifest.state
            asked == [a \in Agents |-> IF a \in DOMAIN edits THEN edits[a]
                                       ELSE s.agentRoot[a]]
            root  == [a \in Agents |->
                        IF a \in AnchoredLeaves(s.agentRoot, asked)
                        THEN AnchorStart(asked[a], daa) ELSE asked[a]]
            new   == SetAgentRootSuccessor(s, root)
            r     == OwnerRequest("ownerSetAgentRoot", new, 0, DOMAIN edits)
<1>1. s.policyNonce < MaxNonce /\ AddRequest(r)
  BY DEF BuildAgentEdit
<1>2. s \in VaultState /\ s.agentRoot \in [Agents -> Leaf \cup {NoLeaf}]
  BY <1>1, ManifestRead DEF AddRequest, VaultState, Root
<1>3. /\ DOMAIN edits \subseteq Agents
      /\ \A a \in DOMAIN edits : edits[a] \in scenario.leaves \cup {NoLeaf}
  <2>1. scenario.agents \subseteq Agents
    BY WalletAssumption DEF SdkInv, SdkTypeOK, Scenario
  <2>2. PICK A \in SUBSET scenario.agents : edits \in [A -> scenario.leaves \cup {NoLeaf}]
    BY DEF AgentEdits
  <2>. QED  BY <2>1, <2>2
<1>4. ASSUME NEW a \in Agents
      PROVE  root[a] \in Leaves \cup {NoLeaf} \cup {s.agentRoot[b] : b \in Agents}
  <2>1. CASE a \in AnchoredLeaves(s.agentRoot, asked)
    <3>1. asked[a] # NoLeaf /\ asked[a] # s.agentRoot[a]
      BY <2>1 DEF AnchoredLeaves
    <3>2. asked[a] \in scenario.leaves
      BY <3>1, <1>3
    <3>3. daa \in 0..MaxDaa
      BY DEF SdkInv, SdkTypeOK, SoundInv, TypeOK
    <3>4. AnchorStart(asked[a], daa) \in Leaves
      BY <3>2, <3>3, AskedAssumption DEF SdkInv, SdkTypeOK
    <3>. HIDE DEF asked
    <3>. QED  BY <2>1, <3>4
  <2>2. CASE a \notin AnchoredLeaves(s.agentRoot, asked)
    <3>1. asked[a] = NoLeaf \/ asked[a] = s.agentRoot[a]
      BY <2>2 DEF AnchoredLeaves
    <3>2. root[a] = asked[a]
      BY <2>2
    <3>. QED  BY <3>1, <3>2
  <2>. QED  BY <2>1, <2>2
<1>5. \A a \in Agents \ DOMAIN edits : root[a] = s.agentRoot[a]
  BY DEF AnchoredLeaves
<1>6. root = [a \in Agents |-> root[a]]
  OBVIOUS
<1>. HIDE DEF root, s
<1>7. root \in RootsFrom(s)
  BY <1>4, <1>6 DEF RootsFrom
<1>8. root \in Root
  BY <1>2, <1>4, <1>6, LeafAssumption DEF Root
<1>9. new \in VaultState
  BY <1>2, <1>8, OwnerSuccessorType
<1>. HIDE DEF new
<1>10. DerivedEdit(r, s)
  BY <1>1, <1>5, <1>7 DEF DerivedEdit, OwnerRequest, new
<1>. QED  BY <1>1, <1>3, <1>9, <1>10, OwnerBuilt DEF ChangeOps, s

\* BuildSetApprovers
LEMMA ApproversBuilt ==
  ASSUME SdkInv, NEW approvers \in [Slots -> scenario.keys \cup {NoKey}],
         NEW m \in 0..Cardinality(Slots), BuildSetApprovers(approvers, m)
  PROVE  SdkInv'
<1>. DEFINE s   == manifest.state
            new == SetApproversSuccessor(s, approvers, m)
            r   == OwnerRequest("ownerSetApprovers", new, 0, {})
<1>1. /\ s.policyNonce < MaxNonce /\ SetApproversAllowed(s, approvers, m)
      /\ AddRequest(r)
  BY DEF BuildSetApprovers
<1>2. s \in VaultState
  BY <1>1, ManifestRead DEF AddRequest
<1>3. approvers \in [Slots -> Keys \cup {NoKey}] /\ m \in Nat
  <2>1. scenario.keys \subseteq Keys
    BY WalletAssumption DEF SdkInv, SdkTypeOK, Scenario
  <2>. QED  BY <2>1, SlotsNat
<1>4. new \in VaultState
  BY <1>2, <1>3, OwnerSuccessorType
<1>5. DerivedApprovers(r, s)
  BY <1>1, <1>3 DEF DerivedApprovers, OwnerRequest
<1>. QED  BY <1>1, <1>4, <1>5, OwnerBuilt DEF ChangeOps

\* BuildTopUp and BuildTopUpReserve
LEMMA TopUpBuilt ==
  ASSUME SdkInv, NEW amount \in Amounts,
         BuildTopUp(amount) \/ BuildTopUpReserve(amount)
  PROVE  SdkInv'
<1>. DEFINE s == manifest.state
<1>1. manifest.live
  BY DEF BuildTopUp, BuildTopUpReserve, AddRequest
<1>2. /\ TopUpSuccessor(s, amount) \in VaultState
      /\ TopUpReserveSuccessor(s, amount) \in VaultState
  BY <1>1, ManifestRead, OwnerSuccessorType
<1>3. amount \in Nat
  BY AmountAssumption
<1>4. CASE BuildTopUp(amount)
  <2>. DEFINE r == OwnerRequest("ownerTopUp", TopUpSuccessor(s, amount), amount, {})
  <2>1. DerivedTopUp(r, s)
    BY DEF DerivedTopUp, OwnerRequest
  <2>. QED  BY <1>2, <1>3, <1>4, <2>1, OwnerBuilt DEF BuildTopUp, ChangeOps
<1>5. CASE BuildTopUpReserve(amount)
  <2>. DEFINE r == OwnerRequest("ownerTopUpReserve",
                                TopUpReserveSuccessor(s, amount), amount, {})
  <2>1. DerivedTopUp(r, s)
    BY DEF DerivedTopUp, OwnerRequest
  <2>. QED  BY <1>2, <1>3, <1>5, <2>1, OwnerBuilt DEF BuildTopUpReserve, ChangeOps
<1>. QED  BY <1>4, <1>5

\* BuildPause: the target differs from the state that was read.
LEMMA PauseBuilt ==
  ASSUME SdkInv, NEW target \in {0, 1}, BuildPause(target)
  PROVE  SdkInv'
<1>. DEFINE s  == manifest.state
            op == IF target = 1 THEN "ownerPause" ELSE "ownerUnpause"
            r  == OwnerRequest(op, PauseSuccessor(s, target), 0, {})
<1>1. s.paused # target /\ AddRequest(r)
  BY DEF BuildPause
<1>2. s \in VaultState
  BY <1>1, ManifestRead DEF AddRequest
<1>3. s.paused \in {0, 1}
  BY <1>2 DEF VaultState
<1>4. PauseSuccessor(s, target) \in VaultState
  BY <1>2, OwnerSuccessorType
<1>5. op \in ChangeOps
  BY DEF ChangeOps
<1>6. r.op = op /\ r.deposit = 0 /\ r.successor = PauseSuccessor(s, target)
  BY DEF OwnerRequest
<1>7. DerivedPause(r, s)
  <2>1. CASE target = 1
    BY <1>1, <1>3, <1>6, <2>1 DEF DerivedPause
  <2>2. CASE target = 0
    BY <1>1, <1>3, <1>6, <2>2 DEF DerivedPause
  <2>. QED  BY <2>1, <2>2
<1>. HIDE DEF op
<1>. QED  BY <1>1, <1>4, <1>5, <1>7, OwnerBuilt

\* BuildRecover
LEMMA RecoverBuilt == ASSUME SdkInv, BuildRecover PROVE SdkInv'
<1>. DEFINE s == manifest.state
            r == OwnerRequest("ownerRecover", s, 0, {})
<1>1. AddRequest(r)
  BY DEF BuildRecover
<1>2. s \in VaultState
  BY <1>1, ManifestRead DEF AddRequest
<1>3. r.op = "ownerRecover" /\ r.successor = s
  BY DEF OwnerRequest
<1>. QED  BY <1>1, <1>2, <1>3, OwnerBuilt

\* A build changes neither the chain nor the manifest.
LEMMA BuildQuiet ==
  ASSUME Build PROVE UNCHANGED <<vars, outpoint, manifest, scenario>>
<1>1. ASSUME NEW r, AddRequest(r)
      PROVE  UNCHANGED <<vars, outpoint, manifest, scenario>>
  BY <1>1 DEF AddRequest
<1>2. ASSUME NEW a, NEW pay, NEW k, NEW consumed, NEW fee,
             BuildSpend(a, pay, k, consumed, fee)
      PROVE  UNCHANGED <<vars, outpoint, manifest, scenario>>
  BY <1>1, <1>2 DEF BuildSpend
<1>3. ASSUME NEW edits, BuildAgentEdit(edits)
      PROVE  UNCHANGED <<vars, outpoint, manifest, scenario>>
  BY <1>1, <1>3 DEF BuildAgentEdit
<1>4. ASSUME NEW x, NEW y, \/ BuildSetApprovers(x, y) \/ BuildTopUp(x)
                             \/ BuildTopUpReserve(x) \/ BuildPause(x) \/ BuildRecover
      PROVE  UNCHANGED <<vars, outpoint, manifest, scenario>>
  BY <1>1, <1>4, Zenon DEF BuildSetApprovers, BuildTopUp, BuildTopUpReserve,
                             BuildPause, BuildRecover
<1>. QED  BY <1>2, <1>3, <1>4, Zenon DEF Build

\* Whatever is built keeps the invariant.
LEMMA BuildKept == ASSUME SdkInv, Build PROVE SdkInv'
BY SpendBuilt, EditBuilt, ApproversBuilt, TopUpBuilt, PauseBuilt, RecoverBuilt DEF Build
-----------------------------------------------------------------------------
\* One lemma per step of a request that is not a confirmation.

\* A request is of one kind, and its operation tells which.
LEMMA RequestKind ==
  ASSUME NEW r \in SpendRequest \cup ChangeRequest
  PROVE  /\ r.op = "agentSpend" => r \in SpendRequest /\ r \notin ChangeRequest
         /\ r.op # "agentSpend" => r \in ChangeRequest /\ r \notin SpendRequest
BY DEF SpendRequest, ChangeRequest, ChangeOps

\* All of a spend but its approvals and its stage.
SameSpend(r, new) ==
  /\ new.outpoint = r.outpoint /\ new.successor = r.successor
  /\ new.lockTime = r.lockTime /\ new.agent = r.agent /\ new.pay = r.pay
  /\ new.periods = r.periods /\ new.consumed = r.consumed
  /\ new.above = r.above

\* What is derived or on time depends on nothing else.
LEMMA SpendUpdated ==
  ASSUME NEW r \in SpendRequest, NEW new \in SpendRequest, SameSpend(r, new),
         OnTime(r, vault, outpoint, live)
  PROVE  OnTime(new, vault, outpoint, live)
<1>1. ASSUME Derived(r, vault) PROVE Derived(new, vault)
  <2>1. DerivedSpend(r, vault)
    BY <1>1, RequestKind DEF Derived, SpendRequest
  <2>2. DerivedSpend(new, vault)
    BY <2>1 DEF DerivedSpend, SameSpend
  <2>. QED  BY <2>2 DEF Derived
<1>2. new.op = "agentSpend"
  BY DEF SpendRequest
<1>. QED  BY <1>1, <1>2 DEF OnTime, Checked, SameSpend

\* CollectApproval: a request leaves AWAITING_APPROVALS with enough of them.
LEMMA CollectKept ==
  ASSUME SdkInv, NEW r \in requests, NEW key \in scenario.keys,
         CollectApproval(r, key)
  PROVE  SdkInv'
<1>. DEFINE got   == r.approvals \cup {key}
            stage == IF EnoughApprovals(r, got) THEN "BUILT" ELSE r.stage
            new   == [r EXCEPT !.approvals = got, !.stage = stage]
<1>1. /\ RequestOK(r, vault, outpoint, live)
      /\ r.op = "agentSpend" /\ r.stage = "AWAITING_APPROVALS"
      /\ key \in {r.successor.approvers[s] : s \in Slots} \ {NoKey}
  BY DEF SdkInv, RequestsOK, CollectApproval
<1>2. r \in SpendRequest /\ Counted(r) /\ OnTime(r, vault, outpoint, live)
  BY <1>1, RequestKind DEF RequestOK
<1>3. Update(r, new)
  <2>1. new = [r EXCEPT !.approvals = got,
                        !.stage = IF EnoughApprovals(r, got) THEN "BUILT" ELSE @]
    BY <1>2 DEF SpendRequest
  <2>. QED  BY <2>1 DEF CollectApproval
<1>4. got \in SUBSET Keys
  <2>1. scenario.keys \subseteq Keys
    BY WalletAssumption DEF SdkInv, SdkTypeOK, Scenario
  <2>. QED  BY <1>2, <2>1 DEF SpendRequest
<1>5. /\ stage \in {"AWAITING_APPROVALS", "BUILT", "PREFLIGHT_VERIFIED"}
      /\ stage # "AWAITING_APPROVALS" => EnoughApprovals(r, got)
  BY <1>1
<1>. HIDE DEF got, stage
<1>6. /\ new \in SpendRequest /\ SameSpend(r, new)
      /\ new.op = "agentSpend" /\ new.approvals = got /\ new.stage = stage
  BY <1>2, <1>4, <1>5 DEF SpendRequest, SameSpend
<1>. HIDE DEF new
<1>7. Counted(new)
  BY <1>1, <1>2, <1>5, <1>6 DEF Counted, EnoughApprovals, SameSpend, got
<1>8. RequestOK(new, vault, outpoint, live)
  BY <1>2, <1>6, <1>7, SpendUpdated DEF RequestOK
<1>. QED  BY <1>3, <1>8, UpdateKept

\* Finalize: the starts of an edit are fresh in the state it was read from.
LEMMA FinalizeKept ==
  ASSUME SdkInv, NEW r \in requests, Finalize(r)
  PROVE  SdkInv'
<1>1. /\ RequestOK(r, vault, outpoint, live)
      /\ manifest.live /\ r.outpoint = manifest.outpoint /\ r.stage = "BUILT"
  BY DEF SdkInv, RequestsOK, Finalize
<1>2. CASE r.op = "agentSpend"
  <2>. DEFINE new == [r EXCEPT !.stage = "PREFLIGHT_VERIFIED"]
  <2>1. r \in SpendRequest /\ Counted(r) /\ OnTime(r, vault, outpoint, live)
    BY <1>1, <1>2, RequestKind DEF RequestOK
  <2>2. Update(r, new)
    BY <1>2 DEF Finalize
  <2>3. /\ new \in SpendRequest /\ SameSpend(r, new)
        /\ new.op = "agentSpend" /\ new.approvals = r.approvals
    BY <2>1 DEF SpendRequest, SameSpend
  <2>. HIDE DEF new
  <2>4. Counted(new)
    BY <1>1, <2>1, <2>3 DEF Counted, EnoughApprovals, SameSpend
  <2>5. RequestOK(new, vault, outpoint, live)
    BY <2>1, <2>3, <2>4, SpendUpdated DEF RequestOK
  <2>. QED  BY <2>2, <2>5, UpdateKept
<1>3. CASE r.op # "agentSpend"
  <2>. DEFINE new == [r EXCEPT !.stage = "PREFLIGHT_VERIFIED", !.checkedAt = daa]
  <2>1. r \in ChangeRequest /\ OnTime(r, vault, outpoint, live) /\ daa \in Nat
    BY <1>1, <1>3, RequestKind DEF RequestOK, SdkInv, SoundInv, TypeOK
  <2>2. /\ Update(r, new)
        /\ StartsFresh(manifest.state.agentRoot, r.successor.agentRoot, daa)
    BY <1>3 DEF Finalize
  <2>3. new \in ChangeRequest
    BY <2>1 DEF ChangeRequest
  <2>4. /\ new.op = r.op /\ new.outpoint = r.outpoint
        /\ new.successor = r.successor /\ new.deposit = r.deposit
        /\ new.edited = r.edited /\ new.checkedAt = daa
    BY <2>1 DEF ChangeRequest
  <2>. HIDE DEF new
  <2>5. ASSUME r.outpoint = outpoint PROVE Derived(new, vault) /\ Checked(new, vault)
    <3>1. manifest.state = vault
      BY <1>1, <2>5, ManifestRead
    <3>2. Derived(r, vault) /\ r \notin SpendRequest
      BY <2>1, <1>1, <1>3, <2>5, RequestKind DEF OnTime, RequestOK
    <3>3. Derived(new, vault)
      BY <2>3, <2>4, <3>2
         DEF Derived, DerivedEdit, DerivedApprovers, DerivedTopUp, DerivedPause
    <3>. QED  BY <2>2, <2>4, <3>1, <3>3 DEF Checked
  <2>6. RequestOK(new, vault, outpoint, live)
    BY <1>3, <2>1, <2>3, <2>4, <2>5 DEF RequestOK, OnTime
  <2>. QED  BY <2>2, <2>6, UpdateKept
<1>. QED  BY <1>2, <1>3

\* Close
LEMMA CloseKept == ASSUME SdkInv, NEW r \in requests, Close(r) PROVE SdkInv'
BY QuietKept DEF Close

\* AdvanceManifest
LEMMA AdvanceKept == ASSUME SdkInv, AdvanceManifest PROVE SdkInv'
<1>1. SoundInv'
  BY SoundNext DEF SdkInv, AdvanceManifest
<1>2. /\ vault' = vault /\ live' = live /\ daa' = daa /\ outpoint' = outpoint
      /\ scenario' = scenario /\ requests' = requests
      /\ manifest' = [outpoint |-> outpoint, state |-> vault, live |-> live]
  BY DEF vars, AdvanceManifest
<1>3. SdkTypeOK' /\ ManifestNotAhead'
  BY <1>2 DEF SdkInv, SdkTypeOK, SoundInv, TypeOK, ManifestNotAhead
<1>4. NormalState(vault)' /\ RequestsOK'
  BY <1>2 DEF SdkInv, RequestsOK
<1>. QED  BY <1>1, <1>3, <1>4 DEF SdkInv

\* The chain grows.
LEMMA TickKept == ASSUME SdkInv, SdkTick PROVE SdkInv' /\ Next
<1>1. Next
  BY DEF SdkTick, Next
<1>2. SoundInv'
  BY <1>1, SoundNext DEF SdkInv
<1>3. /\ vault' = vault /\ live' = live /\ outpoint' = outpoint
      /\ scenario' = scenario /\ requests' = requests /\ manifest' = manifest
      /\ daa < MaxDaa /\ daa' = daa + 1
  BY DEF SdkTick, Tick, walletVars
<1>4. daa' <= MaxDaa
  BY <1>3, AmountAssumption DEF SdkInv, SoundInv, TypeOK
<1>5. SdkTypeOK' /\ ManifestNotAhead' /\ NormalState(vault)' /\ RequestsOK'
  BY <1>3, <1>4 DEF SdkInv, SdkTypeOK, ManifestNotAhead, RequestsOK
<1>. QED  BY <1>1, <1>2, <1>5 DEF SdkInv
-----------------------------------------------------------------------------
\* The confirmations: what the network takes is a step of the covenant.

\* A set of approver keys that have signed is counted slot by slot.
LEMMA ApprovalsCounted ==
  ASSUME NEW v \in VaultState,
         NEW got, got \subseteq {v.approvers[s] : s \in Slots} \ {NoKey}
  PROVE  Cardinality(got) <= CountApprovals(v, got)
<1>. DEFINE S == {s \in ActiveSlots(v) : v.approvers[s] \in got}
            f == [s \in S |-> v.approvers[s]]
<1>1. S \in SUBSET Slots /\ IsFiniteSet(S)
  BY FiniteAssumption, FS_Subset DEF ActiveSlots
<1>2. f \in Surjection(S, got)
  <2>1. \A k \in got : \E s \in S : f[s] = k
    BY DEF ActiveSlots
  <2>. QED  BY <2>1 DEF Surjection
<1>3. Cardinality(got) <= Cardinality(S)
  BY <1>1, <1>2, FS_Surjection
<1>. QED  BY <1>3 DEF CountApprovals

\* A state is normal with the approver set of a normal one and enough money.
LEMMA NormalFrame ==
  ASSUME NEW v, NormalState(v), NEW w,
         w.approvers = v.approvers, w.approvalM = v.approvalM,
         w.protectedValue > 0, w.feeReserve >= 0
  PROVE  NormalState(w)
BY DEF NormalState, ActiveSlots

\* A request the network takes is derived from the state it spends.
LEMMA TakenDerived ==
  ASSUME SdkInv, NEW r \in requests, Spendable(r)
  PROVE  /\ r \in SpendRequest \cup ChangeRequest
         /\ live /\ Derived(r, vault) /\ Checked(r, vault)
         /\ r.op = "agentSpend" => Counted(r)
         /\ r.lockTime \in 0..daa
<1>1. RequestOK(r, vault, outpoint, live) /\ r.outpoint = outpoint /\ daa \in Nat
  BY DEF SdkInv, RequestsOK, Spendable, SoundInv, TypeOK
<1>2. r.lockTime \in Nat
  BY <1>1 DEF RequestOK, SpendRequest, ChangeRequest
<1>. QED  BY <1>1, <1>2 DEF RequestOK, OnTime, Spendable

\* A confirmation leaves only requests that are late.
LEMMA TakenKept ==
  ASSUME SdkInv, NEW r \in requests, Taken(r), SoundInv', NormalState(vault)'
  PROVE  SdkInv'
<1>1. /\ outpoint' = outpoint + 1 /\ requests' = requests \ {r}
      /\ daa' = daa /\ manifest' = manifest /\ scenario' = scenario
      /\ outpoint \in Nat /\ manifest.outpoint \in Nat /\ manifest.outpoint <= outpoint
  BY DEF Taken, SdkInv, SdkTypeOK, ManifestNotAhead
<1>2. SdkTypeOK' /\ ManifestNotAhead'
  BY <1>1 DEF SdkInv, SdkTypeOK, ManifestNotAhead
<1>3. ASSUME NEW q \in requests' PROVE RequestOK(q, vault', outpoint', live')
  <2>1. RequestOK(q, vault, outpoint, live)
    BY <1>1 DEF SdkInv, RequestsOK
  <2>2. q.outpoint \in Nat /\ q.outpoint <= outpoint
    BY <2>1 DEF RequestOK, OnTime, SpendRequest, ChangeRequest
  <2>3. q.outpoint <= outpoint' /\ q.outpoint # outpoint'
    BY <1>1, <2>2
  <2>. QED  BY <2>1, <2>3 DEF RequestOK, OnTime
<1>4. RequestsOK'
  BY <1>3 DEF RequestsOK
<1>. QED  BY <1>2, <1>4 DEF SdkInv

\* A spend that the network takes passes every guard of agentSpend.
LEMMA SpendConfirmed ==
  ASSUME SdkInv, NEW r \in requests, ConfirmSpend(r)
  PROVE  AgentStep /\ NormalState(vault)'
<1>. DEFINE leaf == vault.agentRoot[r.agent]
            new  == [vault EXCEPT !.protectedValue = @ - r.pay,
                                  !.feeReserve = @ - r.consumed,
                                  !.agentRoot[r.agent]
                                     = SpentLeaf(leaf, r.pay, r.periods)]
            fee  == TxFee(utxoValue, r.net, r.pay + new.protectedValue + new.feeReserve)
<1>1. Spendable(r) /\ Taken(r) /\ r.op = "agentSpend"
  BY DEF ConfirmSpend
<1>2. /\ r \in SpendRequest /\ live /\ Counted(r) /\ DerivedSpend(r, vault)
      /\ r.lockTime \in 0..daa /\ r.stage = "PREFLIGHT_VERIFIED"
  BY <1>1, TakenDerived, RequestKind DEF Derived, Spendable
<1>3. /\ r.agent \in Agents /\ r.pay \in Amounts /\ r.pay \in Nat
      /\ r.periods \in 0..MaxPeriodsElapsed /\ r.periods \in Nat
      /\ r.consumed \in Nat /\ r.net \in WalletNets /\ r.net \in Nat
      /\ r.approvals \in SUBSET Keys
  <2>1. /\ r.agent \in Agents /\ r.pay \in Amounts
        /\ r.periods \in 0..MaxPeriodsElapsed /\ r.consumed \in Nat
        /\ r.net \in WalletNets \cap Nat /\ r.approvals \in SUBSET Keys
    BY <1>2 DEF SpendRequest
  <2>2. r.pay \in Nat
    BY <2>1, AmountAssumption
  <2>3. r.periods \in Nat
    BY <2>1, AmountAssumption
  <2>. QED  BY <2>1, <2>2, <2>3
<1>4. /\ vault \in VaultState
      /\ vault.protectedValue \in Int /\ vault.feeReserve \in Int
      /\ utxoValue = vault.protectedValue + vault.feeReserve
      /\ daa \in Nat
  BY <1>2 DEF SdkInv, SoundInv, TypeOK, Conservation, VaultState
<1>5. AgentSpendAllowed(vault, r.agent, r.pay, r.periods, r.consumed)
  BY <1>2 DEF DerivedSpend
<1>6. r.successor = new
  BY <1>2 DEF DerivedSpend, AgentSpendSuccessor
<1>7. /\ new.protectedValue = vault.protectedValue - r.pay
      /\ new.feeReserve = vault.feeReserve - r.consumed
      /\ new.approvers = vault.approvers /\ new.approvalM = vault.approvalM
  BY <1>4 DEF VaultState
<1>. HIDE DEF new
<1>8. leaf \in Leaf
  BY <1>3, <1>4, <1>5 DEF AgentSpendAllowed, VaultState, Root
<1>9. r.consumed \in 0..vault.feeReserve
  BY <1>3, <1>4, <1>5 DEF AgentSpendAllowed
<1>10. fee = r.net + r.consumed
  BY <1>3, <1>4, <1>7 DEF TxFee
<1>11. RequireFeeAndPrincipal(vault, r.pay, r.consumed, leaf, fee)
  BY <1>3, <1>4, <1>5, <1>10 DEF RequireFeeAndPrincipal, AgentSpendAllowed
<1>12. RequireAgentTransition(leaf, r.pay, r.periods, r.lockTime)
  <2>1. NewStart(leaf, r.periods) \in Int
    <3>1. r.periods * leaf.periodLength \in Int
      BY <1>3, <1>8 DEF Leaf
    <3>. QED  BY <1>8, <3>1 DEF Leaf, NewStart
  <2>2. r.periods >= 1 => r.lockTime >= NewStart(leaf, r.periods)
    BY <1>2, <2>1 DEF DerivedSpend, SpendLockTime
  <2>. QED  BY <1>5, <2>2 DEF RequireAgentTransition, AgentSpendAllowed
<1>13. ASSUME r.pay > leaf.approvalThreshold
       PROVE  /\ RequireApproverSetWellFormed(vault)
              /\ RequireApprovals(vault, r.approvals)
  <2>1. r.above = TRUE
    BY <1>2, <1>13 DEF DerivedSpend
  <2>2. vault.approvalM >= 1 /\ EnoughApprovals(r, r.approvals)
    BY <1>2, <1>6, <1>7, <2>1 DEF Counted
  <2>3. DistinctActive(vault.approvers)
    BY DEF SdkInv, NormalState
  <2>4. Cardinality(r.approvals) <= CountApprovals(vault, r.approvals)
    BY <1>2, <1>4, <1>6, <1>7, ApprovalsCounted DEF Counted
  <2>5. /\ Cardinality(r.approvals) \in Nat /\ vault.approvalM \in Nat
        /\ CountApprovals(vault, r.approvals) \in Nat
    BY <1>3, <1>4, FiniteAssumption, FS_Subset, FS_CardinalityType
       DEF VaultState, CountApprovals, ActiveSlots
  <2>6. Cardinality(r.approvals) >= vault.approvalM
    BY <1>6, <1>7, <2>2 DEF EnoughApprovals
  <2>7. RequireApprovals(vault, r.approvals)
    BY <2>4, <2>5, <2>6 DEF RequireApprovals
  <2>. QED  BY <2>2, <2>3, <2>7 DEF RequireApproverSetWellFormed
<1>14. Continue(new)
  BY <1>6 DEF ConfirmSpend, Continue, Taken
<1>15. r.lockTime <= daa
  BY <1>1 DEF Spendable
<1>16. MaySpend(vault, leaf)
  BY <1>2, <1>5 DEF MaySpend, AgentSpendAllowed, DerivedSpend
<1>17. AgentSpend(r.agent, r.pay, r.periods, r.consumed, r.net, r.lockTime, r.approvals)
  BY <1>2, <1>11, <1>12, <1>13, <1>14, <1>15, <1>16
     DEF AgentSpend, ConfirmSpend, new
<1>18. AgentStep
  BY <1>2, <1>3, <1>9, <1>17 DEF AgentStep
<1>19. NormalState(new)
  BY <1>3, <1>4, <1>5, <1>7, <1>9, NormalFrame DEF SdkInv, AgentSpendAllowed
<1>. QED  BY <1>14, <1>18, <1>19 DEF Continue
\* A change by the owner passes the guards of its operation.
LEMMA OwnerConfirmed ==
  ASSUME SdkInv, NEW r \in requests, ConfirmOwner(r)
  PROVE  OwnerStep /\ NormalState(vault)'
<1>. DEFINE new == r.successor
<1>1. /\ Spendable(r) /\ Taken(r)
      /\ r.op # "agentSpend" /\ r.op # "ownerRecover"
      /\ ledger.deposited + r.deposit <= MaxDeposits
  BY DEF ConfirmOwner
<1>2. /\ r \in ChangeRequest /\ live
      /\ \/ DerivedEdit(r, vault)
         \/ DerivedApprovers(r, vault)
         \/ DerivedTopUp(r, vault)
         \/ DerivedPause(r, vault)
  BY <1>1, TakenDerived, RequestKind DEF Derived
<1>3. OwnerControl(new, r.deposit)
  <2>1. Continue(new)
    BY DEF ConfirmOwner, Taken, Continue
  <2>. QED  BY <1>2, <2>1 DEF OwnerControl, ConfirmOwner
<1>4. vault \in VaultState /\ NormalState(vault) /\ vault' = new /\ epoch \in Epoch
  BY DEF SdkInv, SoundInv, TypeOK, ConfirmOwner
<1>5. /\ vault.protectedValue \in Int /\ vault.feeReserve \in Int
      /\ vault.protectedValue > 0 /\ vault.feeReserve >= 0
  BY <1>4 DEF VaultState, NormalState
<1>6. ASSUME new.agentRoot = vault.agentRoot PROVE UNCHANGED epoch
  <2>1. epoch' = [a \in Agents |-> epoch[a]]
    BY <1>6 DEF ConfirmOwner
  <2>. QED  BY <1>4, <2>1 DEF Epoch
<1>7. CASE DerivedEdit(r, vault)
  <2>1. PICK root \in RootsFrom(vault) : new = SetAgentRootSuccessor(vault, root)
    BY <1>7 DEF DerivedEdit
  <2>2. new = [vault EXCEPT !.agentRoot = root, !.policyNonce = @ + 1]
    BY <2>1 DEF SetAgentRootSuccessor
  <2>3. /\ new.agentRoot = root /\ new.approvers = vault.approvers
        /\ new.approvalM = vault.approvalM
        /\ new.protectedValue = vault.protectedValue
        /\ new.feeReserve = vault.feeReserve
    BY <1>4, <2>2 DEF VaultState
  <2>4. epoch' = [a \in Agents |->
                    IF root[a] = vault.agentRoot[a] THEN epoch[a]
                    ELSE [paid |-> 0, begun |-> 0,
                          start |-> IF root[a] = NoLeaf THEN 0
                                    ELSE root[a].periodStart]]
    BY <2>3 DEF ConfirmOwner
  <2>5. SetAgentRoot(root)
    BY <1>3, <1>7, <2>2, <2>4 DEF SetAgentRoot, DerivedEdit
  <2>6. root \in OwnerRoots
    BY DEF RootsFrom, OwnerRoots
  <2>. QED  BY <1>4, <1>5, <2>3, <2>5, <2>6, NormalFrame DEF OwnerStep
<1>8. CASE DerivedApprovers(r, vault)
  <2>1. PICK approvers \in [Slots -> Keys \cup {NoKey}], m \in 0..Cardinality(Slots) :
               /\ SetApproversAllowed(vault, approvers, m)
               /\ new = SetApproversSuccessor(vault, approvers, m)
    BY <1>8 DEF DerivedApprovers
  <2>2. new = [vault EXCEPT !.approvers = approvers, !.approvalM = m,
                            !.policyNonce = @ + 1]
    BY <2>1 DEF SetApproversSuccessor
  <2>3. /\ new.agentRoot = vault.agentRoot /\ new.approvers = approvers
        /\ new.approvalM = m
    BY <1>4, <2>2 DEF VaultState
  <2>4. /\ NormalState(new) /\ ActiveSlots(new) # {} /\ m >= 1
    BY <2>1 DEF SetApproversAllowed
  <2>5. DistinctActive(approvers) /\ m <= Cardinality(ActiveSlots(new))
    <3>1. m \in 1..Cardinality(ActiveSlots(new)) /\ DistinctActive(approvers)
      BY <2>3, <2>4 DEF NormalState
    <3>. QED  BY <3>1
  <2>6. SetApprovers(approvers, m)
    <3>. HIDE DEF new
    <3>1. r.deposit = 0 /\ vault.policyNonce < MaxNonce /\ epoch' = epoch
      BY <1>6, <1>8, <2>3 DEF DerivedApprovers
    <3>2. OwnerControl([vault EXCEPT !.approvers = approvers, !.approvalM = m,
                                     !.policyNonce = @ + 1], 0)
      BY <1>3, <2>2, <3>1
    <3>3. m <= Cardinality(ActiveSlots(
                [vault EXCEPT !.approvers = approvers, !.approvalM = m,
                              !.policyNonce = @ + 1]))
      BY <2>2, <2>5
    <3>. QED  BY <2>4, <2>5, <3>1, <3>2, <3>3 DEF SetApprovers
  <2>. QED  BY <1>4, <2>1, <2>4, <2>6 DEF OwnerStep
<1>9. CASE DerivedTopUp(r, vault)
  <2>1. r.deposit \in Amounts /\ r.deposit \in Nat
    BY <1>9, AmountAssumption DEF DerivedTopUp
  <2>2. CASE r.op = "ownerTopUp"
    <3>1. new = [vault EXCEPT !.protectedValue = @ + r.deposit]
      BY <1>9, <2>2 DEF DerivedTopUp, TopUpSuccessor
    <3>2. /\ new.agentRoot = vault.agentRoot /\ new.approvers = vault.approvers
          /\ new.approvalM = vault.approvalM /\ new.feeReserve = vault.feeReserve
          /\ new.protectedValue = vault.protectedValue + r.deposit
      BY <1>4, <3>1 DEF VaultState
    <3>3. TopUp(r.deposit)
      BY <1>1, <1>3, <1>6, <3>1, <3>2 DEF TopUp
    <3>. QED  BY <1>4, <1>5, <2>1, <3>2, <3>3, NormalFrame DEF OwnerStep
  <2>3. CASE r.op = "ownerTopUpReserve"
    <3>1. new = [vault EXCEPT !.feeReserve = @ + r.deposit]
      BY <1>9, <2>3 DEF DerivedTopUp, TopUpReserveSuccessor
    <3>2. /\ new.agentRoot = vault.agentRoot /\ new.approvers = vault.approvers
          /\ new.approvalM = vault.approvalM
          /\ new.protectedValue = vault.protectedValue
          /\ new.feeReserve = vault.feeReserve + r.deposit
      BY <1>4, <3>1 DEF VaultState
    <3>3. TopUpReserve(r.deposit)
      BY <1>1, <1>3, <1>6, <3>1, <3>2 DEF TopUpReserve
    <3>. QED  BY <1>4, <1>5, <2>1, <3>2, <3>3, NormalFrame DEF OwnerStep
  <2>. QED  BY <1>9, <2>2, <2>3 DEF DerivedTopUp
<1>10. CASE DerivedPause(r, vault)
  <2>1. \E target \in {0, 1} : new = [vault EXCEPT !.paused = target]
    BY <1>10 DEF DerivedPause, PauseSuccessor
  <2>2. /\ new.agentRoot = vault.agentRoot /\ new.approvers = vault.approvers
        /\ new.approvalM = vault.approvalM /\ new.feeReserve = vault.feeReserve
        /\ new.protectedValue = vault.protectedValue
    BY <1>4, <2>1 DEF VaultState
  <2>3. Pause \/ Unpause
    BY <1>3, <1>6, <1>10, <2>2 DEF DerivedPause, PauseSuccessor, Pause, Unpause
  <2>. QED  BY <1>4, <1>5, <2>2, <2>3, NormalFrame DEF OwnerStep
<1>. QED  BY <1>2, <1>7, <1>8, <1>9, <1>10

\* A recovery that the network takes passes those of ownerRecover.
LEMMA RecoverConfirmed ==
  ASSUME SdkInv, NEW r \in requests, ConfirmRecover(r)
  PROVE  OwnerStep /\ NormalState(vault)'
<1>1. Spendable(r) /\ Taken(r) /\ r.op = "ownerRecover" /\ vault' = vault
  BY DEF ConfirmRecover
<1>2. live /\ r.successor = vault
  BY <1>1, TakenDerived, RequestKind
     DEF Derived, DerivedEdit, DerivedApprovers, DerivedTopUp, DerivedPause
<1>3. OwnerRecover
  BY <1>1, <1>2 DEF OwnerRecover, ConfirmRecover, Taken
<1>. QED  BY <1>1, <1>3 DEF OwnerStep, SdkInv

-----------------------------------------------------------------------------
\* Every step of the wallet side keeps the invariant, and is a step of the
\* covenant or none.

\* At first there is no request, and the manifest shows the genesis.
LEMMA SdkSoundInit == SdkInit => SdkInv
<1>. SUFFICES ASSUME SdkInit PROVE SdkInv
  OBVIOUS
<1>1. SoundInv
  BY SoundInit DEF SdkInit
<1>2. SdkTypeOK /\ ManifestNotAhead
  BY <1>1, AmountAssumption
     DEF SdkInit, Init, SdkTypeOK, ManifestNotAhead, SoundInv, TypeOK
<1>. QED  BY <1>1, <1>2 DEF SdkInit, SdkInv, RequestsOK

\* A confirmation, whatever the request.
LEMMA ConfirmKept ==
  ASSUME SdkInv, NEW r \in requests,
         ConfirmSpend(r) \/ ConfirmOwner(r) \/ ConfirmRecover(r)
  PROVE  SdkInv' /\ Next
<1>1. Next /\ NormalState(vault)' /\ Taken(r)
  BY SpendConfirmed, OwnerConfirmed, RecoverConfirmed
     DEF Next, ConfirmSpend, ConfirmOwner, ConfirmRecover
<1>2. SoundInv'
  BY <1>1, SoundNext DEF SdkInv
<1>. QED  BY <1>1, <1>2, TakenKept

\* All steps together.
LEMMA SdkStep ==
  SdkInv /\ [SdkNext]_<<vars, walletVars>> => SdkInv' /\ [Next]_vars
<1>. SUFFICES ASSUME SdkInv, [SdkNext]_<<vars, walletVars>>
              PROVE  SdkInv' /\ [Next]_vars
  OBVIOUS
<1>1. CASE SdkTick
  BY <1>1, TickKept
<1>2. CASE Build
  <2>. QED  BY <1>2, BuildQuiet, BuildKept
<1>3. CASE AdvanceManifest
  BY <1>3, AdvanceKept DEF AdvanceManifest
<1>4. CASE \E r \in requests : Handle(r)
  <2>1. PICK r \in requests : Handle(r)
    BY <1>4
  <2>2. CASE \E key \in scenario.keys : CollectApproval(r, key)
    BY <2>2, CollectKept DEF CollectApproval, Update
  <2>3. CASE Finalize(r)
    BY <2>3, FinalizeKept DEF Finalize, Update
  <2>4. CASE Close(r)
    BY <2>4, CloseKept DEF Close
  <2>5. CASE ConfirmSpend(r) \/ ConfirmOwner(r) \/ ConfirmRecover(r)
    BY <2>5, ConfirmKept
  <2>. QED  BY <2>1, <2>2, <2>3, <2>4, <2>5 DEF Handle
<1>5. CASE UNCHANGED <<vars, walletVars>>
  BY <1>5, QuietKept DEF walletVars
<1>. QED  BY <1>1, <1>2, <1>3, <1>4, <1>5 DEF SdkNext

\* The invariant holds, and the chain moves by steps of the covenant only.
LEMMA SdkSound == SdkSpec => []SdkInv /\ [][Next]_vars
BY SdkSoundInit, SdkStep, PTL DEF SdkSpec

\* Every transaction the SDK builds and finalizes is accepted by the covenant
\* of the UTXO it spends, whenever the network takes it, with exactly the
\* successor that was frozen: the wallet side implements the covenant.
THEOREM ImplementsCovenant == SdkSpec => CovenantSpec
<1>1. SdkInit => Covenant!Init
  BY DEF SdkInit, Init, Covenant!Init, Cardinality, Covenant!Cardinality
<1>2. [Next]_vars => [vars' # vars /\ Covenant!Next]_vars
  <2>1. Tick => Covenant!Tick
    BY DEF Tick, Covenant!Tick
  <2>2. AgentStep => Covenant!AgentStep
    BY DEF AgentStep, Covenant!AgentStep, AgentSpend, Covenant!AgentSpend,
           MaySpend, Covenant!MaySpend, RequireAgentTransition,
           Covenant!RequireAgentTransition, NewStart, Covenant!NewStart,
           NewSpent, Covenant!NewSpent, SpentLeaf, Covenant!SpentLeaf,
           RequireApproverSetWellFormed,
           Covenant!RequireApproverSetWellFormed, DistinctActive,
           Covenant!DistinctActive, RequireApprovals,
           Covenant!RequireApprovals, CountApprovals, Covenant!CountApprovals,
           ActiveSlots, Covenant!ActiveSlots, RequireFeeAndPrincipal,
           Covenant!RequireFeeAndPrincipal, TxFee, Covenant!TxFee, Continue,
           Covenant!Continue, Cardinality, Covenant!Cardinality
  <2>3. OwnerStep => Covenant!OwnerStep
    BY DEF OwnerStep, Covenant!OwnerStep, OwnerRoots, Covenant!OwnerRoots,
           SetAgentRoot, Covenant!SetAgentRoot, SetApprovers,
           Covenant!SetApprovers, TopUp, Covenant!TopUp, TopUpReserve,
           Covenant!TopUpReserve, Pause, Covenant!Pause, Unpause,
           Covenant!Unpause, OwnerRecover, Covenant!OwnerRecover,
           OwnerControl, Covenant!OwnerControl,
           Continue, Covenant!Continue, ActiveSlots, Covenant!ActiveSlots,
           DistinctActive, Covenant!DistinctActive, Cardinality,
           Covenant!Cardinality
  <2>. QED  BY <2>1, <2>2, <2>3 DEF Next, Covenant!Next
<1>. QED  BY <1>1, <1>2, SdkSound, PTL DEF SdkSpec, CovenantSpec

\* The theorems about the covenant therefore hold of every vault the SDK
\* works on: its money is accounted for and its agents keep their budgets.
COROLLARY BuiltVaultSound == SdkSpec => [](Conservation /\ BudgetPerPeriodBegun)
<1>1. SdkInit => Init
  BY DEF SdkInit
<1>2. SdkSpec => Spec
  BY <1>1, SdkSound, PTL DEF SdkSpec, Spec
<1>. QED  BY <1>2, FundsConserved, BudgetBounded, PTL

-----------------------------------------------------------------------------
\* The manifest never runs ahead of the chain, and agrees with it whenever it
\* names the live outpoint, so no build reads a state that never was.
THEOREM ManifestBehind == SdkSpec => []ManifestNotAhead
<1>1. SdkInv => ManifestNotAhead
  BY DEF SdkInv
<1>. QED  BY <1>1, SdkSound, PTL

\* A request past AWAITING_APPROVALS carries the approvals of enough different
\* approver keys of its own frozen transaction.
THEOREM FinalIsApproved == SdkSpec => []FinalizedIsApproved
<1>1. SdkInv => FinalizedIsApproved
  <2>. SUFFICES ASSUME SdkInv, NEW r \in requests,
                       r.op = "agentSpend", r.stage # "AWAITING_APPROVALS", r.above
                PROVE  /\ r.successor.approvalM >= 1
                       /\ Cardinality(r.approvals) >= r.successor.approvalM
    BY DEF FinalizedIsApproved
  <2>1. Counted(r)
    BY DEF SdkInv, RequestsOK, RequestOK
  <2>. QED  BY <2>1 DEF Counted, EnoughApprovals
<1>. QED  BY <1>1, SdkSound, PTL

\* A leaf that passed the start check and is accepted within the margin
\* confirms with no banked budget.
THEOREM NothingBanked == SdkSpec => []NoBankedBudgetWithinMargin
<1>1. SdkInv => NoBankedBudgetWithinMargin
  <2>. SUFFICES ASSUME SdkInv, NEW r \in requests,
                       Spendable(r), r.op = "ownerSetAgentRoot",
                       daa <= r.checkedAt + AcceptMargin,
                       NEW a \in AnchoredLeaves(vault.agentRoot, r.successor.agentRoot),
                       r.successor.agentRoot[a].periodLength >= AcceptMargin + MinWindow
                PROVE  daa - r.successor.agentRoot[a].periodStart
                         <= r.successor.agentRoot[a].periodLength
    BY DEF NoBankedBudgetWithinMargin
  <2>. DEFINE leaf == r.successor.agentRoot[a]
  <2>1. r \in ChangeRequest /\ Checked(r, vault) /\ r.stage = "PREFLIGHT_VERIFIED"
    BY TakenDerived, RequestKind DEF Spendable
  <2>2. r.checkedAt - leaf.periodStart <= StartWindow(leaf.periodLength)
    BY <2>1 DEF Checked, StartsFresh
  <2>3. r.checkedAt \in Nat /\ daa \in Nat
    BY <2>1 DEF ChangeRequest, SdkInv, SoundInv, TypeOK
  <2>4. r.successor.agentRoot \in [Agents -> Leaf \cup {NoLeaf}]
    BY <2>1 DEF ChangeRequest, VaultState, Root
  <2>5. leaf \in Leaf
    BY <2>4 DEF AnchoredLeaves
  <2>6. leaf.periodLength \in Nat /\ leaf.periodStart \in Nat
    BY <2>5 DEF Leaf
  <2>7. AcceptMargin \in Nat /\ MinWindow \in Nat
    BY WalletAssumption
  <2>8. StartWindow(leaf.periodLength) = leaf.periodLength - AcceptMargin
    <3>. HIDE DEF leaf
    <3>1. leaf.periodLength >= AcceptMargin + MinWindow
      BY DEF leaf
    <3>. QED  BY <2>6, <2>7, <3>1 DEF StartWindow
  <2>. HIDE DEF leaf
  <2>9. daa - leaf.periodStart <= leaf.periodLength
    BY <2>2, <2>3, <2>6, <2>7, <2>8
  <2>. QED  BY <2>9 DEF leaf
<1>. QED  BY <1>1, SdkSound, PTL

\* An edit that confirms leaves the leaf of every agent it does not edit as it
\* is on the chain.
LEMMA EditConfirmed ==
  ASSUME SdkInv, NEW r \in requests, Handle(r), r \notin requests',
         outpoint' # outpoint, r.op = "ownerSetAgentRoot",
         NEW a \in Agents \ r.edited
  PROVE  vault'.agentRoot[a] = vault.agentRoot[a]
<1>1. ConfirmOwner(r)
  BY Zenon DEF Handle, CollectApproval, Finalize, Close, Update,
               ConfirmSpend, ConfirmRecover
<1>2. DerivedEdit(r, vault) /\ vault' = r.successor
  BY <1>1, TakenDerived, RequestKind
     DEF Derived, DerivedApprovers, DerivedTopUp, DerivedPause, ConfirmOwner
<1>3. PICK root \in RootsFrom(vault) :
             /\ vault' = SetAgentRootSuccessor(vault, root)
             /\ root[a] = vault.agentRoot[a]
  BY <1>2 DEF DerivedEdit
<1>4. vault \in VaultState
  BY DEF SdkInv, SoundInv, TypeOK
<1>. QED  BY <1>3, <1>4 DEF SetAgentRootSuccessor, VaultState

\* A tree edit that confirms leaves every other leaf as the covenant has it:
\* its frozen set agrees with the manifest it was built on, and that with the
\* vault.
THEOREM OthersLeftAlone == SdkSpec => EditsLeaveOthersAlone
<1>. DEFINE Alone == \A r \in requests \ requests' :
                       outpoint' # outpoint /\ r.op = "ownerSetAgentRoot" =>
                         \A a \in Agents \ r.edited :
                           vault'.agentRoot[a] = vault.agentRoot[a]
<1>1. SdkInv /\ [SdkNext]_<<vars, walletVars>> => [Alone]_<<vault, walletVars>>
  <2>. SUFFICES ASSUME SdkInv, SdkNext, NEW r \in requests \ requests',
                       outpoint' # outpoint, r.op = "ownerSetAgentRoot",
                       NEW a \in Agents \ r.edited
                PROVE  vault'.agentRoot[a] = vault.agentRoot[a]
    BY DEF vars
  <2>1. PICK q \in requests : Handle(q)
    <3>1. ~SdkTick /\ ~AdvanceManifest
      BY DEF SdkTick, walletVars, AdvanceManifest
    <3>2. ~Build
      BY BuildQuiet
    <3>. QED  BY <3>1, <3>2 DEF SdkNext
  <2>2. requests' = requests \ {q}
    BY <2>1, Zenon DEF Handle, CollectApproval, Finalize, Close, Update,
                       ConfirmSpend, ConfirmOwner, ConfirmRecover, Taken
  <2>3. r = q
    BY <2>2
  <2>. QED  BY <2>1, <2>3, EditConfirmed
<1>. QED  BY <1>1, SdkSound, PTL DEF SdkSpec, EditsLeaveOthersAlone
=============================================================================
