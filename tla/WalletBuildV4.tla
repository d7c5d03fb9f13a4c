--------------------------- MODULE WalletBuildV4 ---------------------------
(***************************************************************************)
(* The wallet side of a v0.4.1 vault, from a request to a confirmed        *)
(* transaction: the planner and builder (sdk/src/wallet-requests-v4.js,    *)
(* sdk/src/vault-builders-v4.js) derive the one successor state of an      *)
(* operation from the manifest with core/model/vault-transitions-v4.js and *)
(* freeze it in a transaction, approvers sign it, finalize checks it, and  *)
(* the chain may confirm it any time later, or never.                      *)
(*                                                                         *)
(* The module extends the covenant: its variables are the chain.  Here a   *)
(* confirmation only needs what the network itself checks (the outpoint is *)
(* unspent, the lock time reached) and writes the successor the SDK froze. *)
(* That the covenant accepts every such transaction, with exactly that     *)
(* effect, is what the refinement CovenantSpec states.                     *)
(***************************************************************************)
EXTENDS PolicyVaultV4

CONSTANTS
  AcceptMargin,  \* PERIOD_START_ACCEPT_MARGIN_DAA (6000)
  MinWindow,     \* PERIOD_START_MIN_WINDOW_DAA (600)
  Scenarios,     \* bound: what a behaviour may use, one of these for all of it
  MaxRequests,   \* bound: requests open at the same time
  MaxTransitions \* bound: confirmed transactions

\* agents and keys in play, policy leaves the owner asks for before anchoring,
\* network fees, the operations asked for, the last DAA score.
Scenario == [agents: SUBSET Agents, keys: SUBSET Keys, leaves: SUBSET Leaf,
             fees: SUBSET Nat, menu: SUBSET STRING, daa: Nat]

ASSUME WalletAssumption == /\ Scenarios \subseteq Scenario
                           /\ AcceptMargin \in Nat
                           /\ MinWindow \in Nat
                           /\ MaxRequests \in Nat
                           /\ MaxTransitions \in Nat

\* The bound on what a fee wallet puts in leaves room for every fee asked for.
ASSUME FeeAssumption ==
  \A s \in Scenarios : \A fee \in s.fees : 0..fee \subseteq WalletNets

VARIABLES
  outpoint,  \* the live outpoint, numbered by the transitions before it
  manifest,  \* the SDK's durable view: an outpoint and its state
  requests,  \* the open requests, each with its frozen transaction
  scenario   \* bound: the scenario of this behaviour

walletVars == <<outpoint, manifest, requests, scenario>>

\* The covenant this side works against, on the chain's variables.
Covenant == INSTANCE PolicyVaultV4
              WITH vault <- vault, utxoValue <- utxoValue, live <- live,
                   daa <- daa, lastTx <- lastTx, ledger <- ledger,
                   epoch <- epoch

-----------------------------------------------------------------------------
\* core/model: the state normalizer and the successor builders.  An operator
\* named ...Allowed holds when the builder does not refuse.

\* normalizeStateV4: approvalM is 0 exactly without active approvers, else
\* 1..activeCount; active keys distinct; principal positive.
NormalState(s) ==
  /\ s.protectedValue > 0 /\ s.feeReserve >= 0
  /\ DistinctActive(s.approvers)
  /\ s.approvalM \in IF ActiveSlots(s) = {} THEN {0}
                     ELSE 1..Cardinality(ActiveSlots(s))

AgentSpendAllowed(s, a, pay, k, consumed) ==
  LET leaf == s.agentRoot[a]
  IN /\ s.paused = 0
     /\ leaf # NoLeaf
     /\ pay <= leaf.maxPerSpend
     /\ NewSpent(leaf, pay, k) <= leaf.periodBudget
     /\ pay < s.protectedValue
     /\ consumed <= leaf.maxFee
     /\ consumed <= s.feeReserve
     /\ pay > leaf.approvalThreshold => s.approvalM >= 1

\* Fault: the reserve drawn is not taken off the successor.
SuccessorKeepsReserve(s, a, pay, k, consumed) ==
  [s EXCEPT !.protectedValue = @ - pay, !.agentRoot[a] = SpentLeaf(@, pay, k)]

AgentSpendSuccessor(s, a, pay, k, consumed) ==
  [s EXCEPT !.protectedValue = @ - pay,
            !.feeReserve = @ - consumed,
            !.agentRoot[a] = SpentLeaf(@, pay, k)]

\* Fault: a rollover is built for immediate inclusion.
NoLockTime(s, a, k) == 0

SpendLockTime(s, a, k) == IF k >= 1 THEN NewStart(s.agentRoot[a], k) ELSE 0

SetAgentRootSuccessor(s, root) ==
  [s EXCEPT !.agentRoot = root, !.policyNonce = @ + 1]

SetApproversSuccessor(s, approvers, m) ==
  [s EXCEPT !.approvers = approvers, !.approvalM = m, !.policyNonce = @ + 1]

\* Fault: the new approver set is not normalized.
AnyApprovers(s, approvers, m) == m >= 1

\* The result of setApproversSuccessorV4 must also be normal and have a tier.
SetApproversAllowed(s, approvers, m) ==
  LET t == SetApproversSuccessor(s, approvers, m)
  IN NormalState(t) /\ ActiveSlots(t) # {} /\ m >= 1

TopUpSuccessor(s, amount) == [s EXCEPT !.protectedValue = @ + amount]

TopUpReserveSuccessor(s, amount) == [s EXCEPT !.feeReserve = @ + amount]

PauseSuccessor(s, target) == [s EXCEPT !.paused = target]

-----------------------------------------------------------------------------
\* sdk/src/manifest-v4.js: the delegate period-start rule.

\* Fault: every leaf of the new tree is anchored again.
EveryLeaf(before, after) == {a \in Agents : after[a] # NoLeaf}

\* anchoredLeafPks: the leaves that are not carried over unchanged.
AnchoredLeaves(before, after) ==
  {a \in Agents : after[a] # NoLeaf /\ after[a] # before[a]}

\* anchorRegistryStarts of one new or changed leaf, at the node's DAA score.
AnchorStart(leaf, now) ==
  [leaf EXCEPT !.periodStart = IF @ > now THEN @ ELSE now]

\* Fault: no margin is left for the transaction to be accepted.
FullWindow(length) == length

\* periodStartWindowDaa
StartWindow(length) ==
  IF length - AcceptMargin > MinWindow THEN length - AcceptMargin
  ELSE MinWindow

\* assertLeafStartsFresh over the anchored leaves of a root.
StartsFresh(before, after, now) ==
  \A a \in AnchoredLeaves(before, after) :
    now - after[a].periodStart <= StartWindow(after[a].periodLength)

-----------------------------------------------------------------------------
\* Everything the owner asks for is a leaf the covenant can hold, anchored.
ASSUME AskedAssumption ==
  \A s \in Scenarios : \A leaf \in s.leaves, now \in 0..MaxDaa :
    AnchorStart(leaf, now) \in Leaves

SdkInit ==
  /\ Init
  /\ NormalState(vault)
  /\ scenario \in Scenarios
  /\ \A a \in Agents : vault.agentRoot[a] \in
       {NoLeaf} \cup (IF a \in scenario.agents THEN scenario.leaves ELSE {})
  /\ \A i \in Slots : vault.approvers[i] \in scenario.keys \cup {NoKey}
  /\ outpoint = 0
  /\ manifest = [outpoint |-> 0, state |-> vault, live |-> TRUE]
  /\ requests = {}

\* buildWalletRequestV4: freeze a transaction over the manifest's outpoint.
AddRequest(r) ==
  /\ manifest.live
  /\ r.op \in scenario.menu
  /\ Cardinality(requests) < MaxRequests
  /\ requests' = requests \cup {r}
  /\ UNCHANGED <<vars, outpoint, manifest, scenario>>

\* The fee is either drawn from the reserve in full, or, with a fuel input,
\* any caller-chosen part of it is and the fuel input pays the rest.
BuildSpend(a, pay, k, consumed, fee) ==
  LET s == manifest.state
  IN /\ consumed <= fee
     /\ AgentSpendAllowed(s, a, pay, k, consumed)
     /\ s.agentRoot[a].recipients # {}
     /\ AddRequest(
          [op |-> "agentSpend", outpoint |-> manifest.outpoint,
           successor |-> AgentSpendSuccessor(s, a, pay, k, consumed),
           lockTime |-> SpendLockTime(s, a, k),
           agent |-> a, pay |-> pay, periods |-> k, consumed |-> consumed,
           net |-> fee - consumed, approvals |-> {},
           above |-> pay > s.agentRoot[a].approvalThreshold,
           stage |-> IF pay > s.agentRoot[a].approvalThreshold
                     THEN "AWAITING_APPROVALS" ELSE "BUILT"])

OwnerRequest(op, successor, deposit, edited) ==
  [op |-> op, outpoint |-> manifest.outpoint, successor |-> successor,
   lockTime |-> 0, deposit |-> deposit, edited |-> edited,
   checkedAt |-> daa, stage |-> "BUILT"]

\* addAgent, removeAgent, rePolicyAgent, rotateAgent and ownerSetAgentRoot
\* rebuild the whole tree from the manifest's registry with the entries of
\* some agents changed; a new or changed leaf is anchored at the node's DAA.
BuildAgentEdit(edits) ==
  LET s    == manifest.state
      asked == [a \in Agents |-> IF a \in DOMAIN edits THEN edits[a]
                                 ELSE s.agentRoot[a]]
      root == [a \in Agents |->
                 IF a \in AnchoredLeaves(s.agentRoot, asked)
                 THEN AnchorStart(asked[a], daa) ELSE asked[a]]
  IN /\ s.policyNonce < MaxNonce
     /\ AddRequest(OwnerRequest("ownerSetAgentRoot",
          SetAgentRootSuccessor(s, root), 0, DOMAIN edits))

BuildSetApprovers(approvers, m) ==
  /\ manifest.state.policyNonce < MaxNonce
  /\ SetApproversAllowed(manifest.state, approvers, m)
  /\ AddRequest(OwnerRequest("ownerSetApprovers",
       SetApproversSuccessor(manifest.state, approvers, m), 0, {}))

BuildTopUp(amount) ==
  AddRequest(OwnerRequest("ownerTopUp",
    TopUpSuccessor(manifest.state, amount), amount, {}))

BuildTopUpReserve(amount) ==
  AddRequest(OwnerRequest("ownerTopUpReserve",
    TopUpReserveSuccessor(manifest.state, amount), amount, {}))

BuildPause(target) ==
  /\ manifest.state.paused # target
  /\ AddRequest(OwnerRequest(IF target = 1 THEN "ownerPause"
                             ELSE "ownerUnpause",
                             PauseSuccessor(manifest.state, target), 0, {}))

\* recoverPlanV4: the successor field only carries the recovered state.
BuildRecover ==
  AddRequest(OwnerRequest("ownerRecover", manifest.state, 0, {}))

Update(r, new) ==
  /\ requests' = (requests \ {r}) \cup {new}
  /\ UNCHANGED <<vars, outpoint, manifest, scenario>>

\* Fault: one approval short is taken for enough.
AlmostEnough(r, got) == Cardinality(got) + 1 >= r.successor.approvalM

EnoughApprovals(r, got) == Cardinality(got) >= r.successor.approvalM

\* collectApprovalV4 and submitApprovalV4: a configured approver of the frozen
\* predecessor, once; the request is BUILT as soon as M have signed.
CollectApproval(r, key) ==
  LET got == r.approvals \cup {key}
  IN /\ r.op = "agentSpend" /\ r.stage = "AWAITING_APPROVALS"
     /\ key \in {r.successor.approvers[s] : s \in Slots} \ {NoKey}
     /\ key \notin r.approvals
     /\ Update(r, [r EXCEPT !.approvals = got,
          !.stage = IF EnoughApprovals(r, got)
                    THEN "BUILT" ELSE @])

\* finalizeWalletRequestV4: the manifest still shows the predecessor and an
\* anchored start is fresh; the signed bytes are stored.
Finalize(r) ==
  /\ r.stage = "BUILT"
  /\ manifest.live /\ r.outpoint = manifest.outpoint
  /\ IF r.op = "agentSpend"
     THEN /\ manifest.state.paused = 0
          /\ Update(r, [r EXCEPT !.stage = "PREFLIGHT_VERIFIED"])
     ELSE /\ StartsFresh(manifest.state.agentRoot,
                         r.successor.agentRoot, daa)
          /\ Update(r, [r EXCEPT !.stage = "PREFLIGHT_VERIFIED",
                                 !.checkedAt = daa])

\* Closed without a broadcast: STALE, WALLET_REJECTED, ...
Close(r) ==
  /\ requests' = requests \ {r}
  /\ UNCHANGED <<vars, outpoint, manifest, scenario>>

\* Fault: the outpoint is adopted and the state is not.
AdvanceOutpointOnly ==
  /\ manifest.outpoint # outpoint
  /\ manifest' = [manifest EXCEPT !.outpoint = outpoint]
  /\ UNCHANGED <<vars, outpoint, requests, scenario>>

\* The manifest catches up with the chain.
AdvanceManifest ==
  /\ manifest.outpoint # outpoint
  /\ manifest' = [outpoint |-> outpoint, state |-> vault, live |-> live]
  /\ UNCHANGED <<vars, outpoint, requests, scenario>>

-----------------------------------------------------------------------------
\* The network takes the transaction of a finalized request.
Spendable(r) ==
  /\ r.stage = "PREFLIGHT_VERIFIED"
  /\ live /\ r.outpoint = outpoint
  /\ r.lockTime <= daa
  /\ outpoint < MaxTransitions

Taken(r) ==
  /\ outpoint' = outpoint + 1
  /\ requests' = requests \ {r}
  /\ UNCHANGED <<daa, manifest, scenario>>

ConfirmSpend(r) ==
  /\ r.op = "agentSpend" /\ Spendable(r)
  /\ Taken(r)
  /\ vault' = r.successor
  /\ utxoValue' = r.successor.protectedValue + r.successor.feeReserve
  /\ live' = live
  /\ lastTx' = [op |-> "agentSpend", agent |-> r.agent, pay |-> r.pay,
                net |-> r.net, signers |-> r.approvals]
  /\ ledger' = [ledger EXCEPT !.paidOut = @ + r.pay,
                              !.reserveUsed = @ + r.consumed]
  /\ epoch' = [epoch EXCEPT ![r.agent].paid = @ + r.pay,
                            ![r.agent].begun = @ + r.periods]

ConfirmOwner(r) ==
  /\ r.op \notin {"agentSpend", "ownerRecover"} /\ Spendable(r)
  /\ ledger.deposited + r.deposit <= MaxDeposits
  /\ Taken(r)
  /\ vault' = r.successor
  /\ utxoValue' = r.successor.protectedValue + r.successor.feeReserve
  /\ live' = live
  /\ lastTx' = [op |-> "ownerControl"]
  /\ ledger' = [ledger EXCEPT !.deposited = @ + r.deposit]
  /\ epoch' = [a \in Agents |->
                 LET leaf == r.successor.agentRoot[a]
                 IN IF leaf = vault.agentRoot[a] THEN epoch[a]
                    ELSE [paid |-> 0, begun |-> 0,
                          start |-> IF leaf = NoLeaf THEN 0
                                    ELSE leaf.periodStart]]

ConfirmRecover(r) ==
  /\ r.op = "ownerRecover" /\ Spendable(r)
  /\ Taken(r)
  /\ live' = FALSE
  /\ utxoValue' = 0
  /\ lastTx' = [op |-> "ownerRecover"]
  /\ ledger' = [ledger EXCEPT !.recovered =
                  r.successor.protectedValue + r.successor.feeReserve]
  /\ UNCHANGED <<vault, epoch>>

SdkTick == daa < scenario.daa /\ Tick /\ UNCHANGED walletVars

\* What the owner may ask for in one agent lifecycle request.
AgentEdits ==
  UNION {[A -> scenario.leaves \cup {NoLeaf}] :
           A \in SUBSET scenario.agents \ {{}}}

Build ==
  \/ \E a \in scenario.agents, pay \in Amounts,
        k \in 0..MaxPeriodsElapsed, fee \in scenario.fees :
     \E consumed \in 0..fee :
       BuildSpend(a, pay, k, consumed, fee)
  \/ \E edits \in AgentEdits : BuildAgentEdit(edits)
  \/ \E approvers \in [Slots -> scenario.keys \cup {NoKey}],
        m \in 0..Cardinality(Slots) : BuildSetApprovers(approvers, m)
  \/ \E amount \in Amounts : BuildTopUp(amount)
  \/ \E amount \in Amounts : BuildTopUpReserve(amount)
  \/ \E target \in {0, 1} : BuildPause(target)
  \/ BuildRecover

Handle(r) ==
  \/ \E key \in scenario.keys : CollectApproval(r, key)
  \/ Finalize(r)
  \/ Close(r)
  \/ ConfirmSpend(r)
  \/ ConfirmOwner(r)
  \/ ConfirmRecover(r)

SdkNext == \/ SdkTick
           \/ Build
           \/ AdvanceManifest
           \/ \E r \in requests : Handle(r)

SdkSpec == SdkInit /\ [][SdkNext]_<<vars, walletVars>>

-----------------------------------------------------------------------------
\* Refinement: every transaction the SDK builds and finalizes is accepted by
\* the covenant of the UTXO it spends, whenever the network takes it, and its
\* effect is exactly the successor the SDK froze, however many requests were
\* built, approved, closed or overtaken in between.
CovenantSpec == Covenant!Init /\ [][vars' # vars /\ Covenant!Next]_vars

\* An owner's tree edit that confirms never rolls back, resets or drops the
\* leaf of an agent it does not edit, although agents spend concurrently and
\* the edit replaces the whole committed tree.
EditsLeaveOthersAlone ==
  [][\A r \in requests \ requests' :
       outpoint' # outpoint /\ r.op = "ownerSetAgentRoot" =>
         \A a \in Agents \ r.edited :
           vault'.agentRoot[a] = vault.agentRoot[a]]_<<vault, walletVars>>

\* sdk/src/manifest-v4.js: "a leaf that passes the check and is accepted
\* within the margin confirms with no banked budget whenever
\* L >= margin + floor".
NoBankedBudgetWithinMargin ==
  \A r \in requests :
    Spendable(r) /\ r.op = "ownerSetAgentRoot"
      /\ daa <= r.checkedAt + AcceptMargin =>
        \A a \in AnchoredLeaves(vault.agentRoot, r.successor.agentRoot) :
          LET leaf == r.successor.agentRoot[a]
          IN leaf.periodLength >= AcceptMargin + MinWindow =>
               daa - leaf.periodStart <= leaf.periodLength

\* A request is never finalized short of the approvals its own frozen
\* transaction needs, counted by distinct configured keys.
FinalizedIsApproved ==
  \A r \in requests :
    r.op = "agentSpend" /\ r.stage # "AWAITING_APPROVALS" /\ r.above =>
      /\ r.successor.approvalM >= 1
      /\ Cardinality(r.approvals) >= r.successor.approvalM

\* The manifest never runs ahead of the chain, and agrees with it whenever
\* it names the live outpoint.
ManifestNotAhead ==
  /\ manifest.outpoint <= outpoint
  /\ manifest.outpoint = outpoint =>
       manifest.state = vault /\ manifest.live = live
=============================================================================
