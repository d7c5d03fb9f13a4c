--------------------------- MODULE PolicyVaultV4 ---------------------------
(***************************************************************************)
(* One PolicyVault v0.4.1 covenant UTXO on the Kaspa chain                 *)
(* (contracts/PolicyVault.v0.4.1.sil).  A state is the covenant state of   *)
(* the live UTXO; a step is one transaction that consensus accepts because *)
(* the script of the UTXO it consumes accepts it.  The owner, every agent  *)
(* and the holder of every approver key may build any transaction; only    *)
(* the guards written in the contract restrain them.                       *)
(*                                                                         *)
(* The Merkle commitment agentRoot is the function it commits to (one      *)
(* policy leaf per agent key); module AgentMerkleV4 checks that the tree   *)
(* walk really behaves as that function.  Time is the DAA score of the     *)
(* chain.  A transaction that spends two vault UTXOs is not modelled.      *)
(***************************************************************************)
EXTENDS Integers, FiniteSets

CONSTANTS
  Agents,            \* agent public keys
  Keys,              \* approver public keys
  Slots,             \* approver slots (10 in the contract)
  NoKey,             \* the all-zero approver sentinel
  NoLeaf,            \* an agent without a leaf in the tree
  Recipients,        \* payees
  Leaves,            \* policy leaves the owner may write into the tree
  Amounts,           \* sompi amounts a transaction may move
  WalletNets,        \* what the fee wallet puts in (> 0) or takes out (< 0)
  InitValue,         \* protectedValue at genesis
  InitReserve,       \* feeReserve at genesis
  MaxPeriodsElapsed, \* 1000 in the contract
  MaxDeposits,       \* bound: total ever deposited
  MaxNonce,          \* bound: policyNonce
  MaxDaa             \* bound: DAA score

\* normalizeAgentPolicyV4: cap, budget and period length are positive.
Leaf == [maxPerSpend: Nat \ {0}, periodBudget: Nat \ {0},
         periodLength: Nat \ {0}, periodStart: Nat, periodSpent: Nat,
         approvalThreshold: Nat, maxFee: Nat,
         recipients: SUBSET Recipients]

\* What an agentRoot commits to.
Root == [Agents -> Leaf \cup {NoLeaf}]

ASSUME LeafAssumption == /\ Leaves \subseteq Leaf
                         /\ NoLeaf \notin Leaf
ASSUME KeyAssumption == NoKey \notin Keys
ASSUME FiniteAssumption == IsFiniteSet(Slots) /\ IsFiniteSet(Keys)
ASSUME AmountAssumption == /\ Amounts \subseteq Nat \ {0}
                           /\ WalletNets \subseteq Int
                           /\ InitValue \in Nat \ {0}
                           /\ InitReserve \in Nat
                           /\ MaxPeriodsElapsed \in Nat
                           /\ MaxDeposits \in Nat
                           /\ MaxNonce \in Nat
                           /\ MaxDaa \in Nat

VARIABLES
  vault,     \* the covenant state of the live UTXO
  utxoValue, \* the sompi locked in that UTXO
  live,      \* FALSE once the vault was recovered
  daa,       \* DAA score of the chain
  lastTx,    \* the transaction that created the UTXO
  ledger,    \* history: deposited, paid, used as fee, recovered so far
  epoch      \* history, per agent, since the owner last wrote its leaf

vars == <<vault, utxoValue, live, daa, lastTx, ledger, epoch>>

VaultState == [protectedValue: Int, feeReserve: Int, paused: {0, 1},
               agentRoot: Root, approvers: [Slots -> Keys \cup {NoKey}],
               approvalM: Nat, policyNonce: Nat]

Ledger == [deposited: Nat, paidOut: Nat, reserveUsed: Nat, recovered: Nat]

\* paid: principal the agent moved; start: periodStart the owner wrote;
\* begun: periods the agent has rolled over.
Epoch == [Agents -> [paid: Nat, start: Nat, begun: Nat]]

OwnerTx == [op: {"genesis", "ownerControl", "ownerRecover"}]
SpendTx == [op: {"agentSpend"}, agent: Agents, pay: Nat, net: Int,
            signers: SUBSET Keys]

-----------------------------------------------------------------------------
\* The guards of the script, under their names in the contract.

ActiveSlots(v) == {s \in Slots : v.approvers[s] # NoKey}

\* requireDistinctOrInactive on the 45 pairs of slots.
DistinctActive(approvers) ==
  \A s, t \in Slots :
    s # t /\ approvers[s] # NoKey => approvers[s] # approvers[t]

\* Fault: only the distinctness of the slots is required.
DistinctOnly(v) == DistinctActive(v.approvers)

RequireApproverSetWellFormed(v) ==
  v.approvalM >= 1 /\ DistinctActive(v.approvers)

\* One count per SLOT whose key signed, as the two half counters do.
CountApprovals(v, signers) ==
  Cardinality({s \in ActiveSlots(v) : v.approvers[s] \in signers})

RequireApprovals(v, signers) == CountApprovals(v, signers) >= v.approvalM

\* requireAgentTransition: the successor leaf of a spend of pay that claims
\* k elapsed periods, and what the script requires of it.
NewStart(leaf, k) == leaf.periodStart + k * leaf.periodLength

NewSpent(leaf, pay, k) == IF k >= 1 THEN pay ELSE leaf.periodSpent + pay

SpentLeaf(leaf, pay, k) ==
  [leaf EXCEPT !.periodStart = NewStart(leaf, k),
               !.periodSpent = NewSpent(leaf, pay, k)]

\* Fault: the elapsed periods an agent claims are taken on its word.
UntimedTransition(leaf, pay, k, lockTime) ==
  pay <= leaf.maxPerSpend /\ NewSpent(leaf, pay, k) <= leaf.periodBudget

RequireAgentTransition(leaf, pay, k, lockTime) ==
  /\ pay <= leaf.maxPerSpend
  /\ k >= 1 => lockTime >= NewStart(leaf, k)
  /\ NewSpent(leaf, pay, k) <= leaf.periodBudget

\* txFee: inputs minus outputs, over the vault UTXO, the payment, the
\* successor UTXO and the net contribution of the other inputs and outputs.
TxFee(inValue, net, outValue) == inValue + net - outValue

\* Fault: the reserve drawn may exceed the fee really paid.
AnyReserveDraw(v, pay, consumed, leaf, fee) ==
  /\ v.protectedValue - pay > 0
  /\ v.feeReserve - consumed >= 0
  /\ consumed >= 0 /\ consumed <= leaf.maxFee
  /\ fee >= 0

\* requireFeeAndPrincipal; the principal moves by exactly pay.
RequireFeeAndPrincipal(v, pay, consumed, leaf, fee) ==
  /\ v.protectedValue - pay > 0
  /\ v.feeReserve - consumed >= 0
  /\ consumed >= 0 /\ consumed <= leaf.maxFee
  /\ fee >= 0
  /\ consumed <= fee

-----------------------------------------------------------------------------
\* Consensus does not validate a genesis state: the approver slots may hold
\* duplicates and approvalM may be anything.
Init ==
  /\ vault \in [protectedValue: {InitValue}, feeReserve: {InitReserve},
                paused: {0}, agentRoot: [Agents -> Leaves \cup {NoLeaf}],
                approvers: [Slots -> Keys \cup {NoKey}],
                approvalM: 0..Cardinality(Slots), policyNonce: {0}]
  /\ utxoValue = InitValue + InitReserve
  /\ live = TRUE
  /\ daa = 0
  /\ lastTx = [op |-> "genesis"]
  /\ ledger = [deposited |-> InitValue + InitReserve, paidOut |-> 0,
               reserveUsed |-> 0, recovered |-> 0]
  /\ epoch = [a \in Agents |->
                [paid |-> 0, begun |-> 0,
                 start |-> IF vault.agentRoot[a] = NoLeaf THEN 0
                           ELSE vault.agentRoot[a].periodStart]]

\* The chain grows.
Tick ==
  /\ daa < MaxDaa
  /\ daa' = daa + 1
  /\ UNCHANGED <<vault, utxoValue, live, lastTx, ledger, epoch>>

\* Fault: the fee reserve is left out of the value of the successor.
ContinuePrincipal(new) ==
  /\ vault' = new
  /\ utxoValue' = new.protectedValue
  /\ UNCHANGED <<live, daa>>

\* requireExactSuccessorValue of the continuing state.
Continue(new) ==
  /\ vault' = new
  /\ utxoValue' = new.protectedValue + new.feeReserve
  /\ UNCHANGED <<live, daa>>

\* Fault: a paused vault still lets its agents spend.
MemberOnly(v, leaf) == leaf # NoLeaf /\ leaf.recipients # {}

\* An unpaused vault, a leaf in the tree, a payee on its recipient list.
MaySpend(v, leaf) == v.paused = 0 /\ leaf # NoLeaf /\ leaf.recipients # {}

\* agentSpend: agent a pays a recipient of its leaf, claims k elapsed
\* periods, draws consumed from the reserve.  A lock time is valid once the
\* chain has reached it.
AgentSpend(a, pay, k, consumed, net, lockTime, signers) ==
  LET leaf == vault.agentRoot[a]
      new  == [vault EXCEPT !.protectedValue = @ - pay,
                            !.feeReserve = @ - consumed,
                            !.agentRoot[a] = SpentLeaf(leaf, pay, k)]
      fee  == TxFee(utxoValue, net,
                    pay + new.protectedValue + new.feeReserve)
  IN /\ live
     /\ lockTime <= daa
     /\ MaySpend(vault, leaf)
     /\ RequireAgentTransition(leaf, pay, k, lockTime)
     /\ pay > leaf.approvalThreshold =>
          /\ RequireApproverSetWellFormed(vault)
          /\ RequireApprovals(vault, signers)
     /\ RequireFeeAndPrincipal(vault, pay, consumed, leaf, fee)
     /\ Continue(new)
     /\ lastTx' = [op |-> "agentSpend", agent |-> a, pay |-> pay,
                   net |-> net, signers |-> signers]
     /\ ledger' = [ledger EXCEPT !.paidOut = @ + pay,
                                 !.reserveUsed = @ + consumed]
     /\ epoch' = [epoch EXCEPT ![a].paid = @ + pay, ![a].begun = @ + k]

\* ownerControl, shared part: the owner signed; the history that follows.
OwnerControl(new, deposit) ==
  /\ live
  /\ Continue(new)
  /\ lastTx' = [op |-> "ownerControl"]
  /\ ledger' = [ledger EXCEPT !.deposited = @ + deposit]

\* opSelector 0: any new root; the history of rewritten leaves restarts.
SetAgentRoot(root) ==
  /\ vault.policyNonce < MaxNonce
  /\ OwnerControl([vault EXCEPT !.agentRoot = root,
                                !.policyNonce = @ + 1], 0)
  /\ epoch' = [a \in Agents |->
                 IF root[a] = vault.agentRoot[a] THEN epoch[a]
                 ELSE [paid |-> 0, begun |-> 0,
                       start |-> IF root[a] = NoLeaf THEN 0
                                 ELSE root[a].periodStart]]

\* Fault: the quorum may exceed the number of active approvers.
SetApproversAnyM(approvers, m) ==
  /\ vault.policyNonce < MaxNonce
  /\ m >= 1 /\ DistinctActive(approvers)
  /\ OwnerControl([vault EXCEPT !.approvers = approvers, !.approvalM = m,
                                !.policyNonce = @ + 1], 0)
  /\ UNCHANGED epoch

\* opSelector 1
SetApprovers(approvers, m) ==
  LET new == [vault EXCEPT !.approvers = approvers, !.approvalM = m,
                           !.policyNonce = @ + 1]
  IN /\ vault.policyNonce < MaxNonce
     /\ m >= 1 /\ m <= Cardinality(ActiveSlots(new))
     /\ DistinctActive(approvers)
     /\ OwnerControl(new, 0)
     /\ UNCHANGED epoch

\* opSelector 2
TopUp(amount) ==
  /\ ledger.deposited + amount <= MaxDeposits
  /\ OwnerControl([vault EXCEPT !.protectedValue = @ + amount], amount)
  /\ UNCHANGED epoch

\* opSelector 3
TopUpReserve(amount) ==
  /\ ledger.deposited + amount <= MaxDeposits
  /\ OwnerControl([vault EXCEPT !.feeReserve = @ + amount], amount)
  /\ UNCHANGED epoch

\* Fault: a second pause counts on.
PauseTwice ==
  OwnerControl([vault EXCEPT !.paused = @ + 1], 0) /\ UNCHANGED epoch

\* opSelector 4
Pause ==
  /\ vault.paused = 0
  /\ OwnerControl([vault EXCEPT !.paused = 1], 0)
  /\ UNCHANGED epoch

\* opSelector 5
Unpause ==
  /\ vault.paused = 1
  /\ OwnerControl([vault EXCEPT !.paused = 0], 0)
  /\ UNCHANGED epoch

\* ownerRecover: terminal; output 0 pays the owner the whole state value.
OwnerRecover ==
  /\ live
  /\ live' = FALSE
  /\ utxoValue' = 0
  /\ lastTx' = [op |-> "ownerRecover"]
  /\ ledger' = [ledger EXCEPT !.recovered =
                  vault.protectedValue + vault.feeReserve]
  /\ UNCHANGED <<vault, daa, epoch>>

\* The roots an owner may write: each agent gets a fresh leaf, none, or a
\* leaf of the present tree.
OwnerRoots ==
  [Agents -> Leaves \cup {NoLeaf} \cup {vault.agentRoot[a] : a \in Agents}]

AgentStep ==
  \E a \in Agents, pay \in Amounts, k \in 0..MaxPeriodsElapsed,
     consumed \in 0..vault.feeReserve, net \in WalletNets,
     lockTime \in 0..daa, signers \in SUBSET Keys :
    AgentSpend(a, pay, k, consumed, net, lockTime, signers)

OwnerStep ==
  \/ \E root \in OwnerRoots : SetAgentRoot(root)
  \/ \E approvers \in [Slots -> Keys \cup {NoKey}],
        m \in 0..Cardinality(Slots) : SetApprovers(approvers, m)
  \/ \E amount \in Amounts : TopUp(amount)
  \/ \E amount \in Amounts : TopUpReserve(amount)
  \/ Pause
  \/ Unpause
  \/ OwnerRecover

Next == Tick \/ AgentStep \/ OwnerStep

Spec == Init /\ [][Next]_vars

-----------------------------------------------------------------------------
\* Type invariant.
TypeOK ==
  /\ vault \in VaultState
  /\ utxoValue \in Int
  /\ live \in BOOLEAN
  /\ daa \in Nat
  /\ lastTx \in OwnerTx \cup SpendTx
  /\ ledger \in Ledger
  /\ epoch \in Epoch

\* Every sompi the owner ever put in is still locked, was paid to a
\* recipient, was drawn from the reserve, or went back to the owner (once, at
\* the end), and a live vault always keeps positive principal to recover.
Conservation ==
  /\ ledger.deposited = utxoValue + ledger.paidOut + ledger.reserveUsed
                        + ledger.recovered
  /\ live => /\ utxoValue = vault.protectedValue + vault.feeReserve
             /\ vault.protectedValue > 0
             /\ vault.feeReserve >= 0
             /\ ledger.recovered = 0

\* Period boundaries of agent a's leaf that the chain has passed since the
\* owner wrote the leaf.
PeriodsPassed(a) ==
  IF daa < epoch[a].start THEN 0
  ELSE (daa - epoch[a].start) \div vault.agentRoot[a].periodLength

\* docs/architecture.md "Period accounting": whatever elapsed periods an
\* agent claims and however many transactions it sends, its total since the
\* owner wrote its leaf is at most one budget per period begun, by the clock
\* of the chain and not by the agent's own claims.
BudgetPerPeriodBegun ==
  \A a \in Agents : vault.agentRoot[a] # NoLeaf =>
    epoch[a].paid <= (1 + PeriodsPassed(a)) * vault.agentRoot[a].periodBudget

\* From any genesis, malformed ones included, a payment above the agent's
\* threshold carries the signatures of at least approvalM >= 1 DIFFERENT
\* approver keys (no key counted twice, no tier bypassed with M = 0).
ApprovalQuorum ==
  lastTx.op = "agentSpend" =>
    LET keys == {vault.approvers[s] : s \in ActiveSlots(vault)}
        leaf == vault.agentRoot[lastTx.agent]
    IN lastTx.pay > leaf.approvalThreshold =>
         /\ vault.approvalM >= 1
         /\ Cardinality(lastTx.signers \cap keys) >= vault.approvalM

\* FR-1: the reserve only ever becomes network fee.  The other inputs and
\* outputs of a spend (the fee wallet, perhaps the agent's own) never end up
\* with more than they brought.
ReserveOnlyPaysFees ==
  lastTx.op = "agentSpend" => lastTx.net >= 0

\* Once the approver tier is satisfiable by distinct keys, no transaction,
\* not even the owner's, makes it malformed or unsatisfiable again.
ApproverTierSound(v) ==
  /\ RequireApproverSetWellFormed(v)
  /\ v.approvalM <= Cardinality(ActiveSlots(v))

ApproverTierStaysSound ==
  [][ApproverTierSound(vault) => ApproverTierSound(vault')]_vault

\* While the vault is paused its principal does not shrink, and the owner's
\* pause is never lifted by an agent.
PauseFreezesPrincipal ==
  [][vault.paused = 1 =>
       /\ vault'.protectedValue >= vault.protectedValue
       /\ vault'.agentRoot = vault.agentRoot
            \/ vault'.policyNonce = vault.policyNonce + 1]_vault
=============================================================================
