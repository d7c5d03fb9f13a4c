------------------------ MODULE PolicyVaultV4Proofs ------------------------
(***************************************************************************)
(* Proofs about the covenant of PolicyVaultV4, for every set of agents,    *)
(* keys and leaves and every bound.                                        *)
(***************************************************************************)
EXTENDS PolicyVaultV4, FiniteSetTheorems, TLAPS

-----------------------------------------------------------------------------
\* What the helpers of a spend return.

\* A spend leaves a well-typed leaf, with the rules of the leaf unchanged.
LEMMA SpentLeafType ==
  ASSUME NEW leaf \in Leaf, NEW pay \in Nat, NEW k \in Nat
  PROVE  /\ SpentLeaf(leaf, pay, k) \in Leaf
         /\ SpentLeaf(leaf, pay, k).periodBudget = leaf.periodBudget
         /\ SpentLeaf(leaf, pay, k).periodLength = leaf.periodLength
         /\ SpentLeaf(leaf, pay, k).approvalThreshold = leaf.approvalThreshold
         /\ SpentLeaf(leaf, pay, k).periodStart = NewStart(leaf, k)
         /\ SpentLeaf(leaf, pay, k).periodSpent = NewSpent(leaf, pay, k)
<1>1. NewStart(leaf, k) \in Nat
  <2>1. k * leaf.periodLength \in Nat
    BY DEF Leaf
  <2>. QED  BY <2>1 DEF Leaf, NewStart
<1>2. NewSpent(leaf, pay, k) \in Nat
  BY DEF Leaf, NewSpent
<1>. QED  BY <1>1, <1>2 DEF Leaf, SpentLeaf

\* The approver slots are finite, so a quorum of them is a number.
LEMMA SlotsNat == Cardinality(Slots) \in Nat
BY FiniteAssumption, FS_CardinalityType

-----------------------------------------------------------------------------
\* Type correctness and conservation are inductive only together: what an
\* owner recovers is a natural number because the state of a live vault is.
SoundInv == TypeOK /\ Conservation

\* A genesis state is sound, with any approver set.
LEMMA SoundInit == Init => SoundInv
<1>. SUFFICES ASSUME Init PROVE SoundInv
  OBVIOUS
<1>1. vault \in VaultState
  BY SlotsNat, LeafAssumption, AmountAssumption
     DEF Init, VaultState, Root
<1>2. epoch \in Epoch
  BY <1>1 DEF Init, VaultState, Root, Leaf, Epoch
<1>3. TypeOK
  BY <1>1, <1>2, AmountAssumption DEF Init, TypeOK, OwnerTx, Ledger
<1>. QED  BY <1>3, AmountAssumption DEF Init, Conservation, SoundInv
\* Every operation that continues the vault replaces the state by one that is
\* well typed and locks its whole value.
LEMMA SoundContinue ==
  ASSUME SoundInv, live, NEW new \in VaultState,
         new.protectedValue > 0, new.feeReserve >= 0,
         Continue(new), lastTx' \in OwnerTx \cup SpendTx,
         ledger' \in Ledger, epoch' \in Epoch,
         ledger'.recovered = ledger.recovered,
         ledger'.deposited - ledger'.paidOut - ledger'.reserveUsed
           = new.protectedValue + new.feeReserve + ledger.recovered
  PROVE  SoundInv'
<1>1. utxoValue' = new.protectedValue + new.feeReserve /\ vault' = new
  BY DEF Continue
<1>6. ledger'.recovered = 0
  BY DEF SoundInv, Conservation
<1>2. new.protectedValue \in Int /\ new.feeReserve \in Int
  BY DEF VaultState
<1>3. TypeOK'
  BY <1>1, <1>2 DEF SoundInv, TypeOK, Continue
<1>4. /\ ledger'.deposited \in Int /\ ledger'.paidOut \in Int
      /\ ledger'.reserveUsed \in Int /\ ledger'.recovered \in Int
  BY DEF Ledger
<1>5. Conservation'
  BY <1>1, <1>2, <1>4, <1>6 DEF Conservation
<1>. QED  BY <1>3, <1>5 DEF SoundInv

\* The same for an operation of the owner that adds deposit to the state.
LEMMA SoundOwnerControl ==
  ASSUME SoundInv, NEW new \in VaultState, NEW deposit \in Nat,
         new.protectedValue > 0, new.feeReserve >= 0,
         new.protectedValue + new.feeReserve
           = vault.protectedValue + vault.feeReserve + deposit,
         OwnerControl(new, deposit), epoch' \in Epoch
  PROVE  SoundInv'
<1>1. live /\ Continue(new)
  BY DEF OwnerControl
<1>2. lastTx' \in OwnerTx \cup SpendTx
  BY DEF OwnerControl, OwnerTx
<1>3. ledger \in Ledger /\ ledger' = [ledger EXCEPT !.deposited = @ + deposit]
  BY DEF OwnerControl, SoundInv, TypeOK
<1>4. ledger' \in Ledger
  BY <1>3 DEF Ledger
<1>5. /\ ledger'.recovered = ledger.recovered
      /\ ledger'.paidOut = ledger.paidOut
      /\ ledger'.reserveUsed = ledger.reserveUsed
      /\ ledger'.deposited = ledger.deposited + deposit
  BY <1>3 DEF Ledger
<1>6. /\ vault.protectedValue \in Int /\ vault.feeReserve \in Int
      /\ ledger.deposited \in Int /\ ledger.paidOut \in Int
      /\ ledger.reserveUsed \in Int /\ ledger.recovered \in Int
  BY <1>3 DEF SoundInv, TypeOK, VaultState, Ledger
<1>7. ledger.deposited = vault.protectedValue + vault.feeReserve
        + ledger.paidOut + ledger.reserveUsed + ledger.recovered
  BY <1>1, <1>6 DEF SoundInv, Conservation
<1>8. ledger'.deposited - ledger'.paidOut - ledger'.reserveUsed
        = new.protectedValue + new.feeReserve + ledger.recovered
  BY <1>5, <1>6, <1>7
<1>. QED  BY <1>1, <1>2, <1>4, <1>5, <1>8, SoundContinue

\* A spend keeps types and conservation: its guards bound what it takes.
LEMMA SoundAgentSpend ==
  ASSUME SoundInv, NEW a \in Agents, NEW pay \in Amounts,
         NEW k \in 0..MaxPeriodsElapsed, NEW consumed \in 0..vault.feeReserve,
         NEW net \in WalletNets, NEW lockTime \in 0..daa,
         NEW signers \in SUBSET Keys,
         AgentSpend(a, pay, k, consumed, net, lockTime, signers)
  PROVE  SoundInv'
<1>. DEFINE leaf == vault.agentRoot[a]
            new  == [vault EXCEPT !.protectedValue = @ - pay,
                                  !.feeReserve = @ - consumed,
                                  !.agentRoot[a] = SpentLeaf(leaf, pay, k)]
<1>1. /\ vault \in VaultState /\ ledger \in Ledger /\ epoch \in Epoch
      /\ vault.protectedValue \in Int /\ vault.feeReserve \in Int
  BY DEF SoundInv, TypeOK, VaultState
<1>2. pay \in Nat /\ k \in Nat /\ net \in Int /\ consumed \in Nat
  BY <1>1, AmountAssumption
<1>3. leaf \in Leaf
  BY <1>1 DEF AgentSpend, MaySpend, VaultState, Root
<1>4. SpentLeaf(leaf, pay, k) \in Leaf
  BY <1>2, <1>3, SpentLeafType
<1>5. new \in VaultState
  <2>1. vault.agentRoot \in Root /\ vault.agentRoot \in [Agents -> Leaf \cup {NoLeaf}]
    BY <1>1 DEF VaultState, Root
  <2>2. [vault.agentRoot EXCEPT ![a] = SpentLeaf(leaf, pay, k)] \in Root
    BY <2>1, <1>4 DEF Root
  <2>3. vault.protectedValue - pay \in Int /\ vault.feeReserve - consumed \in Int
    BY <1>1, <1>2
  <2>. HIDE DEF leaf
  <2>. QED  BY <2>2, <2>3, <1>1 DEF VaultState
<1>6. /\ new.protectedValue = vault.protectedValue - pay
      /\ new.feeReserve = vault.feeReserve - consumed
  BY <1>1 DEF VaultState
<1>7. live /\ Continue(new)
  BY DEF AgentSpend
<1>8. new.protectedValue > 0 /\ new.feeReserve >= 0
  BY <1>6 DEF AgentSpend, RequireFeeAndPrincipal
<1>9. lastTx' \in OwnerTx \cup SpendTx
  <2>1. lastTx' = [op |-> "agentSpend", agent |-> a, pay |-> pay,
                   net |-> net, signers |-> signers]
    BY DEF AgentSpend
  <2>. QED  BY <2>1, <1>2 DEF SpendTx
<1>10. ledger' = [ledger EXCEPT !.paidOut = @ + pay,
                                !.reserveUsed = @ + consumed]
  BY DEF AgentSpend
<1>11. ledger' \in Ledger
  <2>1. ledger.paidOut + pay \in Nat /\ ledger.reserveUsed + consumed \in Nat
    BY <1>1, <1>2 DEF Ledger
  <2>. QED  BY <1>1, <1>10, <2>1 DEF Ledger
<1>12. /\ ledger'.recovered = ledger.recovered
       /\ ledger'.paidOut = ledger.paidOut + pay
       /\ ledger'.reserveUsed = ledger.reserveUsed + consumed
       /\ ledger'.deposited = ledger.deposited
  BY <1>1, <1>10 DEF Ledger
<1>13. epoch' \in Epoch
  <2>1. epoch' = [epoch EXCEPT ![a].paid = @ + pay, ![a].begun = @ + k]
    BY DEF AgentSpend
  <2>2. epoch[a].paid + pay \in Nat /\ epoch[a].begun + k \in Nat
    BY <1>1, <1>2 DEF Epoch
  <2>. QED  BY <2>1, <2>2, <1>1 DEF Epoch
<1>14. /\ ledger.deposited \in Int /\ ledger.paidOut \in Int
       /\ ledger.reserveUsed \in Int /\ ledger.recovered \in Int
  BY <1>1 DEF Ledger
<1>15. ledger.deposited = vault.protectedValue + vault.feeReserve
         + ledger.paidOut + ledger.reserveUsed + ledger.recovered
  BY <1>1, <1>7, <1>14 DEF SoundInv, Conservation
<1>16. ledger'.deposited - ledger'.paidOut - ledger'.reserveUsed
         = new.protectedValue + new.feeReserve + ledger.recovered
  BY <1>1, <1>2, <1>6, <1>12, <1>14, <1>15
<1>. HIDE DEF new
<1>. QED  BY <1>5, <1>7, <1>8, <1>9, <1>11, <1>12, <1>13, <1>16,
             SoundContinue
\* A new agent root.
LEMMA SoundSetAgentRoot ==
  ASSUME SoundInv, NEW root \in OwnerRoots, SetAgentRoot(root)
  PROVE  SoundInv'
<1>. DEFINE new == [vault EXCEPT !.agentRoot = root, !.policyNonce = @ + 1]
<1>1. live /\ OwnerControl(new, 0)
  BY DEF SetAgentRoot, OwnerControl
<1>2. /\ vault \in VaultState /\ epoch \in Epoch
      /\ vault.protectedValue \in Int /\ vault.feeReserve \in Int
      /\ vault.protectedValue > 0 /\ vault.feeReserve >= 0
  BY <1>1 DEF SoundInv, TypeOK, Conservation, VaultState
<1>3. root \in Root
  BY <1>2, LeafAssumption DEF OwnerRoots, VaultState, Root
<1>4. new \in VaultState
  <2>1. vault.policyNonce + 1 \in Nat
    BY <1>2 DEF VaultState
  <2>. QED  BY <2>1, <1>2, <1>3 DEF VaultState
<1>5. /\ new.protectedValue = vault.protectedValue
      /\ new.feeReserve = vault.feeReserve
  BY <1>2 DEF VaultState
<1>6. epoch' \in Epoch
  <2>1. \A a \in Agents : root[a] # NoLeaf => root[a].periodStart \in Nat
    BY <1>3 DEF Root, Leaf
  <2>2. epoch' = [a \in Agents |->
                   IF root[a] = vault.agentRoot[a] THEN epoch[a]
                   ELSE [paid |-> 0, begun |-> 0,
                         start |-> IF root[a] = NoLeaf THEN 0
                                   ELSE root[a].periodStart]]
    BY DEF SetAgentRoot
  <2>. QED  BY <2>1, <2>2, <1>2 DEF Epoch
<1>. HIDE DEF new
<1>. QED  BY <1>1, <1>2, <1>4, <1>5, <1>6, SoundOwnerControl

\* A new approver set.
LEMMA SoundSetApprovers ==
  ASSUME SoundInv, NEW approvers \in [Slots -> Keys \cup {NoKey}],
         NEW m \in 0..Cardinality(Slots), SetApprovers(approvers, m)
  PROVE  SoundInv'
<1>. DEFINE new == [vault EXCEPT !.approvers = approvers, !.approvalM = m,
                                 !.policyNonce = @ + 1]
<1>1. /\ live /\ OwnerControl(new, 0)
      /\ epoch' = epoch
  BY DEF SetApprovers, OwnerControl
<1>2. /\ vault \in VaultState /\ epoch \in Epoch
      /\ vault.protectedValue \in Int /\ vault.feeReserve \in Int
      /\ vault.protectedValue > 0 /\ vault.feeReserve >= 0
  BY <1>1 DEF SoundInv, TypeOK, Conservation, VaultState
<1>3. new \in VaultState
  <2>1. vault.policyNonce + 1 \in Nat /\ m \in Nat
    BY <1>2, SlotsNat DEF VaultState
  <2>. QED  BY <2>1, <1>2 DEF VaultState
<1>4. /\ new.protectedValue = vault.protectedValue
      /\ new.feeReserve = vault.feeReserve
  BY <1>2 DEF VaultState
<1>. HIDE DEF new
<1>. QED  BY <1>1, <1>2, <1>3, <1>4, SoundOwnerControl

\* A deposit, to principal or reserve.
LEMMA SoundTopUp ==
  ASSUME SoundInv, NEW amount \in Amounts,
         TopUp(amount) \/ TopUpReserve(amount)
  PROVE  SoundInv'
<1>1. amount \in Nat
  BY AmountAssumption
<1>2. live
  BY DEF TopUp, TopUpReserve, OwnerControl
<1>3. /\ vault \in VaultState /\ epoch \in Epoch
      /\ vault.protectedValue \in Int /\ vault.feeReserve \in Int
      /\ vault.protectedValue > 0 /\ vault.feeReserve >= 0
  BY <1>2 DEF SoundInv, TypeOK, Conservation, VaultState
<1>4. CASE TopUp(amount)
  <2>. DEFINE new == [vault EXCEPT !.protectedValue = @ + amount]
  <2>1. OwnerControl(new, amount) /\ epoch' = epoch
    BY <1>4 DEF TopUp
  <2>2. /\ new \in VaultState
        /\ new.protectedValue = vault.protectedValue + amount
        /\ new.feeReserve = vault.feeReserve
    BY <1>1, <1>3 DEF VaultState
  <2>. HIDE DEF new
  <2>. QED  BY <1>1, <1>3, <2>1, <2>2, SoundOwnerControl
<1>5. CASE TopUpReserve(amount)
  <2>. DEFINE new == [vault EXCEPT !.feeReserve = @ + amount]
  <2>1. OwnerControl(new, amount) /\ epoch' = epoch
    BY <1>5 DEF TopUpReserve
  <2>2. /\ new \in VaultState
        /\ new.protectedValue = vault.protectedValue
        /\ new.feeReserve = vault.feeReserve + amount
    BY <1>1, <1>3 DEF VaultState
  <2>. HIDE DEF new
  <2>. QED  BY <1>1, <1>3, <2>1, <2>2, SoundOwnerControl
<1>. QED  BY <1>4, <1>5

\* A pause or its end.
LEMMA SoundPause ==
  ASSUME SoundInv, Pause \/ Unpause
  PROVE  SoundInv'
<1>1. PICK target \in {0, 1} :
        OwnerControl([vault EXCEPT !.paused = target], 0) /\ epoch' = epoch
  BY DEF Pause, Unpause
<1>. DEFINE new == [vault EXCEPT !.paused = target]
<1>2. live
  BY <1>1 DEF OwnerControl
<1>3. /\ vault \in VaultState /\ epoch \in Epoch
      /\ vault.protectedValue \in Int /\ vault.feeReserve \in Int
      /\ vault.protectedValue > 0 /\ vault.feeReserve >= 0
  BY <1>2 DEF SoundInv, TypeOK, Conservation, VaultState
<1>4. /\ new \in VaultState
      /\ new.protectedValue = vault.protectedValue
      /\ new.feeReserve = vault.feeReserve
  BY <1>3 DEF VaultState
<1>5. OwnerControl(new, 0)
  BY <1>1
<1>. HIDE DEF new
<1>. QED  BY <1>1, <1>3, <1>4, <1>5, SoundOwnerControl

\* The recovery pays out all that is accounted.
LEMMA SoundRecover ==
  ASSUME SoundInv, OwnerRecover
  PROVE  SoundInv'
<1>1. /\ live /\ live' = FALSE /\ utxoValue' = 0
      /\ vault' = vault /\ daa' = daa /\ epoch' = epoch
      /\ lastTx' = [op |-> "ownerRecover"]
      /\ ledger' = [ledger EXCEPT !.recovered =
                      vault.protectedValue + vault.feeReserve]
  BY DEF OwnerRecover
<1>2. /\ vault.protectedValue \in Int /\ vault.feeReserve \in Int
      /\ ledger \in Ledger
      /\ vault.protectedValue + vault.feeReserve \in Nat
  BY <1>1 DEF SoundInv, TypeOK, Conservation, VaultState
<1>3. /\ ledger' \in Ledger
      /\ ledger'.recovered = vault.protectedValue + vault.feeReserve
      /\ ledger'.deposited = ledger.deposited
      /\ ledger'.paidOut = ledger.paidOut
      /\ ledger'.reserveUsed = ledger.reserveUsed
  BY <1>1, <1>2 DEF Ledger
<1>4. TypeOK'
  <2>1. lastTx' \in OwnerTx
    BY <1>1 DEF OwnerTx
  <2>2. live' \in BOOLEAN
    BY <1>1, Zenon
  <2>3. utxoValue' \in Int
    BY <1>1
  <2>4. vault' \in VaultState /\ daa' \in Nat /\ epoch' \in Epoch
    BY <1>1 DEF SoundInv, TypeOK
  <2>. QED  BY <1>3, <2>1, <2>2, <2>3, <2>4 DEF SoundInv, TypeOK
<1>5. /\ ledger.recovered = 0
      /\ utxoValue = vault.protectedValue + vault.feeReserve
      /\ ledger.deposited = utxoValue + ledger.paidOut + ledger.reserveUsed
                            + ledger.recovered
  BY <1>1 DEF SoundInv, Conservation
<1>6. /\ ledger.deposited \in Int /\ ledger.paidOut \in Int
      /\ ledger.reserveUsed \in Int
  BY <1>2 DEF Ledger
<1>7. Conservation'
  BY <1>1, <1>2, <1>3, <1>5, <1>6 DEF Conservation
<1>. QED  BY <1>4, <1>7 DEF SoundInv

\* Every transaction keeps SoundInv.
LEMMA SoundNext == SoundInv /\ [Next]_vars => SoundInv'
<1>. SUFFICES ASSUME SoundInv, [Next]_vars PROVE SoundInv'
  OBVIOUS
<1>1. CASE Tick
  BY <1>1 DEF Tick, SoundInv, TypeOK, Conservation
<1>2. CASE AgentStep
  BY <1>2, SoundAgentSpend DEF AgentStep
<1>3. CASE OwnerStep
  BY <1>3, SoundSetAgentRoot, SoundSetApprovers, SoundTopUp, SoundPause,
     SoundRecover DEF OwnerStep
<1>4. CASE UNCHANGED vars
  BY <1>4 DEF vars, SoundInv, TypeOK, Conservation
<1>. QED  BY <1>1, <1>2, <1>3, <1>4 DEF Next

\* Every reachable covenant state is well typed, whatever transactions the
\* owner, the agents and the approvers send.
THEOREM TypeCorrect == Spec => []TypeOK
<1>1. SoundInv => TypeOK
  BY DEF SoundInv
<1>. QED  BY SoundInit, SoundNext, <1>1, PTL DEF Spec

\* No sompi is created, lost or moved between principal and reserve other than
\* by a deposit, a payment, a fee or the recovery, and a live vault always
\* holds principal.
THEOREM FundsConserved == Spec => []Conservation
<1>1. SoundInv => Conservation
  BY DEF SoundInv
<1>. QED  BY SoundInit, SoundNext, <1>1, PTL DEF Spec

-----------------------------------------------------------------------------
\* Period accounting.  The bound of BudgetPerPeriodBegun speaks of the clock;
\* it is inductive once the leaf is tied to the periods its agent has begun:
\* the leaf's start is that many lengths after the start the owner wrote, the
\* clock has reached it, and what was paid is one budget for every period left
\* behind plus what the leaf shows as spent.  A leaf the owner wrote already
\* overspent is over its budget only until its first payment.
Accounted(leaf, e, now) ==
  /\ leaf.periodStart = e.start + e.begun * leaf.periodLength
  /\ e.begun > 0 => leaf.periodStart <= now
  /\ e.paid <= e.begun * leaf.periodBudget + leaf.periodSpent
  /\ e.begun > 0 \/ e.paid > 0 => leaf.periodSpent <= leaf.periodBudget

PeriodInv ==
  \A a \in Agents : vault.agentRoot[a] # NoLeaf =>
    Accounted(vault.agentRoot[a], epoch[a], daa)

\* Products the provers do not find by themselves.
LEMMA MoreBudgets ==
  ASSUME NEW n \in Nat, NEW k \in Nat, NEW b \in Nat
  PROVE  /\ (n + k) * b = n * b + k * b
         /\ k >= 1 => k * b >= b
         /\ n <= k => n * b <= k * b
<1>1. (n + k) * b = n * b + k * b
  OBVIOUS
<1>2. k >= 1 => k * b >= b
  <2>1. k >= 1 => k * b = b + (k - 1) * b
    OBVIOUS
  <2>2. k >= 1 => (k - 1) * b \in Nat
    OBVIOUS
  <2>. QED  BY <2>1, <2>2
<1>3. n <= k => n * b <= k * b
  <2>1. n <= k => k * b = n * b + (k - n) * b
    OBVIOUS
  <2>2. n <= k => (k - n) * b \in Nat
    OBVIOUS
  <2>3. n * b \in Nat /\ k * b \in Nat
    OBVIOUS
  <2>. QED  BY <2>1, <2>2, <2>3
<1>. QED  BY <1>1, <1>2, <1>3

\* n whole periods that fit into a span are at most its quotient.
LEMMA WholePeriods ==
  ASSUME NEW span \in Nat, NEW len \in Nat \ {0}, NEW n \in Nat,
         n * len <= span
  PROVE  n <= span \div len
<1>. DEFINE q == span \div len
<1>1. /\ q \in Nat
      /\ span < (q + 1) * len
  BY Z3
<1>2. SUFFICES ASSUME n >= q + 1 PROVE FALSE
  BY <1>1
<1>3. (q + 1) * len <= n * len
  BY <1>1, <1>2, MoreBudgets
<1>4. (q + 1) * len \in Nat /\ n * len \in Nat
  BY <1>1
<1>. QED  BY <1>1, <1>3, <1>4

\* A spend the covenant accepts keeps its agent's account.
LEMMA AccountedSpend ==
  ASSUME NEW leaf \in Leaf, NEW e \in [paid: Nat, start: Nat, begun: Nat],
         NEW f \in [paid: Nat, start: Nat, begun: Nat],
         NEW now \in Nat, NEW pay \in Nat, NEW k \in Nat, NEW lockTime \in Nat,
         lockTime <= now, Accounted(leaf, e, now),
         RequireAgentTransition(leaf, pay, k, lockTime),
         f.start = e.start, f.paid = e.paid + pay, f.begun = e.begun + k
  PROVE  Accounted(SpentLeaf(leaf, pay, k), f, now)
<1>. DEFINE t == SpentLeaf(leaf, pay, k)
            n == e.begun
            len == leaf.periodLength
            b == leaf.periodBudget
<1>1. /\ t.periodBudget = b /\ t.periodLength = len
      /\ t.periodStart = NewStart(leaf, k)
      /\ t.periodSpent = NewSpent(leaf, pay, k)
  BY SpentLeafType
<1>2. /\ n \in Nat /\ e.start \in Nat /\ e.paid \in Nat
      /\ len \in Nat /\ b \in Nat
      /\ leaf.periodStart \in Nat /\ leaf.periodSpent \in Nat
  BY DEF Leaf
<1>3. /\ leaf.periodStart = e.start + n * len
      /\ n > 0 => leaf.periodStart <= now
      /\ e.paid <= n * b + leaf.periodSpent
      /\ n > 0 \/ e.paid > 0 => leaf.periodSpent <= b
  BY DEF Accounted
<1>4. /\ k >= 1 => lockTime >= leaf.periodStart + k * len
      /\ NewSpent(leaf, pay, k) <= b
  BY DEF RequireAgentTransition, NewStart
<1>5. /\ (n + k) * b = n * b + k * b
      /\ (n + k) * len = n * len + k * len
      /\ k >= 1 => k * b >= b
      /\ n * b \in Nat /\ k * b \in Nat /\ n * len \in Nat /\ k * len \in Nat
  BY <1>2, MoreBudgets
<1>. HIDE DEF t, n, len, b
<1>6. t.periodStart = f.start + f.begun * t.periodLength
  <2>1. t.periodStart = leaf.periodStart + k * len
    BY <1>1 DEF NewStart, len
  <2>2. f.begun = n + k
    BY DEF n
  <2>. QED  BY <1>1, <1>2, <1>3, <1>5, <2>1, <2>2
<1>7. f.begun > 0 => t.periodStart <= now
  <2>1. t.periodStart = leaf.periodStart + k * len /\ f.begun = n + k
    BY <1>1 DEF NewStart, len, n
  <2>2. CASE k >= 1
    BY <1>2, <1>4, <1>5, <2>1, <2>2
  <2>3. CASE k = 0
    BY <1>2, <1>3, <2>1, <2>3
  <2>. QED  BY <2>2, <2>3
<1>8. f.paid <= f.begun * t.periodBudget + t.periodSpent
  <2>1. f.begun * t.periodBudget = n * b + k * b
    BY <1>1, <1>5 DEF n
  <2>2. CASE k >= 1
    <3>1. t.periodSpent = pay
      BY <1>1, <2>2 DEF NewSpent
    <3>2. e.paid <= n * b + b
      BY <1>2, <1>3, <1>5
    <3>. QED  BY <1>2, <1>5, <2>1, <2>2, <3>1, <3>2
  <2>3. CASE k = 0
    <3>1. t.periodSpent = leaf.periodSpent + pay
      BY <1>1, <2>3 DEF NewSpent
    <3>2. k * b = 0
      BY <1>2, <2>3
    <3>. QED  BY <1>2, <1>3, <1>5, <2>1, <3>1, <3>2
  <2>. QED  BY <2>2, <2>3
<1>9. t.periodSpent <= t.periodBudget
  BY <1>1, <1>4
<1>. QED  BY <1>6, <1>7, <1>8, <1>9 DEF Accounted, t

\* A kept account bounds what was paid by the clock.
LEMMA AccountedBound ==
  ASSUME NEW leaf \in Leaf, NEW e \in [paid: Nat, start: Nat, begun: Nat],
         NEW now \in Nat, Accounted(leaf, e, now)
  PROVE  e.paid <= (1 + (IF now < e.start THEN 0
                         ELSE (now - e.start) \div leaf.periodLength))
                   * leaf.periodBudget
<1>. DEFINE n == e.begun
            len == leaf.periodLength
            b == leaf.periodBudget
            passed == IF now < e.start THEN 0 ELSE (now - e.start) \div len
<1>1. /\ n \in Nat /\ e.start \in Nat /\ e.paid \in Nat
      /\ len \in Nat \ {0} /\ b \in Nat
      /\ leaf.periodStart \in Nat /\ leaf.periodSpent \in Nat
  BY DEF Leaf
<1>2. /\ leaf.periodStart = e.start + n * len
      /\ n > 0 => leaf.periodStart <= now
      /\ e.paid <= n * b + leaf.periodSpent
      /\ n > 0 \/ e.paid > 0 => leaf.periodSpent <= b
  BY DEF Accounted
<1>3. n * b \in Nat /\ n * len \in Nat
  BY <1>1
<1>. HIDE DEF n, len, b
<1>4. passed \in Nat /\ n <= passed
  <2>1. CASE now < e.start
    BY <1>1, <1>2, <1>3, <2>1
  <2>2. CASE now >= e.start
    <3>1. now - e.start \in Nat /\ (now - e.start) \div len \in Nat
      BY <1>1, <2>2, Z3
    <3>2. CASE n > 0
      <4>1. n * len <= now - e.start
        BY <1>1, <1>2, <1>3, <3>2
      <4>. QED  BY <1>1, <2>2, <3>1, <4>1, WholePeriods
    <3>3. CASE n = 0
      BY <1>1, <2>2, <3>1, <3>3
    <3>. QED  BY <1>1, <3>2, <3>3
  <2>. QED  BY <1>1, <2>1, <2>2
<1>. HIDE DEF passed
<1>5. n * b <= passed * b /\ (1 + passed) * b = b + passed * b
  BY <1>1, <1>4, MoreBudgets
<1>6. passed * b \in Nat
  BY <1>1, <1>4
<1>7. e.paid <= (1 + passed) * b
  BY <1>1, <1>2, <1>3, <1>5, <1>6
<1>. QED  BY <1>7 DEF passed, len, b

\* The account of a leaf the owner has just written.
LEMMA AccountedFresh ==
  ASSUME NEW leaf \in Leaf, NEW e, NEW now \in Nat,
         e = [paid |-> 0, begun |-> 0, start |-> leaf.periodStart]
  PROVE  Accounted(leaf, e, now)
BY DEF Accounted, Leaf

\* Initially no period was rolled over and nothing paid.
LEMMA PeriodInit == Init => PeriodInv
<1>. SUFFICES ASSUME Init, NEW a \in Agents, vault.agentRoot[a] # NoLeaf
              PROVE  Accounted(vault.agentRoot[a], epoch[a], daa)
  BY DEF PeriodInv
<1>1. vault.agentRoot[a] \in Leaf /\ daa = 0
  BY LeafAssumption DEF Init
<1>2. epoch[a] = [paid |-> 0, begun |-> 0,
                  start |-> vault.agentRoot[a].periodStart]
  BY DEF Init
<1>. QED  BY <1>1, <1>2, AccountedFresh

\* A spend claims only periods begun, and counts what it pays.
LEMMA PeriodAgentSpend ==
  ASSUME SoundInv, PeriodInv, NEW a \in Agents, NEW pay \in Amounts,
         NEW k \in 0..MaxPeriodsElapsed, NEW consumed \in 0..vault.feeReserve,
         NEW net \in WalletNets, NEW lockTime \in 0..daa,
         NEW signers \in SUBSET Keys,
         AgentSpend(a, pay, k, consumed, net, lockTime, signers)
  PROVE  PeriodInv'
<1>. DEFINE leaf == vault.agentRoot[a]
<1>1. /\ vault \in VaultState /\ vault.agentRoot \in [Agents -> Leaf \cup {NoLeaf}]
      /\ epoch \in Epoch /\ daa \in Nat /\ daa' = daa
  BY DEF SoundInv, TypeOK, AgentSpend, Continue, VaultState, Root
<1>2. pay \in Nat /\ k \in Nat /\ lockTime \in Nat /\ lockTime <= daa
  BY <1>1, AmountAssumption
<1>3. leaf \in Leaf /\ RequireAgentTransition(leaf, pay, k, lockTime)
  BY <1>1 DEF AgentSpend, MaySpend
<1>4. vault'.agentRoot = [vault.agentRoot EXCEPT ![a] = SpentLeaf(leaf, pay, k)]
  BY <1>1 DEF AgentSpend, Continue, VaultState
<1>5. epoch' = [epoch EXCEPT ![a].paid = @ + pay, ![a].begun = @ + k]
  BY DEF AgentSpend
<1>6. SUFFICES ASSUME NEW c \in Agents, vault'.agentRoot[c] # NoLeaf
               PROVE  Accounted(vault'.agentRoot[c], epoch'[c], daa)
  BY <1>1 DEF PeriodInv
<1>7. CASE c = a
  <2>1. Accounted(leaf, epoch[a], daa)
    BY <1>3, LeafAssumption DEF PeriodInv, AgentSpend, MaySpend
  <2>2. epoch[a] \in [paid: Nat, start: Nat, begun: Nat]
    BY <1>1 DEF Epoch
  <2>3. epoch'[a] = [epoch[a] EXCEPT !.paid = @ + pay, !.begun = @ + k]
    BY <1>1, <1>5 DEF Epoch
  <2>4. /\ epoch'[a].start = epoch[a].start
        /\ epoch'[a].paid = epoch[a].paid + pay
        /\ epoch'[a].begun = epoch[a].begun + k
    BY <2>2, <2>3
  <2>5. epoch'[a] \in [paid: Nat, start: Nat, begun: Nat]
    <3>1. epoch[a].paid + pay \in Nat /\ epoch[a].begun + k \in Nat
      BY <1>2, <2>2
    <3>. QED  BY <2>2, <2>3, <3>1
  <2>6. vault'.agentRoot[a] = SpentLeaf(leaf, pay, k)
    BY <1>1, <1>4
  <2>. HIDE DEF leaf
  <2>7. Accounted(SpentLeaf(leaf, pay, k), epoch'[a], daa)
    BY <1>1, <1>2, <1>3, <2>1, <2>2, <2>4, <2>5, AccountedSpend
  <2>. QED  BY <1>7, <2>6, <2>7
<1>8. CASE c # a
  BY <1>1, <1>4, <1>5, <1>6, <1>8 DEF PeriodInv, Epoch
<1>. QED  BY <1>7, <1>8

\* A leaf that the owner writes starts a new account.
LEMMA PeriodSetAgentRoot ==
  ASSUME SoundInv, PeriodInv, NEW root \in OwnerRoots, SetAgentRoot(root)
  PROVE  PeriodInv'
<1>1. /\ vault \in VaultState /\ vault.agentRoot \in [Agents -> Leaf \cup {NoLeaf}]
      /\ daa \in Nat /\ daa' = daa
  BY DEF SoundInv, TypeOK, SetAgentRoot, OwnerControl, Continue,
         VaultState, Root
<1>2. root \in [Agents -> Leaf \cup {NoLeaf}]
  BY <1>1, LeafAssumption DEF OwnerRoots
<1>3. vault'.agentRoot = root
  BY <1>1 DEF SetAgentRoot, OwnerControl, Continue, VaultState
<1>4. SUFFICES ASSUME NEW a \in Agents, root[a] # NoLeaf
               PROVE  Accounted(root[a], epoch'[a], daa)
  BY <1>1, <1>3 DEF PeriodInv
<1>5. CASE root[a] = vault.agentRoot[a]
  BY <1>4, <1>5 DEF SetAgentRoot, PeriodInv
<1>6. CASE root[a] # vault.agentRoot[a]
  <2>1. epoch'[a] = [paid |-> 0, begun |-> 0, start |-> root[a].periodStart]
    BY <1>4, <1>6 DEF SetAgentRoot
  <2>. QED  BY <1>1, <1>2, <1>4, <2>1, AccountedFresh
<1>. QED  BY <1>5, <1>6

\* Every other step of the owner leaves the tree and the history alone.
LEMMA PeriodOtherOwner ==
  ASSUME SoundInv, PeriodInv, vault'.agentRoot = vault.agentRoot,
         epoch' = epoch, daa' = daa
  PROVE  PeriodInv'
BY DEF PeriodInv

\* Every transaction keeps PeriodInv.
LEMMA PeriodNext == SoundInv /\ PeriodInv /\ [Next]_vars => PeriodInv'
<1>. SUFFICES ASSUME SoundInv, PeriodInv, [Next]_vars PROVE PeriodInv'
  OBVIOUS
<1>0. vault \in VaultState
  BY DEF SoundInv, TypeOK
<1>1. CASE Tick
  <2>1. daa \in Nat /\ daa' = daa + 1 /\ vault' = vault /\ epoch' = epoch
    BY <1>1 DEF Tick, SoundInv, TypeOK
  <2>2. SUFFICES ASSUME NEW a \in Agents, vault.agentRoot[a] # NoLeaf
                 PROVE  Accounted(vault.agentRoot[a], epoch[a], daa + 1)
    BY <2>1 DEF PeriodInv
  <2>3. vault.agentRoot[a] \in Leaf /\ vault.agentRoot[a].periodStart \in Nat
    BY <1>0, <2>2 DEF VaultState, Root, Leaf
  <2>4. Accounted(vault.agentRoot[a], epoch[a], daa)
    BY <2>2 DEF PeriodInv
  <2>. QED  BY <2>1, <2>3, <2>4 DEF Accounted
<1>2. CASE AgentStep
  BY <1>2, PeriodAgentSpend DEF AgentStep
<1>3. CASE \E root \in OwnerRoots : SetAgentRoot(root)
  BY <1>3, PeriodSetAgentRoot
<1>4. ASSUME NEW approvers \in [Slots -> Keys \cup {NoKey}],
             NEW m \in 0..Cardinality(Slots), SetApprovers(approvers, m)
      PROVE  PeriodInv'
  BY <1>0, <1>4, PeriodOtherOwner
     DEF SetApprovers, OwnerControl, Continue, VaultState
<1>5. ASSUME NEW amount \in Amounts, TopUp(amount) \/ TopUpReserve(amount)
      PROVE  PeriodInv'
  BY <1>0, <1>5, PeriodOtherOwner
     DEF TopUp, TopUpReserve, OwnerControl, Continue, VaultState
<1>6. CASE Pause \/ Unpause
  BY <1>0, <1>6, PeriodOtherOwner
     DEF Pause, Unpause, OwnerControl, Continue, VaultState
<1>7. CASE OwnerRecover
  BY <1>7, PeriodOtherOwner DEF OwnerRecover
<1>8. CASE UNCHANGED vars
  BY <1>8, PeriodOtherOwner DEF vars
<1>. QED  BY <1>1, <1>2, <1>3, <1>4, <1>5, <1>6, <1>7, <1>8
             DEF Next, OwnerStep

\* PeriodInv bounds what was paid.
LEMMA PeriodBound == SoundInv /\ PeriodInv => BudgetPerPeriodBegun
<1>. SUFFICES ASSUME SoundInv, PeriodInv, NEW a \in Agents,
                     vault.agentRoot[a] # NoLeaf
              PROVE  epoch[a].paid <= (1 + PeriodsPassed(a))
                                      * vault.agentRoot[a].periodBudget
  BY DEF BudgetPerPeriodBegun
<1>1. /\ vault.agentRoot[a] \in Leaf /\ daa \in Nat
      /\ epoch[a] \in [paid: Nat, start: Nat, begun: Nat]
  BY DEF SoundInv, TypeOK, VaultState, Root, Epoch
<1>2. Accounted(vault.agentRoot[a], epoch[a], daa)
  BY DEF PeriodInv
<1>. QED  BY <1>1, <1>2, AccountedBound DEF PeriodsPassed

\* An agent never draws more than one budget per period its clock has begun,
\* whatever elapsed periods it claims in however many transactions.
THEOREM BudgetBounded == Spec => []BudgetPerPeriodBegun
BY SoundInit, SoundNext, PeriodInit, PeriodNext, PeriodBound, PTL DEF Spec

-----------------------------------------------------------------------------
\* The rules that the covenant lays on its transactions: fees, approvals, the
\* approver set and the pause.  They rest on SoundInv, and on what a spend or
\* an owner operation leaves of the covenant state.

\* What a spend leaves of the state, and what it records.
LEMMA SpendEffect ==
  ASSUME SoundInv, NEW a \in Agents, NEW pay \in Amounts,
         NEW k \in 0..MaxPeriodsElapsed, NEW consumed \in 0..vault.feeReserve,
         NEW net \in WalletNets, NEW lockTime \in 0..daa,
         NEW signers \in SUBSET Keys,
         AgentSpend(a, pay, k, consumed, net, lockTime, signers)
  PROVE  /\ vault'.approvers = vault.approvers
         /\ vault'.approvalM = vault.approvalM
         /\ vault'.agentRoot[a].approvalThreshold
              = vault.agentRoot[a].approvalThreshold
         /\ lastTx' = [op |-> "agentSpend", agent |-> a, pay |-> pay,
                       net |-> net, signers |-> signers]
<1>. DEFINE leaf == vault.agentRoot[a]
            new  == [vault EXCEPT !.protectedValue = @ - pay,
                                  !.feeReserve = @ - consumed,
                                  !.agentRoot[a] = SpentLeaf(leaf, pay, k)]
<1>1. vault \in VaultState /\ pay \in Nat /\ k \in Nat
  BY AmountAssumption DEF SoundInv, TypeOK
<1>2. leaf \in Leaf
  BY <1>1 DEF AgentSpend, MaySpend, VaultState, Root
<1>3. SpentLeaf(leaf, pay, k).approvalThreshold = leaf.approvalThreshold
  BY <1>1, <1>2, SpentLeafType
<1>4. /\ vault' = new
      /\ lastTx' = [op |-> "agentSpend", agent |-> a, pay |-> pay,
                    net |-> net, signers |-> signers]
  BY DEF AgentSpend, Continue
<1>5. /\ new.approvers = vault.approvers
      /\ new.approvalM = vault.approvalM
      /\ new.agentRoot[a] = SpentLeaf(leaf, pay, k)
  <2>1. vault.agentRoot \in [Agents -> Leaf \cup {NoLeaf}]
    BY <1>1 DEF VaultState, Root
  <2>. QED  BY <1>1, <2>1 DEF VaultState
<1>. QED  BY <1>3, <1>4, <1>5

\* No operation of the owner is a spend.
LEMMA OwnerTxOp == ASSUME OwnerStep PROVE lastTx'.op # "agentSpend"
<1>1. ASSUME NEW new, NEW deposit, OwnerControl(new, deposit)
      PROVE  lastTx'.op # "agentSpend"
  <2>1. lastTx' = [op |-> "ownerControl"]
    BY <1>1 DEF OwnerControl
  <2>. QED  BY <2>1
<1>2. ASSUME OwnerRecover PROVE lastTx'.op # "agentSpend"
  BY <1>2 DEF OwnerRecover
<1>. QED  BY <1>1, <1>2, Zenon
          DEF OwnerStep, SetAgentRoot, SetApprovers, TopUp, TopUpReserve, Pause, Unpause

-----------------------------------------------------------------------------
\* The fee of a spend is what the wallet put in plus what left the reserve.
LEMMA NetOfSpend ==
  ASSUME SoundInv, NEW a \in Agents, NEW pay \in Amounts,
         NEW k \in 0..MaxPeriodsElapsed, NEW consumed \in 0..vault.feeReserve,
         NEW net \in WalletNets, NEW lockTime \in 0..daa,
         NEW signers \in SUBSET Keys,
         AgentSpend(a, pay, k, consumed, net, lockTime, signers)
  PROVE  net >= 0
<1>. DEFINE leaf == vault.agentRoot[a]
            new  == [vault EXCEPT !.protectedValue = @ - pay,
                                  !.feeReserve = @ - consumed,
                                  !.agentRoot[a] = SpentLeaf(leaf, pay, k)]
            fee  == TxFee(utxoValue, net, pay + new.protectedValue + new.feeReserve)
<1>1. /\ vault \in VaultState
      /\ vault.protectedValue \in Int /\ vault.feeReserve \in Int
      /\ pay \in Nat /\ net \in Int /\ consumed \in Int
  BY AmountAssumption DEF SoundInv, TypeOK, VaultState
<1>2. utxoValue = vault.protectedValue + vault.feeReserve
  BY DEF SoundInv, Conservation, AgentSpend
<1>3. /\ new.protectedValue = vault.protectedValue - pay
      /\ new.feeReserve = vault.feeReserve - consumed
  BY <1>1 DEF VaultState
<1>4. consumed <= fee
  BY DEF AgentSpend, RequireFeeAndPrincipal
<1>5. fee = net + consumed
  <2>. HIDE DEF new
  <2>. QED  BY <1>1, <1>2, <1>3 DEF TxFee
<1>. QED  BY <1>1, <1>4, <1>5

\* Every spend records a fee that the reserve covers.
LEMMA FeesNext == SoundInv /\ ReserveOnlyPaysFees /\ [Next]_vars => ReserveOnlyPaysFees'
<1>. SUFFICES ASSUME SoundInv, ReserveOnlyPaysFees, [Next]_vars
              PROVE  ReserveOnlyPaysFees'
  OBVIOUS
<1>1. CASE Tick \/ UNCHANGED vars
  BY <1>1 DEF Tick, vars, ReserveOnlyPaysFees
<1>2. CASE AgentStep
  <2>1. PICK a \in Agents, pay \in Amounts, k \in 0..MaxPeriodsElapsed,
             consumed \in 0..vault.feeReserve, net \in WalletNets,
             lockTime \in 0..daa, signers \in SUBSET Keys :
               AgentSpend(a, pay, k, consumed, net, lockTime, signers)
    BY <1>2 DEF AgentStep
  <2>. QED  BY <2>1, SpendEffect, NetOfSpend DEF ReserveOnlyPaysFees
<1>3. CASE OwnerStep
  BY <1>3, OwnerTxOp DEF ReserveOnlyPaysFees
<1>. QED  BY <1>1, <1>2, <1>3 DEF Next

\* What leaves the reserve is paid as a network fee: the other inputs and
\* outputs of a spend never end up with more than they brought.
THEOREM FeesFromReserveOnly == Spec => []ReserveOnlyPaysFees
<1>1. Init => ReserveOnlyPaysFees
  BY DEF Init, ReserveOnlyPaysFees
<1>. QED  BY <1>1, SoundInit, SoundNext, FeesNext, PTL DEF Spec

-----------------------------------------------------------------------------
\* The contract counts slots; with distinct keys that is a count of keys.
LEMMA SlotsAreKeys ==
  ASSUME NEW v, v.approvers \in [Slots -> Keys \cup {NoKey}],
         DistinctActive(v.approvers), NEW signers \in SUBSET Keys
  PROVE  CountApprovals(v, signers)
           <= Cardinality(signers \cap {v.approvers[s] : s \in ActiveSlots(v)})
<1>. DEFINE S == {s \in ActiveSlots(v) : v.approvers[s] \in signers}
            T == signers \cap {v.approvers[s] : s \in ActiveSlots(v)}
            f == [s \in S |-> v.approvers[s]]
<1>1. IsFiniteSet(T)
  BY FiniteAssumption, FS_Subset
<1>2. f \in [S -> T]
  OBVIOUS
<1>3. \A s, t \in S : f[s] = f[t] => s = t
  BY DEF ActiveSlots, DistinctActive
<1>4. f \in Injection(S, T)
  BY <1>2, <1>3 DEF Injection, IsInjective
<1>. HIDE DEF f, S, T
<1>5. Cardinality(S) <= Cardinality(T)
  BY <1>1, <1>4, FS_Injection
<1>. QED  BY <1>5 DEF S, T, CountApprovals

\* Every spend above the threshold counts different approver keys.
LEMMA QuorumNext == SoundInv /\ ApprovalQuorum /\ [Next]_vars => ApprovalQuorum'
<1>. SUFFICES ASSUME SoundInv, ApprovalQuorum, [Next]_vars
              PROVE  ApprovalQuorum'
  OBVIOUS
<1>1. CASE Tick \/ UNCHANGED vars
  BY <1>1 DEF Tick, vars, ApprovalQuorum, ActiveSlots
<1>2. CASE AgentStep
  <2>1. PICK a \in Agents, pay \in Amounts, k \in 0..MaxPeriodsElapsed,
             consumed \in 0..vault.feeReserve, net \in WalletNets,
             lockTime \in 0..daa, signers \in SUBSET Keys :
               AgentSpend(a, pay, k, consumed, net, lockTime, signers)
    BY <1>2 DEF AgentStep
  <2>2. /\ vault'.approvers = vault.approvers
        /\ vault'.approvalM = vault.approvalM
        /\ vault'.agentRoot[a].approvalThreshold
             = vault.agentRoot[a].approvalThreshold
        /\ lastTx' = [op |-> "agentSpend", agent |-> a, pay |-> pay,
                      net |-> net, signers |-> signers]
    BY <2>1, SpendEffect
  <2>. DEFINE keys == {vault.approvers[s] : s \in ActiveSlots(vault)}
  <2>3. ASSUME pay > vault.agentRoot[a].approvalThreshold
        PROVE  /\ vault.approvalM >= 1
               /\ Cardinality(signers \cap keys) >= vault.approvalM
    <3>1. /\ RequireApproverSetWellFormed(vault)
          /\ RequireApprovals(vault, signers)
      BY <2>1, <2>3 DEF AgentSpend
    <3>2. vault.approvers \in [Slots -> Keys \cup {NoKey}] /\ vault.approvalM \in Nat
      BY DEF SoundInv, TypeOK, VaultState
    <3>3. CountApprovals(vault, signers) <= Cardinality(signers \cap keys)
      BY <3>1, <3>2, SlotsAreKeys DEF RequireApproverSetWellFormed
    <3>4. /\ IsFiniteSet(signers \cap keys)
          /\ IsFiniteSet({s \in ActiveSlots(vault) : vault.approvers[s] \in signers})
      BY FiniteAssumption, FS_Subset DEF ActiveSlots
    <3>5. /\ Cardinality(signers \cap keys) \in Nat
          /\ CountApprovals(vault, signers) \in Nat
      BY <3>4, FS_CardinalityType DEF CountApprovals
    <3>. HIDE DEF keys
    <3>. QED  BY <3>1, <3>2, <3>3, <3>5
              DEF RequireApproverSetWellFormed, RequireApprovals
  <2>4. {vault'.approvers[s] : s \in ActiveSlots(vault')} = keys
    BY <2>2 DEF ActiveSlots
  <2>. QED  BY <2>2, <2>3, <2>4 DEF ApprovalQuorum
<1>3. CASE OwnerStep
  BY <1>3, OwnerTxOp DEF ApprovalQuorum
<1>. QED  BY <1>1, <1>2, <1>3 DEF Next

\* A payment above the threshold of its agent carries the signatures of a real
\* quorum of different approver keys, whatever state the vault began in.
THEOREM LargeSpendsApproved == Spec => []ApprovalQuorum
<1>1. Init => ApprovalQuorum
  BY DEF Init, ApprovalQuorum
<1>. QED  BY <1>1, SoundInit, SoundNext, QuorumNext, PTL DEF Spec

-----------------------------------------------------------------------------
\* Whether the tier is sound depends on the slots and the quorum alone.
LEMMA TierFrame ==
  ASSUME vault'.approvers = vault.approvers, vault'.approvalM = vault.approvalM
  PROVE  ApproverTierSound(vault)' <=> ApproverTierSound(vault)
BY DEF ApproverTierSound, RequireApproverSetWellFormed, ActiveSlots

\* Only setApprovers changes the tier, and it checks the one it writes.
LEMMA TierNext ==
  SoundInv /\ [Next]_vars /\ ApproverTierSound(vault) => ApproverTierSound(vault)'
<1>. SUFFICES ASSUME SoundInv, [Next]_vars, ApproverTierSound(vault)
              PROVE  ApproverTierSound(vault)'
  OBVIOUS
<1>0. vault \in VaultState
  BY DEF SoundInv, TypeOK
<1>1. CASE Tick \/ OwnerRecover \/ UNCHANGED vars
  BY <1>1, TierFrame DEF Tick, OwnerRecover, vars
<1>2. CASE AgentStep
  BY <1>2, SpendEffect, TierFrame DEF AgentStep
<1>3. ASSUME NEW root \in OwnerRoots, SetAgentRoot(root)
      PROVE  ApproverTierSound(vault)'
  BY <1>0, <1>3, TierFrame DEF SetAgentRoot, OwnerControl, Continue, VaultState
<1>4. ASSUME NEW approvers \in [Slots -> Keys \cup {NoKey}],
             NEW m \in 0..Cardinality(Slots), SetApprovers(approvers, m)
      PROVE  ApproverTierSound(vault)'
  <2>. DEFINE new == [vault EXCEPT !.approvers = approvers, !.approvalM = m,
                                   !.policyNonce = @ + 1]
  <2>1. /\ m >= 1 /\ m <= Cardinality(ActiveSlots(new))
        /\ DistinctActive(approvers)
        /\ vault' = new
    BY <1>4 DEF SetApprovers, OwnerControl, Continue
  <2>2. new.approvers = approvers /\ new.approvalM = m
    BY <1>0 DEF VaultState
  <2>. HIDE DEF new
  <2>. QED  BY <2>1, <2>2 DEF ApproverTierSound, RequireApproverSetWellFormed, ActiveSlots
<1>5. ASSUME NEW amount \in Amounts, TopUp(amount) \/ TopUpReserve(amount)
      PROVE  ApproverTierSound(vault)'
  BY <1>0, <1>5, TierFrame
     DEF TopUp, TopUpReserve, OwnerControl, Continue, VaultState
<1>6. CASE Pause \/ Unpause
  BY <1>0, <1>6, TierFrame DEF Pause, Unpause, OwnerControl, Continue, VaultState
<1>. QED  BY <1>1, <1>2, <1>3, <1>4, <1>5, <1>6 DEF Next, OwnerStep

\* A quorum that distinct keys can meet stays one that distinct keys can meet.
THEOREM TierStaysSound == Spec => ApproverTierStaysSound
<1>1. SoundInv /\ [Next]_vars =>
        [ApproverTierSound(vault) => ApproverTierSound(vault')]_vault
  BY TierNext
<1>. QED  BY <1>1, SoundInit, SoundNext, PTL DEF Spec, ApproverTierStaysSound

-----------------------------------------------------------------------------
\* A paused covenant takes no spend, and the owner only adds principal.
LEMMA PauseNext ==
  ASSUME SoundInv, [Next]_vars, vault.paused = 1
  PROVE  /\ vault'.protectedValue >= vault.protectedValue
         /\ \/ vault'.agentRoot = vault.agentRoot
            \/ vault'.policyNonce = vault.policyNonce + 1
<1>0. vault \in VaultState /\ vault.protectedValue \in Int
  BY DEF SoundInv, TypeOK, VaultState
<1>1. CASE Tick \/ OwnerRecover \/ UNCHANGED vars
  BY <1>0, <1>1 DEF Tick, OwnerRecover, vars
<1>2. CASE AgentStep
  BY <1>2 DEF AgentStep, AgentSpend, MaySpend
<1>3. CASE \E root \in OwnerRoots : SetAgentRoot(root)
  BY <1>0, <1>3 DEF SetAgentRoot, OwnerControl, Continue, VaultState
<1>4. CASE \E approvers \in [Slots -> Keys \cup {NoKey}],
              m \in 0..Cardinality(Slots) : SetApprovers(approvers, m)
  BY <1>0, <1>4 DEF SetApprovers, OwnerControl, Continue, VaultState
<1>5. CASE \E amount \in Amounts : TopUp(amount) \/ TopUpReserve(amount)
  BY <1>0, <1>5, AmountAssumption
     DEF TopUp, TopUpReserve, OwnerControl, Continue, VaultState
<1>6. CASE Pause \/ Unpause
  BY <1>0, <1>6 DEF Pause, Unpause, OwnerControl, Continue, VaultState
<1>. QED  BY <1>1, <1>2, <1>3, <1>4, <1>5, <1>6 DEF Next, OwnerStep

\* While the vault is paused its principal does not shrink and no agent moves
\* its own leaf.
THEOREM PauseHolds == Spec => PauseFreezesPrincipal
<1>1. SoundInv /\ [Next]_vars =>
        [vault.paused = 1 =>
           /\ vault'.protectedValue >= vault.protectedValue
           /\ vault'.agentRoot = vault.agentRoot
                \/ vault'.policyNonce = vault.policyNonce + 1]_vault
  BY PauseNext
<1>. QED  BY <1>1, SoundInit, SoundNext, PTL DEF Spec, PauseFreezesPrincipal
=============================================================================
