------------------------------ MODULE OrgRootV7 ------------------------------
(***************************************************************************)
(* The organizational root of v0.7 (contracts/PolicyVault.v0.7-root.sil)    *)
(* and the vaults that have it for their owner (v0.7-kas.sil): an owner     *)
(* operation of a vault is valid in a transaction that also spends the      *)
(* root, and the vault tells which path the root took only from the bytes   *)
(* of the root's successor.                                                 *)
(*                                                                         *)
(* A transaction is one step: a path of the root, the keys that signed it,  *)
(* and an operation, or none, of every vault.  A signature commits to the   *)
(* transaction, so it counts in no other one; rootNonce, which every path   *)
(* advances by one, tells no two paths apart and is left out, and so is the *)
(* root's dust.  Of a vault its policy (agentRoot and approvers), its value *)
(* and the pause are kept; how agents spend is PolicyVaultV4's matter.      *)
(***************************************************************************)
EXTENDS Naturals, Sequences, FiniteSets, Functions

CONSTANTS
  Heads,           \* owner sets with their quorums, for a genesis or a path
  Successor,       \* successorPk, or NoKey
  RecoveryDelay,   \* recoveryDelayDaa
  SuccessionDelay, \* successionDelayDaa
  Vaults,
  Terms7,          \* policies of a vault
  MaxValue,        \* bound: value of a vault
  NoKey

ASSUME RootAssumption == /\ RecoveryDelay \in Nat
                         /\ SuccessionDelay \in Nat
                         /\ MaxValue \in Nat
                         /\ \A h \in Heads : h.owners \in Seq(Range(h.owners))

VARIABLES
  org,     \* the root: owners, ownerM, emergencyK, recoveryM and frozen
  idle,    \* its age, up to the longer delay
  vault,   \* the vaults: live, paused, terms and value
  signers  \* history: who signed for the root in the last step

rootVars == <<org, idle, vault, signers>>

MaxIdle == IF RecoveryDelay > SuccessionDelay THEN RecoveryDelay ELSE SuccessionDelay
Owners(head) == Range(head.owners)
Keys == UNION {Owners(h) : h \in Heads} \cup {Successor}

\* A root state as its head and its frozen byte.
RootOf(head, frozen) == [head |-> head, frozen |-> frozen]

\* requireWellFormed: the slots are contiguous by construction; distinct keys
\* and ordered quorums.  Consensus checks nothing of a genesis.
WellFormed(head) ==
  /\ Len(head.owners) >= 1
  /\ Cardinality(Owners(head)) = Len(head.owners)
  /\ head.ownerM \in 1..Len(head.owners)
  /\ head.emergencyK \in 1..head.ownerM
  /\ head.recoveryM \in 0..head.ownerM

RootInit ==
  /\ org \in {RootOf(h, FALSE) : h \in Heads}
  /\ idle = 0 /\ signers = {}
  /\ \E t \in Terms7 :
       vault = [v \in Vaults |-> [live |-> TRUE, paused |-> FALSE, terms |-> t, value |-> MaxValue]]

-----------------------------------------------------------------------------
\* countOwnerApprovals: every slot is verified against its own key.
Approvals(keys) == Cardinality({i \in DOMAIN org.head.owners : org.head.owners[i] \in keys})

Authorize(keys, next) ==
  /\ ~org.frozen /\ ~next.frozen
  /\ Approvals(keys) >= org.head.ownerM
  /\ next.head = org.head

Rotate(keys, next) ==
  /\ next.frozen = org.frozen
  /\ Approvals(keys) >= org.head.ownerM
  /\ WellFormed(next.head)

Freeze(keys, next) ==
  /\ ~org.frozen /\ next.frozen
  /\ Approvals(keys) >= org.head.emergencyK
  /\ next.head = org.head

Unfreeze(keys, next) ==
  /\ org.frozen /\ ~next.frozen
  /\ Approvals(keys) >= org.head.ownerM
  /\ next.head = org.head

\* Fault: a recovered set lands as it was, like a rotated one.
LandsAsItWas(next) == next.frozen = org.frozen

LandsFrozen(next) == next.frozen

OwnerRecover(keys, next) ==
  /\ org.head.recoveryM >= 1
  /\ idle >= RecoveryDelay
  /\ LandsFrozen(next)
  /\ Approvals(keys) >= org.head.recoveryM
  /\ WellFormed(next.head)

RootAction(keys, next) ==
  \/ Authorize(keys, next) \/ Rotate(keys, next) \/ Freeze(keys, next)
  \/ Unfreeze(keys, next) \/ OwnerRecover(keys, next)

\* A successor puts in its own first owner.
RootSuccession(keys, next) ==
  /\ Successor # NoKey /\ Successor \in keys
  /\ idle >= SuccessionDelay
  /\ WellFormed(next.head)
  /\ next.frozen
  /\ next.head.owners[1] # org.head.owners[1]

-----------------------------------------------------------------------------
\* requireRootAuthorization: the root was not frozen, and its successor has the
\* same head and the frozen byte that is asked for.
Pinned(next, frozen) == ~org.frozen /\ next = RootOf(org.head, frozen)

\* ownerControl, selectors 0 to 5.
OwnerControl(s) ==
  {[s EXCEPT !.terms = t] : t \in Terms7}
  \cup {[s EXCEPT !.value = n] : n \in (s.value + 1)..MaxValue}
  \cup {[s EXCEPT !.paused = ~@]}

\* Selector 6.
EmergencyPause(s) == IF s.paused THEN {} ELSE {[s EXCEPT !.paused = TRUE]}

\* ownerRecover pays everything out to recoveryPk and ends the vault.
Recovered(s) == [s EXCEPT !.live = FALSE, !.value = 0]

\* What may become of a vault in a transaction that takes the root to next; a
\* vault that is not in it stays.
Effects(s, next) ==
  {s} \cup (IF s.live /\ Pinned(next, FALSE) THEN OwnerControl(s) \cup {Recovered(s)} ELSE {})
      \cup (IF s.live /\ Pinned(next, TRUE) THEN EmergencyPause(s) ELSE {})

SpendRoot(keys, next) ==
  /\ WellFormed(org.head)
  /\ RootAction(keys, next) \/ RootSuccession(keys, next)
  /\ org' = next /\ idle' = 0 /\ signers' = keys
  /\ vault' \in [Vaults -> UNION {Effects(vault[v], next) : v \in Vaults}]
  /\ \A v \in Vaults : vault'[v] \in Effects(vault[v], next)

\* agentSpend: no root, and no other covenant, is in its transaction.
AgentSpends(v) ==
  /\ vault[v].live /\ ~vault[v].paused /\ vault[v].value > 0
  /\ \E n \in 0..(vault[v].value - 1) : vault' = [vault EXCEPT ![v].value = n]
  /\ signers' = {} /\ UNCHANGED <<org, idle>>

Age == idle < MaxIdle /\ idle' = idle + 1 /\ signers' = {} /\ UNCHANGED <<org, vault>>

RootNext ==
  \/ \E keys \in SUBSET Keys, h \in Heads, frozen \in BOOLEAN : SpendRoot(keys, RootOf(h, frozen))
  \/ \E v \in Vaults : AgentSpends(v)
  \/ Age

RootSpec == RootInit /\ [][RootNext]_rootVars

-----------------------------------------------------------------------------
\* A vault stays, or an agent spent of it, or enough owners signed.
RuledByQuorum(v) ==
  LET by == Cardinality(Owners(org.head) \cap signers')
      agents == /\ org' = org
                /\ \E n \in 0..vault[v].value : vault'[v] = [vault[v] EXCEPT !.value = n]
      pause == vault'[v] = [vault[v] EXCEPT !.paused = TRUE]
  IN vault'[v] # vault[v] /\ ~agents =>
       \/ by >= org.head.ownerM
       \/ pause /\ by >= org.head.emergencyK
       \/ pause /\ idle >= RecoveryDelay /\ by >= org.head.recoveryM

\* Without an owner key of its own, a vault is still ruled by the quorum of its
\* organization: what an owner may do to it, no agent being able to, happens
\* only under a full quorum of distinct present owners, whichever path the root
\* took; a pause also under the emergency quorum, or by the recovery quorum of
\* a root that nobody touched for the recovery delay.
QuorumRulesVaults == [][\A v \in Vaults : RuledByQuorum(v)]_rootVars
=============================================================================
