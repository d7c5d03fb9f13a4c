--------------------------- MODULE AgentMerkleV4 ---------------------------
(***************************************************************************)
(* The Merkle tree of agent policies that agentRoot commits to: built by   *)
(* the SDK (core/model/agent-merkle-v4.js), walked by the covenant         *)
(* (computeMerkleRoot in contracts/PolicyVault.v0.4.1.sil).  PolicyVaultV4 *)
(* takes the root for the function it commits to; this module says why it  *)
(* may.                                                                    *)
(*                                                                         *)
(* SHA-256 is a free constructor: a hash is the term it was computed from, *)
(* so two hashes are equal only when their preimages are.  Of a policy     *)
(* only the agent key and the accounting (periodSpent, a counter here)     *)
(* matter to the tree.  A spender offers any leaf preimage under its key   *)
(* and any co-path made of nodes it can know.                              *)
(***************************************************************************)
EXTENDS Integers, SequencesExt

CONSTANTS
  MaxAgents,    \* agents 1..MaxAgents in the order of their keys
  Budget,       \* periodBudget, in payments of one unit
  MaxProofDepth \* MAX_AGENT_DEPTH (12)

ASSUME MerkleAssumption == /\ MaxAgents \in Nat \ {0}
                           /\ Budget \in Nat
                           /\ MaxProofDepth \in Nat

Agents == 1..MaxAgents
Absent == -1

VARIABLES
  root,     \* the committed agentRoot
  registry, \* the SDK's agent set: spent so far, or Absent
  paid      \* history: payments of an agent since the owner wrote its leaf

vars == <<root, registry, paid>>

-----------------------------------------------------------------------------
\* Terms.  A policy leaf has 124 bytes under its own domain, the padding
\* leaf 4, an inner node 64: no preimage of one kind is one of another.
PolicyLeaf(a, spent) == <<"leaf", a, spent>>
PaddingLeaf == <<"padding">>
Node(left, right) == <<"node", left, right>>

\* The nodes of a term, what any holder of the tree knows.
Terms(height, term) ==
  LET below[h \in 0..height] ==
        IF h = 0 THEN {term}
        ELSE below[h - 1] \cup
             UNION {{t[2], t[3]} : t \in {u \in below[h - 1] : u[1] = "node"}}
  IN below[height]

-----------------------------------------------------------------------------
\* buildAgentTreeV4.

\* The powers of two, by doubling.
Power[d \in 0..MaxAgents] == IF d = 0 THEN 1 ELSE 2 * Power[d - 1]

Powers == {Power[d] : d \in 0..MaxAgents}

\* The least power of two that holds n leaves (1 for none).
Width(n) == CHOOSE w \in Powers : w >= n /\ \A v \in Powers : v >= n => w <= v

\* Fault: the last leaf fills the level, as in the recipient trees.
DuplicateLast(leaves) ==
  [i \in 1..Width(Len(leaves)) |->
     IF i <= Len(leaves) THEN leaves[i]
     ELSE IF leaves = <<>> THEN PaddingLeaf ELSE leaves[Len(leaves)]]

Padded(leaves) ==
  [i \in 1..Width(Len(leaves)) |->
     IF i <= Len(leaves) THEN leaves[i] ELSE PaddingLeaf]

Present(reg) == {a \in Agents : reg[a] # Absent}

\* The present agents, ascending by key.
Sorted(reg) == CHOOSE s \in SetToSeqs(Present(reg)) :
                 \A i, j \in DOMAIN s : i < j => s[i] < s[j]

LeafLevel(reg) ==
  LET order == Sorted(reg)
  IN Padded([i \in 1..Len(order) |-> PolicyLeaf(order[i], reg[order[i]])])

Levels(reg) ==
  LET level[d \in 0..MaxAgents] ==
        IF d = 0 THEN LeafLevel(reg)
        ELSE [i \in 1..(Len(level[d - 1]) \div 2) |->
                Node(level[d - 1][2 * i - 1], level[d - 1][2 * i])]
  IN level

Depth(reg) == CHOOSE d \in 0..MaxAgents : Power[d] = Len(LeafLevel(reg))

Root(reg) == Levels(reg)[Depth(reg)][1]

-----------------------------------------------------------------------------
\* generateAgentProofV4: siblings from leaf to root, and the bits that say on
\* which side of its sibling the node is.

\* What is left of n after 0..depth halvings: the place of a node at each level.
Halvings(n, depth) ==
  LET left[d \in 0..depth] == IF d = 0 THEN n ELSE left[d - 1] \div 2
  IN left

Index(reg, a) == CHOOSE i \in 1..Len(Sorted(reg)) : Sorted(reg)[i] = a

\* The sibling of the i-th node of a level, counted from 0.
Sibling(i) == IF i % 2 = 0 THEN i + 1 ELSE i - 1

\* Fault: the path bits are not recorded.
LeftmostProof(reg, a) ==
  LET at == Halvings(Index(reg, a) - 1, Depth(reg))
      level == Levels(reg)
  IN [siblings |-> [d \in 1..Depth(reg) |->
                      level[d - 1][Sibling(at[d - 1]) + 1]],
      bits |-> 0]

Proof(reg, a) ==
  LET at == Halvings(Index(reg, a) - 1, Depth(reg))
      level == Levels(reg)
  IN [siblings |-> [d \in 1..Depth(reg) |->
                      level[d - 1][Sibling(at[d - 1]) + 1]],
      bits |-> Index(reg, a) - 1]

\* foldLeafV4, computeMerkleRoot: a bit that is set puts the sibling on the left.
Walk(leaf, siblings, bits) ==
  LET left == Halvings(bits, Len(siblings))
      node[d \in 0..Len(siblings)] ==
        IF d = 0 THEN leaf
        ELSE IF left[d - 1] % 2 = 1 THEN Node(siblings[d], node[d - 1])
                                    ELSE Node(node[d - 1], siblings[d])
  IN node

\* The root of a leaf and a co-path, as a set that is empty when path bits are
\* left over.
Fold(leaf, siblings, bits) ==
  IF Halvings(bits, Len(siblings))[Len(siblings)] = 0
  THEN {Walk(leaf, siblings, bits)[Len(siblings)]} ELSE {}

\* requireAgentMembership, verifyAgentProofV4
Verifies(a, spent, siblings, bits) ==
  root \in Fold(PolicyLeaf(a, spent), siblings, bits)

-----------------------------------------------------------------------------
Init ==
  /\ registry \in [Agents -> {Absent, 0}]
  /\ root = Root(registry)
  /\ paid = [a \in Agents |-> 0]

\* agentSpend of one unit, by whoever signs with the key of a, with any leaf
\* preimage and co-path; applyAgentSpendV4 advances the SDK's own tree.
Spend(a, spent, siblings, bits) ==
  /\ spent + 1 <= Budget
  /\ Verifies(a, spent, siblings, bits)
  /\ root' = CHOOSE r \in Fold(PolicyLeaf(a, spent + 1), siblings, bits) : TRUE
  /\ registry' = [registry EXCEPT ![a] = @ + 1]
  /\ paid' = [paid EXCEPT ![a] = @ + 1]

\* Every owner edit is a canonical rebuild of the edited agent set.
Rebuild(reg) ==
  /\ registry' = reg
  /\ root' = Root(reg)
  /\ paid' = [a \in Agents |-> IF reg[a] = registry[a] THEN paid[a] ELSE 0]

AddAgent(a) ==
  /\ registry[a] = Absent
  /\ Rebuild([registry EXCEPT ![a] = 0])

RemoveAgent(a) ==
  /\ registry[a] # Absent
  /\ Rebuild([registry EXCEPT ![a] = Absent])

\* updateAgentPolicyV4 with its accounting reset
UpdateAgentPolicy(a) ==
  /\ registry[a] # Absent
  /\ Rebuild([registry EXCEPT ![a] = 0])

RotateAgent(a, b) ==
  /\ registry[a] # Absent /\ registry[b] = Absent
  /\ Rebuild([registry EXCEPT ![a] = Absent, ![b] = 0])

Siblings == SeqOf(Terms(Depth(registry), root) \cup {PaddingLeaf},
                  MaxProofDepth)

AgentStep ==
  \E a \in Agents, spent \in 0..(Budget - 1), siblings \in Siblings,
     bits \in 0..(2^MaxProofDepth - 1) : Spend(a, spent, siblings, bits)

OwnerStep ==
  \E a \in Agents :
    \/ AddAgent(a) \/ RemoveAgent(a) \/ UpdateAgentPolicy(a)
    \/ \E b \in Agents : RotateAgent(a, b)

Next == AgentStep \/ OwnerStep

Spec == Init /\ [][Next]_vars

-----------------------------------------------------------------------------
\* The root that consensus folds is the root the SDK rebuilds: the committed
\* tree and the registry never drift apart, whatever proofs were offered.
RootCommitsRegistry == root = Root(registry)

\* One key, one budget lane: no leaf or copy of a leaf lets an agent pay more
\* than the budget the owner wrote for it.
OneLanePerAgent == \A a \in Agents : paid[a] <= Budget

\* No registered agent is locked out: the proof the SDK generates for it is
\* one the covenant accepts.
ProofsVerify ==
  \A a \in Agents : registry[a] # Absent =>
    LET p == Proof(registry, a)
    IN Verifies(a, registry[a], p.siblings, p.bits)
=============================================================================
