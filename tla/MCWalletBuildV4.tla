-------------------------- MODULE MCWalletBuildV4 --------------------------
(***************************************************************************)
(* Constants of the model-checking run of WalletBuildV4: three scenarios,  *)
(* one of which a behaviour follows.                                       *)
(***************************************************************************)
EXTENDS WalletBuildV4, TLC

CONSTANTS r1

\* Payments above 1 need approvals; a period of 2 leaves a window of 1 with
\* a margin of 1 and a floor of 1.
TierLeaf == [maxPerSpend |-> 2, periodBudget |-> 2, periodLength |-> 2,
             periodStart |-> 0, periodSpent |-> 0, approvalThreshold |-> 1,
             maxFee |-> 1, recipients |-> {r1}]
FreeLeaf == [TierLeaf EXCEPT !.approvalThreshold = 2]
Anchored ==
  {[leaf EXCEPT !.periodStart = d] : leaf \in {TierLeaf, FreeLeaf}, d \in 0..MaxDaa}

\* Two agents spend while the owner edits the tree.
Edits == [agents |-> Agents, keys |-> {}, leaves |-> {FreeLeaf},
          fees |-> {0}, menu |-> {"agentSpend", "ownerSetAgentRoot"}, daa |-> 2]

\* Lock times, anchors, late confirmations, fees; unpause and recovery.
Timing(a) == [agents |-> {a}, keys |-> {}, leaves |-> {FreeLeaf}, fees |-> {1},
           menu |-> {"agentSpend", "ownerSetAgentRoot", "ownerPause",
                     "ownerUnpause", "ownerTopUpReserve", "ownerRecover"},
           daa |-> 3]

\* Payments above the threshold while the owner changes the approver set,
\* deposits.
Approvals(a) == [agents |-> {a}, keys |-> Keys, leaves |-> {TierLeaf},
              fees |-> {0}, daa |-> 0,
              menu |-> {"agentSpend", "ownerSetApprovers", "ownerTopUp"}]

ThreeScenarios == {Edits} \cup UNION {{Timing(a), Approvals(a)} : a \in Agents}
Nets == 0..1

\* No definition tells two agents, or two approver keys, apart.
Symmetry == Permutations(Agents) \cup Permutations(Keys)
=============================================================================
