-------------------------- MODULE MCPolicyVaultV4 --------------------------
(***************************************************************************)
(* Constants of the model-checking runs of PolicyVaultV4.                  *)
(***************************************************************************)
EXTENDS PolicyVaultV4

CONSTANTS r1

\* Payments above 1 need approvals, and a leaf that starts later and is
\* already overspent (normalizeAgentPolicyV4 does not reject it).
TieredLeaf == [maxPerSpend |-> 2, periodBudget |-> 2, periodLength |-> 2,
               periodStart |-> 0, periodSpent |-> 0, approvalThreshold |-> 1,
               maxFee |-> 1, recipients |-> {r1}]
LateLeaf == [TieredLeaf EXCEPT !.periodStart = 1, !.periodSpent = 3,
                               !.periodLength = 1]
TieredLeaves == {TieredLeaf, LateLeaf}

\* The fee wallet breaks even, or gains or loses 1.
Nets == -1..1
=============================================================================
