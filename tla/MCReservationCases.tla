------------------------- MODULE MCReservationCases -------------------------
(***************************************************************************)
(* BudgetReservation in two cases, chosen in the initial state: a stale     *)
(* lock is reclaimed by one build at a time and the manifest stands still   *)
(* under a build, or neither.                                              *)
(***************************************************************************)
EXTENDS MCBudgetReservation

VARIABLE kept \* the first case

caseVars == <<kept, vars>>

\* The second case, of payments of one amount, two of which are too many.
AnyCase == INSTANCE BudgetReservation
             WITH AtomicReclaim <- FALSE, Overtaken <- TRUE, Pays <- {2}

MCInit == kept \in BOOLEAN /\ Init

MCNext ==
  /\ UNCHANGED kept
  /\ \/ kept /\ Next
     \/ ~kept /\ AnyCase!Next

MCSpec == MCInit /\ [][MCNext]_caseVars

\* "concurrent builds can no longer optimistically over-commit the period
\* budget", through every crash, where the lock and the manifest keep to their
\* part.
KeptNoOverCommit == kept => NoOverCommit
=============================================================================
