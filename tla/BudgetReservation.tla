------------------------- MODULE BudgetReservation -------------------------
(***************************************************************************)
(* The reservations that keep concurrent builds of one agent's spends from *)
(* promising the same period budget twice (sdk/src/budget-reservation.js,  *)
(* called by buildWalletRequestV4, finalizeWalletRequestV4 and the submit  *)
(* pipeline).                                                              *)
(*                                                                         *)
(* A process per build request.  Every await of the code is a boundary     *)
(* between two steps here, except that listing and reading the records is  *)
(* one step, and so is one iteration of the sweep.  A record of the store  *)
(* is an entry of resv, the per-vault lock record is lock; createExclusive *)
(* and remove are atomic in both store backends.  Time is abstract: a lock *)
(* or a reservation gets stale only when its holder has crashed, so no     *)
(* step of this module is a timeout that fired too early.                  *)
(***************************************************************************)
EXTENDS Integers, FiniteSetsExt

CONSTANTS
  Requests,   \* build requests of one agent of one vault
  Budget,     \* periodBudget
  Pays,       \* amounts
  NoLock, NoResv, NoBuild,
  Crashes,    \* BOOLEAN: a building process may die between two awaits
  AtomicReclaim, \* BOOLEAN: a stale lock is read and removed by one build at a time
  Overtaken,  \* BOOLEAN: the manifest may advance while a build is underway
  MaxOutpoint \* bound: transitions of the vault

ASSUME ReservationAssumption == /\ Budget \in Nat
                                /\ Pays \subseteq Nat \ {0}
                                /\ Crashes \in BOOLEAN
                                /\ AtomicReclaim \in BOOLEAN
                                /\ Overtaken \in BOOLEAN
                                /\ MaxOutpoint \in Nat

VARIABLES
  manifest, \* the live outpoint and the agent's period accounting there
  lock,     \* the admission lock record of the vault
  resv,     \* the reservation record of each request
  saved,    \* the state of each durable request record
  pc,       \* where each process is
  build,    \* what each process froze from the manifest it loaded
  todo,     \* the records a sweep has listed and not yet looked at
  sum       \* reservedSum of an admission

vars == <<manifest, lock, resv, saved, pc, build, todo, sum>>

\* Between loading the manifest and the decision.
Admitting == {"lock", "reclaim", "scan", "sweep"}
PCs == Admitting \cup {"idle", "admitted", "unlock", "refused", "unlockRefused",
                       "save", "open", "consume", "free", "done", "crashed"}
Manifest == [outpoint: Nat, window: Nat, spent: Nat]
Build == [outpoint: Nat, window: Nat, spent: Nat, pay: Pays]
Reservation == [outpoint: Nat, window: Nat, pay: Pays,
                status: {"ACTIVE", "CONSUMED"}, old: BOOLEAN]

\* Finitely many builds, and an absent record is no record.
ASSUME RecordAssumption == /\ IsFiniteSet(Requests)
                           /\ NoLock \notin [holder: Requests, stale: BOOLEAN]
                           /\ NoResv \notin Reservation
                           /\ NoBuild \notin Build

Init ==
  /\ manifest = [outpoint |-> 0, window |-> 0, spent |-> 0]
  /\ lock = NoLock
  /\ resv = [r \in Requests |-> NoResv]
  /\ saved = [r \in Requests |-> "none"]
  /\ pc = [r \in Requests |-> "idle"]
  /\ build = [r \in Requests |-> NoBuild]
  /\ todo = [r \in Requests |-> {}]
  /\ sum = [r \in Requests |-> 0]

Goto(r, from, to) == pc[r] = from /\ pc' = [pc EXCEPT ![r] = to]

-----------------------------------------------------------------------------
\* buildWalletRequestV4 of an agentSpend.

Current(r) == build[r].outpoint = manifest.outpoint

\* assertNoBlockingTransitionV4: a request that is past finalize, and its
\* transition claim, keep every other spend of the live outpoint out.
NothingPending ==
  \A q \in Requests : saved[q] = "PREFLIGHT_VERIFIED" => ~Current(q)

\* Load the manifest and freeze a build the single-spend rules accept.
LoadAndBuild(r, pay, k) ==
  LET before == IF k = 0 THEN manifest.spent ELSE 0
  IN /\ Goto(r, "idle", "lock")
     /\ NothingPending
     /\ before + pay <= Budget
     /\ build' = [build EXCEPT ![r] =
          [outpoint |-> manifest.outpoint, window |-> manifest.window + k,
           spent |-> before, pay |-> pay]]
     /\ UNCHANGED <<manifest, lock, resv, saved, todo, sum>>

\* Fault: the lock record is not taken at all.
LockIgnored(r) ==
  /\ Goto(r, "lock", "scan")
  /\ lock' = [holder |-> r, stale |-> FALSE]
  /\ UNCHANGED <<manifest, resv, saved, build, todo, sum>>

\* acquireAdmissionLock: create the lock record, or find it stale, or give
\* up after the last retry (RESERVATION_BUSY).
Lock(r) ==
  /\ Goto(r, "lock", "scan")
  /\ lock = NoLock
  /\ lock' = [holder |-> r, stale |-> FALSE]
  /\ UNCHANGED <<manifest, resv, saved, build, todo, sum>>

SeeStaleLock(r) ==
  /\ Goto(r, "lock", "reclaim")
  /\ lock # NoLock /\ lock.stale
  /\ AtomicReclaim => \A q \in Requests : pc[q] # "reclaim"
  /\ UNCHANGED <<manifest, lock, resv, saved, build, todo, sum>>

GiveUp(r) ==
  /\ Goto(r, "lock", "refused")
  /\ lock # NoLock
  /\ UNCHANGED <<manifest, lock, resv, saved, build, todo, sum>>

\* The stale record was read before; what is removed is what is there now.
Reclaim(r) ==
  /\ Goto(r, "reclaim", "lock")
  /\ lock' = NoLock
  /\ UNCHANGED <<manifest, resv, saved, build, todo, sum>>

\* readScopeReservations
Scan(r) ==
  /\ Goto(r, "scan", "sweep")
  /\ todo' = [todo EXCEPT ![r] =
       {[id |-> q, rec |-> resv[q]] : q \in {p \in Requests : resv[p] # NoResv}}]
  /\ sum' = [sum EXCEPT ![r] = 0]
  /\ UNCHANGED <<manifest, lock, resv, saved, build>>

\* Fault: a reservation that is already CONSUMED is taken for finished.
SweepConsumed(r, q, rec) ==
  \/ rec.outpoint # build[r].outpoint
  \/ saved[q] = "DEAD"
  \/ rec.status = "CONSUMED" \/ rec.old

\* sweepScope: a record of another context than this build's, of a dead
\* request, or of a build that crashed before its request was durable.
Sweepable(r, q, rec) ==
  \/ rec.outpoint # build[r].outpoint
  \/ saved[q] = "DEAD"
  \/ (saved[q] = "none" /\ rec.status = "ACTIVE" /\ rec.old)

Sweep(r) ==
  /\ pc[r] = "sweep"
  /\ \E item \in todo[r] :
       /\ todo' = [todo EXCEPT ![r] = @ \ {item}]
       /\ \/ /\ Sweepable(r, item.id, item.rec)
             /\ resv' = [resv EXCEPT ![item.id] = NoResv]
             /\ UNCHANGED sum
          \/ /\ ~Sweepable(r, item.id, item.rec)
             /\ sum' = [sum EXCEPT ![r] =
                  IF item.rec.window = build[r].window
                  THEN @ + item.rec.pay ELSE @]
             /\ UNCHANGED resv
  /\ UNCHANGED <<manifest, lock, saved, pc, build>>

\* Fault: the sum leaves out the payment that asks for admission.
FitsBefore(r) == build[r].spent + sum[r] <= Budget

Fits(r) == build[r].spent + build[r].pay + sum[r] <= Budget

Admit(r) ==
  /\ Goto(r, "sweep", "admitted")
  /\ todo[r] = {} /\ Fits(r)
  /\ resv' = [resv EXCEPT ![r] =
       [outpoint |-> build[r].outpoint, window |-> build[r].window,
        pay |-> build[r].pay, status |-> "ACTIVE", old |-> FALSE]]
  /\ UNCHANGED <<manifest, lock, saved, build, todo, sum>>

\* BUDGET_RESERVED_EXCEEDED
Refuse(r) ==
  /\ Goto(r, "sweep", "unlockRefused")
  /\ todo[r] = {} /\ ~Fits(r)
  /\ UNCHANGED <<manifest, lock, resv, saved, build, todo, sum>>

\* releaseAdmissionLock: read the holder, then remove the record.
ReadOwnLock(r) ==
  /\ Goto(r, "admitted",
          IF lock # NoLock /\ lock.holder = r THEN "unlock" ELSE "save")
  /\ UNCHANGED <<manifest, lock, resv, saved, build, todo, sum>>

Unlock(r) ==
  /\ Goto(r, "unlock", "save")
  /\ lock' = NoLock
  /\ UNCHANGED <<manifest, resv, saved, build, todo, sum>>

\* The same release after a refusal, its two awaits in one step.
UnlockRefused(r) ==
  /\ Goto(r, "unlockRefused", "refused")
  /\ lock' = IF lock # NoLock /\ lock.holder = r THEN NoLock ELSE lock
  /\ UNCHANGED <<manifest, resv, saved, build, todo, sum>>

\* saveRequest; when it fails the reservation is released.
Save(r) ==
  /\ Goto(r, "save", "open")
  /\ saved' = [saved EXCEPT ![r] = "BUILT"]
  /\ UNCHANGED <<manifest, lock, resv, build, todo, sum>>

SaveFails(r) ==
  /\ Goto(r, "save", "refused")
  /\ resv' = [resv EXCEPT ![r] = NoResv]
  /\ UNCHANGED <<manifest, lock, saved, build, todo, sum>>

-----------------------------------------------------------------------------
\* The rest of a request's life.

\* finalizeWalletRequestV4: the transition claim admits one request per
\* outpoint; the reservation is consumed after the request is saved.
Finalize(r) ==
  /\ saved[r] = "BUILT" /\ Current(r)
  /\ NothingPending
  /\ Goto(r, "open", "consume")
  /\ saved' = [saved EXCEPT ![r] = "PREFLIGHT_VERIFIED"]
  /\ UNCHANGED <<manifest, lock, resv, build, todo, sum>>

Consume(r) ==
  /\ Goto(r, "consume", "open")
  /\ resv' = IF resv[r] = NoResv THEN resv
             ELSE [resv EXCEPT ![r].status = "CONSUMED"]
  /\ UNCHANGED <<manifest, lock, saved, build, todo, sum>>

\* Rejected by the wallet, failed at finalize, STALE, or rejected by the node
\* with the full proof.
Die(r) ==
  /\ saved[r] \in {"BUILT", "PREFLIGHT_VERIFIED"}
  /\ Goto(r, "open", "free")
  /\ saved' = [saved EXCEPT ![r] = "DEAD"]
  /\ UNCHANGED <<manifest, lock, resv, build, todo, sum>>

\* releaseReservationForRequest
Free(r) ==
  /\ Goto(r, "free", "done")
  /\ resv' = [resv EXCEPT ![r] = NoResv]
  /\ UNCHANGED <<manifest, lock, saved, build, todo, sum>>

MayAdvance ==
  /\ manifest.outpoint < MaxOutpoint
  /\ Overtaken \/ \A r \in Requests : pc[r] \notin Admitting

\* The spend is proven on chain and the manifest advances to its successor.
Confirm(r) ==
  /\ MayAdvance
  /\ saved[r] = "PREFLIGHT_VERIFIED" /\ Current(r)
  /\ Goto(r, "open", "free")
  /\ saved' = [saved EXCEPT ![r] = "CHAIN_VERIFIED"]
  /\ manifest' = [outpoint |-> manifest.outpoint + 1,
                  window |-> build[r].window,
                  spent |-> build[r].spent + build[r].pay]
  /\ UNCHANGED <<lock, resv, build, todo, sum>>

\* Another transition of the vault: an owner operation, another agent's spend.
AdvanceOther ==
  /\ MayAdvance
  /\ manifest' = [manifest EXCEPT !.outpoint = @ + 1]
  /\ UNCHANGED <<lock, resv, saved, pc, build, todo, sum>>

-----------------------------------------------------------------------------
\* A process dies; the records it left get stale with time.
Crash(r) ==
  /\ Crashes
  /\ pc[r] \in (PCs \ {"idle", "refused", "open", "done", "crashed"})
  /\ pc' = [pc EXCEPT ![r] = CASE pc[r] = "consume" -> "open"
                               [] pc[r] = "free" -> "done"
                               [] OTHER -> "crashed"]
  /\ UNCHANGED <<manifest, lock, resv, saved, build, todo, sum>>

LockAges ==
  /\ lock # NoLock /\ pc[lock.holder] = "crashed" /\ ~lock.stale
  /\ lock' = [lock EXCEPT !.stale = TRUE]
  /\ UNCHANGED <<manifest, resv, saved, pc, build, todo, sum>>

ReservationAges(r) ==
  /\ resv[r] # NoResv /\ pc[r] = "crashed" /\ ~resv[r].old
  /\ resv' = [resv EXCEPT ![r].old = TRUE]
  /\ UNCHANGED <<manifest, lock, saved, pc, build, todo, sum>>

Step(r) ==
  \/ \E pay \in Pays, k \in {0, 1} : LoadAndBuild(r, pay, k)
  \/ Lock(r) \/ SeeStaleLock(r) \/ GiveUp(r) \/ Reclaim(r)
  \/ Scan(r) \/ Sweep(r) \/ Admit(r) \/ Refuse(r)
  \/ ReadOwnLock(r) \/ Unlock(r) \/ UnlockRefused(r)
  \/ Save(r) \/ SaveFails(r)
  \/ Finalize(r) \/ Consume(r) \/ Die(r) \/ Free(r) \/ Confirm(r)
  \/ Crash(r) \/ ReservationAges(r)

Next == AdvanceOther \/ LockAges \/ \E r \in Requests : Step(r)

Spec == Init /\ [][Next]_vars

-----------------------------------------------------------------------------
\* Type invariant.
TypeOK ==
  /\ manifest \in Manifest
  /\ lock \in [holder: Requests, stale: BOOLEAN] \cup {NoLock}
  /\ resv \in [Requests -> Reservation \cup {NoResv}]
  /\ saved \in [Requests -> {"none", "BUILT", "PREFLIGHT_VERIFIED",
                             "CHAIN_VERIFIED", "DEAD"}]
  /\ pc \in [Requests -> PCs]
  /\ build \in [Requests -> Build \cup {NoBuild}]
  /\ todo \in [Requests -> SUBSET [id: Requests, rec: Reservation]]
  /\ sum \in [Requests -> Nat]

\* The open requests on the live outpoint in a period window.
Promised(w) ==
  {r \in Requests : /\ saved[r] \in {"BUILT", "PREFLIGHT_VERIFIED"}
                    /\ Current(r) /\ build[r].window = w}

\* sdk/src/wallet-requests-v4.js: "concurrent builds can no longer
\* optimistically over-commit the period budget".  All open requests of a
\* window fit into the budget together with what is spent.
NoOverCommit ==
  \A w \in {build[r].window : r \in {q \in Requests : build[q] # NoBuild}} :
    (IF w = manifest.window THEN manifest.spent ELSE 0)
      + MapThenSumSet(LAMBDA r : build[r].pay, Promised(w)) <= Budget

\* "Admission (list + sum + create) is serialized per vault".
AdmissionSerialized ==
  \A q, r \in Requests :
    pc[q] \in {"scan", "sweep"} /\ pc[r] \in {"scan", "sweep"} => q = r

\* What holds without either switch.  A build has died, so that a lock or a
\* reservation may go stale.
Died == \E r \in Requests : pc[r] = "crashed"

\* The same promise, kept until a build dies: only a stale lock is ever taken
\* from another build.
SerializedUntilDeath == Died \/ AdmissionSerialized

\* The open requests of the live outpoint that have a reservation.
Held(w) == {r \in Promised(w) : resv[r] # NoResv}

\* "concurrent builds can no longer optimistically over-commit the period
\* budget", of the requests that have a reservation and until a build dies,
\* also when the manifest advances under builds.
ReservedFits ==
  Died \/ \A w \in {build[r].window : r \in {q \in Requests : build[q] # NoBuild}} :
    (IF w = manifest.window THEN manifest.spent ELSE 0)
      + MapThenSumSet(LAMBDA r : build[r].pay, Held(w)) <= Budget

\* "only DEFINITIVELY-dead reservations are ever swept": an open request of the
\* live outpoint loses its reservation only while a build sweeps whose own
\* outpoint is no longer the live one, whoever dies or holds the lock.
LostOnlyToOvertaken ==
  [][\A r \in Requests :
       /\ saved[r] \in {"BUILT", "PREFLIGHT_VERIFIED"} /\ Current(r)
       /\ resv[r] # NoResv /\ resv'[r] = NoResv
       => \E q \in Requests : pc[q] = "sweep" /\ ~Current(q)]_vars
=============================================================================
