---------------------------- MODULE SettlementV4 ----------------------------
(***************************************************************************)
(* How a v0.4 request becomes a settled transition of its vault: finalize  *)
(* (sdk/src/wallet-requests-v4.js), submit (wallet-submit-v4.js) and       *)
(* Verify (reconcile-v4.js) of one vault, over the claims of               *)
(* submission-claim.js and the blocking rules of wallet-recovery-v4.js.    *)
(*                                                                         *)
(* A handler is a task: its reads and checks are its first step, and what  *)
(* it then writes is a queue of durable writes, one per await, that other  *)
(* tasks interleave with and a crash or a store error cuts off.  Verify    *)
(* holds the vault identity lock; nothing else does.                       *)
(*                                                                         *)
(* A request and its transaction bear one name (the txid is fixed at       *)
(* build), and so does the outpoint the transaction creates.  Twins of one *)
(* txid, journaled history, TERMINATED_UNKNOWN vaults, governance refusals *)
(* and pasted recovers are left out; so are the submission claim, which no *)
(* step here reads, and the reservation, which is BudgetReservation's.     *)
(***************************************************************************)
EXTENDS Integers, SequencesExt

CONSTANTS
  Spends, Pauses, Unpauses, Recovers, \* the requests, by what they do
  Outside,       \* a pause its owner makes without the application
  Genesis, Closed, None,
  Workers,       \* handlers that run at a time
  Hidden,        \* requests whose payment and change are spent at once
  SelfBroadcast, \* requests whose signer may broadcast the bytes without submit
  Outsider,      \* BOOLEAN: Outside may be made
  Reorgs,        \* BOOLEAN: blocks above the settlement depth may be undone
  MaxAborts,     \* bound: handlers that crash
  AbortOps,      \* the kinds of handlers that crash
  OneHandler,    \* BOOLEAN: a request has one handler at a time
  Prompt         \* BOOLEAN: the chain stands still between a handler's last look at it
                 \* and its write of the manifest

Requests == Spends \cup Pauses \cup Unpauses \cup Recovers
Transactions == Requests \cup {Outside}
Outpoints == Transactions \cup {Genesis}
BreakGlass == Pauses \cup Recovers

ASSUME SettlementAssumption ==
  /\ SelfBroadcast \subseteq Requests
  /\ {Outsider, Reorgs, OneHandler, Prompt} \subseteq BOOLEAN
  /\ MaxAborts \in Nat
  /\ Hidden \subseteq Requests
  /\ IsFiniteSet(Requests)
  /\ Spends \cap BreakGlass = {}
  /\ {Genesis, Closed, None} \cap Transactions = {} /\ Outside \notin Requests
  /\ Genesis # Closed /\ Genesis # None /\ Closed # None

VARIABLES
  chain,    \* accepted transactions of the vault, in order
  deep,     \* how many of them are at the settlement depth
  sent,     \* requests whose bytes the node has taken
  manifest, \* the recorded live outpoint and the last recorded transition
  rec,      \* the state of each request record
  out,      \* the predecessor outpoint each request is built on
  tclaim,   \* who holds the transition claim on each outpoint
  receipt,  \* requests with a completion receipt
  task,     \* what each worker is at
  aborts

vars == <<chain, deep, sent, manifest, rec, out, tclaim, receipt, task, aborts>>
store == <<manifest, rec, out, tclaim, receipt>>
node == <<chain, deep, sent>>

InFlight == {"PREFLIGHT_VERIFIED", "SUBMITTING", "SUBMITTED", "RECONCILIATION_REQUIRED"}
SignedOrRejected == InFlight \cup {"CHAIN_VERIFIED", "SUBMISSION_REJECTED"}
Labels == SignedOrRejected \cup {"none", "BUILT", "CLOSED", "STALE"}
Ops == {"none", "build", "reject", "finalize", "submit", "verify"}

\* A durable write (or a step that decides the writes after it) of a task.
Write(do, r, as) == [do |-> do, id |-> r, as |-> as]
Save(r, label) == Write("save", r, label)
Do(do, r) == Write(do, r, "none")
Idle == [op |-> "none", id |-> None, todo |-> <<>>]

Init ==
  /\ chain = <<>> /\ deep = 0 /\ sent = {}
  /\ manifest = [live |-> Genesis, last |-> None]
  /\ rec = [r \in Requests |-> "none"]
  /\ out = [r \in Requests |-> None]
  /\ tclaim = [o \in Outpoints |-> None]
  /\ receipt = {}
  /\ task = [w \in Workers |-> Idle]
  /\ aborts = 0

-----------------------------------------------------------------------------
\* The chain.

Spent(i) == IF i = 1 THEN Genesis ELSE chain[i - 1]
Tip == IF chain = <<>> THEN Genesis ELSE Last(chain)
Unspent(o) == o = Tip
OnChain(t) == Contains(chain, t)
Spends1(t, o) == \E i \in 1..Len(chain) : chain[i] = t /\ Spent(i) = o
Deep(t) == \E i \in 1..deep : chain[i] = t
Paused(o) == o \in Pauses \cup {Outside}

\* A transaction the vault's covenant accepts on outpoint o.
Fits(r, o) == r \in Recovers \/ (r \in Unpauses <=> Paused(o))

\* A handler has decided to write the manifest.
Advancing(w) ==
  \E i \in 1..Len(task[w].todo) : task[w].todo[i].do \in {"advance", "adopt"}

MayMove == Prompt => \A w \in Workers : ~Advancing(w)

Accept(r) ==
  /\ MayMove
  /\ r \in sent \/ (r \in SelfBroadcast /\ rec[r] # "none")
  /\ Unspent(out[r])
  /\ chain' = Append(chain, r)
  /\ UNCHANGED <<deep, sent, store, task, aborts>>

AcceptOutside ==
  /\ MayMove
  /\ Outsider /\ ~OnChain(Outside)
  /\ Tip \notin Recovers /\ ~Paused(Tip)
  /\ chain' = Append(chain, Outside)
  /\ UNCHANGED <<deep, sent, store, task, aborts>>

\* A transaction reaches SETTLE_DEPTH_DAA.
Bury ==
  /\ MayMove
  /\ deep < Len(chain)
  /\ deep' = deep + 1
  /\ UNCHANGED <<chain, sent, store, task, aborts>>

Reorg ==
  /\ MayMove
  /\ Reorgs
  /\ \E n \in deep..(Len(chain) - 1) : chain' = SubSeq(chain, 1, n)
  /\ UNCHANGED <<deep, sent, store, task, aborts>>

-----------------------------------------------------------------------------
\* What the store says of a request (wallet-recovery-v4.js).

\* isPendingTransitionV4; a SUBMISSION_REJECTED record here is always the
\* established one.
Pending(r) ==
  \/ rec[r] \in InFlight
  \/ rec[r] = "CHAIN_VERIFIED" /\ r \notin receipt

PendingOn(o) == {r \in Requests : out[r] = o /\ Pending(r)}

\* findBlockingTransitionV4 of a live vault.
Blocked(r) == r \notin BreakGlass /\ PendingOn(manifest.live) \ {r} # {}

\* Fault: only a pause meets a contest, and a recover is one-step.
ContestedPauseOnly(r, foreign) ==
  /\ r \in Pauses
  /\ \/ foreign
     \/ \E q \in Requests \ {r} :
          rec[q] # "none" /\ out[q] = out[r] /\ (q \in Spends \/ Pending(q))

\* Fault: a pause completes at zero depth whoever competes with it.
ContestedRecoverOnly(r, foreign) == r \in Recovers

\* submitContestedV4
Contested(r, foreign) ==
  \/ r \in Recovers
  \/ /\ r \in Pauses
     /\ \/ foreign
        \/ \E q \in Requests \ {r} :
             rec[q] # "none" /\ out[q] = out[r] /\ (q \in Spends \/ Pending(q))

\* Fault: the request's own receipt is not read.
AdmissibleUnread(r) == ~Blocked(r) /\ manifest.live # Closed

\* finalize and submit: the request's own receipt, the blocking rule and a
\* closed vault refuse with no write.
Admissible(r) ==
  r \notin receipt /\ ~Blocked(r) /\ manifest.live # Closed

\* predecessorDispositionV4
Stale(r) == manifest.live # out[r] /\ manifest.last # r

-----------------------------------------------------------------------------
\* Tasks.

Begin(w, op, r, todo) ==
  /\ task[w] = Idle
  /\ OneHandler => \A v \in Workers : task[v].id # r
  /\ task' = [task EXCEPT ![w] = [op |-> op, id |-> r, todo |-> todo]]

Then(w, todo) ==
  task' = [task EXCEPT ![w] =
             IF todo = <<>> THEN Idle ELSE [@ EXCEPT !.todo = todo]]

Doing(w, do) == task[w].todo # <<>> /\ Head(task[w].todo).do = do
Now(w) == Head(task[w].todo)
Rest(w) == Tail(task[w].todo)

\* A crash, or a store or node error the handler rethrows.
Abort(w) ==
  /\ aborts < MaxAborts /\ task[w].op \in AbortOps
  /\ aborts' = aborts + 1
  /\ task' = [task EXCEPT ![w] = Idle]
  /\ UNCHANGED <<node, store>>

\* A closed vault takes no request; an open one takes the owner's break-glass
\* always, and an ordinary one when nothing is pending or claimed.
Unhindered == PendingOn(manifest.live) = {} /\ tclaim[manifest.live] = None

Buildable(r) == manifest.live # Closed /\ (r \in BreakGlass \/ Unhindered)

\* buildWalletRequestV4
Build(w, r) ==
  /\ rec[r] = "none"
  /\ Buildable(r) /\ Fits(r, manifest.live)
  /\ \A v \in Workers : task[v].id # r \* a request id is fresh
  /\ Begin(w, "build", r, <<Save(r, "BUILT")>>)
  /\ out' = [out EXCEPT ![r] = manifest.live]
  /\ UNCHANGED <<node, manifest, rec, tclaim, receipt, aborts>>

\* markWalletRejected
Reject(w, r) ==
  /\ rec[r] = "BUILT"
  /\ Begin(w, "reject", r, <<Save(r, "CLOSED")>>)
  /\ UNCHANGED <<node, store, aborts>>

\* finalizeWalletRequestV4: an ordinary request claims before its first
\* write, the owner's break-glass after it; a verdict closes the request.
Close(r, label) == <<Do("reread", r), Save(r, label)>>

\* Fault: the claim is taken only after the signed bytes are saved.
LateClaim(r) == <<Do("reread", r), Save(r, "PREFLIGHT_VERIFIED"), Do("claim", r)>>

Finalization(r) ==
  IF r \in BreakGlass
  THEN <<Do("reread", r), Save(r, "PREFLIGHT_VERIFIED"), Do("claim", r)>>
  ELSE <<Do("claim", r), Do("reread", r), Save(r, "PREFLIGHT_VERIFIED")>>

Finalize(w, r) ==
  /\ rec[r] = "BUILT" /\ Admissible(r)
  /\ \/ Stale(r) /\ Begin(w, "finalize", r, Close(r, "STALE"))
     \/ /\ manifest.live = out[r]
        /\ \/ Begin(w, "finalize", r, Close(r, "CLOSED"))
           \/ Begin(w, "finalize", r, Finalization(r))
  /\ UNCHANGED <<node, store, aborts>>

\* submitWalletRequestV4
Submit(w, r) ==
  /\ rec[r] = "PREFLIGHT_VERIFIED" /\ Admissible(r)
  /\ \/ Stale(r) /\ Begin(w, "submit", r, <<Save(r, "STALE")>>)
     \/ /\ manifest.live = out[r]
        /\ LET c == tclaim[out[r]]
               held == CASE c = r -> "own" [] c = None -> "missing" [] OTHER -> "foreign"
           IN /\ held = "foreign" => r \in BreakGlass
              /\ Begin(w, "submit", r, <<Write("arm", r, held)>>)
  /\ UNCHANGED <<node, store, aborts>>

-----------------------------------------------------------------------------
\* The writes.

DoSave(w) ==
  /\ Doing(w, "save")
  /\ rec' = [rec EXCEPT ![Now(w).id] = Now(w).as]
  /\ Then(w, Rest(w))
  /\ UNCHANGED <<node, manifest, out, tclaim, receipt, aborts>>

\* rereadBuiltRequestV4
DoReread(w) ==
  /\ Doing(w, "reread")
  /\ Then(w, IF rec[Now(w).id] = "BUILT" THEN Rest(w) ELSE <<>>)
  /\ UNCHANGED <<node, store, aborts>>

\* Fault: a claim is written over whatever is under its key.
NeverClaimed(r) == FALSE

\* The claim is created exclusively: another transaction already holds it.
ClaimedByOther(r) == tclaim[out[r]] \notin {None, r}

\* claimOwnTransitionV4 in finalize.  The ordinary one re-reads the record
\* just before, and closes it when the claim is another's.
DoClaim(w) ==
  /\ Doing(w, "claim")
  /\ LET r == Now(w).id
         moved == r \notin BreakGlass /\ rec[r] # "BUILT"
         taken == ClaimedByOther(r)
     IN /\ tclaim' = IF moved \/ taken THEN tclaim ELSE [tclaim EXCEPT ![out[r]] = r]
        /\ Then(w, CASE moved -> <<>>
                     [] ~moved /\ taken /\ r \notin BreakGlass -> Close(r, "CLOSED")
                     [] OTHER -> Rest(w))
  /\ UNCHANGED <<node, manifest, rec, out, receipt, aborts>>

\* submit: the predecessor must be live on chain.
DoArm(w) ==
  /\ Doing(w, "arm")
  /\ Then(w, IF Unspent(out[Now(w).id]) THEN <<[Now(w) EXCEPT !.do = "hold"]>> ELSE <<>>)
  /\ UNCHANGED <<node, store, aborts>>

\* A missing own claim is taken again; only break-glass goes on without one.
DoHold(w) ==
  /\ Doing(w, "hold")
  /\ LET r == Now(w).id
         missing == Now(w).as = "missing"
         foreign == IF missing THEN ClaimedByOther(r) ELSE Now(w).as = "foreign"
     IN /\ tclaim' = IF missing /\ ~foreign THEN [tclaim EXCEPT ![out[r]] = r] ELSE tclaim
        /\ Then(w, IF foreign /\ r \notin BreakGlass THEN <<>>
                   ELSE <<Write("contest", r, IF foreign THEN "foreign" ELSE "own")>>)
  /\ UNCHANGED <<node, manifest, rec, out, receipt, aborts>>

\* The contest is decided before anything is written.
DoContest(w) ==
  /\ Doing(w, "contest")
  /\ LET r == Now(w).id
         mode == IF Contested(r, Now(w).as = "foreign") THEN "contested" ELSE "uncontested"
     IN Then(w, <<Save(r, "SUBMITTING"), Write("broadcast", r, mode)>>)
  /\ UNCHANGED <<node, store, aborts>>

\* The node takes the transaction, or holds it already.
Taken(w, r) ==
  /\ Unspent(out[r]) \/ OnChain(r)
  /\ sent' = sent \cup {r}
  /\ Then(w, IF Now(w).as = "contested"
             THEN <<Save(r, "SUBMITTED")>>
             ELSE <<Save(r, "SUBMITTED"), Do("prove", r)>>)
  /\ UNCHANGED tclaim

\* Fault: an answer that settles nothing releases the claim.
UncertainReleases(w, r) ==
  /\ sent' = sent \/ (Unspent(out[r]) /\ sent' = sent \cup {r})
  /\ Then(w, <<Save(r, "RECONCILIATION_REQUIRED"), Do("release", r)>>)
  /\ UNCHANGED tclaim

\* No answer, or a rejection whose proof is incomplete.
Uncertain(w, r) ==
  /\ sent' = sent \/ (Unspent(out[r]) /\ sent' = sent \cup {r})
  /\ Then(w, <<Save(r, "RECONCILIATION_REQUIRED")>>)
  /\ UNCHANGED tclaim

\* A rejection with the full proof: predecessor unspent, effect absent.
Rejected(w, r) ==
  /\ r \notin sent /\ ~OnChain(r) /\ Unspent(out[r])
  /\ UNCHANGED <<sent, tclaim>>
  /\ Then(w, <<Save(r, "SUBMISSION_REJECTED"), Do("release", r)>>)

DoBroadcast(w) ==
  /\ Doing(w, "broadcast")
  /\ LET r == Now(w).id IN Taken(w, r) \/ Uncertain(w, r) \/ Rejected(w, r)
  /\ UNCHANGED <<chain, deep, manifest, rec, out, receipt, aborts>>

\* proveExpectedEffectV4, polled: the successor is observed, or time is up.
DoProve(w) ==
  /\ Doing(w, "prove")
  /\ LET r == Now(w).id
     IN \/ /\ Unspent(r)
           /\ Then(w, <<Do("advance", r), Save(r, "CHAIN_VERIFIED"), Do("receipt", r)>>)
        \/ Then(w, <<Save(r, "RECONCILIATION_REQUIRED")>>)
  /\ UNCHANGED <<node, store, aborts>>

\* advanceManifestAndRegistryV4: the record is written, never compared.
DoAdvance(w) ==
  /\ Doing(w, "advance")
  /\ LET r == Now(w).id
     IN manifest' = [live |-> IF r \in Recovers THEN Closed ELSE r, last |-> r]
  /\ Then(w, Rest(w))
  /\ UNCHANGED <<node, rec, out, tclaim, receipt, aborts>>

DoReceipt(w) ==
  /\ Doing(w, "receipt")
  /\ receipt' = receipt \cup {Now(w).id}
  /\ Then(w, Rest(w))
  /\ UNCHANGED <<node, manifest, rec, out, tclaim, aborts>>

\* releaseOwnTransitionClaimV4: the claim names this transaction.
Owns(r) == tclaim[out[r]] = r

\* releaseTransitionClaim: read the claim, then remove what is there.
DoRelease(w) ==
  /\ Doing(w, "release")
  /\ LET r == Now(w).id
     IN Then(w, IF Owns(r) THEN <<Do("remove", r)>> \o Rest(w) ELSE Rest(w))
  /\ UNCHANGED <<node, store, aborts>>

DoRemove(w) ==
  /\ Doing(w, "remove")
  /\ tclaim' = [tclaim EXCEPT ![out[Now(w).id]] = None]
  /\ Then(w, Rest(w))
  /\ UNCHANGED <<node, manifest, rec, out, receipt, aborts>>

-----------------------------------------------------------------------------
\* Verify: reconcileVaultV4.

Each(S, F(_)) == FlattenSeq([i \in 1..Cardinality(S) |-> F(SetToSeq(S)[i])])

\* completeRecord
Complete(r) == <<Do("receipt", r), Do("release", r), Save(r, "CHAIN_VERIFIED")>>

\* settleLoser of records as this pass validated them.
SettleLosers(S) == Each(S, LAMBDA r : <<Write("settle", r, rec[r])>>)

\* settleLoser goes on with a record that is still the validated one.
DoSettle(w) ==
  /\ Doing(w, "settle")
  /\ LET r == Now(w).id
     IN Then(w, IF rec[r] = Now(w).as
                THEN <<Save(r, "STALE"), Do("release", r)>> \o Rest(w)
                ELSE Rest(w))
  /\ UNCHANGED <<node, store, aborts>>

\* receiptFinishable
Finishable ==
  {r \in receipt : /\ rec[r] \in SignedOrRejected \ {"CHAIN_VERIFIED"}
                   /\ out[r] # manifest.live}

\* finishRecordedV4 of a closed vault.
ClosedPlan ==
  LET t == manifest.last
      recorded == {r \in {t} \cap Requests : rec[r] \in SignedOrRejected /\ Pending(r)}
  IN Each(recorded, Complete) \o Each(Finishable \ recorded, Complete)

\* releaseEstablishedLeftover: the claim of an established rejection.
Leftover(o) == tclaim[o] # None /\ rec[tclaim[o]] = "SUBMISSION_REJECTED"

DoLeftover(w) ==
  /\ Doing(w, "leftover")
  /\ LET o == Now(w).id
     IN Then(w, IF Leftover(o) THEN <<Do("release", tclaim[o])>> \o Rest(w) ELSE Rest(w))
  /\ UNCHANGED <<node, store, aborts>>

\* settleOneHop, then the leftover claim: the recorded outpoint is live.
LivePlan ==
  LET t == manifest.last
      finish == {r \in {t} \cap Requests :
                   /\ rec[r] \in SignedOrRejected
                   /\ ~(rec[r] = "CHAIN_VERIFIED" /\ r \in receipt)}
      losers == IF t \in Requests THEN PendingOn(out[t]) \ {t} ELSE {}
      hop == IF t # None /\ Deep(t)
             THEN Each(finish, Complete) \o SettleLosers(losers)
                    \o Each(Finishable \ (finish \cup losers), Complete)
             ELSE <<>>
  IN IF hop = <<>> /\ ~Leftover(manifest.live) THEN <<>>
     ELSE hop \o <<Do("leftover", manifest.live)>>

\* A recorded spender of the live outpoint that some output still shows.
Seen(r) == Unspent(r) \/ r \notin Hidden

\* Fault: any deep transaction is taken for the spender.
WinnersAnywhere == {r \in Requests : Seen(r) /\ Deep(r)}

\* Fault: a spender is taken for the winner before it is deep.
WinnersShallow == {r \in Requests : Spends1(r, manifest.live) /\ Seen(r)}

Winners == {r \in Requests : Spends1(r, manifest.live) /\ Seen(r) /\ Deep(r)}

\* Fault: the receipt is written after the manifest.
CompletionAdvanceFirst(r) ==
  LET losers == SettleLosers(PendingOn(manifest.live) \ {r})
  IN IF r \in Recovers
     THEN losers \o <<Do("advance", r)>> \o Complete(r)
     ELSE <<Do("advance", r)>> \o Complete(r) \o losers

\* completePositive
Completion(r) ==
  LET losers == SettleLosers(PendingOn(manifest.live) \ {r})
  IN IF r \in Recovers
     THEN <<Do("receipt", r)>> \o losers \o <<Do("advance", r)>> \o Complete(r)
     ELSE <<Do("receipt", r), Do("advance", r)>> \o Complete(r) \o losers

\* Fault: the pause is not held against the recorded state.
AdoptableAnywhere == Unspent(Outside) /\ Deep(Outside)

\* adoptOutOfApp: the pause is on an outpoint of the recorded state, that is
\* the recorded one, or its predecessor when a pause is what is recorded.
Adoptable ==
  /\ Unspent(Outside) /\ Deep(Outside)
  /\ \/ Spends1(Outside, manifest.live)
     \/ manifest.live \in Pauses /\ Spends1(Outside, out[manifest.live])

Plan ==
  CASE manifest.live = Closed -> ClosedPlan
    [] manifest.live # Closed /\ Unspent(manifest.live) -> LivePlan
    [] OTHER -> IF Winners # {} THEN Each(Winners, Completion)
                ELSE IF Adoptable THEN <<Do("adopt", Outside)>> ELSE <<>>

Verify(w) ==
  /\ \A v \in Workers : task[v].op # "verify"
  /\ task[w] = Idle /\ Plan # <<>>
  /\ task' = [task EXCEPT ![w] = [op |-> "verify", id |-> None, todo |-> Plan]]
  /\ UNCHANGED <<node, store, aborts>>

DoAdopt(w) ==
  /\ Doing(w, "adopt")
  /\ manifest' = [live |-> Outside, last |-> Outside]
  /\ Then(w, Rest(w))
  /\ UNCHANGED <<node, rec, out, tclaim, receipt, aborts>>

-----------------------------------------------------------------------------
Perform(w) ==
  \/ DoSave(w) \/ DoReread(w) \/ DoClaim(w) \/ DoArm(w) \/ DoHold(w)
  \/ DoContest(w) \/ DoBroadcast(w)
  \/ DoProve(w) \/ DoAdvance(w) \/ DoReceipt(w) \/ DoRelease(w) \/ DoRemove(w)
  \/ DoSettle(w) \/ DoAdopt(w) \/ DoLeftover(w)

Start(w) ==
  \E r \in Requests : Build(w, r) \/ Reject(w, r) \/ Finalize(w, r) \/ Submit(w, r)

Next ==
  \/ \E r \in Requests : Accept(r)
  \/ AcceptOutside \/ Bury \/ Reorg
  \/ \E w \in Workers : Start(w) \/ Verify(w) \/ Perform(w) \/ Abort(w)

Spec == Init /\ [][Next]_vars

\* A handler runs on, blocks get deep, and the owner presses Verify again:
\* strongly fair, since it is only a bound of the model, Workers, that makes
\* a Verify wait for other handlers.
FairSpec ==
  /\ Spec
  /\ WF_vars(Bury)
  /\ \A w \in Workers : WF_vars(Perform(w))
  /\ SF_vars(\E w \in Workers : Verify(w))

-----------------------------------------------------------------------------
\* Type invariant.
TypeOK ==
  /\ chain \in Seq(Transactions) /\ deep \in 0..Len(chain)
  /\ sent \subseteq Requests
  /\ manifest \in [live: Outpoints \cup {Closed}, last: Transactions \cup {None}]
  /\ rec \in [Requests -> Labels]
  /\ out \in [Requests -> Outpoints \cup {None}]
  /\ tclaim \in [Outpoints -> Requests \cup {None}]
  /\ receipt \subseteq Requests
  /\ DOMAIN task = Workers
  /\ \A w \in Workers : task[w].op \in Ops /\ task[w].id \in Requests \cup {None}
  /\ aborts \in 0..MaxAborts

\* "nothing hosted writes a terminal status at zero depth": a vault recorded
\* as recovered has its recover at the settlement depth, below which no block is undone.
RecoveredAtDepth ==
  manifest.live = Closed => manifest.last \in Recovers /\ Deep(manifest.last)

\* "A request whose own completion receipt names it is never STALE".
ReceiptNeverStale == \A r \in receipt : rec[r] # "STALE"

\* "an executed request is never STALE", when no block is undone.
ExecutedNeverStale == \A r \in Requests : OnChain(r) => rec[r] # "STALE"

\* A recorded request that spends the outpoint is at the settlement depth.
SpentDeep(o) == \E t \in Requests : Spends1(t, o) /\ Deep(t)

\* What a claim on the outpoint may be released on: the node has rejected a
\* request of it with the full proof, or its spender is deep.
Evidence(o) ==
  \/ \E r \in Requests : out[r] = o /\ rec[r] = "SUBMISSION_REJECTED"
  \/ SpentDeep(o)

\* "a PREFLIGHT_VERIFIED ordinary record always holds its own claim", until a
\* claim on the outpoint could be released: then a completion may let it go, or
\* a late removal may hit the claim of the next holder.
ArmedHoldsClaim ==
  \A r \in Requests \ BreakGlass :
    rec[r] = "PREFLIGHT_VERIFIED" => tclaim[out[r]] = r \/ Evidence(out[r])

\* "only one local attempt can own a transition": two ordinary requests are
\* never in flight on one outpoint before a claim on it could be released.
OneOrdinaryAtWork ==
  \A q, r \in {s \in Requests \ BreakGlass : rec[s] \in InFlight} :
    out[q] = out[r] => q = r \/ Evidence(out[r])

\* "Callers release ONLY on chain evidence": a claim leaves its holder when
\* the node rejected a request of the outpoint, or a spender of it is deep.
ReleasedOnEvidence ==
  [][\A o \in Outpoints :
       tclaim[o] # None /\ tclaim'[o] # tclaim[o] => Evidence(o)]_vars

\* "an executed request is never STALE", of the requests the application has
\* sent and whatever blocks are undone: such a one is recorded as stale only
\* when another transaction spends its outpoint at the settlement depth.
SentStaleWhenLost ==
  \A r \in sent :
    rec[r] = "STALE" =>
      \E t \in Requests \ {r} : Spends1(t, out[r]) /\ Deep(t)

\* "never releases another attempt's claim": the handler that removes a claim
\* is at work for its holder.
OnlyOwnClaimReleased ==
  [][\A w \in Workers, o \in Outpoints :
       task'[w] # task[w] /\ tclaim[o] # None /\ tclaim'[o] = None =>
         Now(w).id = tclaim[o]]_vars

\* The manifest moves along the vault's transitions, one at a time, and a
\* closed one stays closed.
OneHopAtATime ==
  [][manifest'.live # manifest.live =>
       \/ manifest'.last \in Requests /\ out[manifest'.last] = manifest.live
       \/ manifest'.last = Outside /\ Spends1(Outside, manifest.live)]_vars

\* While a delegate's request competes for the outpoint a pause spent, the
\* vault is recorded as paused only when the spender is deep.
ContestedPauseWaits ==
  \A p \in Pauses, q \in Spends :
    manifest.live = p /\ out[q] = out[p] /\ rec[q] \in InFlight => SpentDeep(out[p])

\* An executed request in a signed state is recorded in the end.
Converges ==
  \A r \in Requests :
    Deep(r) /\ rec[r] \in SignedOrRejected ~> rec[r] = "CHAIN_VERIFIED" /\ r \in receipt
=============================================================================
