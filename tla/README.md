# PolicyVault in TLA+

PolicyVault keeps delegated-spending vaults on Kaspa: an owner locks funds in a
covenant UTXO and lets agents spend from it under a policy (per-spend cap,
budget per period, recipients, approvals above a threshold). This directory
models the v0.4.1 vault from the contract up to the wallet SDK, the hosted
server's machinery around it (idempotent calls, governance, webhooks, audit
log), the x402 facilitator's claims and the organization root of v0.7; it checks
them with TLC on small instances and proves with TLAPS the safety of the
covenant, that the SDK's requests implement it, and the safety of reservations,
settlement, hosted builds, facilitator, organization root and audit log.

`PROJECT.json` lists the components, runs, mutants, hazards and theorems, and
maps every definition to the lines it stands for.

## The system

An operation goes `intent -> build -> sign -> finalize -> submit -> reconcile`
(docs/architecture.md). The covenant is the only authority over money; all
other parts may be wrong, slow or crash without losing it, but they must not
build what the covenant refuses, promise what it will not pay, or lose track of
what it did.

| component | state | operations | what makes it hard |
|---|---|---|---|
| covenant `contracts/PolicyVault.v0.4.1.sil` | the fields of the live UTXO: principal, fee reserve, paused, agentRoot, approvers, approvalM, nonce | agentSpend, ownerControl (6 operations), ownerRecover | period claims against the chain clock, conservation over three numbers, approver sets that no transition validated |
| builders `core/model/vault-state-v4.js`, `vault-transitions-v4.js` | none | successor of each operation | must mirror the covenant exactly |
| agent tree `core/model/agent-merkle-v4.js` | the agent set and its root | build, prove, fold, add, remove, update, rotate, apply a spend | padding, canonical rebuild against single-leaf fold |
| wallet requests `sdk/src/wallet-requests-v4.js`, `vault-builders-v4.js`, `approval-package-v4.js`, `manifest-v4.js` | request records, manifest and registry | build, collect approval, finalize, reject | a manifest behind the chain, concurrent requests, approvals over time, late confirmation |
| budget reservation `sdk/src/budget-reservation.js` | lock and reservation records | reserve, consume, release, sweep | admission across processes, crashes, stale locks |
| durable store `sdk/src/store.js`, `submission-claim.js` | one file or row per record | create exclusively, save, read, remove | crash between two records |
| submission `wallet-submit-v4.js`, recovery `wallet-recovery-v4.js`, `reconcile-v4.js` | request state, transition and submission claims, receipts | submit, prove, advance, reconcile | lost answers of the node, crash at every await, contested break-glass transitions |
| idempotency `server/src/idempotency.js` | one record per key | claim, prepare, complete, replay, recover | death while the handler runs, writes whose answer is lost or that land late |
| event outbox, webhooks `server/src/events*.js` | event rows, cursor and pending attempt per endpoint, dead letters | append, subscribe, scan, deliver, retry, dead-letter | crash between response and cursor, torn lines, rows that commit out of order |
| governance `server/src/governance.js` | proposals, votes, transition lock, terminal claim | propose, vote, cancel, expire, consume | a lock that goes stale under a live holder |
| audit chain `server/src/audit-chain.js` | hash-chained records, a durable anchor, the head in memory | append, verify | crash between record and anchor, verification during appends |
| x402 facilitator `integrations/x402-facilitator/` | claims by outpoint and by requirement, destination index | verify, settle | single use across two indexes |
| organization root `contracts/PolicyVault.v0.7-root.sil`, rooted vault `v0.7-kas.sil` | the root's owners, quorums and freeze; a vault's policy, pause and value | authorize, rotate, freeze, unfreeze, recover, succeed; owner operations of a vault in one transaction with the root | the vault tells the path the root took only from the root's successor |
| attempt store `integrations/lib/attempt-store.js` | one record per attempt | create, correlate | crashed handlers |
| everything else (v0.1-v0.3, token covenants v0.5 to v0.7, the v0.7 request pipeline, intent, attest, explain, signer, risk, API, auth, tenancy, MCP, Python, web, mobile, deploy) | | | see the notes in `PROJECT.json` |

They interact through the store and the chain only: a build reads the manifest,
takes a reservation and writes a request; finalize takes the transition claim
of the predecessor outpoint; submit takes the submission claim, calls the node
and advances manifest and registry, which is what the next build reads. On the
hosted server the build runs inside an idempotent call and consumes a governance
proposal; every call ends in an audit record and in events for the webhooks. The
facilitator has a store of its own; a rooted vault meets its root only in a
transaction that spends both.

## Modules

**PolicyVaultV4** is the covenant. A state is the covenant state of the live
UTXO, a step one transaction consensus accepts; `AgentSpend`, `SetAgentRoot`,
`SetApprovers`, `TopUp`, `TopUpReserve`, `Pause`, `Unpause` and `OwnerRecover`
are the entry points and the selectors of `ownerControl`, with the `require...`
helpers under their names. The initial state is any the constructor takes: the
contract validates no genesis state, in particular no approver set. `agentRoot`
is the function it commits to. `ledger`, `epoch` and `lastTx` are history, for
the properties only. Time is the DAA score, a transaction carries a lock time.

**AgentMerkleV4** justifies that abstraction. Hashes are free constructors;
whoever spends offers any leaf under its key and any co-path made of nodes of
the tree. The registry the SDK rebuilds and the root the covenant folds stay
the same tree, the SDK proves every agent of it, and whatever co-path is offered
the root admits only one leaf of an agent.

**WalletBuildV4** extends the covenant with the SDK: the manifest, which may
lag the chain, and the open requests with their frozen successor. Building,
approving, finalizing, closing and confirming interleave freely; a request may
confirm any time after it was finalized, or never. A confirmation checks only
what the network checks without the script (outpoint unspent, lock time) and
writes the successor the SDK froze. `CovenantSpec` is `PolicyVaultV4!Spec`: the
refinement says the covenant would accept each of these transactions, with
exactly that effect. The refinement mapping is the identity on the variables of
the chain; the bounds of the abstract module are the bounds of the run.

**BudgetReservation** is the admission protocol of concurrent builds, one
process per request, one step per await (listing and reading the records is
one step, an iteration of the sweep another). `Crashes` lets a building process
die between any two awaits; a lock or a reservation goes stale only after its
holder died, so no step depends on clocks that run at different speeds.
`AtomicReclaim` takes for granted that one build at a time reads and removes a
stale lock, which the code does not ensure (see `reservation_reclaim`).
`Overtaken` lets the manifest advance while a build is between its load and its
decision. The two violated runs show where the code does not keep to what it says;
**MCReservationCases** puts the case in which lock and manifest keep to their part
and the one in which neither does into one run, and the theorems say what holds in
both.

**SettlementV4** is finalize, submit and Verify of one vault. A handler is a
task: its reads and checks are its first step, and what it then writes is a
queue of durable writes, one per await (`DoSave`, `DoClaim`, `DoAdvance`,
`DoReceipt`, `DoRelease`...); other handlers and the chain move between any two,
and `Abort` cuts the queue off anywhere. `Build`, `Reject`, `Finalize`, `Submit`
and `Verify` start tasks; `Verify` alone holds the vault identity lock. What
Verify will write is computed from what it read (`Plan`): the closed vault, the
live recorded outpoint, the recorded winner, the adopted pause. The chain is a
sequence of transactions of which a prefix is at the settlement depth; the node
may take a transaction and lose the answer, reject it with the full proof, or
hold it already. Requests differ by what they do (spend, pause, unpause,
recover), a transaction and the outpoint it creates share its name. Two switches
state what a run takes for granted:

- `OneHandler`: a request has one handler at a time. That is the single writer
  the documentation requires (L-9 of
  docs/postlaunch/lead5-reconciliation-remediation.md); set everywhere.
- `Prompt`: the chain stands still between a handler's last look at it and its
  write of the manifest (`MayMove`). The code has no such guard: the write compares
  with nothing, so a handler that stalls there may put the manifest back behind a
  later hop, and no document says it may not. Set in `settle_crash` only, whose
  three properties relate the manifest to the chain: without it TLC finds
  `OneHopAtATime` violated in a few steps. No other run and no theorem assumes it.

The documented residuals L-1 (a block undone below the settlement depth), L-2
(an uncontested submit completes at zero depth, so `ExecutedNeverStale` is only
claimed without reorganizations), L-6 (adoption settles no losers) and L-16 (a
claim without signed bytes) are behaviours of the model, not excluded from it.

**OncePerKey** is what an Idempotency-Key promises, in three variables: who
performed the operation of a key, its outcome, what callers were answered.
**Idempotency** is `withIdempotency` and `recoverIdempotency`, await by await,
over a store that may apply a write and lose the acknowledgement, refuse it or
apply it later (`flying`). Its calls run any handler. `OncePerKeySpec` says that
it implements OncePerKey: `ran` of a key is the set of calls that ran their
handler, `result` what that handler returned, `answer` is the same variable.

**GovernedBuild** is the build route of an authority expansion under an approved
proposal: save the request, stamp it, take the transition lock, read again,
create the terminal claim, write the proposal, release; against other builds and
cancels, against a lock that goes stale under a live holder, and against a client
that passes the gate, signs and submits as soon as the request is durable.

**HostedBuild** composes the two: a handler of GovernedBuild takes its steps
while its call is at "run" (`Run`, `Trip`), its verdict is what the call returns
(`Respond`), and a process takes both with it (`Stop`). An error without a status
becomes a 422 (`v4Error`), so a store that fails after the consumption leaves a
retained refusal of a build that was consumed; the retry under the key is told
that refusal, never performs the build again.

**WebhookDelivery** is the outbox and the delivery worker, over both stores: the
file, in which a crash may leave a line without its end, and the table, whose
sequence numbers are taken before rows commit. The worker keeps nothing but the
state record of an endpoint; a tick reads it once and writes it after every
attempt. A failed attempt waits for its backoff (`due`), the last one becomes a
dead letter. Events that become readable behind the worker's cursor are `late`:
the code skips them, and the properties say so.

**AuditChain** is `appendAudit` with its mutex, the in-memory head, the anchor
and `verifyChain`; a hash is the record it is of. Nobody tampers: the question is
whether crashes and failures of the store alone make an honest log look broken.

**FacilitatorClaims** is `settle` over the directory of create-exclusive files
(write by write) and over the table with two unique constraints. The file store
serves one instance, in which nothing comes between the reservation, the claim and
the removal (integrations/x402-facilitator/claims.js:156-174); the model lets other
settles move there, so `SingleUse` is shown for more than the code does.

**OrgRootV7** is one transaction per step: a path of the root, the keys that
signed, and an operation or none of every vault. A vault admits an owner
operation by looking at the root's two states only, as the contract does. Several
vaults may change in one transaction, which the contract's own check of its inputs
rules out: more than it admits.

**MCComponents** puts AgentMerkleV4, WebhookDelivery, AuditChain,
FacilitatorClaims and OrgRootV7 into one run. They share no state: `focus`
chooses one of them in the initial state and the others stand still, so the run
is the disjoint union of five runs.

**PolicyVaultV4Proofs** holds the theorems of the covenant, **WalletBuildV4Proofs**,
which extends it, those of the requests, **BudgetReservationProofs** those of the
admission, **SettlementV4Proofs** those of finalize, submit and Verify,
**IdempotencyProofs**, **GovernedBuildProofs** and **HostedBuildProofs** those of the
hosted build, **ComponentProofs** those of the agent tree, the facilitator, the organization
root, the audit chain and the webhooks; each extends the modules it is about. The `MC` modules
give the constants that a configuration cannot write, and the symmetries.
Operators commented "Fault" are plausible bugs; no specification uses them, the
mutants put them in place of the definition they imitate.

## Runs

| run | question | bounds |
|---|---|---|
| vault | money, periods, quorum, fees, pause, recovery | one agent with two policies (one overspent and starting later), every approver set of three slots over two keys, clock 0..2, one period per spend, deposits up to 5, one nonce step, wallet net -1..1 |
| build | whole-tree edits and a lagging manifest against concurrent spends; lock times and anchored period starts that confirm late, fees from the reserve or a fuel input; approvals while the owner changes the set, deposits or pauses | two agents and two open requests (spends and edits), or one agent with margin 1, floor 1, periods of 2, clock up to 3 and fee 1, or two keys over two slots; two transitions; the initial state picks one |
| reservation | over-commitment, mutual exclusion, orphans against durable requests; what is left of them when several builds reclaim one lock and the manifest advances under builds | three builds, payments 1 and 2 (in the second case 2), budget 3, one transition; any process may die |
| reservation_reclaim | several builds reclaim one stale lock (violated, see below) | three builds, payments 1 and 2, one transition |
| reservation_overtaken | a build overtaken by a transition (violated) | the same, no process dies |
| hosted | is a governed build performed once, under its proposal only, and its answer durable | a build against a cancel, another build, its retry with a recovery of the key, or another body under its key; two store faults or deaths of calls, two mishaps of handlers, four altogether with the calls |
| hosted_unstamped | is only a consumed proposal's request broadcast (violated) | the same |
| components | the agent tree; the order and the fate of events; the audit log; the facilitator; who rules a rooted vault | three agents, co-paths one level deeper than the tree; one endpoint that wants two of three events, two attempts, a batch of two rows, one crash or store error; three appends, two failures; five settles of three requirements for two payments, one cut short; three heads (one malformed), three keys, recovery delay 1, succession delay 2, two vaults, two policies |
| settle_race | who owns a transition, on what evidence is a claim let go, may a pause that a delegate competes with be recorded early, may what was sent be called stale while it can still win | two spends, one pause, two handlers at a time, one crash of finalize, submit or Verify, the owner may broadcast the pause, blocks above the settlement depth undone any number of times, handlers stall anywhere |
| settle_crash | receipts, labels and the manifest after crashes, next to a pause made outside the application | a spend with no visible output, an unpause, signers may broadcast, two crashes of finalize, submit or Verify |
| settle_converges | does an interrupted Verify converge, and on what evidence | a spend and a recover, broadcast by anyone, one Verify dies, fairness |
| settle_release | whose claim is removed (violated) | two spends, no crash |

The bounds are named in the modules (`MaxDeposits`, `MaxNonce`, `MaxDaa`,
`MaxRequests`, `MaxTransitions`, `Menu`, `MaxOutpoint`, `MaxProofDepth`,
`MaxAborts`, `AbortOps`, `Workers`, `MaxFaults`, `MaxMishaps`, `MaxTrouble`,
`Groups`, `Asked`, `MaxOutages`, `MaxFailures`, `MaxCuts`, `MaxValue`) and sit
in the guards. `MaxAttempts` and `ScanBatch` are the code's own limits (8 and
100), made small. Two open requests are enough for one to overtake another; three
builds for one to reclaim, one to be admitted and one to collide; two keys over
three slots for a duplicate, a gap and a full set; three agents for a padded
tree of two levels; two handlers at a time, of two or three requests, for every
pair of a submit, a finalize and a Verify to overlap (the theorems hold for any
number; what takes three is named below); two calls of one key and
two faults for a write that lands after its caller was refused; three events for
one that is filtered out between two that are wanted; two failures for a lost
anchor and a crash; a third call for one requirement, because it takes one to
reserve, one to settle otherwise and one to be misled. `CHECK_DEADLOCK FALSE` is set everywhere because each system
may stop: a vault is recovered, a bound is reached, nobody asks for anything.

Two runs assume fairness. `components`, of the webhooks only: the worker's timer
loop goes on and the process is restarted (weak fairness of `WorkerStep`; the
loop reschedules itself whatever a tick does, src/server/src/events-delivery.js,
and deployments restart the server), and a backoff ends (weak fairness of
`Elapse`). No receiver is assumed to answer, nobody to emit or to subscribe.
The other is `settle_converges`: "an interrupted Verify converges
on a later Verify". `FairSpec` says that a handler that runs goes on (an await
returns), that blocks get deep, and that the owner presses Verify again while
there is something to do. The last one is strong fairness because `Workers`, a
bound of the model, may keep a Verify from starting; the code has no such bound.
Nobody is assumed to build, sign or broadcast. Only Verify crashes there, which
is what the document claims; liveness allows no symmetry. All other properties
are safety: the covenant cannot force anyone to act.

## What the runs show

- Covenant: every sompi is accounted for; an agent pays at most its budget for
  every period begun since the owner wrote its leaf; a large spend always had a
  real quorum of distinct configured keys, also from a malformed genesis; the
  reserve pays nothing but fees; `ownerSetApprovers` always leaves a quorum that
  can be met; a pause stops spends.
- SDK: every finalized transaction is one the covenant accepts with the frozen
  effect; an owner edit built over an old manifest cannot overwrite the spends it
  did not see (its outpoint is gone); the margin of the period-start rule does
  what its comment says; a request is finalized only when complete.
- Reservations: through every crash, as long as a stale lock is reclaimed by one
  build at a time and no build is overtaken, open requests never promise more than
  the budget (`KeptNoOverCommit`). With nothing taken for granted: until a
  build dies admissions exclude each other, and the requests that have a
  reservation fit into the budget; whoever dies, a durable open request of the live
  outpoint loses its reservation only to a build that froze an older outpoint.
- Settlement: until there is evidence on an outpoint (`Evidence`: the node rejected
  a request of it with the full proof, or its spender is deep) an armed ordinary
  request holds its claim there and no two are in flight; a claim is let go only on
  such evidence. After a rejection a claim may pass to the wrong
  hands (`settle_release`), after a deep spender nothing in flight there can
  confirm. What was sent is called stale only when another transaction spends its
  outpoint at depth, and a pause a delegate competes with is recorded at depth only,
  whatever is undone above it and wherever handlers stall; a recover is recorded at
  depth only; an executed request is recorded in the end. Through two crashes, on a
  chain that is not undone and stands still under a write of the manifest, a request
  with an own receipt, or executed, is never called stale, and the manifest follows
  the chain one transition at a time, an adopted pause included. The exception for a
  deep spender is real and takes three handlers: while a submit of s1 is past its
  checks, a Verify settles s1 as the loser and releases its claim; the submit then
  saves SUBMITTING over STALE (sdk/src/wallet-submit-v4.js:299); a finalize of s2,
  which loaded before the manifest moved, claims the same outpoint.
- Hosted calls: whatever write is lost, late or refused and whoever dies, the
  handler of a key runs once, an outcome is given only to the same request and is
  durable before it is given; a proposal has one terminal outcome although its
  lock does not exclude, and what was consumed or cancelled stays so; a stamped
  request is broadcast only as the consumer of its proposal.
- Webhooks: an endpoint gets its events in the order of the stream and passes one
  only when it received it or it is a dead letter; every due event gets there in
  the end, through a crash or a store error. Three things the model shows and the
  properties leave room for: after a crash on the first attempt the event comes
  again under a new deliveryId; rows that commit behind the cursor are skipped
  (`late`); a line without its end takes the next one with it.
- Audit: crashes between record and anchor, lost anchors and verifications amid
  appends leave an honest log valid. An append that took effect but threw, and a
  damaged line, make it BROKEN, as a deletion would (`BrokenOnlyAfterLoss` has
  exactly this premise).
- Facilitator: a payment settles one requirement, every success is the durable
  claim. The destination conflict is looked up before the claims are made, so two
  settlements of overlapping windows may both pass: no property claims otherwise.
- Organization: what an owner may do to a rooted vault needs the quorum of
  distinct present owners, a pause at least the emergency quorum, or the recovery
  quorum after the recovery delay. The last case is a rotation or a recovery that
  reinstalls the same head: the comment at contracts/PolicyVault.v0.7-kas.sil:171
  says these always change it, but a vault cannot tell them from an authorize or a
  freeze; they need a quorum that may do as much.

Four runs end in a counterexample, against what the sources say. They concern
the coordination of requests only: the covenant still refuses any spend over the
budget and any second spend of an outpoint.

1. `reservation_reclaim`. "Admission (list + sum + create) is serialized per
   vault" (sdk/src/budget-reservation.js:38). A crashed holder leaves a stale
   lock; builds A and B both read it; A removes it, creates its own and scans; B
   then removes A's lock, because the removal at line 201 does not look at the
   record again, creates its own and scans too.
2. `reservation_overtaken`. "concurrent builds can no longer optimistically
   over-commit the period budget" (sdk/src/wallet-requests-v4.js:577). A build
   loads the manifest; the vault makes a transition; a second build is admitted
   on the new outpoint and saved; the first build takes the lock and sweeps the
   second's reservation, since it compares with the outpoint it loaded
   (sdk/src/budget-reservation.js:268), not with the live one; a third build is
   admitted without counting the second.

3. `settle_release`. A claim is "only removed when the stored claim's txId
   matches the caller's (never releases another attempt's claim)"
   (sdk/src/submission-claim.js:87). The node rejects s1; its submit reads its
   own claim; a Verify finds the leftover claim of the established rejection and
   reads it too; submit removes it; s2 is built and its finalize takes the
   outpoint; Verify removes s2's claim, because the removal at line 102 is by
   key. The armed s2 then holds no claim, until its submit takes it again.

4. `hosted_unstamped`. A governed build "is finalizable only while the proposal
   it was admitted under records THIS request as its consumer"
   (server/src/intent-records.js:259). The SDK saves the request before the server
   stamps it with its manifest and its proposal (server/src/api.js:1210), and the
   gate passes a request without a manifest as one that predates recording
   (intent-records.js:232). Signed and submitted in between, or after a crash
   there, it is broadcast while the proposal is open. `SentIsConsumer`, which
   holds, is the rule for stamped requests.

## What is proved

Every theorem holds for any values of the constants that satisfy the named
assumptions of its module: any agents, keys, slots and amounts; any calls, keys,
handlers, requests and number of faults. The assumptions say of what kind a
constant is (a number, a finite set, a function), and that names are told apart, a
spend from the owner's pauses and recovers among them; one says more.
`FeeAssumption`: the bound on what a fee wallet puts in leaves room for every fee the
builder is asked for. One switch is a hypothesis of theorems: five of the settlement assume `OneHandler`, the single writer the
documentation requires (L-9). The other switches, `AtomicReclaim`, `Overtaken` and
`Crashes` of the reservations and `Prompt` and `Reorgs` of the settlement, are in no
theorem: these hold for either value.

**The covenant** (`PolicyVaultV4Proofs`). `TypeCorrect` and `FundsConserved`
(`[]Conservation`) come from one inductive invariant, `SoundInv`: types alone are
not inductive, because a reserve stays a natural number only through the guards
that relate it to the money actually in the UTXO, and conservation needs the types
for its sums. `BudgetBounded` (`[]BudgetPerPeriodBegun`) needs `PeriodInv`: the
leaf's period start is the start the owner wrote plus the rolled-over periods,
these have begun on the clock, and what was paid is at most one budget per period
closed plus what the leaf counts for the running one (`Accounted`). The lemmas
`AccountedSpend`, `MoreBudgets` and `WholePeriods` are its arithmetic.
`FeesFromReserveOnly` turns the fee equation of a spend into the sign of what its
wallet inputs and outputs net; `LargeSpendsApproved` (`[]ApprovalQuorum`) needs
the one cardinality argument, that slots with distinct keys inject into keys
(`SlotsAreKeys`), and no assumption about the genesis approver set, because a
spend above its threshold checks the set it relies on; `TierStaysSound` and
`PauseHolds` are action properties.

**The requests** (`WalletBuildV4Proofs`). `ImplementsCovenant` is the refinement
`SdkSpec => CovenantSpec`, step by step: the covenant accepts every transaction
the SDK builds and finalizes, whenever it confirms, so the theorems above hold of
the vault the SDK works on (`BuiltVaultSound`). `SdkInv` is what makes it go
through: a request on the live outpoint is what the builder makes of the state
there (`Derived`), one on an earlier outpoint can never confirm, and a manifest
that names the live outpoint equals the vault. The same invariant gives
`ManifestBehind`, `FinalIsApproved`, `NothingBanked` and `OthersLeftAlone`, the
last with the fact that no edit touches a leaf it was not asked to.

**Reservations** (`BudgetReservationProofs`). Builds may be overtaken, and several
may reclaim one lock. `ReservedInv` (what a build, a request and a reservation know
of each other) holds of every behaviour, and with it
`OpenKeepsReservation` (`LostOnlyToOvertaken`): a reservation repeats the outpoint
its request was built on and ages only when that request's process has died, so a
sweep on the live outpoint lists it as one to keep. `QuietInv` holds until a build dies: `LockInv`, who is in the admission
section holds the lock; `FitInv`, what the chain has booked in a window and the
reservations of all requests that may still be paid fit into the budget;
`CountedInv`, a sweep in progress has counted every such reservation it has passed.
From it `AdmissionIsSerialized` (`[]SerializedUntilDeath`) and `NeverOverCommitted`
(`[]ReservedFits`). A death cannot be dropped from these two: a stale lock needs
one, and then `reservation_reclaim` is a counterexample.
`SumsSubsets` and the lemmas after it say how the sum over a finite set of
requests changes when one is added, leaves or is counted.

**Settlement** (`SettlementV4Proofs`). A task carries what it still has to write,
so its invariants speak of queues. `ShapeInv` lists the queues of each handler and
says that Verify plans a manifest of a recover only when that is deep; with
`FlattenIn` (joining sequences from a set that is closed under concatenation stays
in it) this covers plans of any length. `RecoveredDeep` (`[]RecoveredAtDepth`)
follows for every behaviour. `WorkInv` is about claims: an ordinary request in
flight holds its claim unless there is evidence on its outpoint, each handler
knows what its last read told it (`Phase`), and every write a Verify still has to
make is one whose reason still stands (`Led`): the request was read as settled at
depth or rejected, or the receipt it waits for comes before it in the queue. The read
and the removal of a claim are two steps, so a removal in a queue carries the
evidence its read had. From it: `ClaimHeld` (`[]ArmedHoldsClaim`), `OneAtWork`
(`[]OneOrdinaryAtWork`) and `ClaimReleasedRight` (`ReleasedOnEvidence`).
The proof found that `OneOrdinaryAtWork` without its exception for a deep spender
is false with three handlers; two never show it.

`SentInv` is about what the node took: it is recorded as stale, or a handler still
has to record it so, only when another transaction has its outpoint at depth, and
that stays when blocks above the depth are undone. `SentNeverStale`
(`[]SentStaleWhenLost`) follows. `PauseInv` is about a pause and the requests of
delegates on its outpoint. A recorded pause is deep or unopposed: no such request is
in flight, and what handlers are at work for one will only close it. A submit that
may still write the manifest without a Verify found its pause uncontested, that is
alone on its outpoint, and keeps it so: its own record is in flight, which blocks the
finalize of a competitor while the outpoint is recorded, and once the pause is
recorded the outpoint no longer is. Only Verify can take the record out of flight
under it, and only when a deep transaction spends the outpoint. `PauseWaits`
(`[]ContestedPauseWaits`) is what this leaves.

**Hosted builds.** `IdempotencyProofs`: `IdemInv` says that every stored record is
truthful about its owner (what it retains is what the owner's handler returned),
that every write still in flight is truthful and expects a record that is not
complete (so that a late write cannot replace a response that was delivered), that
of the calls of a key one at most ran, and what a call knows at each await.
`DeliveredStays` follows from it. `KeepsPromise` (`OncePerKeySpec`) is the
refinement: under `IdemInv` the claim that wins a key is a `Perform`, the return of
its handler a `Decide`, an answer an `Answer` or a `Refuse`, and every other step a
stutter of `OncePerKey`. `GovernedBuildProofs` shows `GovInv` step by step: the
record says nothing the terminal claim does not, who writes the record or was told
that it is written holds the claim, and a stamped request that is cleared for
submission is the consumer. The invariant says nothing of the transition lock: the
create-only claim arbitrates, the lock only spares contention. `HostedBuildProofs`
shows that the composition takes a step of `Idempotency` or none
(`ImplementsIdempotency`), and adds `Joined`, that a handler that has started is
run by a call. From these: `TerminalOnce`, `TerminalKept`, `ConsumerSends` and
`BuiltOnce`.

**The agent tree** (`ComponentProofs`). `RootCommits` (`[]RootCommitsRegistry`),
`OneLane` (`[]OneLanePerAgent`) and `ProofsAccepted` (`[]ProofsVerify`) hold for any
number of agents, any budget and co-paths of any length, with hashing as a free
constructor. The tree is taken level by level: `UpTo` is induction over a set of
numbers, with it `LevelsTree` says that a node is the hash of the two below it,
`Climb` that a leaf with the co-path beside it folds to the root, `Descend` the
converse: what folds to the root and is no node itself is a leaf of the tree, at the
place its path bits name, and the co-path offered is the tree's own, neither shorter
nor longer. By `Accepted` it is then the registered leaf of that agent, padding
included, because an agent stands in the tree once. `SameBeside` says that a co-path
does not contain its own path, so the co-path that proved the old leaf folds the new
leaf to the root of the updated registry. `MerkleInv` adds that what an agent was
paid is the accounting in its leaf. The recursive functions of the module are unfolded
by lemmas of their own (`PowerDef`, `HalvingsDef`, `WalkDef`, `LevelsDef`).

**The others** (`ComponentProofs`). `OneUse` (`[]SingleUse`): of the calls that want
an output one holds its reservation, and a call that removes a reservation is the
one that made it (`HolderInv`, `PlaceInv`). `QuorumRules` (`QuorumRulesVaults`) is an
action property; its argument is again that slots of a well-formed head are
distinct owners (`SlotsAreOwners`). `HonestLogVerifies` (`[]BrokenOnlyAfterLoss`):
one writer at a time is inside the mutex (`MutexInv`), and as long as nothing was
lost the records are a chain that neither the anchor nor a verification in progress
is ahead of (`HonestInv`). `DeliveredInOrder` (`OrderedDelivery`, an action
property) holds for any number of endpoints, events, attempts and outages and any
batch. Its invariant `DeliveryInv` says of the stream that numbers are unique
(`StreamInv`), of the durable position of every endpoint that all that is due up to
its cursor is settled and that nothing is due between the cursor and the row
received last, or the row to be tried again (`Sound`), and of the worker what it
holds at each await (`PassInv`): of an attempt, that its row is the next one due or
a late one (`Candidate`). What became readable behind the worker is not due, so
no append or commit can break it (`AllKept`, `SoundKept`); a scan cannot skip a row
because a batch has all rows up to any of its rows (`BatchRows`).

Only model-checked:

- `Converges` and `EventuallySettled`, which are liveness: the prover does not
  support it.
- `KeptNoOverCommit`: `NoOverCommit` where no lock is reclaimed twice and no build
  is overtaken; the code breaks it otherwise.
- `ReceiptNeverStale`, `ExecutedNeverStale` and `OneHopAtATime`, which hold only on a
  chain that stands still under a write of the manifest (`settle_crash`).

## Not modelled

Transactions that spend two vault UTXOs; signatures, scripts and hashes as
bytes; the width of integers (the contract's values stay far below 2^63, the
builders use BigInt and check ranges); coin selection and fee mass; the wording
of errors. In the settlement: twins of one txid, journaled history and the
request-scoped recovery, TERMINATED_UNKNOWN vaults, governance refusals, pasted
recovers, the cap on candidate addresses and the submission claim, which no step
of the v0.4 pipeline reads back. In the requests: the read-modify-write of one
record by two handlers (`OneHandler`); there an approval that has loaded the
request when it is rejected saves it back as open, which the comment above
`markWalletRejected`'s release does not expect. In the hosted server: creation, approvals
and expiry of proposals, rotation and revocation of endpoints, signatures and the
polling API, the pruning of dead letters, windows and page limits of a
verification of the audit log. Of the facilitator: `verify`, which is `settle`
without its writes, and what is verified on chain, which is a choice. Of v0.7: the
agent path of a rooted vault, which is that of v0.4.1 with one more check, root
nonce and dust, the token covenants, whose hazards lie in the bytes of a second
covenant's script, and the request pipeline, which repeats that of v0.4. The
attempt store of the adapters is one create-exclusive file per attempt of one
process. The components marked `not_modelled` in `PROJECT.json`.

## Plan

1. Done: PolicyVaultV4, AgentMerkleV4, WalletBuildV4, BudgetReservation,
   SettlementV4; Idempotency against OncePerKey, GovernedBuild and their
   composition, WebhookDelivery, AuditChain, FacilitatorClaims, OrgRootV7; the
   proofs named above.
2. Proofs: every safety property of a passing run that the code ensures without a
   switch is proved; what the later items add is to be proved with it.
3. RequestRecordV4: collect, reject, finalize and submit as separate
   read-modify-write processes over one record, without `OneHandler`.
4. SettlementV4 continued: pasted recovers, twins, TERMINATED_UNKNOWN; an
   abstract specification of a vault's recorded history that Verify implements.
