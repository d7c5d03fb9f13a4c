--------------------------- MODULE GovernedBuild ---------------------------
(***************************************************************************)
(* An authority expansion of a v0.4 vault on the hosted server: the build   *)
(* route (server/src/api.js) admits a request under an approved governance  *)
(* proposal, the SDK saves the built request, finishBuiltV4Request stamps   *)
(* it with its manifest and its proposal, and markProposalConsumed          *)
(* (server/src/governance.js) turns the proposal CONSUMED, against other    *)
(* builds and against cancelProposal.  The signature and submit routes ask  *)
(* the gate of server/src/intent-records.js before they go on.              *)
(*                                                                         *)
(* One proposal; it has its approvals.  Every action is one await: a        *)
(* transition lock that ages under a slow or dead holder, the create-only   *)
(* terminal claim that arbitrates behind it, the record write, the release. *)
(* Clients sign and submit a request as soon as it is durable.              *)
(***************************************************************************)
EXTENDS Naturals

CONSTANTS
  Builds,     \* handlers of the build route; each builds one request
  Cancels,    \* handlers of the cancel route
  NoOne,
  Asked,      \* bound: the requests somebody signs and submits
  MaxMishaps  \* bound: stale locks, store failures and handlers cut short

ASSUME GovernedAssumption == /\ Builds \cap Cancels = {}
                             /\ NoOne \notin Builds \cup Cancels
                             /\ Asked \subseteq Builds
                             /\ MaxMishaps \in Nat

Handlers == Builds \cup Cancels

VARIABLES
  proposal, \* the durable proposal record
  terminal, \* its create-only terminal claim, or NoClaim
  lock,     \* its transition lock, or NoLock
  request,  \* the durable request of a build, or NoRequest
  step,     \* the await a handler is at
  verdict,  \* what a handler will answer: "" until it knows
  client,   \* the await the signature or submit route of a request is at
  copy,     \* the record that route has loaded
  sent,     \* history: how a request was broadcast
  mishaps   \* bound: mishaps so far

governedVars ==
  <<proposal, terminal, lock, request, step, verdict, client, copy, sent, mishaps>>

Open == [status |-> "OPEN", by |-> NoOne]
Consumed(b) == [status |-> "CONSUMED", by |-> b]
Cancelled(c) == [status |-> "CANCELLED", by |-> c]
NoClaim == [status |-> "NONE", by |-> NoOne]
NoLock == [holder |-> NoOne, stale |-> FALSE]
NoRequest == [state |-> "NONE", stamped |-> FALSE, mark |-> ""]

\* The request as the SDK saves it; manifestHash and governanceProposalId are
\* set later, in memory, by finishBuiltV4Request.
Built == [NoRequest EXCEPT !.state = "BUILT"]

Terminal(h) == IF h \in Builds THEN Consumed(h) ELSE Cancelled(h)

GovernedInit ==
  /\ proposal = Open /\ terminal = NoClaim /\ lock = NoLock
  /\ request = [b \in Builds |-> NoRequest]
  /\ step = [h \in Handlers |-> "start"]
  /\ verdict = [h \in Handlers |-> ""]
  /\ client = [b \in Builds |-> "ready"]
  /\ copy = [b \in Builds |-> NoRequest]
  /\ sent = [b \in Builds |-> "no"]
  /\ mishaps = 0

\* applyTerminalClaim and effectiveProposalStatus: the claim is terminal truth
\* for a record whose own write never landed; consumption evidence stays.
Effective == IF proposal.status = "CONSUMED" \/ terminal = NoClaim
             THEN proposal ELSE terminal

Mishap == mishaps < MaxMishaps /\ mishaps' = mishaps + 1
Go(h, l) == step' = [step EXCEPT ![h] = l]
Routes == <<client, copy, sent>>
Records == <<proposal, terminal, request>>

-----------------------------------------------------------------------------
\* The build route, up to the consumption.

\* requireApprovedProposal: a terminal proposal admits no build.
Admit(b) == /\ step[b] = "start"
            /\ IF Effective.status = "OPEN"
               THEN Go(b, "save") /\ UNCHANGED verdict
               ELSE Go(b, "over") /\ verdict' = [verdict EXCEPT ![b] = "refused"]
            /\ UNCHANGED <<Records, lock, Routes, mishaps>>

SaveBuilt(b) == /\ step[b] = "save"
                /\ request' = [request EXCEPT ![b] = Built]
                /\ Go(b, "stamp")
                /\ UNCHANGED <<proposal, terminal, lock, verdict, Routes, mishaps>>

\* The whole record as this handler holds it, over whatever is stored.
SaveMarked(b, mark) ==
  request' = [request EXCEPT ![b] = [Built EXCEPT !.stamped = TRUE, !.mark = mark]]

\* recordManifestForRequest and the save of the stamped request, which is
\* refused next when its transaction does not verify against the manifest.
Stamp(b) == /\ step[b] = "stamp"
            /\ SaveMarked(b, "")
            /\ \/ Go(b, "lock") /\ UNCHANGED verdict
               \/ Go(b, "over") /\ verdict' = [verdict EXCEPT ![b] = "refused"]
            /\ UNCHANGED <<proposal, terminal, lock, Routes, mishaps>>

\* The manifest cannot be derived: intentRecording FAILED.
StampFails(b) == /\ step[b] = "stamp"
                 /\ request' = [request EXCEPT ![b] = [Built EXCEPT !.mark = "FAILED"]]
                 /\ Go(b, "over")
                 /\ verdict' = [verdict EXCEPT ![b] = "refused"]
                 /\ UNCHANGED <<proposal, terminal, lock, Routes, mishaps>>

\* A refused consumption marks the request before the refusal is answered.
MarkRefused(b) == /\ step[b] = "mark"
                  /\ SaveMarked(b, "REFUSED")
                  /\ Go(b, "over")
                  /\ UNCHANGED <<proposal, terminal, lock, verdict, Routes, mishaps>>

StartCancel(c) == /\ step[c] = "start" /\ c \in Cancels
                  /\ Go(c, "lock")
                  /\ UNCHANGED <<Records, lock, verdict, Routes, mishaps>>

-----------------------------------------------------------------------------
\* markProposalConsumed and cancelProposal.
Refused(h) == verdict' = [verdict EXCEPT ![h] = "refused"]
Thrown(h) == verdict' = [verdict EXCEPT ![h] = IF h \in Builds THEN "refused" ELSE "thrown"]
After(h) == IF h \in Builds /\ verdict[h] = "refused" THEN "mark" ELSE "over"

TakeLock(h) == /\ step[h] = "lock"
               /\ lock = NoLock
               /\ lock' = [holder |-> h, stale |-> FALSE]
               /\ Go(h, "decide")
               /\ UNCHANGED <<Records, verdict, Routes, mishaps>>

SeeStaleLock(h) == /\ step[h] = "lock"
                   /\ lock.stale
                   /\ Go(h, "reclaim")
                   /\ UNCHANGED <<Records, lock, verdict, Routes, mishaps>>

\* Whatever lock is there by now is removed.
Reclaim(h) == /\ step[h] = "reclaim"
              /\ lock' = NoLock
              /\ Go(h, "lock")
              /\ UNCHANGED <<Records, verdict, Routes, mishaps>>

\* GOVERNANCE_TRANSITION_BUSY, after 80 attempts on a live lock.
Busy(h) == /\ step[h] = "lock"
           /\ lock # NoLock /\ ~lock.stale
           /\ Refused(h)
           /\ Go(h, IF h \in Builds THEN "mark" ELSE "over")
           /\ UNCHANGED <<Records, lock, Routes, mishaps>>

\* The durable record is read again under the lock.
Decide(h) == /\ step[h] = "decide"
             /\ IF Effective.status = "OPEN"
                THEN Go(h, "claim") /\ UNCHANGED verdict
                ELSE Go(h, "unlock") /\ Refused(h)
             /\ UNCHANGED <<Records, lock, Routes, mishaps>>

\* Fault: the lock alone decides, as before GOVERNANCE-TERMINAL-RACE-01.
ClaimByLock(h) == /\ step[h] = "claim"
                  /\ terminal' = Terminal(h)
                  /\ Go(h, "write")
                  /\ UNCHANGED <<proposal, request, lock, verdict, Routes, mishaps>>

\* claimTerminalTransition: createExclusive.
ClaimTerminal(h) ==
  /\ step[h] = "claim"
  /\ IF terminal = NoClaim
     THEN terminal' = Terminal(h) /\ Go(h, "write") /\ UNCHANGED verdict
     ELSE Go(h, "unlock") /\ Refused(h) /\ UNCHANGED terminal
  /\ UNCHANGED <<proposal, request, lock, Routes, mishaps>>

WriteTerminal(h) == /\ step[h] = "write"
                    /\ proposal' = Terminal(h)
                    /\ verdict' = [verdict EXCEPT ![h] = "done"]
                    /\ Go(h, "unlock")
                    /\ UNCHANGED <<terminal, request, lock, Routes, mishaps>>

\* releaseTransitionLock reads its own lock, then removes by key.
ReadOwnLock(h) == /\ step[h] = "unlock"
                  /\ Go(h, IF lock.holder = h THEN "remove" ELSE After(h))
                  /\ UNCHANGED <<Records, lock, verdict, Routes, mishaps>>

RemoveLock(h) == /\ step[h] = "remove"
                 /\ lock' = NoLock
                 /\ Go(h, After(h))
                 /\ UNCHANGED <<Records, verdict, Routes, mishaps>>

LockAges == /\ lock # NoLock /\ ~lock.stale
            /\ Mishap
            /\ lock' = [lock EXCEPT !.stale = TRUE]
            /\ UNCHANGED <<Records, step, verdict, Routes>>

\* A store call of a handler throws.  The build route answers 422 for an error
\* without a status (v4Error), the cancel route 500; the release of the lock
\* swallows its error.  Of the writes only the terminal claim is told apart
\* by whether it was applied.
StoreFails(h) ==
  /\ Mishap
  /\ \/ /\ step[h] \in {"save", "stamp", "mark"}
        /\ Go(h, "over") /\ Thrown(h) /\ UNCHANGED terminal
     \/ /\ step[h] = "lock"
        /\ Go(h, IF h \in Builds THEN "mark" ELSE "over") /\ Thrown(h)
        /\ UNCHANGED terminal
     \/ /\ step[h] \in {"decide", "claim", "write"}
        /\ Go(h, "unlock") /\ Thrown(h)
        /\ \/ UNCHANGED terminal
           \/ step[h] = "claim" /\ terminal = NoClaim /\ terminal' = Terminal(h)
     \/ /\ step[h] \in {"unlock", "remove"}
        /\ Go(h, After(h)) /\ UNCHANGED <<verdict, terminal>>
  /\ UNCHANGED <<proposal, request, lock, Routes>>

-----------------------------------------------------------------------------
\* The signature and submit routes.

\* Fault: the gate believes the request's own marker.
GateByMarker(r, b) == r.mark = ""

\* assertRequestManifestVerified: a request without a manifestHash passes as
\* one that predates recording; a stamped one must be its proposal's consumer.
Gate(r, b) == r.mark = "" /\ (r.stamped => Effective = Consumed(b))

PassGate(b, from, to) == /\ client[b] = from
                         /\ request[b] # NoRequest
                         /\ Gate(request[b], b)
                         /\ client' = [client EXCEPT ![b] = to]
                         /\ UNCHANGED <<Records, lock, step, verdict, copy, sent, mishaps>>

\* finalizeWalletRequestV4 loads the request after the gate ...
Load(b) == /\ client[b] = "gated" /\ request[b].state = "BUILT"
           /\ copy' = [copy EXCEPT ![b] = request[b]]
           /\ client' = [client EXCEPT ![b] = "loaded"]
           /\ UNCHANGED <<Records, lock, step, verdict, sent, mishaps>>

\* ... reads it again before it writes, and gives up when it has moved ...
Reread(b) == /\ client[b] = "loaded"
             /\ client' = [client EXCEPT ![b] =
                             IF request[b] = copy[b] THEN "same" ELSE "ready"]
             /\ UNCHANGED <<Records, lock, step, verdict, copy, sent, mishaps>>

\* ... and saves its copy with the signed transaction.
SaveFinal(b) ==
  /\ client[b] = "same"
  /\ request' = [request EXCEPT ![b] = [copy[b] EXCEPT !.state = "PREFLIGHT_VERIFIED"]]
  /\ client' = [client EXCEPT ![b] = "signed"]
  /\ UNCHANGED <<proposal, terminal, lock, step, verdict, copy, sent, mishaps>>

\* submitWalletRequestV4 loads the request, saves SUBMITTING and broadcasts.
Submit(b) ==
  /\ client[b] = "cleared"
  /\ IF request[b].state = "PREFLIGHT_VERIFIED"
     THEN /\ request' = [request EXCEPT ![b].state = "SUBMITTING"]
          /\ sent' = [sent EXCEPT ![b] = IF request[b].stamped THEN "stamped" ELSE "bare"]
     ELSE UNCHANGED <<request, sent>>
  /\ client' = [client EXCEPT ![b] = "over"]
  /\ UNCHANGED <<proposal, terminal, lock, step, verdict, copy, mishaps>>

-----------------------------------------------------------------------------
BuildStep(b) == \/ Admit(b) \/ SaveBuilt(b) \/ Stamp(b) \/ StampFails(b) \/ MarkRefused(b)

TransitionStep(h) ==
  \/ TakeLock(h) \/ SeeStaleLock(h) \/ Reclaim(h) \/ Busy(h) \/ Decide(h)
  \/ ClaimTerminal(h) \/ WriteTerminal(h) \/ ReadOwnLock(h) \/ RemoveLock(h)

HandlerStep(h) == \/ h \in Builds /\ BuildStep(h)
                  \/ StartCancel(h)
                  \/ TransitionStep(h)

ClientStep(b) == \/ PassGate(b, "ready", "gated") \/ Load(b) \/ Reread(b) \/ SaveFinal(b)
                 \/ PassGate(b, "signed", "cleared") \/ Submit(b)

\* The process of a handler dies.
Cut(h) == /\ step[h] \notin {"start", "over", "cut"}
          /\ Mishap
          /\ Go(h, "cut")
          /\ UNCHANGED <<Records, lock, verdict, Routes>>

GovernedNext == \/ \E h \in Handlers : HandlerStep(h) \/ StoreFails(h) \/ Cut(h)
                \/ \E b \in Asked : ClientStep(b)
                \/ LockAges

GovernedSpec == GovernedInit /\ [][GovernedNext]_governedVars

-----------------------------------------------------------------------------
\* A proposal is executed or cancelled once, and only one of the two: at most
\* one handler answers success, though the lock that serializes them can go
\* stale under a holder that is only slow.
OneTerminalOutcome ==
  \A g, h \in Handlers : verdict[g] = "done" /\ verdict[h] = "done" => g = h

\* Terminal evidence is permanent: once the record or the claim says that the
\* proposal was consumed by a request, or cancelled, every later read says so.
TerminalEvidenceKept ==
  [][Effective.status # "OPEN" => Effective' = Effective]_governedVars

\* A stamped request is broadcast only when its proposal was consumed by it,
\* whatever became of its own marker.
SentIsConsumer == \A b \in Builds : sent[b] = "stamped" => Effective = Consumed(b)

\* The rule as the gate states it, for every governed build.
EverySentIsConsumer == \A b \in Builds : sent[b] # "no" => Effective = Consumed(b)
=============================================================================
