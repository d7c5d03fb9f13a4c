---------------------------- MODULE Idempotency ----------------------------
(***************************************************************************)
(* withIdempotency of server/src/idempotency.js: an HTTP call that carries  *)
(* an Idempotency-Key claims the key with a create-only record, runs its    *)
(* handler, retains the response in the claim (PREPARED) and then completes *)
(* the record, each by compare-and-set.  A call that loses the key answers  *)
(* from the record.  A claim never expires and is never reset.              *)
(*                                                                         *)
(* The store may apply a write and lose the acknowledgement, refuse it, or  *)
(* apply it later; a process may die between any two store calls.  What the *)
(* handler does is the business of the module that composes this one; here  *)
(* it returns any definitive outcome, or fails without one.                 *)
(***************************************************************************)
EXTENDS Naturals

CONSTANTS
  Calls,      \* calls of withIdempotency and of recoverIdempotency
  Recoveries, \* those that are recoverIdempotency, which has no handler
  Keys,       \* composite keys: the caller's scope and its Idempotency-Key
  KeyOf,      \* the key of a call
  BodyOf,     \* the requestFingerprint of a call
  Outcomes,   \* definitive outcomes (2xx to 4xx) of a handler
  None,
  Groups,     \* bound: the calls that are made in one behaviour
  MaxFaults   \* bound: store calls that throw, and processes that die

ASSUME IdemAssumption == /\ Recoveries \subseteq Calls
                         /\ Groups \subseteq SUBSET Calls
                         /\ KeyOf \in [Calls -> Keys]
                         /\ MaxFaults \in Nat
                         /\ None \notin Outcomes

VARIABLES
  claims,   \* the durable record of a key, or None
  at,       \* the await a call is at
  held,     \* the record a call expects to find, and will replace
  returned, \* the definitive outcome of the handler a call ran, or None
  flying,   \* writes that threw and may still be applied
  ran,      \* history: the calls that ran their handler
  answer,   \* what a call was answered, or None
  faults    \* bound: faults so far

idemVars == <<claims, at, held, returned, flying, ran, answer, faults>>

Refusals == {"UNRESOLVED", "IN_PROGRESS", "CONFLICT", "INSPECTED"}

ASSUME RefusalAssumption == Outcomes \cap Refusals = {} /\ None \notin Refusals

\* status, outcomeState and completionReceipt of the stored record as one
\* state: a claim, one whose outcome is unknown, one that retains its
\* response, a complete one.
Record == [owner: Calls, body: {BodyOf[c] : c \in Calls},
           state: {"IN_PROGRESS", "UNKNOWN", "PREPARED", "COMPLETE"},
           response: Outcomes \cup {None}]

ASSUME NoneAssumption == None \notin Record

ClaimOf(c) == [owner |-> c, body |-> BodyOf[c], state |-> "IN_PROGRESS",
               response |-> None]
Unknown(r) == [r EXCEPT !.state = "UNKNOWN"]
Prepared(r, o) == [r EXCEPT !.state = "PREPARED", !.response = o]
Completed(r) == [r EXCEPT !.state = "COMPLETE"]

IdemInit == /\ claims = [k \in Keys |-> None]
            /\ \E g \in Groups :
                 at = [c \in Calls |-> IF c \in g THEN "idle" ELSE "absent"]
            /\ held = [c \in Calls |-> None]
            /\ returned = [c \in Calls |-> None]
            /\ flying = {}
            /\ ran = {}
            /\ answer = [c \in Calls |-> None]
            /\ faults = 0

Goto(c, l) == at' = [at EXCEPT ![c] = l]
Hold(c, r) == held' = [held EXCEPT ![c] = r]

\* The call is over; deliver answers with a response, anything else throws.
Tell(c, a) == /\ answer' = [answer EXCEPT ![c] = a]
              /\ Goto(c, "answered")
              /\ UNCHANGED <<claims, held, returned, flying, ran, faults>>

-----------------------------------------------------------------------------
\* The store.  createExclusive is a compare-and-set against an absent record.

Matches(k, expected) == claims[k] = expected

Put(w) == claims' = [claims EXCEPT ![w.key] = w.next]

\* A write that throws was applied, was not applied, or will be applied.
Throws(w) ==
  /\ faults < MaxFaults
  /\ faults' = faults + 1
  /\ \/ Matches(w.key, w.expected) /\ Put(w) /\ UNCHANGED flying
     \/ flying' = flying \cup {w} /\ UNCHANGED claims
     \/ UNCHANGED <<claims, flying>>

\* A write nobody waits for any more takes effect, or finds another record.
Land == \E w \in flying :
  /\ flying' = flying \ {w}
  /\ IF Matches(w.key, w.expected) THEN Put(w) ELSE UNCHANGED claims
  /\ UNCHANGED <<at, held, returned, ran, answer, faults>>

\* advance: the compare-and-set of the held record; when it does not report
\* success, a read-back decides.
Advance(c, next, then, readback) ==
  LET w == [key |-> KeyOf[c], expected |-> held[c], next |-> next]
  IN /\ \/ /\ Matches(w.key, w.expected) /\ Put(w)
           /\ Goto(c, then) /\ Hold(c, next)
           /\ UNCHANGED <<flying, faults>>
        \/ /\ ~Matches(w.key, w.expected)
           /\ Goto(c, readback)
           /\ UNCHANGED <<claims, held, flying, faults>>
        \/ Throws(w) /\ Goto(c, readback) /\ UNCHANGED held
     /\ UNCHANGED <<returned, ran, answer>>

\* Fault: a write that was not acknowledged counts as done.
ReadBackUnread(c, next, then) ==
  /\ Goto(c, then) /\ Hold(c, next)
  /\ UNCHANGED <<claims, returned, flying, ran, answer, faults>>

\* The read finds the record that was to be written, or another one, or throws.
ReadBack(c, next, then) ==
  \/ /\ claims[KeyOf[c]] = next
     /\ Goto(c, then) /\ Hold(c, next)
     /\ UNCHANGED <<claims, returned, flying, ran, answer, faults>>
  \/ Tell(c, "UNRESOLVED")

-----------------------------------------------------------------------------
\* withIdempotency and recoverIdempotency.
Arrive(c) == /\ at[c] = "idle"
             /\ Goto(c, IF c \in Recoveries THEN "look" ELSE "claim")
             /\ UNCHANGED <<claims, held, returned, flying, ran, answer, faults>>

\* Fault: an unfinished claim may be taken over, as if it had gone stale.
TakesOver(k) == claims[k] # None => claims[k].state = "IN_PROGRESS"

Free(k) == claims[k] = None

Claim(c) ==
  LET w == [key |-> KeyOf[c], expected |-> None, next |-> ClaimOf(c)]
  IN /\ at[c] = "claim"
     /\ \/ /\ Free(w.key) /\ Put(w)
           /\ Goto(c, "run") /\ Hold(c, w.next)
           /\ ran' = ran \cup {c}
           /\ UNCHANGED <<returned, flying, answer, faults>>
        \/ /\ ~Free(w.key)
           /\ Goto(c, "look")
           /\ UNCHANGED <<claims, held, returned, flying, ran, answer, faults>>
        \/ /\ Throws(w)
           /\ answer' = [answer EXCEPT ![c] = "UNRESOLVED"]
           /\ Goto(c, "answered")
           /\ UNCHANGED <<held, returned, ran>>

\* The handler returns a response, or throws an error of the 4xx range.
Returns(c, o) == /\ at[c] = "run"
                 /\ returned' = [returned EXCEPT ![c] = o]
                 /\ Goto(c, "prepare")
                 /\ UNCHANGED <<claims, held, flying, ran, answer, faults>>

\* The handler throws anything else: it may have had its effect.
Fails(c) == /\ at[c] = "run"
            /\ Goto(c, "mark")
            /\ UNCHANGED <<claims, held, returned, flying, ran, answer, faults>>

Mark(c) == /\ at[c] = "mark"
           /\ Advance(c, Unknown(held[c]), "unresolved", "unresolved")

Unresolved(c) == at[c] = "unresolved" /\ Tell(c, "UNRESOLVED")

Prepare(c) == /\ at[c] = "prepare"
              /\ Advance(c, Prepared(held[c], returned[c]), "finalize", "prepared?")

CheckPrepared(c) == /\ at[c] = "prepared?"
                    /\ ReadBack(c, Prepared(held[c], returned[c]), "finalize")

Finalize(c) == /\ at[c] = "finalize"
               /\ Advance(c, Completed(held[c]), "deliver", "complete?")

CheckComplete(c) == /\ at[c] = "complete?"
                    /\ ReadBack(c, Completed(held[c]), "deliver")

\* finalize is over.  A recovery answers with the state of the record.
Deliver(c) == /\ at[c] = "deliver"
              /\ Tell(c, IF c \in Recoveries THEN "INSPECTED" ELSE held[c].response)

\* Fault: the fingerprint is not compared.
AnyRequest(r, c) == TRUE

SameRequest(r, c) == r.body = BodyOf[c]

\* existingOutcome of a call that lost the key; recoverIdempotency.
Look(c) ==
  LET r == claims[KeyOf[c]]
  IN /\ at[c] = "look"
     /\ \/ r = None /\ Tell(c, "UNRESOLVED")
        \/ r # None /\ ~SameRequest(r, c) /\ Tell(c, "CONFLICT")
        \/ /\ r # None /\ SameRequest(r, c)
           /\ \/ /\ r.state = "COMPLETE"
                 /\ Tell(c, IF c \in Recoveries THEN "INSPECTED" ELSE r.response)
              \/ /\ r.state = "PREPARED"
                 /\ Goto(c, "finalize") /\ Hold(c, r)
                 /\ UNCHANGED <<claims, returned, flying, ran, answer, faults>>
              \/ r.state = "UNKNOWN" /\ Tell(c, "UNRESOLVED")
              \/ /\ r.state = "IN_PROGRESS"
                 /\ Tell(c, IF c \in Recoveries THEN "UNRESOLVED" ELSE "IN_PROGRESS")

\* The process of a call dies.
Die(c) == /\ faults < MaxFaults
          /\ at[c] \notin {"absent", "idle", "answered", "dead"}
          /\ Goto(c, "dead")
          /\ faults' = faults + 1
          /\ UNCHANGED <<claims, held, returned, flying, ran, answer>>

\* Everything a call does once its handler is over, and before it starts.
Around(c) == \/ Arrive(c) \/ Claim(c) \/ Mark(c) \/ Unresolved(c) \/ Prepare(c)
             \/ CheckPrepared(c) \/ Finalize(c) \/ CheckComplete(c) \/ Deliver(c)
             \/ Look(c)

Handler(c) == Fails(c) \/ \E o \in Outcomes : Returns(c, o)

IdemNext == Land \/ \E c \in Calls : Around(c) \/ Handler(c) \/ Die(c)

IdemSpec == IdemInit /\ [][IdemNext]_idemVars

-----------------------------------------------------------------------------
seen == <<ran, returned, answer>>

\* The refinement mapping: who ran the handler of a key, and what it returned.
RanFor == [k \in Keys |-> {c \in ran : KeyOf[c] = k}]
Over(k) == {c \in ran : KeyOf[c] = k /\ returned[c] # None}
ResultOf == [k \in Keys |-> IF Over(k) = {} THEN None
                            ELSE returned[CHOOSE c \in Over(k) : TRUE]]

\* The claims protocol implements OncePerKey: the handler of a key runs at
\* most once whatever is lost, late or dead, and whoever is answered with an
\* outcome is answered with the outcome of that run, for the same request.
Promise == INSTANCE OncePerKey WITH ran <- RanFor, result <- ResultOf

\* [][Promise!Next]_Promise!vars, in a form that looks at the mapped variables
\* only when one of the three they are made of changes.
OncePerKeySpec ==
  Promise!Init /\ [][seen' # seen /\ (Promise!Next \/ UNCHANGED Promise!vars)]_seen

\* A delivered response is durable before it is delivered: any later call of
\* the same request finds it complete.
DeliveredIsDurable ==
  \A c \in Calls : answer[c] \in Outcomes =>
    /\ claims[KeyOf[c]] # None
    /\ claims[KeyOf[c]].state = "COMPLETE"
    /\ claims[KeyOf[c]].response = answer[c]
=============================================================================
