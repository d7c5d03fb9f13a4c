--------------------------- MODULE WebhookDelivery ---------------------------
(***************************************************************************)
(* The event outbox (server/src/events-store.js) and the worker that posts  *)
(* it to webhook endpoints (server/src/events-delivery.js).                 *)
(*                                                                         *)
(* The outbox is an append-only stream with a sequence number per row, kept *)
(* by PostgreSQL (the number is taken before the row commits, so rows may   *)
(* become readable out of order) or in a file (a crash may leave a last     *)
(* line without its end, which the next append runs into).                  *)
(*                                                                         *)
(* The worker walks the subscribed endpoints in ticks.  It keeps nothing    *)
(* but the state record of an endpoint: a cursor and the event it retries.  *)
(* One tick runs at a time; a store error ends the pass over one endpoint;  *)
(* a crash of the process ends everything that is not durable.              *)
(***************************************************************************)
EXTENDS Naturals, FiniteSetsExt

CONSTANTS
  Endpoints, \* webhook endpoints
  Events,    \* platform events, each emitted at most once
  Wants,     \* pairs of an endpoint and an event it asked for and may see
  MaxAttempts, \* maxAttempts of the worker (8)
  ScanBatch,   \* scanBatch (100)
  Nothing,
  MaxOutages   \* bound: crashes and store errors

ASSUME WebhookAssumption == /\ Wants \subseteq Endpoints \X Events
                            /\ MaxAttempts \in Nat \ {0}
                            /\ ScanBatch \in Nat \ {0}
                            /\ MaxOutages \in Nat
                            /\ Nothing \notin Events

VARIABLES
  backend,   \* "json" or "postgres"
  rows,      \* the readable rows of the outbox
  flight,    \* rows that have their number and are not committed
  nextSeq,   \* the next sequence number
  edge,      \* the end of the file: "whole", "torn" or "bare"
  subscribed, \* the endpoints that have been created
  since,     \* their initialCursor
  state,     \* the durable delivery state of an endpoint
  letters,   \* dead letters: pairs of an endpoint and an event
  at,        \* the await the worker is at, "down" when there is no process
  todo,      \* endpoints this tick has not come to
  mine,      \* the endpoint of this pass
  mem,       \* its state as the worker holds it
  cand,      \* the row of the attempt
  got,       \* history: pairs of an endpoint and an event it received
  last,      \* history: the row an endpoint received last
  reach,     \* history: how far the worker has looked for an endpoint
  late,      \* history: events that became readable behind that point
  outages    \* bound: outages so far

streamVars == <<backend, rows, flight, nextSeq, edge>>
workerVars == <<at, todo, mine, mem, cand>>
receiverVars == <<got, last>>
subVars == <<subscribed, since>>
webhookVars == <<streamVars, subVars, state, letters, workerVars, receiverVars,
                 reach, late, outages>>

Row(s, e) == [seq |-> s, event |-> e]
NoRow == Row(0, Nothing)
NoRetry == [row |-> NoRow, attempts |-> 0, due |-> FALSE]
Fresh(cursor) == [cursor |-> cursor, retry |-> NoRetry]

Numbers(S) == {r.seq : r \in S}
Latest == Max(Numbers(rows) \cup {0})
Emitted == {r.event : r \in rows \cup flight}

WebhookInit ==
  /\ backend \in {"json", "postgres"}
  /\ rows = {} /\ flight = {} /\ nextSeq = 1 /\ edge = "whole"
  /\ subscribed = {} /\ since = [ep \in Endpoints |-> 0]
  /\ state = [ep \in Endpoints |-> Fresh(0)]
  /\ letters = {} /\ got = {} /\ last = [ep \in Endpoints |-> NoRow]
  /\ at = "asleep" /\ todo = {} /\ mine = Nothing /\ mem = Fresh(0) /\ cand = NoRow
  /\ reach = [ep \in Endpoints |-> 0] /\ late = {} /\ outages = 0

-----------------------------------------------------------------------------
\* The outbox.

\* A row that becomes readable at or before a number the worker has passed for
\* an endpoint will not be read for it.
Readable(R, r) ==
  /\ rows' = R \cup {r}
  /\ late' = late \cup {<<ep, r.event>> : ep \in {p \in subscribed : r.seq <= reach[p]}}

\* The file up to a line that was not ended: the next line makes it unreadable.
Ended == IF edge = "bare" THEN rows \ {Row(Latest, CHOOSE e \in Events :
                                                     Row(Latest, e) \in rows)}
         ELSE rows

New(e) == at # "down" /\ e \notin Emitted

AppendLine(e) ==
  /\ backend = "json" /\ New(e)
  /\ IF edge = "whole"
     THEN Readable(rows, Row(nextSeq, e))
     ELSE rows' = Ended /\ UNCHANGED late
  /\ edge' = "whole"
  /\ nextSeq' = nextSeq + 1
  /\ UNCHANGED <<backend, flight, subVars, state, letters, workerVars, receiverVars,
                 reach, outages>>

Insert(e) ==
  /\ backend = "postgres" /\ New(e)
  /\ flight' = flight \cup {Row(nextSeq, e)}
  /\ nextSeq' = nextSeq + 1
  /\ UNCHANGED <<backend, rows, edge, subVars, state, letters, workerVars, receiverVars,
                 reach, late, outages>>

Commit(r) ==
  /\ flight' = flight \ {r}
  /\ Readable(rows, r)
  /\ UNCHANGED <<backend, nextSeq, edge, subVars, state, letters, workerVars, receiverVars,
                 reach, outages>>

\* createEndpoint: a new endpoint starts at the current end of the stream.
Subscribe(ep) ==
  /\ at # "down" /\ ep \notin subscribed
  /\ subscribed' = subscribed \cup {ep}
  /\ since' = [since EXCEPT ![ep] = Latest]
  /\ reach' = [reach EXCEPT ![ep] = Latest]
  /\ state' = [state EXCEPT ![ep] = Fresh(Latest)]
  /\ UNCHANGED <<streamVars, letters, workerVars, receiverVars, late, outages>>

-----------------------------------------------------------------------------
\* The worker.
Leave(where) == at' = where /\ mem' = Fresh(0) /\ cand' = NoRow /\ mine' = Nothing

StartTick == /\ at = "asleep"
             /\ at' = "tick" /\ todo' = subscribed
             /\ UNCHANGED <<streamVars, subVars, state, letters, mine, mem, cand,
                            receiverVars, reach, late, outages>>

EndTick == /\ at = "tick" /\ todo = {}
           /\ at' = "asleep"
           /\ UNCHANGED <<streamVars, subVars, state, letters, todo, mine, mem, cand,
                          receiverVars, reach, late, outages>>

\* _processEndpoint reads the state once and keeps it over the whole pass.
Pick(ep) == /\ at = "tick" /\ ep \in todo
            /\ todo' = todo \ {ep}
            /\ mine' = ep /\ mem' = state[ep] /\ at' = "next"
            /\ UNCHANGED <<streamVars, subVars, state, letters, cand, receiverVars,
                           reach, late, outages>>

\* The event that failed is tried again when its backoff is over.
Retry ==
  /\ at = "next" /\ mem.retry # NoRetry
  /\ IF mem.retry.due
     THEN at' = "attempt" /\ cand' = mem.retry.row /\ UNCHANGED <<mine, mem>>
     ELSE Leave("tick")
  /\ UNCHANGED <<streamVars, subVars, state, letters, todo, receiverVars, reach, late,
                 outages>>

After(cursor) == {r \in rows : r.seq > cursor}

\* listEventsAfter: the first ScanBatch rows.
Batch(cursor) ==
  {r \in After(cursor) : Cardinality({q \in After(cursor) : q.seq < r.seq}) < ScanBatch}

Wanted(ep, R) == {r \in R : <<ep, r.event>> \in Wants}

\* Fault: the rows come back in no particular order.
Unordered(R) == CHOOSE r \in R : \A q \in R : q.seq <= r.seq

First(R) == CHOOSE r \in R : \A q \in R : r.seq <= q.seq

\* Rows that are filtered out, or not visible, are passed for good.
Passed(batch, r) == Max({q \in Numbers(batch) : q < r.seq} \cup {mem.cursor})

Scan ==
  LET batch == Batch(mem.cursor)
      wanted == Wanted(mine, batch)
      end == Max(Numbers(batch) \cup {0})
  IN /\ at = "next" /\ mem.retry = NoRetry
     /\ \/ /\ batch = {} /\ Leave("tick") /\ UNCHANGED reach
        \/ /\ batch # {} /\ wanted = {}
           /\ mem' = [mem EXCEPT !.cursor = end]
           /\ at' = "save"
           /\ reach' = [reach EXCEPT ![mine] = Max({@, end})]
           /\ UNCHANGED <<mine, cand>>
        \/ /\ wanted # {}
           /\ cand' = First(wanted)
           /\ mem' = [mem EXCEPT !.cursor = Passed(batch, First(wanted))]
           /\ at' = "attempt"
           /\ reach' = [reach EXCEPT ![mine] = Max({@, First(wanted).seq})]
           /\ UNCHANGED mine
     /\ UNCHANGED <<streamVars, subVars, state, letters, todo, receiverVars, late, outages>>

\* The post arrives, or not; a 2xx that is not seen in time is a failure too.
Receive == /\ got' = got \cup {<<mine, cand.event>>}
           /\ last' = [last EXCEPT ![mine] = cand]

Done == [mem EXCEPT !.cursor = cand.seq, !.retry = NoRetry]

\* Fault: the cursor passes the event and nothing is kept of it.
DropSilently == mem' = Done /\ at' = "park"

GiveUp == mem' = Done /\ at' = "letter"

Attempt ==
  LET tries == mem.retry.attempts + 1
  IN /\ at = "attempt"
     /\ \/ /\ Receive
           /\ mem' = Done /\ at' = "save"
        \/ /\ Receive \/ UNCHANGED receiverVars
           /\ tries >= MaxAttempts
           /\ GiveUp
        \/ /\ Receive \/ UNCHANGED receiverVars
           /\ tries < MaxAttempts
           /\ mem' = [mem EXCEPT !.retry = [row |-> cand, attempts |-> tries, due |-> FALSE]]
           /\ at' = "park"
     /\ UNCHANGED <<streamVars, subVars, state, letters, todo, mine, cand, reach, late,
                    outages>>

\* _writeDeadLetter, before the cursor passes the event.
WriteDeadLetter ==
  /\ at = "letter"
  /\ letters' = letters \cup {<<mine, cand.event>>}
  /\ at' = "park"
  /\ UNCHANGED <<streamVars, subVars, state, todo, mine, mem, cand, receiverVars, reach,
                 late, outages>>

\* After a failure the pass is over; after a success or a skipped batch it goes
\* on, for maxDeliveriesPerEndpointPerTick rounds.
Save ==
  /\ at \in {"save", "park"}
  /\ state' = [state EXCEPT ![mine] = mem]
  /\ \/ at = "save" /\ at' = "next" /\ cand' = NoRow /\ UNCHANGED <<mine, mem>>
     \/ Leave("tick")
  /\ UNCHANGED <<streamVars, subVars, letters, todo, receiverVars, reach, late, outages>>

\* The backoff of a failed event ends.
Elapse(ep) ==
  /\ state[ep].retry # NoRetry /\ ~state[ep].retry.due
  /\ state' = [state EXCEPT ![ep].retry.due = TRUE]
  /\ UNCHANGED <<streamVars, subVars, letters, workerVars, receiverVars, reach, late, outages>>

-----------------------------------------------------------------------------
\* A store call throws: tick() isolates the endpoint.
StoreThrows ==
  /\ outages < MaxOutages /\ outages' = outages + 1
  /\ at \in {"next", "save", "park", "letter"}
  /\ Leave("tick")
  /\ UNCHANGED <<streamVars, subVars, state, letters, todo, receiverVars, reach, late>>

\* The process dies, perhaps in the middle of an append to the file.
CrashInLine ==
  \/ UNCHANGED <<rows, nextSeq, edge, late>>
  \/ /\ backend = "json"
     /\ rows' = Ended /\ edge' = "torn"
     /\ UNCHANGED <<nextSeq, late>>
  \/ /\ backend = "json" /\ edge = "whole"
     /\ \E e \in Events \ Emitted : Readable(rows, Row(nextSeq, e))
     /\ edge' = "bare"
     /\ UNCHANGED nextSeq

Crash ==
  /\ outages < MaxOutages /\ outages' = outages + 1
  /\ at # "down"
  /\ Leave("down") /\ todo' = {}
  /\ CrashInLine
  /\ UNCHANGED <<backend, flight, subVars, state, letters, receiverVars, reach>>

\* The file's counter restarts after its last readable row.
Restart ==
  /\ at = "down" /\ at' = "asleep"
  /\ nextSeq' = IF backend = "json" THEN Latest + 1 ELSE nextSeq
  /\ UNCHANGED <<backend, rows, flight, edge, subVars, state, letters, todo, mine, mem,
                 cand, receiverVars, reach, late, outages>>

WorkerStep ==
  \/ StartTick \/ EndTick \/ (\E ep \in Endpoints : Pick(ep)) \/ Retry \/ Scan \/ Attempt
  \/ WriteDeadLetter \/ Save \/ Restart

WebhookNext ==
  \/ WorkerStep
  \/ \E e \in Events : AppendLine(e) \/ Insert(e)
  \/ \E r \in flight : Commit(r)
  \/ \E ep \in Endpoints : Subscribe(ep) \/ Elapse(ep)
  \/ StoreThrows \/ Crash

WebhookSpec == WebhookInit /\ [][WebhookNext]_webhookVars

\* The timer loop keeps running, the process is restarted, time passes.
WebhookFairness ==
  /\ WF_webhookVars(WorkerStep)
  /\ \A ep \in Endpoints : WF_webhookVars(Elapse(ep))

-----------------------------------------------------------------------------
\* What an endpoint is owed: the rows after its subscription that it asked for
\* and that did not become readable too late.
Due(ep) == IF ep \notin subscribed THEN {}
           ELSE {r \in rows : /\ r.seq > since[ep]
                              /\ <<ep, r.event>> \in Wants \ late}

Settled(ep, e) == <<ep, e>> \in got \cup letters

\* Events arrive in the order of the stream: before an endpoint receives an
\* event it has received, or the dead letters hold, everything due before it;
\* it receives an older event after a newer one only when that became readable
\* late.
OrderedDelivery ==
  [][\A ep \in Endpoints : last'[ep] # last[ep] =>
       /\ last'[ep].seq >= last[ep].seq \/ <<ep, last'[ep].event>> \in late
       /\ \A q \in Due(ep) : q.seq < last'[ep].seq => Settled(ep, q.event)]_last

\* An event that is due is received or ends as a dead letter, whatever the
\* receiver answers and however often the server stops, unless a damaged line
\* of the file takes it away.
EventuallySettled ==
  \A ep \in Endpoints, e \in Events :
    (\E r \in Due(ep) : r.event = e)
      ~> (Settled(ep, e) \/ \A r \in Due(ep) : r.event # e)
=============================================================================
