---------------------------- MODULE HostedBuild ----------------------------
(***************************************************************************)
(* The governed build route behind an Idempotency-Key: server/src/api.js    *)
(* runs dispatchRoute inside withIdempotency.  A handler of GovernedBuild   *)
(* is the handler an Idempotency call runs, so it takes its steps while its *)
(* call is at "run", and what it answers is what the key retains.           *)
(***************************************************************************)
EXTENDS Idempotency, GovernedBuild, FiniteSets

CONSTANT MaxTrouble \* bound: calls, faults and mishaps of a behaviour together

ASSUME HostedAssumption == /\ Handlers \cup Recoveries = Calls
                           /\ Handlers \cap Recoveries = {}
                           /\ Outcomes = {"done", "refused"}

hostedVars == <<idemVars, governedVars>>

HostedInit == IdemInit /\ GovernedInit

Run(h) == at[h] = "run" /\ HandlerStep(h) /\ UNCHANGED idemVars

Trip(h) == at[h] = "run" /\ StoreFails(h) /\ UNCHANGED idemVars

\* The answer of the route.  After a completed build the audit append may
\* fail, which the route also answers with 422; after a cancel that is an
\* error without a status.
Respond(h) ==
  /\ step[h] = "over"
  /\ \/ verdict[h] = "thrown" /\ Fails(h) /\ UNCHANGED mishaps
     \/ verdict[h] # "thrown" /\ Returns(h, verdict[h]) /\ UNCHANGED mishaps
     \/ h \in Builds /\ verdict[h] = "done" /\ Mishap /\ Returns(h, "refused")
     \/ h \in Cancels /\ verdict[h] = "done" /\ Mishap /\ Fails(h)
  /\ UNCHANGED <<Records, lock, step, verdict, Routes>>

\* A process dies, with the handler of its call when that is running.
Stop(c) == /\ Die(c)
           /\ IF c \in Handlers /\ at[c] = "run"
              THEN step' = [step EXCEPT ![c] = "cut"] ELSE UNCHANGED step
           /\ UNCHANGED <<Records, lock, verdict, Routes, mishaps>>

HostedNext ==
  /\ \/ (Land \/ \E c \in Calls : Around(c)) /\ UNCHANGED governedVars
     \/ \E h \in Handlers : Run(h) \/ Trip(h) \/ Respond(h)
     \/ \E c \in Calls : Stop(c)
     \/ (LockAges \/ \E b \in Asked : ClientStep(b)) /\ UNCHANGED idemVars
  /\ faults' + mishaps' + Cardinality({c \in Calls : at[c] # "absent"}) <= MaxTrouble

HostedSpec == HostedInit /\ [][HostedNext]_hostedVars

-----------------------------------------------------------------------------
\* However often a build is retried under its key, at most one request of it
\* becomes durable, so at most one can be signed.
OneBuildPerKey ==
  \A a, b \in Builds :
    KeyOf[a] = KeyOf[b] /\ request[a] # NoRequest /\ request[b] # NoRequest => a = b
=============================================================================
