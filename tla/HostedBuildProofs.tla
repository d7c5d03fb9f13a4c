-------------------------- MODULE HostedBuildProofs --------------------------
(***************************************************************************)
(* Proofs about HostedBuild, for any calls, keys, builds and cancels of a   *)
(* proposal and any number of faults and mishaps.  The composition steps as *)
(* Idempotency does, so what IdempotencyProofs shows of the claims protocol *)
(* holds of it; the handlers it runs keep the invariant of                  *)
(* GovernedBuildProofs.                                                     *)
(***************************************************************************)
EXTENDS HostedBuild, IdempotencyProofs, GovernedBuildProofs

\* A handler that has started is run by a call.
Joined == \A h \in Handlers : step[h] # "start" => h \in ran

HostedInv == IdemInv /\ GovInv /\ Joined

-----------------------------------------------------------------------------
\* A handler is run by a call of its name.
LEMMA HandlersAreCalls == Handlers \subseteq Calls
BY HostedAssumption

\* The answer of a handler that is over is a definitive outcome of its call.
LEMMA RespondAnswers ==
  ASSUME HostedInv, NEW h \in Handlers, Respond(h)
  PROVE  Handler(h)
<1>1. verdict[h] \in {"done", "refused", "thrown"}
  BY DEF HostedInv, GovInv, GovTypes, HandlerInv, Respond
<1>2. \A o \in {"done", "refused"} : Returns(h, o) => Handler(h)
  BY HostedAssumption DEF Handler
<1>3. Fails(h) => Handler(h)
  BY DEF Handler
<1>. QED  BY <1>1, <1>2, <1>3 DEF Respond

\* Every step of the composition is one of the claims protocol, or none.
LEMMA HostedIsIdem == HostedInv /\ [HostedNext]_hostedVars => [IdemNext]_idemVars
<1>. SUFFICES ASSUME HostedInv, HostedNext PROVE [IdemNext]_idemVars
  BY DEF hostedVars, idemVars
<1>1. CASE Land \/ \E c \in Calls : Around(c)
  BY <1>1 DEF IdemNext
<1>2. CASE \E h \in Handlers : Run(h) \/ Trip(h)
  BY <1>2 DEF Run, Trip
<1>3. CASE \E h \in Handlers : Respond(h)
  BY <1>3, RespondAnswers, HandlersAreCalls DEF IdemNext
<1>4. CASE \E c \in Calls : Stop(c)
  BY <1>4 DEF Stop, IdemNext
<1>5. CASE UNCHANGED idemVars
  BY <1>5
<1>. QED  BY <1>1, <1>2, <1>3, <1>4, <1>5 DEF HostedNext

\* What a step of the composition does to the governed build.
LEMMA GovernedEffect ==
  ASSUME HostedInv, HostedNext
  PROVE  \/ \E h \in Handlers : at[h] = "run" /\ (HandlerStep(h) \/ StoreFails(h))
         \/ \E h \in Handlers : at[h] = "run" /\ Moves(h, "cut", verdict[h])
         \/ \E b \in Builds : ClientStep(b)
         \/ UNCHANGED <<proposal, terminal, request, step, verdict, client, copy, sent>>
<1>1. CASE UNCHANGED governedVars
  BY <1>1 DEF governedVars
<1>2. CASE \E h \in Handlers : Run(h) \/ Trip(h)
  BY <1>2 DEF Run, Trip
<1>3. CASE \E h \in Handlers : Respond(h)
  BY <1>3 DEF Respond, Records, Routes
<1>4. ASSUME NEW c \in Calls, Stop(c)
      PROVE  \/ c \in Handlers /\ at[c] = "run" /\ Moves(c, "cut", verdict[c])
             \/ UNCHANGED <<proposal, terminal, request, step, verdict, client, copy, sent>>
  BY <1>4, SameVerdict DEF HostedInv, Stop, Moves, Records, Routes
<1>5. CASE LockAges \/ \E b \in Asked : ClientStep(b)
  BY <1>5, GovernedAssumption DEF LockAges, Records, Routes
<1>. QED  BY <1>1, <1>2, <1>3, <1>4, <1>5 DEF HostedNext

\* So every step of the composition keeps the invariant of the governed build.
LEMMA GovStepKept == ASSUME HostedInv, HostedNext PROVE GovInv'
<1>1. ASSUME NEW h \in Handlers, Moves(h, "cut", verdict[h]) PROVE GovInv'
  <2>1. verdict[h] \in {"", "done", "refused", "thrown"}
    BY DEF HostedInv, GovInv, GovTypes
  <2>. QED  BY <1>1, <2>1, MoveKept DEF HostedInv, Steps
<1>. QED  BY <1>1, GovernedEffect, HandlerStepKept, StoreFailsKept, ClientStepKept, QuietKept
          DEF HostedInv

\* Handlers start, move and are cut short only while their call runs them.
LEMMA JoinedKept == ASSUME HostedInv, HostedNext PROVE Joined'
<1>1. ran \subseteq ran'
  <2>1. [IdemNext]_idemVars
    BY HostedIsIdem
  <2>. QED  BY <2>1, RanStays
<1>2. ASSUME NEW g \in Handlers, step'[g] # step[g] PROVE g \in ran
  <2>1. \A h \in Handlers : HandlerStep(h) \/ StoreFails(h) \/ Moves(h, "cut", verdict[h])
                              => \E l : step' = [step EXCEPT ![h] = l]
    BY StepsOne DEF Moves
  <2>2. \A b \in Builds : ClientStep(b) => step' = step
    BY DEF ClientStep, PassGate, Load, Reread, SaveFinal, Submit, Records
  <2>3. PICK h \in Handlers : at[h] = "run" /\ \E l : step' = [step EXCEPT ![h] = l]
    BY <1>2, <2>1, <2>2, GovernedEffect
  <2>4. g = h
    BY <1>2, <2>3 DEF HostedInv, GovInv, GovTypes
  <2>. QED  BY <2>3, <2>4, HandlersAreCalls DEF HostedInv, IdemInv, CallInv
<1>. QED  BY <1>1, <1>2 DEF HostedInv, Joined

\* Initially no call runs a handler.
LEMMA HostedInvInit == HostedInit => HostedInv
<1>. SUFFICES ASSUME HostedInit PROVE HostedInv
  OBVIOUS
<1>1. Joined
  BY DEF HostedInit, GovernedInit, Joined
<1>. QED  BY <1>1, IdemInvInit, GovInvInit DEF HostedInit, HostedInv

\* The invariant is inductive.
LEMMA HostedInvNext == HostedInv /\ [HostedNext]_hostedVars => HostedInv'
<1>. SUFFICES ASSUME HostedInv, [HostedNext]_hostedVars PROVE HostedInv'
  OBVIOUS
<1>1. IdemInv'
  BY HostedIsIdem, IdemInvNext DEF HostedInv
<1>2. CASE HostedNext
  BY <1>1, <1>2, GovStepKept, JoinedKept DEF HostedInv
<1>3. CASE UNCHANGED hostedVars
  <2>1. UNCHANGED <<idemVars, governedVars>>
    BY <1>3 DEF hostedVars
  <2>2. GovInv'
    BY <2>1, QuietKept DEF governedVars, HostedInv
  <2>3. Joined'
    BY <2>1 DEF governedVars, idemVars, HostedInv, Joined
  <2>. QED  BY <1>1, <2>2, <2>3 DEF HostedInv
<1>. QED  BY <1>2, <1>3

\* The invariants of both parts, and Joined, hold of the composition.
LEMMA HostedInvariant == HostedSpec => []HostedInv
BY HostedInvInit, HostedInvNext, PTL DEF HostedSpec

-----------------------------------------------------------------------------
\* Whatever route runs behind it, the claims protocol is the one of
\* Idempotency.
THEOREM ImplementsIdempotency == HostedSpec => IdemSpec
<1>1. HostedInit => IdemInit
  BY DEF HostedInit
<1>. QED  BY <1>1, HostedInvariant, HostedIsIdem, PTL DEF HostedSpec, IdemSpec

\* A response that a caller was given is in the completed record of its key,
\* and stays there, through any loss, delay or crash.
COROLLARY DeliveredStaysHosted == HostedSpec => []DeliveredIsDurable
BY ImplementsIdempotency, DeliveredStays, PTL

\* The build or cancel behind a key is performed at most once, and whoever is
\* answered with an outcome asked for it and gets its outcome.
COROLLARY KeepsPromiseHosted == HostedSpec => OncePerKeySpec
BY ImplementsIdempotency, KeepsPromise, PTL

\* At most one build or cancel of a proposal answers success, though the lock
\* that serializes them goes stale under a slow holder.
THEOREM TerminalOnce == HostedSpec => []OneTerminalOutcome
<1>1. HostedInv => OneTerminalOutcome
  BY TerminalFacts DEF HostedInv, GovInv, HandlerInv, OneTerminalOutcome
<1>. QED  BY <1>1, HostedInvariant, PTL

\* A proposal that was consumed by a request, or cancelled, reads the same for
\* ever, whichever write landed.
THEOREM TerminalKept == HostedSpec => TerminalEvidenceKept
<1>1. HostedInv /\ HostedInv' /\ [HostedNext]_hostedVars
        => [Effective.status # "OPEN" => Effective' = Effective]_governedVars
  <2>. SUFFICES ASSUME HostedInv, HostedInv', [HostedNext]_hostedVars,
                       Effective.status # "OPEN"
                PROVE  Effective' = Effective
    OBVIOUS
  <2>1. terminal # NoClaim /\ Effective = terminal
    BY ClaimDecides DEF HostedInv, Open
  <2>2. terminal' = terminal
    <3>1. CASE HostedNext
      <4>1. ASSUME NEW b \in Builds, ClientStep(b) PROVE terminal' = terminal
        BY <4>1 DEF ClientStep, PassGate, Load, Reread, SaveFinal, Submit, Records
      <4>. QED  BY <3>1, <4>1, <2>1, GovernedEffect, ClaimStays DEF Moves
    <3>2. CASE UNCHANGED hostedVars
      BY <3>2 DEF hostedVars, governedVars
    <3>. QED  BY <3>1, <3>2
  <2>3. Effective' = terminal'
    <3>1. terminal' # NoClaim /\ Evidence'
      BY <2>1, <2>2 DEF HostedInv, GovInv
    <3>. QED  BY <3>1 DEF Evidence, Effective, Open
  <2>. QED  BY <2>1, <2>2, <2>3
<1>. QED  BY <1>1, HostedInvariant, PTL DEF HostedSpec, TerminalEvidenceKept

\* A stamped request is broadcast only by the consumer of its proposal.
THEOREM ConsumerSends == HostedSpec => []SentIsConsumer
<1>1. HostedInv => SentIsConsumer
  <2>. SUFFICES ASSUME HostedInv, NEW b \in Builds, sent[b] = "stamped"
                PROVE  Effective = Consumed(b)
    BY DEF SentIsConsumer
  <2>1. terminal = Consumed(b) /\ b \in Handlers
    BY BuildsAreHandlers DEF HostedInv, GovInv, RequestInv
  <2>. QED  BY <2>1, TerminalFacts, ClaimDecides DEF HostedInv
<1>. QED  BY <1>1, HostedInvariant, PTL

\* Of the builds under one key at most one becomes a durable request, across
\* retries, crashes and late writes.
THEOREM BuiltOnce == HostedSpec => []OneBuildPerKey
<1>1. HostedInv => OneBuildPerKey
  <2>1. ASSUME HostedInv, NEW b \in Builds, request[b] # NoRequest PROVE b \in ran
    BY <2>1, BuildsAreHandlers DEF HostedInv, GovInv, RequestInv, Joined
  <2>. QED  BY <2>1 DEF HostedInv, IdemInv, RanOnce, OneBuildPerKey
<1>. QED  BY <1>1, HostedInvariant, PTL
=============================================================================
