------------------------- MODULE GovernedBuildProofs -------------------------
(***************************************************************************)
(* The invariant of GovernedBuild, step by step, for any handlers and any  *)
(* number of mishaps.  HostedBuildProofs uses it for the composition, where *)
(* the theorems are.                                                       *)
(***************************************************************************)
EXTENDS GovernedBuild, TLAPS

Steps == {"start", "save", "stamp", "lock", "reclaim", "decide", "claim", "write", "unlock",
          "remove", "mark", "over", "cut"}

Request == [state: {"NONE", "BUILT", "PREFLIGHT_VERIFIED", "SUBMITTING"},
            stamped: BOOLEAN, mark: {"", "FAILED", "REFUSED"}]

GovTypes ==
  /\ step \in [Handlers -> Steps]
  /\ verdict \in [Handlers -> {"", "done", "refused", "thrown"}]
  /\ request \in [Builds -> Request]
  /\ copy \in [Builds -> Request]
  /\ client \in [Builds -> {"ready", "gated", "loaded", "same", "signed", "cleared", "over"}]
  /\ sent \in [Builds -> {"no", "bare", "stamped"}]

\* The claim is somebody's, and the record says nothing else.
Evidence == /\ terminal = NoClaim \/ \E h \in Handlers : terminal = Terminal(h)
            /\ proposal = Open \/ (terminal # NoClaim /\ proposal = terminal)

\* Who writes the record, or was told that it is written, has the claim; who
\* leaves the critical section knows what to answer.
HandlerInv(h) ==
  /\ step[h] = "write" \/ verdict[h] = "done" => terminal = Terminal(h)
  /\ step[h] \in {"unlock", "remove", "mark", "over"} => verdict[h] # ""

\* A stamped request that is cleared for submission, or was sent, is the
\* consumer.
RequestInv(b) ==
  /\ step[b] = "start" => request[b] = NoRequest
  /\ client[b] # "ready" => request[b] # NoRequest
  /\ client[b] = "cleared" /\ request[b].state = "PREFLIGHT_VERIFIED" /\ request[b].stamped
       => terminal = Consumed(b)
  /\ sent[b] = "stamped" => terminal = Consumed(b)

GovInv == /\ GovTypes
          /\ Evidence
          /\ \A h \in Handlers : HandlerInv(h)
          /\ \A b \in Builds : RequestInv(b)

-----------------------------------------------------------------------------
\* The terminal claims of two handlers differ, and none of them is no claim.
LEMMA TerminalFacts ==
  ASSUME NEW g \in Handlers, NEW h \in Handlers
  PROVE  /\ Terminal(h) # NoClaim
         /\ Terminal(g) = Terminal(h) => g = h
         /\ Terminal(h).status # "OPEN"
         /\ h \in Builds => Terminal(h) = Consumed(h)
BY DEF Terminal, Consumed, Cancelled, NoClaim

\* Whatever the record says, the claim decides.
LEMMA ClaimDecides ==
  ASSUME GovInv
  PROVE  /\ terminal # NoClaim => Effective = terminal
         /\ terminal = NoClaim => Effective = Open
BY TerminalFacts DEF GovInv, Evidence, Effective, Open

\* Builds and cancels are the handlers.
LEMMA BuildsAreHandlers == Builds \subseteq Handlers /\ Cancels \subseteq Handlers
BY DEF Handlers

-----------------------------------------------------------------------------
\* A handler goes on, and touches no record.
Moves(h, l, v) == /\ step' = [step EXCEPT ![h] = l]
                  /\ verdict' = [verdict EXCEPT ![h] = v]
                  /\ proposal' = proposal /\ terminal' = terminal
                  /\ request' = request
                  /\ client' = client /\ copy' = copy /\ sent' = sent

\* Such a step keeps the invariant, when the handler knows what to answer.
LEMMA MoveKept ==
  ASSUME GovInv, NEW h \in Handlers, NEW l \in Steps \ {"start", "write"},
         NEW v \in {"", "done", "refused", "thrown"}, Moves(h, l, v),
         v = "done" => verdict[h] = "done",
         l \in {"unlock", "remove", "mark", "over"} => v # ""
  PROVE  GovInv'
<1>1. GovTypes' /\ Evidence'
  BY DEF Moves, GovInv, GovTypes, Evidence
<1>2. ASSUME NEW g \in Handlers PROVE HandlerInv(g)'
  BY DEF Moves, GovInv, GovTypes, HandlerInv
<1>3. ASSUME NEW b \in Builds PROVE RequestInv(b)'
  BY BuildsAreHandlers DEF Moves, GovInv, GovTypes, RequestInv
<1>. QED  BY <1>1, <1>2, <1>3 DEF GovInv

\* A verdict that stays is one that is written again.
LEMMA SameVerdict ==
  ASSUME GovInv, NEW h \in Handlers
  PROVE  verdict = [verdict EXCEPT ![h] = verdict[h]]
BY DEF GovInv, GovTypes

\* The steps of a handler that touch no record.
LEMMA AdmitKept == ASSUME GovInv, NEW b \in Builds, Admit(b) PROVE GovInv'
<1>1. \/ Moves(b, "save", verdict[b]) \/ Moves(b, "over", "refused")
  BY BuildsAreHandlers, SameVerdict DEF Admit, Moves, Go, Routes, Records
<1>. QED  BY <1>1, BuildsAreHandlers, MoveKept DEF GovInv, GovTypes, Steps

\* Starting, waiting for the lock and reclaiming it.
LEMMA WaitKept ==
  ASSUME GovInv, NEW h \in Handlers,
         StartCancel(h) \/ TakeLock(h) \/ SeeStaleLock(h) \/ Reclaim(h)
  PROVE  GovInv'
<1>1. \E l \in {"lock", "decide", "reclaim"} : Moves(h, l, verdict[h])
  BY SameVerdict DEF StartCancel, TakeLock, SeeStaleLock, Reclaim, Moves, Go, Routes, Records
<1>. QED  BY <1>1, MoveKept DEF GovInv, GovTypes, Steps

\* Somebody else holds the lock: a 409.
LEMMA BusyKept == ASSUME GovInv, NEW h \in Handlers, Busy(h) PROVE GovInv'
<1>1. \E l \in {"mark", "over"} : Moves(h, l, "refused")
  BY DEF Busy, Moves, Go, Refused, Routes, Records
<1>. QED  BY <1>1, MoveKept DEF Steps

\* A handler decides on what it reads under the lock.
LEMMA DecideKept == ASSUME GovInv, NEW h \in Handlers, Decide(h) PROVE GovInv'
<1>1. Moves(h, "claim", verdict[h]) \/ Moves(h, "unlock", "refused")
  BY SameVerdict DEF Decide, Moves, Go, Refused, Routes, Records
<1>. QED  BY <1>1, MoveKept DEF GovInv, GovTypes, Steps

\* The lock is read and removed.
LEMMA ReleaseKept ==
  ASSUME GovInv, NEW h \in Handlers, ReadOwnLock(h) \/ RemoveLock(h) PROVE GovInv'
<1>1. verdict[h] # "" /\ verdict[h] \in {"", "done", "refused", "thrown"}
  BY DEF GovInv, GovTypes, HandlerInv, ReadOwnLock, RemoveLock
<1>2. \E l \in {"remove", "mark", "over"} : Moves(h, l, verdict[h])
  BY SameVerdict DEF ReadOwnLock, RemoveLock, After, Moves, Go, Routes, Records
<1>. QED  BY <1>1, <1>2, MoveKept DEF Steps

-----------------------------------------------------------------------------
\* The build route saves its request, not yet finalized.
LEMMA SaveKept ==
  ASSUME GovInv, NEW b \in Builds, NEW r \in Request, r.state = "BUILT",
         NEW l \in Steps \ {"start", "write", "unlock", "remove", "mark"},
         NEW v \in {"", "refused"} \cup {verdict[b]}, l = "over" => v # "",
         step' = [step EXCEPT ![b] = l], verdict' = [verdict EXCEPT ![b] = v],
         request' = [request EXCEPT ![b] = r],
         UNCHANGED <<proposal, terminal, client, copy, sent>>
  PROVE  GovInv'
<1>1. GovTypes' /\ Evidence'
  BY BuildsAreHandlers DEF GovInv, GovTypes, Evidence
<1>2. ASSUME NEW g \in Handlers PROVE HandlerInv(g)'
  BY BuildsAreHandlers DEF GovInv, GovTypes, HandlerInv
<1>3. ASSUME NEW a \in Builds PROVE RequestInv(a)'
  <2>1. r # NoRequest
    <3>1. NoRequest.state = "NONE"
      BY DEF NoRequest
    <3>. QED  BY <3>1
  <2>. QED  BY <2>1, BuildsAreHandlers DEF GovInv, GovTypes, RequestInv
<1>. QED  BY <1>1, <1>2, <1>3 DEF GovInv

\* The records that the build route saves.
LEMMA BuiltRecords ==
  /\ Built \in Request /\ Built.state = "BUILT"
  /\ \A m \in {"", "FAILED", "REFUSED"}, s \in BOOLEAN :
       LET r == [Built EXCEPT !.stamped = s, !.mark = m]
           q == [Built EXCEPT !.mark = m]
       IN r \in Request /\ r.state = "BUILT" /\ q \in Request /\ q.state = "BUILT"
BY DEF Built, NoRequest, Request

\* The SDK saves the request.
LEMMA SaveBuiltKept == ASSUME GovInv, NEW b \in Builds, SaveBuilt(b) PROVE GovInv'
<1>1. /\ step' = [step EXCEPT ![b] = "stamp"] /\ request' = [request EXCEPT ![b] = Built]
      /\ verdict' = [verdict EXCEPT ![b] = verdict[b]]
      /\ UNCHANGED <<proposal, terminal, client, copy, sent>>
  BY BuildsAreHandlers, SameVerdict DEF SaveBuilt, Go, Routes
<1>. QED  BY <1>1, BuiltRecords, SaveKept DEF Steps

\* The server stamps it with its proposal.
LEMMA StampKept == ASSUME GovInv, NEW b \in Builds, Stamp(b) PROVE GovInv'
<1>. DEFINE r == [Built EXCEPT !.stamped = TRUE, !.mark = ""]
<1>1. /\ request' = [request EXCEPT ![b] = r]
      /\ UNCHANGED <<proposal, terminal, client, copy, sent>>
  BY DEF Stamp, SaveMarked, Routes
<1>2. \/ /\ step' = [step EXCEPT ![b] = "lock"]
         /\ verdict' = [verdict EXCEPT ![b] = verdict[b]]
      \/ /\ step' = [step EXCEPT ![b] = "over"]
         /\ verdict' = [verdict EXCEPT ![b] = "refused"]
  BY BuildsAreHandlers, SameVerdict DEF Stamp, Go
<1>3. r \in Request /\ r.state = "BUILT"
  BY BuiltRecords
<1>. HIDE DEF r
<1>. QED  BY <1>1, <1>2, <1>3, SaveKept DEF Steps

\* The manifest cannot be derived, so the request is not stamped.
LEMMA StampFailsKept == ASSUME GovInv, NEW b \in Builds, StampFails(b) PROVE GovInv'
<1>. DEFINE r == [Built EXCEPT !.mark = "FAILED"]
<1>1. /\ step' = [step EXCEPT ![b] = "over"] /\ request' = [request EXCEPT ![b] = r]
      /\ verdict' = [verdict EXCEPT ![b] = "refused"]
      /\ UNCHANGED <<proposal, terminal, client, copy, sent>>
  BY DEF StampFails, Go, Routes
<1>2. r \in Request /\ r.state = "BUILT"
  BY BuiltRecords
<1>. HIDE DEF r
<1>. QED  BY <1>1, <1>2, SaveKept DEF Steps

\* A refused build marks its request.
LEMMA MarkRefusedKept == ASSUME GovInv, NEW b \in Builds, MarkRefused(b) PROVE GovInv'
<1>. DEFINE r == [Built EXCEPT !.stamped = TRUE, !.mark = "REFUSED"]
<1>1. /\ step[b] = "mark"
      /\ step' = [step EXCEPT ![b] = "over"] /\ request' = [request EXCEPT ![b] = r]
      /\ verdict' = [verdict EXCEPT ![b] = verdict[b]]
      /\ UNCHANGED <<proposal, terminal, client, copy, sent>>
  BY BuildsAreHandlers, SameVerdict DEF MarkRefused, SaveMarked, Go, Routes
<1>2. r \in Request /\ r.state = "BUILT"
  BY BuiltRecords
<1>3. verdict[b] # ""
  BY <1>1, BuildsAreHandlers DEF GovInv, HandlerInv
<1>. HIDE DEF r
<1>. QED  BY <1>1, <1>2, <1>3, SaveKept DEF Steps

-----------------------------------------------------------------------------
\* The create-only claim: the only step that changes terminal.
LEMMA TakeClaimKept ==
  ASSUME GovInv, NEW h \in Handlers, terminal = NoClaim, terminal' = Terminal(h),
         step[h] = "claim",
         NEW l \in {"write", "unlock"}, NEW v \in {"", "refused", "thrown"} \cup {verdict[h]},
         l = "unlock" => v # "",
         step' = [step EXCEPT ![h] = l], verdict' = [verdict EXCEPT ![h] = v],
         UNCHANGED <<proposal, request, client, copy, sent>>
  PROVE  GovInv'
<1>1. GovTypes'
  BY DEF GovInv, GovTypes, Steps
<1>2. Evidence'
  <2>1. proposal' = Open
    BY DEF GovInv, Evidence
  <2>. QED  BY <2>1 DEF Evidence
<1>3. ASSUME NEW g \in Handlers PROVE HandlerInv(g)'
  <2>1. verdict[h] # "done" /\ verdict[g] # "done" /\ step[g] # "write"
    BY TerminalFacts DEF GovInv, HandlerInv
  <2>. QED  BY <2>1 DEF GovInv, GovTypes, HandlerInv
<1>4. ASSUME NEW b \in Builds PROVE RequestInv(b)'
  BY BuildsAreHandlers, TerminalFacts DEF GovInv, GovTypes, RequestInv
<1>. QED  BY <1>1, <1>2, <1>3, <1>4 DEF GovInv

\* The claim is created, or found to be there.
LEMMA ClaimTerminalKept == ASSUME GovInv, NEW h \in Handlers, ClaimTerminal(h) PROVE GovInv'
<1>1. CASE terminal = NoClaim
  <2>1. /\ terminal' = Terminal(h) /\ step' = [step EXCEPT ![h] = "write"]
        /\ verdict' = [verdict EXCEPT ![h] = verdict[h]] /\ step[h] = "claim"
        /\ UNCHANGED <<proposal, request, client, copy, sent>>
    BY <1>1, SameVerdict DEF ClaimTerminal, Go, Routes
  <2>. QED  BY <1>1, <2>1, TakeClaimKept
<1>2. CASE terminal # NoClaim
  <2>1. Moves(h, "unlock", "refused")
    BY <1>2 DEF ClaimTerminal, Moves, Go, Refused, Routes
  <2>. QED  BY <2>1, MoveKept DEF Steps
<1>. QED  BY <1>1, <1>2

\* The proposal is written, by the holder of the claim only.
LEMMA WriteTerminalKept == ASSUME GovInv, NEW h \in Handlers, WriteTerminal(h) PROVE GovInv'
<1>1. /\ step[h] = "write" /\ terminal = Terminal(h) /\ terminal' = terminal
      /\ proposal' = Terminal(h)
      /\ step' = [step EXCEPT ![h] = "unlock"]
      /\ verdict' = [verdict EXCEPT ![h] = "done"]
      /\ UNCHANGED <<request, client, copy, sent>>
  BY DEF WriteTerminal, Go, Routes, GovInv, HandlerInv
<1>2. GovTypes'
  BY <1>1 DEF GovInv, GovTypes, Steps
<1>3. Evidence'
  BY <1>1, TerminalFacts DEF GovInv, Evidence
<1>4. ASSUME NEW g \in Handlers PROVE HandlerInv(g)'
  BY <1>1 DEF GovInv, GovTypes, HandlerInv
<1>5. ASSUME NEW b \in Builds PROVE RequestInv(b)'
  BY <1>1, BuildsAreHandlers DEF GovInv, GovTypes, RequestInv
<1>. QED  BY <1>2, <1>3, <1>4, <1>5 DEF GovInv

\* A store call throws: the handler moves on, and perhaps the claim was made.
LEMMA StoreFailsKept == ASSUME GovInv, NEW h \in Handlers, StoreFails(h) PROVE GovInv'
<1>0. /\ UNCHANGED <<proposal, request, client, copy, sent>>
      /\ verdict[h] \in {"", "done", "refused", "thrown"}
  BY DEF StoreFails, Routes, GovInv, GovTypes
<1>1. CASE /\ step[h] \in {"unlock", "remove"} /\ Go(h, After(h))
           /\ UNCHANGED <<verdict, terminal>>
  <2>1. verdict[h] # ""
    BY <1>1 DEF GovInv, HandlerInv
  <2>2. \E l \in {"mark", "over"} : Moves(h, l, verdict[h])
    BY <1>0, <1>1, SameVerdict DEF After, Moves, Go
  <2>. QED  BY <1>0, <2>1, <2>2, MoveKept DEF Steps
<1>2. CASE /\ Thrown(h) /\ terminal' = terminal
           /\ Go(h, "over") \/ Go(h, "mark") \/ Go(h, "unlock")
  <2>1. \E l \in {"over", "mark", "unlock"}, v \in {"refused", "thrown"} : Moves(h, l, v)
    BY <1>0, <1>2 DEF Thrown, Moves, Go
  <2>. QED  BY <2>1, MoveKept DEF Steps
<1>3. CASE /\ Thrown(h) /\ Go(h, "unlock") /\ step[h] = "claim"
           /\ terminal = NoClaim /\ terminal' = Terminal(h)
  <2>1. PICK v \in {"refused", "thrown"} : verdict' = [verdict EXCEPT ![h] = v]
    BY <1>3 DEF Thrown
  <2>. QED  BY <1>0, <1>3, <2>1, TakeClaimKept DEF Go
<1>. QED  BY <1>1, <1>2, <1>3 DEF StoreFails

-----------------------------------------------------------------------------
\* The signature and submit routes.
LEMMA RoutesKept ==
  ASSUME GovInv, NEW b \in Builds, GovTypes',
         UNCHANGED <<proposal, terminal, step, verdict>>,
         \A a \in Builds : a # b => /\ request'[a] = request[a] /\ client'[a] = client[a]
                                  /\ sent'[a] = sent[a],
         RequestInv(b)'
  PROVE  GovInv'
<1>1. Evidence'
  BY DEF GovInv, Evidence
<1>2. ASSUME NEW g \in Handlers PROVE HandlerInv(g)'
  BY DEF GovInv, HandlerInv
<1>3. ASSUME NEW a \in Builds PROVE RequestInv(a)'
  <2>1. CASE a # b
    <3>1. RequestInv(a)
      BY DEF GovInv
    <3>. QED  BY <2>1, <3>1 DEF RequestInv
  <2>. QED  BY <2>1
<1>. QED  BY <1>1, <1>2, <1>3 DEF GovInv

\* Past the gate, a stamped request is the consumer of its proposal.
LEMMA PassGateKept ==
  ASSUME GovInv, NEW b \in Builds,
         PassGate(b, "ready", "gated") \/ PassGate(b, "signed", "cleared")
  PROVE  GovInv'
<1>1. PICK to \in {"gated", "cleared"} :
        /\ client' = [client EXCEPT ![b] = to] /\ request[b] # NoRequest
        /\ request[b].stamped => Effective = Consumed(b)
        /\ UNCHANGED <<proposal, terminal, request, step, verdict, copy, sent>>
  BY DEF PassGate, Gate, Records
<1>2. GovTypes'
  BY <1>1 DEF GovInv, GovTypes
<1>3. request[b].stamped => terminal = Consumed(b)
  BY <1>1, ClaimDecides DEF Consumed, Open
<1>4. RequestInv(b)'
  BY <1>1, <1>3 DEF GovInv, GovTypes, RequestInv
<1>. QED  BY <1>1, <1>2, <1>4, RoutesKept DEF GovInv, GovTypes

\* A route loads the request, past the gate, and reads it again.
LEMMA LoadKept == ASSUME GovInv, NEW b \in Builds, Load(b) \/ Reread(b) PROVE GovInv'
<1>1. PICK to \in {"loaded", "same", "ready"} :
        /\ client[b] # "ready" /\ client' = [client EXCEPT ![b] = to]
        /\ UNCHANGED <<proposal, terminal, request, step, verdict, sent>>
        /\ copy' = copy \/ copy' = [copy EXCEPT ![b] = request[b]]
  BY DEF Load, Reread, Records
<1>2. GovTypes'
  BY <1>1 DEF GovInv, GovTypes
<1>3. RequestInv(b)'
  BY <1>1 DEF GovInv, GovTypes, RequestInv
<1>. QED  BY <1>1, <1>2, <1>3, RoutesKept DEF GovInv, GovTypes

\* The signature route saves what it loaded, finalized.
LEMMA SaveFinalKept == ASSUME GovInv, NEW b \in Builds, SaveFinal(b) PROVE GovInv'
<1>. DEFINE r == [copy[b] EXCEPT !.state = "PREFLIGHT_VERIFIED"]
<1>1. /\ client[b] = "same" /\ client' = [client EXCEPT ![b] = "signed"]
      /\ request' = [request EXCEPT ![b] = r]
      /\ UNCHANGED <<proposal, terminal, step, verdict, copy, sent>>
  BY DEF SaveFinal
<1>2. r \in Request /\ r # NoRequest
  <2>1. copy[b] \in Request
    BY DEF GovInv, GovTypes
  <2>2. r \in Request /\ r.state = "PREFLIGHT_VERIFIED"
    BY <2>1 DEF Request
  <2>. QED  BY <2>2 DEF NoRequest
<1>. HIDE DEF r
<1>3. GovTypes'
  BY <1>1, <1>2 DEF GovInv, GovTypes
<1>4. RequestInv(b)'
  BY <1>1, <1>2 DEF GovInv, GovTypes, RequestInv
<1>. QED  BY <1>1, <1>3, <1>4, RoutesKept DEF GovInv, GovTypes

\* What is broadcast was cleared.
LEMMA SubmitKept == ASSUME GovInv, NEW b \in Builds, Submit(b) PROVE GovInv'
<1>0. /\ client[b] = "cleared" /\ client' = [client EXCEPT ![b] = "over"]
      /\ UNCHANGED <<proposal, terminal, step, verdict, copy>>
      /\ RequestInv(b) /\ request[b] \in Request
  BY DEF Submit, GovInv, GovTypes
<1>1. CASE request[b].state = "PREFLIGHT_VERIFIED"
  <2>. DEFINE r == [request[b] EXCEPT !.state = "SUBMITTING"]
              how == IF request[b].stamped THEN "stamped" ELSE "bare"
  <2>1. /\ request' = [request EXCEPT ![b] = r]
        /\ sent' = [sent EXCEPT ![b] = how]
    BY <1>1 DEF Submit
  <2>2. r \in Request /\ r # NoRequest /\ r.state = "SUBMITTING"
    <3>1. r \in Request /\ r.state = "SUBMITTING"
      BY <1>0 DEF Request
    <3>. QED  BY <3>1 DEF NoRequest
  <2>3. /\ how \in {"stamped", "bare"}
        /\ how = "stamped" => terminal = Consumed(b)
    BY <1>0, <1>1 DEF RequestInv
  <2>. HIDE DEF r, how
  <2>4. GovTypes'
    BY <1>0, <2>1, <2>2, <2>3 DEF GovInv, GovTypes
  <2>5. RequestInv(b)'
    BY <1>0, <2>1, <2>2, <2>3 DEF GovInv, GovTypes, RequestInv
  <2>. QED  BY <1>0, <2>1, <2>4, <2>5, RoutesKept DEF GovInv, GovTypes
<1>2. CASE request[b].state # "PREFLIGHT_VERIFIED"
  <2>1. request' = request /\ sent' = sent
    BY <1>2 DEF Submit
  <2>2. GovTypes'
    BY <1>0, <2>1 DEF GovInv, GovTypes
  <2>3. RequestInv(b)'
    BY <1>0, <2>1 DEF GovInv, GovTypes, RequestInv
  <2>. QED  BY <1>0, <2>1, <2>2, <2>3, RoutesKept DEF GovInv, GovTypes
<1>. QED  BY <1>1, <1>2

-----------------------------------------------------------------------------
\* The invariant holds at the start, and every step of a handler or a route keeps it.
LEMMA GovInvInit == GovernedInit => GovInv
<1>. SUFFICES ASSUME GovernedInit PROVE GovInv
  OBVIOUS
<1>1. NoRequest \in Request
  BY DEF NoRequest, Request
<1>2. GovTypes
  BY <1>1 DEF GovernedInit, GovTypes, Steps
<1>3. Evidence
  BY DEF GovernedInit, Evidence
<1>4. \A h \in Handlers : HandlerInv(h)
  BY DEF GovernedInit, HandlerInv
<1>5. \A b \in Builds : RequestInv(b)
  BY BuildsAreHandlers DEF GovernedInit, RequestInv
<1>. QED  BY <1>2, <1>3, <1>4, <1>5 DEF GovInv

\* Every step of a handler keeps the invariant.
LEMMA HandlerStepKept == ASSUME GovInv, NEW h \in Handlers, HandlerStep(h) PROVE GovInv'
<1>1. CASE h \in Builds /\ BuildStep(h)
  BY <1>1, AdmitKept, SaveBuiltKept, StampKept, StampFailsKept, MarkRefusedKept DEF BuildStep
<1>2. CASE StartCancel(h) \/ TransitionStep(h)
  BY <1>2, WaitKept, BusyKept, DecideKept, ClaimTerminalKept, WriteTerminalKept, ReleaseKept
     DEF TransitionStep
<1>. QED  BY <1>1, <1>2 DEF HandlerStep

\* Every step of a client keeps the invariant.
LEMMA ClientStepKept == ASSUME GovInv, NEW b \in Builds, ClientStep(b) PROVE GovInv'
BY PassGateKept, LoadKept, SaveFinalKept, SubmitKept DEF ClientStep

\* A step that touches only the lock and the bound.
LEMMA QuietKept ==
  ASSUME GovInv, UNCHANGED <<proposal, terminal, request, step, verdict, client, copy, sent>>
  PROVE  GovInv'
<1>1. GovTypes' /\ Evidence'
  BY DEF GovInv, GovTypes, Evidence
<1>2. \A h \in Handlers : HandlerInv(h)'
  BY DEF GovInv, HandlerInv
<1>3. \A b \in Builds : RequestInv(b)'
  BY DEF GovInv, RequestInv
<1>. QED  BY <1>1, <1>2, <1>3 DEF GovInv

-----------------------------------------------------------------------------
\* Nobody replaces a terminal claim.
LEMMA ClaimStays ==
  ASSUME NEW h \in Handlers, HandlerStep(h) \/ StoreFails(h), terminal # NoClaim
  PROVE  terminal' = terminal
<1>1. CASE h \in Builds /\ BuildStep(h)
  BY <1>1 DEF BuildStep, Admit, SaveBuilt, Stamp, StampFails, MarkRefused, Records
<1>2. CASE StartCancel(h) \/ TransitionStep(h)
  BY <1>2 DEF StartCancel, TransitionStep, TakeLock, SeeStaleLock, Reclaim, Busy, Decide,
              ClaimTerminal, WriteTerminal, ReadOwnLock, RemoveLock, Records
<1>3. CASE StoreFails(h)
  BY <1>3 DEF StoreFails
<1>. QED  BY <1>1, <1>2, <1>3 DEF HandlerStep

\* A handler moves itself only.
LEMMA StepsOne ==
  ASSUME NEW h \in Handlers, HandlerStep(h) \/ StoreFails(h)
  PROVE  \E l : step' = [step EXCEPT ![h] = l]
<1>1. CASE h \in Builds /\ BuildStep(h)
  BY <1>1 DEF BuildStep, Admit, SaveBuilt, Stamp, StampFails, MarkRefused, Go
<1>2. CASE StartCancel(h) \/ TransitionStep(h)
  BY <1>2 DEF StartCancel, TransitionStep, TakeLock, SeeStaleLock, Reclaim, Busy, Decide,
              ClaimTerminal, WriteTerminal, ReadOwnLock, RemoveLock, Go
<1>3. CASE StoreFails(h)
  BY <1>3 DEF StoreFails, Go
<1>. QED  BY <1>1, <1>2, <1>3 DEF HandlerStep
=============================================================================
