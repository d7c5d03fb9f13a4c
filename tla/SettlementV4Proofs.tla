------------------------- MODULE SettlementV4Proofs -------------------------
(***************************************************************************)
(* How a vault is settled, for any number of requests, handlers, crashes   *)
(* and reorganisations.                                                    *)
(*                                                                         *)
(* ShapeInv says what a task may still have to write, and that a manifest  *)
(* is closed only by a recover that is deep.  It holds of every behaviour. *)
(*                                                                         *)
(* WorkInv says who holds the claim on an outpoint.  It needs that a       *)
(* request has one handler at a time. What Verify still has to write was   *)
(* planned from what it read before, so WorkInv also says that the reason  *)
(* of each of its writes still stands.                                     *)
(*                                                                         *)
(* SentInv says what is recorded of a request whose bytes the node took,   *)
(* and PauseInv who may still compete with a pause.  Both need what        *)
(* WorkInv needs and no more: blocks may be undone, and the chain may move *)
(* under a handler's write.                                                *)
(***************************************************************************)
EXTENDS SettlementV4, FiniteSetTheorems, SequenceTheorems, WellFoundedInduction, TLAPS

-----------------------------------------------------------------------------
\* Sequences.

\* A nonempty set of naturals has a least element.
LEMMA LeastOf ==
  ASSUME NEW S \in SUBSET Nat, S # {}
  PROVE  \E m \in S : \A k \in S : m <= k
<1>1. IsWellFoundedOn(OpToRel(<, Nat), Nat)
  BY NatLessThanWellFounded
<1>2. PICK m \in S : \A k \in S : ~(<<k, m>> \in OpToRel(<, Nat))
  BY <1>1, WFMin, Zenon
<1>3. \A k \in S : ~(k < m)
  BY <1>2 DEF OpToRel
<1>. QED  BY <1>3

\* The queues of a plan are joined by FlattenSeq: a set of sequences that has
\* the empty one and every concatenation of two has the joined ones.
Joinable(Q) == <<>> \in Q /\ \A a, b \in Q : a \o b \in Q

Joins(f, ss, n) ==
  f = [i \in 1..n |-> IF i = 1 THEN ss[i] ELSE f[i - 1] \o ss[i]]

\* Any finite number of sequences can be joined.
LEMMA JoinExists ==
  ASSUME NEW ss, NEW n \in Nat \ {0}
  PROVE  \E f : Joins(f, ss, n)
<1> DEFINE Bad == {k \in 1..n : ~\E f : Joins(f, ss, k)}
<1> SUFFICES ASSUME Bad # {} PROVE FALSE
  OBVIOUS
<1>1. PICK m \in Bad : \A k \in Bad : m <= k
  <2>1. Bad \in SUBSET Nat
    OBVIOUS
  <2> HIDE DEF Bad
  <2>. QED  BY <2>1, LeastOf
<1>2. m \in 1..n /\ ~\E f : Joins(f, ss, m)
  BY <1>1
<1>3. CASE m = 1
  <2> DEFINE g == [i \in 1..1 |-> ss[i]]
  <2>1. Joins(g, ss, 1)
    BY DEF Joins
  <2>. QED  BY <1>2, <1>3, <2>1
<1>4. CASE m # 1
  <2>1. m - 1 \in 1..n /\ m - 1 \notin Bad
    BY <1>1, <1>2, <1>4
  <2>2. PICK f : Joins(f, ss, m - 1)
    BY <2>1
  <2> DEFINE g == [i \in 1..m |-> IF i < m THEN f[i] ELSE f[m - 1] \o ss[m]]
  <2>3. \A i \in 1..(m - 1) : f[i] = IF i = 1 THEN ss[i] ELSE f[i - 1] \o ss[i]
    BY <2>2, <1>2 DEF Joins
  <2>4. \A i \in 1..m : g[i] = IF i = 1 THEN ss[i] ELSE g[i - 1] \o ss[i]
    BY <2>3, <1>2, <1>4
  <2>5. Joins(g, ss, m)
    <3> DEFINE h == [i \in 1..m |-> IF i = 1 THEN ss[i] ELSE g[i - 1] \o ss[i]]
    <3>1. g = h
      <4>1. DOMAIN g = DOMAIN h /\ \A i \in 1..m : g[i] = h[i]
        BY <2>4
      <4> HIDE DEF g
      <4>2. g = [i \in 1..m |-> g[i]]
        BY DEF g
      <4>. QED  BY <4>1, <4>2
    <3>. QED  BY <3>1 DEF Joins
  <2>. QED  BY <1>2, <2>5
<1>. QED  BY <1>3, <1>4

\* What is joined from queues of such a set is in it.
LEMMA JoinStays ==
  ASSUME NEW Q, Joinable(Q), NEW n \in Nat \ {0}, NEW ss, \A i \in 1..n : ss[i] \in Q,
         NEW f, Joins(f, ss, n)
  PROVE  f[n] \in Q
<1> DEFINE Bad == {k \in 1..n : f[k] \notin Q}
<1> SUFFICES ASSUME Bad # {} PROVE FALSE
  OBVIOUS
<1>1. PICK m \in Bad : \A k \in Bad : m <= k
  <2>1. Bad \in SUBSET Nat
    OBVIOUS
  <2> HIDE DEF Bad
  <2>. QED  BY <2>1, LeastOf
<1>2. m \in 1..n /\ f[m] \notin Q
  BY <1>1
<1>3. f[m] = IF m = 1 THEN ss[m] ELSE f[m - 1] \o ss[m]
  BY <1>2 DEF Joins
<1>4. m # 1 => m - 1 \in 1..n /\ f[m - 1] \in Q
  BY <1>1, <1>2
<1>. QED  BY <1>2, <1>3, <1>4 DEF Joinable

\* So FlattenSeq of a sequence of such queues is in the set.
LEMMA FlattenIn ==
  ASSUME NEW Q, Joinable(Q), NEW ss \in Seq(Q)
  PROVE  FlattenSeq(ss) \in Q
<1>1. CASE Len(ss) = 0
  <2>1. ss = <<>>
    BY <1>1
  <2>2. FlattenSeq(ss) = ss
    BY <1>1 DEF FlattenSeq
  <2>. QED  BY <2>1, <2>2 DEF Joinable
<1>2. CASE Len(ss) # 0
  <2>1. Len(ss) \in Nat \ {0}
    BY <1>2
  <2>2. FlattenSeq(ss) = (CHOOSE f : Joins(f, ss, Len(ss)))[Len(ss)]
    BY <1>2, Zenon DEF FlattenSeq, Joins
  <2>3. Joins(CHOOSE f : Joins(f, ss, Len(ss)), ss, Len(ss))
    BY <2>1, JoinExists
  <2>4. \A i \in 1..Len(ss) : ss[i] \in Q
    OBVIOUS
  <2>. QED  BY <2>1, <2>2, <2>3, <2>4, JoinStays
<1>. QED  BY <1>1, <1>2

\* A finite set has a sequence of its elements.
LEMMA SetToSeqIn ==
  ASSUME NEW S, IsFiniteSet(S)
  PROVE  /\ Cardinality(S) \in Nat
         /\ SetToSeq(S) \in [1..Cardinality(S) -> S]
<1>1. Cardinality(S) \in Nat /\ ExistsBijection(1..Cardinality(S), S)
  BY FS_CardinalityType
<1>2. PICK f \in [1..Cardinality(S) -> S] : IsInjective(f)
  BY <1>1 DEF ExistsBijection, Bijection, Injection, IsInjective
<1>. QED  BY <1>1, <1>2 DEF SetToSeq

-----------------------------------------------------------------------------
\* What holds of every handler and every block, with no assumption on how
\* handlers interleave.

Marks == Labels \cup {"own", "missing", "foreign", "contested", "uncontested"}
Step ==
  [do: {"save", "reread", "claim", "arm", "hold", "contest", "broadcast", "prove", "advance",
        "receipt", "release", "remove", "settle", "leftover", "adopt"},
   id: Outpoints, as: Marks]

\* TypeOK with what the queues consist of.
TypeInv ==
  /\ chain \in Seq(Transactions) /\ deep \in 0..Len(chain)
  /\ sent \in SUBSET Requests
  /\ manifest \in [live: Outpoints \cup {Closed}, last: Transactions \cup {None}]
  /\ rec \in [Requests -> Labels]
  /\ out \in [Requests -> Outpoints \cup {None}]
  /\ tclaim \in [Outpoints -> Requests \cup {None}]
  /\ receipt \in SUBSET Requests
  /\ task \in [Workers -> [op: Ops, id: Requests \cup {None}, todo: Seq(Step)]]
  /\ aborts \in 0..MaxAborts

Recorded(r) == r \in Requests /\ rec[r] # "none"

\* Every transaction of the chain spends the one before it, on the outpoint
\* its request is built on, and there is none twice.
NodeInv ==
  /\ \A r \in Requests : rec[r] # "none" => out[r] \in Outpoints
  /\ \A r \in sent : Recorded(r)
  /\ \A i \in 1..Len(chain) :
       chain[i] \in Requests => Recorded(chain[i]) /\ Spent(i) = out[chain[i]]
  /\ \A i, j \in 1..Len(chain) : chain[i] = chain[j] => i = j

\* The queues a handler of request r may still have.
VerdictQueues(r) ==
  {<<Do("reread", r), Save(r, "CLOSED")>>, <<Save(r, "CLOSED")>>,
   <<Do("reread", r), Save(r, "STALE")>>, <<Save(r, "STALE")>>}

OrdinaryQueues(r) ==
  {<<Do("claim", r), Do("reread", r), Save(r, "PREFLIGHT_VERIFIED")>>,
   <<Do("reread", r), Save(r, "PREFLIGHT_VERIFIED")>>,
   <<Save(r, "PREFLIGHT_VERIFIED")>>}

BreakGlassQueues(r) ==
  {<<Do("reread", r), Save(r, "PREFLIGHT_VERIFIED"), Do("claim", r)>>,
   <<Save(r, "PREFLIGHT_VERIFIED"), Do("claim", r)>>,
   <<Do("claim", r)>>}

FinalizeQueues(r) ==
  VerdictQueues(r)
    \cup (IF r \in BreakGlass THEN BreakGlassQueues(r) ELSE OrdinaryQueues(r))

\* Of a recover, which is contested whoever competes with it, a submit proves
\* nothing and writes no manifest.
ProofQueues(r) ==
  {<<Write("broadcast", r, "uncontested")>>,
   <<Save(r, "SUBMITTING"), Write("broadcast", r, "uncontested")>>,
   <<Save(r, "SUBMITTED"), Do("prove", r)>>, <<Do("prove", r)>>,
   <<Do("advance", r), Save(r, "CHAIN_VERIFIED"), Do("receipt", r)>>,
   <<Save(r, "CHAIN_VERIFIED"), Do("receipt", r)>>, <<Do("receipt", r)>>}

\* Before its first write a submit reads one thing after another.
ArmSteps == {"arm", "hold", "contest"}
Holds == {"own", "missing", "foreign"}

ArmQueues(r) == UNION {{<<Write(d, r, h)>> : h \in Holds} : d \in ArmSteps}

SubmitQueues(r) ==
  {<<Save(r, "STALE")>>,
   <<Save(r, "SUBMITTING"), Write("broadcast", r, "contested")>>,
   <<Write("broadcast", r, "contested")>>,
   <<Save(r, "SUBMITTED")>>, <<Save(r, "RECONCILIATION_REQUIRED")>>,
   <<Save(r, "SUBMISSION_REJECTED"), Do("release", r)>>,
   <<Do("release", r)>>, <<Do("remove", r)>>}
    \cup ArmQueues(r)
    \cup (IF r \in Recovers THEN {} ELSE ProofQueues(r))

HandlerQueues(op, r) ==
  CASE op = "build" -> {<<Save(r, "BUILT")>>}
    [] op = "reject" -> {<<Save(r, "CLOSED")>>}
    [] op = "finalize" -> FinalizeQueues(r)
    [] op = "submit" -> SubmitQueues(r)

HandlerOps == {"build", "reject", "finalize", "submit"}

\* A deep transaction other than the request spends its outpoint.
DeepSpender(t, o) == Spends1(t, o) /\ Deep(t)
LostDeep(r) == \E t \in Requests \ {r} : DeepSpender(t, out[r])

\* What a Verify may write: a manifest only with a transaction that is deep,
\* and a label of a loser only when a deep one beats it.
VerifyStep(e) ==
  \/ e.do \in {"receipt", "release", "remove"} /\ Recorded(e.id)
  \/ e.do = "save" /\ e.as = "CHAIN_VERIFIED" /\ Recorded(e.id)
  \/ /\ e.do = "settle" \/ (e.do = "save" /\ e.as = "STALE")
     /\ Recorded(e.id) /\ LostDeep(e.id)
  \/ e.do = "advance" /\ e.id \in Requests /\ Deep(e.id)
  \/ e.do = "adopt" /\ e.id = Outside
  \/ e.do = "leftover"

VerifyQueues ==
  {q \in Seq(Step) : \A i \in 1..Len(q) : VerifyStep(q[i])}

\* A worker is idle, or a handler of one request, or verifies.
TaskShape(w) ==
  LET t == task[w]
  IN \/ t = Idle
     \/ /\ t.op \in HandlerOps /\ t.id \in Requests
        /\ t.todo \in HandlerQueues(t.op, t.id)
        /\ out[t.id] \in Outpoints
        /\ t.op # "build" => rec[t.id] # "none"
     \/ /\ t.op = "verify" /\ t.id = None
        /\ t.todo \in VerifyQueues /\ t.todo # <<>>

ShapeInv ==
  /\ TypeInv /\ NodeInv
  /\ \A w \in Workers : TaskShape(w)
  /\ RecoveredAtDepth

-----------------------------------------------------------------------------
\* What holds when a request has one handler at a time.

\* A recorded request whose outpoint is spent at the settlement depth, by it
\* or by another one: nothing but this lets Verify write of it.
Settled(r) == rec[r] # "none" /\ SpentDeep(out[r])

\* A claim on the request's outpoint could be released.
Excused(r) == rec[r] # "none" /\ Evidence(out[r])

HasClaim(r) == out[r] \in Outpoints /\ tclaim[out[r]] = r
Ordinary == Requests \ BreakGlass
Begun == Labels \ {"none", "BUILT"}
After == Begun \ {"PREFLIGHT_VERIFIED"}

\* One handler at a time is at work for a request.
HandlerInv ==
  \A v, w \in Workers :
    task[v].op \in HandlerOps /\ task[w].op \in HandlerOps
      /\ task[v].id = task[w].id => v = w

\* What the store says while a handler of request r is at queue q.
BuildPhase(r) == rec[r] = "none"

\* A finalize that will save the signed bytes has taken the claim.
Signing(q) ==
  \/ Head(q).do = "save" /\ Head(q).as = "PREFLIGHT_VERIFIED"
  \/ Head(q).do = "reread" /\ Head(Tail(q)).as = "PREFLIGHT_VERIFIED"

FinalizePhase(r, q) == r \in Ordinary /\ Signing(q) => HasClaim(r) \/ Excused(r)

Letting(q) == Head(q).do \in {"release", "remove"}

SubmitPhase(r, q) ==
  /\ Letting(q) => rec[r] = "SUBMISSION_REJECTED" \/ Settled(r)
  /\ Head(q).do = "receipt" => rec[r] = "CHAIN_VERIFIED" \/ Settled(r)
  /\ r \in Ordinary /\ ~Letting(q) => HasClaim(r) \/ Excused(r)

HandlerPhase(op, r, q) ==
  /\ r \in receipt => Settled(r)
  /\ rec[r] = "SUBMISSION_REJECTED" => Settled(r) \/ (op = "submit" /\ Letting(q))
  /\ op = "build" => BuildPhase(r)
  /\ op = "finalize" => FinalizePhase(r, q)
  /\ op = "submit" => SubmitPhase(r, q)

Phase(w) ==
  LET t == task[w] IN t.op \in HandlerOps => HandlerPhase(t.op, t.id, t.todo)

\* The steps whose request gives Verify a reason to make them, and those that
\* need no receipt of this Verify: the others come after it.
Grounded ==
  {e \in Step :
     /\ e.do \in {"receipt", "save", "release", "remove", "settle"} => e.id \in Requests
     /\ e.do \in {"receipt", "save", "settle"} => Settled(e.id)
     /\ e.do \in {"release", "remove"} => Settled(e.id) \/ rec[e.id] = "SUBMISSION_REJECTED"
     /\ e.do = "settle" => e.as \in InFlight \cup {"CHAIN_VERIFIED"}}

Freed ==
  {e \in Step :
     e.do = "save" => e.id \in receipt \/ (e.id \in Requests /\ rec[e.id] \in Begun)}

Led(G, F, q) ==
  \A i \in 1..Len(q) :
    q[i] \in G /\ (q[i] \in F \/ \E j \in 1..(i - 1) : q[j] = Do("receipt", q[i].id))

FoundedTask(w) == task[w].op = "verify" => Led(Grounded, Freed, task[w].todo)

\* An ordinary request in flight holds the claim on its outpoint, until one
\* could be released; a receipt is of a completed request, or of one whose
\* outpoint a deep transaction spends.
ClaimedRight(r) ==
  /\ r \in Ordinary /\ rec[r] \in InFlight => HasClaim(r) \/ Excused(r)
  /\ r \in receipt => rec[r] = "CHAIN_VERIFIED" \/ Settled(r)

WorkInv ==
  /\ HandlerInv
  /\ \A r \in Requests : ClaimedRight(r)
  /\ \A w \in Workers : Phase(w) /\ FoundedTask(w)

-----------------------------------------------------------------------------
\* Facts about the queues and the chain.

\* The names of requests, transactions and outpoints are told apart.
LEMMA Names ==
  /\ Requests \subseteq Transactions /\ Transactions \subseteq Outpoints
  /\ Genesis \notin Transactions /\ Closed \notin Transactions
  /\ None \notin Transactions /\ None \notin Outpoints /\ Closed \notin Outpoints
  /\ Outside \notin Requests /\ Outside \in Transactions
  /\ Genesis \in Outpoints /\ IsFiniteSet(Requests)
BY SettlementAssumption DEF Transactions, Outpoints

\* The writes that the actions queue are steps.
LEMMA StepType ==
  ASSUME NEW r \in Outpoints
  PROVE  /\ \A l \in Labels : Save(r, l) \in Step
         /\ \A d \in ArmSteps \cup {"broadcast"}, m \in Marks : Write(d, r, m) \in Step
         /\ \A m \in Marks : Write("settle", r, m) \in Step
         /\ \A d \in {"reread", "claim", "prove", "advance", "receipt", "release",
                      "remove", "leftover", "adopt"} : Do(d, r) \in Step
BY DEF Step, Save, Write, Do, Marks, Labels, ArmSteps

\* Heads and tails of short queues.
LEMMA Short ==
  /\ \A a : Head(<<a>>) = a /\ Tail(<<a>>) = <<>> /\ <<a>> # <<>>
  /\ \A a, b : Head(<<a, b>>) = a /\ Tail(<<a, b>>) = <<b>> /\ <<a, b>> # <<>>
  /\ \A a, b, c : Head(<<a, b, c>>) = a /\ Tail(<<a, b, c>>) = <<b, c>> /\ <<a, b, c>> # <<>>
<1>1. \A a : Head(<<a>>) = a /\ Tail(<<a>>) = <<>> /\ <<a>> # <<>>
  OBVIOUS
<1>2. \A a, b : Head(<<a, b>>) = a /\ Tail(<<a, b>>) = <<b>> /\ <<a, b>> # <<>>
  OBVIOUS
<1>3. \A a, b, c : Head(<<a, b, c>>) = a /\ Tail(<<a, b, c>>) = <<b, c>> /\ <<a, b, c>> # <<>>
  OBVIOUS
<1>. QED  BY <1>1, <1>2, <1>3

\* What is deep stays deep while the deep part of the chain stays.
LEMMA DeepStays ==
  ASSUME TypeInv, NodeInv, deep' \in Nat, deep <= deep', deep' <= Len(chain'),
         \A i \in 1..deep : chain'[i] = chain[i]
  PROVE  /\ \A t : Deep(t) => Deep(t)'
         /\ \A t \in Requests : \A o : DeepSpender(t, o) => DeepSpender(t, o)'
         /\ \A o : SpentDeep(o) => SpentDeep(o)'
<1>1. deep \in Nat /\ deep <= Len(chain) /\ Len(chain) \in Nat
  BY DEF TypeInv
<1>2. ASSUME NEW t, Deep(t) PROVE Deep(t)'
  BY <1>1, <1>2 DEF Deep
<1>3. ASSUME NEW t \in Requests, NEW o, DeepSpender(t, o) PROVE DeepSpender(t, o)'
  <2>2. PICK i \in 1..Len(chain) : chain[i] = t /\ Spent(i) = o
    BY <1>3 DEF DeepSpender, Spends1
  <2>3. PICK k \in 1..deep : chain[k] = t
    BY <1>3 DEF DeepSpender, Deep
  <2>4. i = k
    BY <1>1, <2>2, <2>3 DEF NodeInv
  <2>5. i \in 1..Len(chain') /\ chain'[i] = t
    BY <1>1, <2>2, <2>3, <2>4
  <2>6. Spent(i)' = Spent(i)
    BY <1>1, <2>3, <2>4 DEF Spent
  <2>7. Spends1(t, o)'
    BY <2>2, <2>5, <2>6 DEF Spends1
  <2>. QED  BY <1>2, <1>3, <2>7 DEF DeepSpender
<1>4. \A o : SpentDeep(o) => SpentDeep(o)'
  BY <1>3 DEF SpentDeep, DeepSpender
<1>. QED  BY <1>2, <1>3, <1>4

\* A recorded transaction that is deep is a deep spender of its outpoint.
LEMMA DeepSpends ==
  ASSUME TypeInv, NodeInv, NEW t \in Requests, Deep(t)
  PROVE  Recorded(t) /\ DeepSpender(t, out[t]) /\ SpentDeep(out[t]) /\ Settled(t)
<1>1. PICK k \in 1..deep : chain[k] = t
  BY DEF Deep
<1>2. k \in 1..Len(chain)
  BY DEF TypeInv
<1>3. Recorded(t) /\ Spent(k) = out[t]
  BY <1>1, <1>2 DEF NodeInv
<1>4. Spends1(t, out[t])
  BY <1>1, <1>2, <1>3 DEF Spends1
<1>. QED  BY <1>3, <1>4 DEF SpentDeep, Settled, Recorded, DeepSpender

\* A handler's queue is of steps of its own request, and so is what is left.
LocalQueue(q, r) == q \in Seq(Step) /\ q # <<>> /\ Head(q) \in Step /\ Head(q).id = r

LocalQueues(S, r) ==
  \A q \in S : LocalQueue(q, r) /\ (Tail(q) = <<>> \/ Tail(q) \in S)

OwnSteps(r) == {e \in Step : e.id = r}

\* A queue of up to three steps of one request is local to it.
LEMMA ShortQueues ==
  ASSUME NEW r
  PROVE  /\ \A a \in OwnSteps(r) : LocalQueue(<<a>>, r)
         /\ \A a, b \in OwnSteps(r) : LocalQueue(<<a, b>>, r)
         /\ \A a, b, c \in OwnSteps(r) : LocalQueue(<<a, b, c>>, r)
<1>1. ASSUME NEW a \in OwnSteps(r) PROVE LocalQueue(<<a>>, r)
  <2>1. <<a>> \in Seq(Step)
    BY DEF OwnSteps
  <2>. QED  BY <2>1, Short DEF LocalQueue, OwnSteps
<1>2. ASSUME NEW a \in OwnSteps(r), NEW b \in OwnSteps(r) PROVE LocalQueue(<<a, b>>, r)
  <2>1. <<a, b>> \in Seq(Step)
    BY DEF OwnSteps
  <2>. QED  BY <2>1, Short DEF LocalQueue, OwnSteps
<1>3. ASSUME NEW a \in OwnSteps(r), NEW b \in OwnSteps(r), NEW c \in OwnSteps(r)
      PROVE  LocalQueue(<<a, b, c>>, r)
  <2>1. <<a, b, c>> \in Seq(Step)
    BY DEF OwnSteps
  <2>. QED  BY <2>1, Short DEF LocalQueue, OwnSteps
<1>. QED  BY <1>1, <1>2, <1>3

\* And so are the ends of such queues.
LEMMA JoinedQueues ==
  ASSUME NEW r, NEW a \in OwnSteps(r), NEW b \in OwnSteps(r), NEW c \in OwnSteps(r)
  PROVE  /\ LocalQueues({<<a>>}, r)
         /\ LocalQueues({<<a, b>>, <<b>>}, r)
         /\ LocalQueues({<<a, b, c>>, <<b, c>>, <<c>>}, r)
<1>1. LocalQueue(<<a>>, r) /\ LocalQueue(<<b>>, r) /\ LocalQueue(<<c>>, r)
  BY ShortQueues
<1>2. LocalQueue(<<a, b>>, r) /\ LocalQueue(<<b, c>>, r) /\ LocalQueue(<<a, b, c>>, r)
  BY ShortQueues
<1>3. /\ Tail(<<a>>) = <<>> /\ Tail(<<b>>) = <<>> /\ Tail(<<c>>) = <<>>
      /\ Tail(<<a, b>>) = <<b>> /\ Tail(<<b, c>>) = <<c>> /\ Tail(<<a, b, c>>) = <<b, c>>
  BY Short
<1>. QED  BY <1>1, <1>2, <1>3, Zenon DEF LocalQueues

\* Every queue of a handler is of steps of its own request, to its end.
LEMMA QueueSteps ==
  ASSUME NEW r \in Requests, NEW op \in HandlerOps
  PROVE  LocalQueues(HandlerQueues(op, r), r)
<1>1. r \in Outpoints
  BY Names
<1>2. /\ "BUILT" \in Labels /\ "CLOSED" \in Labels /\ "STALE" \in Labels
      /\ "PREFLIGHT_VERIFIED" \in Labels /\ "SUBMITTING" \in Labels /\ "SUBMITTED" \in Labels
      /\ "RECONCILIATION_REQUIRED" \in Labels /\ "SUBMISSION_REJECTED" \in Labels
      /\ "CHAIN_VERIFIED" \in Labels
      /\ {"own", "missing", "foreign", "contested", "uncontested"} \subseteq Marks
  BY DEF Labels, SignedOrRejected, InFlight, Marks
<1>3. /\ \A l \in Labels : Save(r, l) \in OwnSteps(r)
      /\ \A d \in ArmSteps \cup {"broadcast"}, m \in Marks : Write(d, r, m) \in OwnSteps(r)
      /\ \A d \in {"reread", "claim", "prove", "advance", "receipt", "release", "remove"} :
           Do(d, r) \in OwnSteps(r)
  BY <1>1, StepType DEF Save, Write, Do, OwnSteps
<1>4. /\ \A l \in {"BUILT", "CLOSED", "STALE", "PREFLIGHT_VERIFIED", "SUBMITTING", "SUBMITTED",
                   "RECONCILIATION_REQUIRED", "SUBMISSION_REJECTED", "CHAIN_VERIFIED"} :
           Save(r, l) \in OwnSteps(r)
      /\ \A d \in ArmSteps, m \in Holds : Write(d, r, m) \in OwnSteps(r)
      /\ \A m \in {"contested", "uncontested"} : Write("broadcast", r, m) \in OwnSteps(r)
  BY <1>2, <1>3 DEF Holds
<1>5. \A S, T : LocalQueues(S, r) /\ LocalQueues(T, r) => LocalQueues(S \cup T, r)
  BY DEF LocalQueues
<1> DEFINE reread == Do("reread", r)
           claim == Do("claim", r)
           closed == Save(r, "CLOSED")
           stale == Save(r, "STALE")
           signed == Save(r, "PREFLIGHT_VERIFIED")
           submitting == Save(r, "SUBMITTING")
           submitted == Save(r, "SUBMITTED")
           unsure == Save(r, "RECONCILIATION_REQUIRED")
           rejected == Save(r, "SUBMISSION_REJECTED")
           verified == Save(r, "CHAIN_VERIFIED")
           send == Write("broadcast", r, "contested")
           sendAlone == Write("broadcast", r, "uncontested")
           prove == Do("prove", r)
           advance == Do("advance", r)
           done == Do("receipt", r)
           release == Do("release", r)
           remove == Do("remove", r)
<1>6. CASE op = "build"
  <2>1. HandlerQueues(op, r) = {<<Save(r, "BUILT")>>}
    BY <1>6 DEF HandlerQueues
  <2>. QED  BY <2>1, <1>4, JoinedQueues
<1>7. CASE op = "reject"
  <2>1. HandlerQueues(op, r) = {<<Save(r, "CLOSED")>>}
    BY <1>7 DEF HandlerQueues
  <2>. QED  BY <2>1, <1>4, JoinedQueues
<1>8. CASE op = "finalize"
  <2>1. HandlerQueues(op, r) = FinalizeQueues(r)
    BY <1>8 DEF HandlerQueues
  <2>2. /\ VerdictQueues(r) = {<<reread, closed>>, <<closed>>} \cup {<<reread, stale>>, <<stale>>}
        /\ OrdinaryQueues(r) = {<<claim, reread, signed>>, <<reread, signed>>, <<signed>>}
        /\ BreakGlassQueues(r) = {<<reread, signed, claim>>, <<signed, claim>>, <<claim>>}
    BY Zenon DEF VerdictQueues, OrdinaryQueues, BreakGlassQueues
  <2>3. {reread, claim, closed, stale, signed} \subseteq OwnSteps(r)
    BY <1>3, <1>4
  <2> HIDE DEF reread, claim, closed, stale, signed
  <2>4. /\ LocalQueues(VerdictQueues(r), r) /\ LocalQueues(OrdinaryQueues(r), r)
        /\ LocalQueues(BreakGlassQueues(r), r)
    <3>1. /\ LocalQueues({<<reread, closed>>, <<closed>>}, r)
          /\ LocalQueues({<<reread, stale>>, <<stale>>}, r)
      BY <2>3, JoinedQueues
    <3>2. /\ LocalQueues({<<claim, reread, signed>>, <<reread, signed>>, <<signed>>}, r)
          /\ LocalQueues({<<reread, signed, claim>>, <<signed, claim>>, <<claim>>}, r)
      BY <2>3, JoinedQueues
    <3>3. LocalQueues({<<reread, closed>>, <<closed>>} \cup {<<reread, stale>>, <<stale>>}, r)
      BY <3>1, <1>5
    <3>. QED  BY <2>2, <3>2, <3>3, Zenon
  <2>. QED  BY <2>1, <2>4, <1>5 DEF FinalizeQueues
<1>9. CASE op = "submit"
  <2>1. HandlerQueues(op, r) = SubmitQueues(r)
    BY <1>9 DEF HandlerQueues
  <2>2. ProofQueues(r) = {<<submitting, sendAlone>>, <<sendAlone>>}
          \cup ({<<submitted, prove>>, <<prove>>}
          \cup {<<advance, verified, done>>, <<verified, done>>, <<done>>})
    BY Zenon DEF ProofQueues
  <2>3. SubmitQueues(r) = ({<<stale>>}
          \cup (ArmQueues(r) \cup ({<<submitting, send>>, <<send>>}
          \cup ({<<submitted>>} \cup ({<<unsure>>} \cup ({<<rejected, release>>, <<release>>}
          \cup {<<remove>>}))))))
          \cup (IF r \in Recovers THEN {} ELSE ProofQueues(r))
    BY Zenon DEF SubmitQueues
  <2>4. {stale, submitting, send, submitted, unsure, rejected, release, remove, sendAlone, prove,
         advance, verified, done} \subseteq OwnSteps(r)
    BY <1>3, <1>4
  <2> HIDE DEF stale, submitting, send, submitted, unsure, rejected, release, remove, sendAlone,
               prove, advance, verified, done
  <2>5. LocalQueues(ProofQueues(r), r)
    <3>1. /\ LocalQueues({<<submitting, sendAlone>>, <<sendAlone>>}, r)
          /\ LocalQueues({<<submitted, prove>>, <<prove>>}, r)
          /\ LocalQueues({<<advance, verified, done>>, <<verified, done>>, <<done>>}, r)
      BY <2>4, JoinedQueues
    <3>2. LocalQueues({<<submitted, prove>>, <<prove>>}
            \cup {<<advance, verified, done>>, <<verified, done>>, <<done>>}, r)
      BY <3>1, <1>5
    <3>3. LocalQueues({<<submitting, sendAlone>>, <<sendAlone>>}
            \cup ({<<submitted, prove>>, <<prove>>}
            \cup {<<advance, verified, done>>, <<verified, done>>, <<done>>}), r)
      BY <3>1, <3>2, <1>5
    <3>. QED  BY <2>2, <3>3, Zenon
  <2>6. LocalQueues({}, r)
    BY DEF LocalQueues
  <2>16. LocalQueues(ArmQueues(r), r)
    <3>1. \A d \in ArmSteps, m \in Holds : LocalQueues({<<Write(d, r, m)>>}, r)
      BY <1>4, JoinedQueues
    <3>2. ASSUME NEW q \in ArmQueues(r)
          PROVE  LocalQueue(q, r) /\ (Tail(q) = <<>> \/ Tail(q) \in ArmQueues(r))
      <4>1. PICK d \in ArmSteps, m \in Holds : q = <<Write(d, r, m)>>
        BY DEF ArmQueues
      <4>2. PICK a : a = Write(d, r, m) /\ LocalQueues({<<a>>}, r)
        BY <3>1
      <4>3. q = <<a>> /\ Tail(q) = <<>>
        BY <4>1, <4>2, Short
      <4>. QED  BY <4>2, <4>3 DEF LocalQueues
    <3>. QED  BY <3>2 DEF LocalQueues
  <2>7. /\ LocalQueues({<<stale>>}, r)
        /\ LocalQueues({<<submitting, send>>, <<send>>}, r)
        /\ LocalQueues({<<submitted>>}, r) /\ LocalQueues({<<unsure>>}, r)
        /\ LocalQueues({<<rejected, release>>, <<release>>}, r) /\ LocalQueues({<<remove>>}, r)
    BY <2>4, JoinedQueues
  <2>8. LocalQueues(IF r \in Recovers THEN {} ELSE ProofQueues(r), r)
    BY <2>5, <2>6
  <2> DEFINE left == {<<rejected, release>>, <<release>>} \cup {<<remove>>}
             ended == {<<submitted>>} \cup ({<<unsure>>} \cup left)
             sending == {<<submitting, send>>, <<send>>} \cup ended
             arming == ArmQueues(r) \cup sending
  <2>9. LocalQueues(left, r)
    BY <2>7, <1>5
  <2>10. LocalQueues(ended, r)
    <3> HIDE DEF left
    <3>1. LocalQueues({<<unsure>>} \cup left, r)
      BY <2>7, <2>9, <1>5
    <3>. QED  BY <2>7, <3>1, <1>5
  <2>11. LocalQueues(sending, r)
    <3> HIDE DEF ended
    <3>. QED  BY <2>7, <2>10, <1>5
  <2>12. LocalQueues(arming, r)
    <3> HIDE DEF sending
    <3>. QED  BY <2>11, <2>16, <1>5
  <2>13. LocalQueues({<<stale>>} \cup arming, r)
    <3> HIDE DEF arming
    <3>. QED  BY <2>7, <2>12, <1>5
  <2>14. SubmitQueues(r) = ({<<stale>>} \cup arming)
           \cup (IF r \in Recovers THEN {} ELSE ProofQueues(r))
    BY <2>3, Zenon
  <2>15. LocalQueues(({<<stale>>} \cup arming)
           \cup (IF r \in Recovers THEN {} ELSE ProofQueues(r)), r)
    <3> HIDE DEF arming
    <3>. QED  BY <2>8, <2>13, <1>5
  <2>. QED  BY <2>1, <2>14, <2>15, Zenon
<1>. QED  BY <1>6, <1>7, <1>8, <1>9 DEF HandlerOps

\* What a handler is at, by the first step of its queue.
SubmitHead(q, r) ==
  LET e == Head(q)
  IN \/ e.do = "save" /\ e.as \in After
     \/ e.do \in ArmSteps /\ e.as \in Holds /\ q = <<e>>
     \/ /\ e.do = "broadcast" /\ q = <<e>>
        /\ \/ e.as = "contested"
           \/ e.as = "uncontested" /\ r \notin Recovers
     \/ e.do \in {"prove", "advance"} /\ r \notin Recovers
     \/ e \in {Do("receipt", r), Do("release", r), Do("remove", r)} /\ q = <<e>>

FinalizeHead(q, r) ==
  LET e == Head(q)
  IN \/ e.do = "save" /\ e.as \in {"CLOSED", "STALE", "PREFLIGHT_VERIFIED"}
     \/ e = Do("claim", r) /\ q \in {<<e>>, <<e, Do("reread", r), Save(r, "PREFLIGHT_VERIFIED")>>}
     \/ e = Do("reread", r)

\* What a submit can be at, by its queue.
LEMMA SubmitHeads ==
  ASSUME NEW r, NEW q \in SubmitQueues(r)
  PROVE  SubmitHead(q, r)
<1>1. /\ "STALE" \in After /\ "SUBMITTING" \in After /\ "SUBMITTED" \in After
      /\ "RECONCILIATION_REQUIRED" \in After /\ "SUBMISSION_REJECTED" \in After
      /\ "CHAIN_VERIFIED" \in After
  BY DEF After, Begun, Labels, SignedOrRejected, InFlight
<1>2. \A l : Save(r, l).do = "save" /\ Save(r, l).as = l
  BY DEF Save, Write
<1>3. \A d, m : Write(d, r, m).do = d /\ Write(d, r, m).as = m
  BY DEF Write
<1>4. \A d : Do(d, r).do = d
  BY DEF Do, Write
<1>7. CASE q \in ArmQueues(r)
  <2>1. PICK d \in ArmSteps, m \in Holds : q = <<Write(d, r, m)>>
    BY <1>7 DEF ArmQueues
  <2>2. Head(q) = Write(d, r, m) /\ q = <<Head(q)>>
    BY <2>1, Short
  <2>. QED  BY <1>3, <2>1, <2>2 DEF SubmitHead
<1>5. CASE q \in ProofQueues(r) /\ r \notin Recovers
  BY <1>1, <1>2, <1>3, <1>4, <1>5, Short DEF ProofQueues, SubmitHead
<1>6. CASE q \notin ArmQueues(r) /\ ~(q \in ProofQueues(r) /\ r \notin Recovers)
  BY <1>1, <1>2, <1>3, <1>4, <1>6, Short DEF SubmitQueues, SubmitHead
<1>. QED  BY <1>5, <1>6, <1>7

\* What a finalize can be at, by its queue.
LEMMA FinalizeHeads ==
  ASSUME NEW r, NEW q \in FinalizeQueues(r)
  PROVE  FinalizeHead(q, r)
<1>1. \A l : Save(r, l).do = "save" /\ Save(r, l).as = l
  BY DEF Save, Write
<1>2. CASE q \in VerdictQueues(r)
  BY <1>1, <1>2, Short DEF VerdictQueues, FinalizeHead
<1>3. CASE q \in OrdinaryQueues(r)
  BY <1>1, <1>3, Short DEF OrdinaryQueues, FinalizeHead
<1>4. CASE q \in BreakGlassQueues(r)
  BY <1>1, <1>4, Short DEF BreakGlassQueues, FinalizeHead
<1>. QED  BY <1>2, <1>3, <1>4 DEF FinalizeQueues

-----------------------------------------------------------------------------
\* Every step keeps the shape of the tasks.

Handling(w) ==
  LET t == task[w]
  IN /\ t.op \in HandlerOps /\ t.id \in Requests
     /\ t.todo \in HandlerQueues(t.op, t.id)
     /\ out[t.id] \in Outpoints
     /\ t.op # "build" => rec[t.id] # "none"

Verifying(w) ==
  LET t == task[w]
  IN t.op = "verify" /\ t.id = None /\ t.todo \in VerifyQueues /\ t.todo # <<>>

\* What a task looks like to the step it makes.
LEMMA Working ==
  ASSUME ShapeInv, NEW w \in Workers, task[w].todo # <<>>
  PROVE  /\ Now(w) \in Step /\ Rest(w) \in Seq(Step) /\ task[w].todo \in Seq(Step)
         /\ \/ /\ Handling(w) /\ Now(w).id = task[w].id
               /\ Rest(w) = <<>> \/ Rest(w) \in HandlerQueues(task[w].op, task[w].id)
            \/ /\ Verifying(w) /\ VerifyStep(Now(w)) /\ Rest(w) \in VerifyQueues
<1>1. TaskShape(w) /\ task[w].todo \in Seq(Step)
  BY DEF ShapeInv, TypeInv
<1>2. Now(w) \in Step /\ Rest(w) \in Seq(Step)
  BY <1>1 DEF Now, Rest
<1>3. CASE task[w] = Idle
  BY <1>3 DEF Idle
<1>4. CASE Handling(w)
  <2>1. LocalQueues(HandlerQueues(task[w].op, task[w].id), task[w].id)
    BY <1>4, QueueSteps DEF Handling
  <2>. QED  BY <1>1, <1>2, <1>4, <2>1 DEF Handling, LocalQueues, LocalQueue, Now, Rest
<1>5. CASE Verifying(w)
  <2>1. VerifyStep(task[w].todo[1])
    BY <1>1, <1>5 DEF Verifying, VerifyQueues
  <2>2. \A i \in 1..Len(Rest(w)) : VerifyStep(Rest(w)[i])
    BY <1>1, <1>5 DEF Verifying, VerifyQueues, Rest
  <2>3. Now(w) = task[w].todo[1]
    BY <1>1 DEF Now
  <2>. QED  BY <1>1, <1>2, <1>5, <2>1, <2>2, <2>3 DEF VerifyQueues
<1>. QED  BY <1>1, <1>3, <1>4, <1>5 DEF TaskShape, Handling, Verifying

\* The request of a handler or of a step of Verify.
LEMMA NowRequest ==
  ASSUME ShapeInv, NEW w \in Workers, task[w].todo # <<>>,
         Now(w).do \notin {"advance", "adopt", "leftover"}
  PROVE  /\ Now(w).id \in Requests
         /\ task[w].op # "build" => Recorded(Now(w).id) /\ out[Now(w).id] \in Outpoints
         /\ out[Now(w).id] \in Outpoints
<1>1. \A r : Recorded(r) => r \in Requests /\ out[r] \in Outpoints
  BY DEF ShapeInv, NodeInv, Recorded
<1>2. CASE Handling(w) /\ Now(w).id = task[w].id
  BY <1>2 DEF Handling, Recorded
<1>3. CASE Verifying(w) /\ VerifyStep(Now(w))
  BY <1>1, <1>3 DEF VerifyStep
<1>. QED  BY <1>2, <1>3, Working

\* Going on with a queue changes the task of that worker only.
LEMMA ThenTask ==
  ASSUME TypeInv, NEW w \in Workers, NEW q \in Seq(Step), Then(w, q)
  PROVE  /\ task'[w] = IF q = <<>> THEN Idle
                       ELSE [op |-> task[w].op, id |-> task[w].id, todo |-> q]
         /\ \A v \in Workers \ {w} : task'[v] = task[v]
         /\ task' \in [Workers -> [op: Ops, id: Requests \cup {None}, todo: Seq(Step)]]
<1>1. task \in [Workers -> [op: Ops, id: Requests \cup {None}, todo: Seq(Step)]]
  BY DEF TypeInv
<1>2. Idle \in [op: Ops, id: Requests \cup {None}, todo: Seq(Step)]
  BY DEF Idle, Ops
<1>3. task[w] = [op |-> task[w].op, id |-> task[w].id, todo |-> task[w].todo]
  BY <1>1
<1>4. [task[w] EXCEPT !.todo = q] = [op |-> task[w].op, id |-> task[w].id, todo |-> q]
  BY <1>1, <1>3
<1>. QED  BY <1>1, <1>2, <1>4 DEF Then

\* What a step leaves of the requests and of the deep part of the chain.
Grows ==
  /\ \A r \in Requests : rec[r] # "none" => rec'[r] # "none" /\ out'[r] = out[r]
  /\ \A r \in Requests : out[r] \in Outpoints => out'[r] \in Outpoints
  /\ \A t : Deep(t) => Deep(t)'
  /\ \A t \in Requests : \A o : DeepSpender(t, o) => DeepSpender(t, o)'

\* A queue Verify may have stays one, as nothing deep is undone.
LEMMA VerifyStays ==
  ASSUME Grows, NEW q \in VerifyQueues
  PROVE  q \in VerifyQueues'
<1>1. \A r : Recorded(r) => Recorded(r)' /\ (LostDeep(r) => LostDeep(r)')
  BY DEF Grows, Recorded, LostDeep
<1>3. \A t : Deep(t) => Deep(t)'
  BY DEF Grows
<1>2. \A e : VerifyStep(e) => VerifyStep(e)'
  BY <1>1, <1>3 DEF VerifyStep
<1>. QED  BY <1>2 DEF VerifyQueues

\* A worker that does nothing keeps the shape of its task.
LEMMA ShapeKept ==
  ASSUME ShapeInv, NEW v \in Workers, task'[v] = task[v], Grows
  PROVE  TaskShape(v)'
<1>1. TaskShape(v)
  BY DEF ShapeInv
<1>2. CASE task[v] = Idle
  BY <1>2 DEF TaskShape, Idle
<1>3. CASE Handling(v)
  BY <1>3 DEF TaskShape, Handling, Grows
<1>4. CASE Verifying(v)
  BY <1>4, VerifyStays DEF TaskShape, Verifying
<1>. QED  BY <1>1, <1>2, <1>3, <1>4 DEF TaskShape, Handling, Verifying

\* A worker that goes on with queue q.
LEMMA QueueShape ==
  ASSUME ShapeInv, NEW w \in Workers, task[w].todo # <<>>, Grows,
         NEW q \in Seq(Step), Then(w, q),
         \/ q = <<>>
         \/ task[w].op \in HandlerOps /\ q \in HandlerQueues(task[w].op, task[w].id)
         \/ task[w].op = "verify" /\ q \in VerifyQueues'
  PROVE  TaskShape(w)'
<1>1. task'[w] = IF q = <<>> THEN Idle
                 ELSE [op |-> task[w].op, id |-> task[w].id, todo |-> q]
  BY ThenTask DEF ShapeInv
<1>2. CASE q = <<>>
  BY <1>1, <1>2 DEF TaskShape, Idle
<1>3. CASE q # <<>> /\ task[w].op \in HandlerOps /\ q \in HandlerQueues(task[w].op, task[w].id)
  <2>1. Handling(w)
    BY <1>3, Working DEF Verifying, HandlerOps
  <2>. QED  BY <1>1, <1>3, <2>1 DEF TaskShape, Handling, Grows
<1>4. CASE q # <<>> /\ task[w].op = "verify" /\ q \in VerifyQueues'
  <2>1. Verifying(w)
    BY <1>4, Working DEF Handling, HandlerOps
  <2>. QED  BY <1>1, <1>4, <2>1 DEF TaskShape, Verifying
<1>. QED  BY <1>2, <1>3, <1>4

\* A worker that goes on with the rest of its queue keeps its shape.
LEMMA RestShape ==
  ASSUME ShapeInv, NEW w \in Workers, task[w].todo # <<>>, Grows, Then(w, Rest(w))
  PROVE  TaskShape(w)'
<1>1. Rest(w) \in Seq(Step)
  BY Working
<1>2. CASE Handling(w) /\ (Rest(w) = <<>> \/ Rest(w) \in HandlerQueues(task[w].op, task[w].id))
  BY <1>1, <1>2, QueueShape DEF Handling
<1>3. CASE Verifying(w) /\ Rest(w) \in VerifyQueues
  BY <1>1, <1>3, VerifyStays, QueueShape DEF Verifying
<1>. QED  BY <1>2, <1>3, Working

\* A step of worker w that leaves the chain alone.
LEMMA StoreStep ==
  ASSUME ShapeInv, TypeInv', chain' = chain, deep' = deep,
         \A r \in Requests : rec[r] # "none" => rec'[r] # "none" /\ out'[r] = out[r],
         \A r \in Requests : out[r] \in Outpoints => out'[r] \in Outpoints,
         \A r \in Requests : rec'[r] # "none" => out'[r] \in Outpoints,
         \A r \in sent' : r \in sent \/ Recorded(r),
         manifest' = manifest
           \/ (manifest'.live = Closed => manifest'.last \in Recovers /\ Deep(manifest'.last)),
         NEW w \in Workers, TaskShape(w)',
         \A v \in Workers \ {w} : task'[v] = task[v]
  PROVE  ShapeInv'
<1>1. \A t : Deep(t)' <=> Deep(t)
  BY DEF Deep
<1>2. Grows
  BY <1>1 DEF Grows, DeepSpender, Spends1, Spent
<1>3. \A v \in Workers : TaskShape(v)'
  BY <1>2, ShapeKept
<1>4. NodeInv'
  <2>1. \A i : Spent(i)' = Spent(i)
    BY DEF Spent
  <2>2. \A r : Recorded(r) => Recorded(r)'
    BY DEF Recorded
  <2>3. \A r \in sent' : Recorded(r)'
    BY <2>2 DEF ShapeInv, NodeInv
  <2>4. \A r : Recorded(r) => out'[r] = out[r]
    BY DEF Recorded
  <2>. QED  BY <2>1, <2>2, <2>3, <2>4 DEF ShapeInv, NodeInv
<1>5. RecoveredAtDepth'
  BY <1>1 DEF ShapeInv, RecoveredAtDepth
<1>. QED  BY <1>3, <1>4, <1>5 DEF ShapeInv

\* A handler that starts gives its worker a task and leaves the others alone.
LEMMA BeginTask ==
  ASSUME TypeInv, NEW w \in Workers, NEW op \in HandlerOps, NEW r \in Requests,
         NEW q \in HandlerQueues(op, r), Begin(w, op, r, q)
  PROVE  /\ task'[w] = [op |-> op, id |-> r, todo |-> q]
         /\ \A v \in Workers \ {w} : task'[v] = task[v]
         /\ task' \in [Workers -> [op: Ops, id: Requests \cup {None}, todo: Seq(Step)]]
<1>1. q \in Seq(Step)
  BY QueueSteps DEF LocalQueues, LocalQueue
<1>. QED  BY <1>1 DEF Begin, TypeInv, HandlerOps, Ops

\* A handler that starts keeps the shape, when the store stays as it is.
LEMMA BeginShape ==
  ASSUME ShapeInv, NEW w \in Workers, NEW op \in HandlerOps \ {"build"}, NEW r \in Requests,
         NEW q \in HandlerQueues(op, r), Begin(w, op, r, q), Recorded(r),
         UNCHANGED <<node, store, aborts>>
  PROVE  ShapeInv'
<1>1. /\ task'[w] = [op |-> op, id |-> r, todo |-> q]
      /\ \A v \in Workers \ {w} : task'[v] = task[v]
      /\ task' \in [Workers -> [op: Ops, id: Requests \cup {None}, todo: Seq(Step)]]
  BY BeginTask DEF ShapeInv
<1>2. TypeInv'
  BY <1>1 DEF ShapeInv, TypeInv, node, store
<1>3. out[r] \in Outpoints /\ rec[r] # "none"
  BY DEF Recorded, ShapeInv, NodeInv
<1>4. TaskShape(w)'
  BY <1>1, <1>3 DEF TaskShape, node, store
<1>5. \A q1 \in Requests : rec[q1] # "none" => out[q1] \in Outpoints
  BY DEF ShapeInv, NodeInv
<1>. QED  BY <1>1, <1>2, <1>4, <1>5, StoreStep DEF node, store

\* A build starts: its request gets the live outpoint of the manifest.
LEMMA BuildShape ==
  ASSUME ShapeInv, NEW w \in Workers, NEW r \in Requests, Build(w, r)
  PROVE  ShapeInv'
<1>1. <<Save(r, "BUILT")>> \in HandlerQueues("build", r) /\ "build" \in HandlerOps
  BY DEF HandlerQueues, HandlerOps
<1>2. Begin(w, "build", r, <<Save(r, "BUILT")>>)
  BY DEF Build
<1>3. /\ task'[w] = [op |-> "build", id |-> r, todo |-> <<Save(r, "BUILT")>>]
      /\ \A v \in Workers \ {w} : task'[v] = task[v]
      /\ task' \in [Workers -> [op: Ops, id: Requests \cup {None}, todo: Seq(Step)]]
  BY <1>1, <1>2, BeginTask DEF ShapeInv
<1>4. manifest.live \in Outpoints
  BY DEF Build, Buildable, ShapeInv, TypeInv
<1>5. /\ out' = [out EXCEPT ![r] = manifest.live] /\ rec[r] = "none"
      /\ UNCHANGED <<chain, deep, sent, manifest, rec, tclaim, receipt, aborts>>
  BY DEF Build, node
<1>6. out' \in [Requests -> Outpoints \cup {None}] /\ out'[r] \in Outpoints
  BY <1>4, <1>5 DEF ShapeInv, TypeInv
<1>7. TypeInv'
  BY <1>3, <1>5, <1>6 DEF ShapeInv, TypeInv
<1>8. \A q \in Requests : q # r => out'[q] = out[q]
  BY <1>5 DEF ShapeInv, TypeInv
<1>9. TaskShape(w)'
  BY <1>1, <1>3, <1>6 DEF TaskShape
<1>10. \A q \in Requests : rec[q] # "none" => out[q] \in Outpoints
  BY DEF ShapeInv, NodeInv
<1>. QED  BY <1>3, <1>5, <1>6, <1>7, <1>8, <1>9, <1>10, StoreStep

\* A reject starts.
LEMMA RejectShape ==
  ASSUME ShapeInv, NEW w \in Workers, NEW r \in Requests, Reject(w, r)
  PROVE  ShapeInv'
<1>1. <<Save(r, "CLOSED")>> \in HandlerQueues("reject", r) /\ "reject" \in HandlerOps \ {"build"}
  BY DEF HandlerQueues, HandlerOps
<1>. QED  BY <1>1, BeginShape DEF Reject, Recorded

\* A finalize starts, with the queue of its verdict.
LEMMA FinalizeShape ==
  ASSUME ShapeInv, NEW w \in Workers, NEW r \in Requests, Finalize(w, r)
  PROVE  ShapeInv'
<1>1. /\ HandlerQueues("finalize", r) = FinalizeQueues(r)
      /\ "finalize" \in HandlerOps \ {"build"}
  BY DEF HandlerQueues, HandlerOps
<1>2. /\ Close(r, "STALE") \in FinalizeQueues(r) /\ Close(r, "CLOSED") \in FinalizeQueues(r)
      /\ Finalization(r) \in FinalizeQueues(r)
  BY DEF FinalizeQueues, VerdictQueues, OrdinaryQueues, BreakGlassQueues, Close, Finalization
<1>3. \E q \in FinalizeQueues(r) : Begin(w, "finalize", r, q)
  BY <1>2 DEF Finalize
<1>. QED  BY <1>1, <1>3, BeginShape DEF Finalize, Recorded

\* A submit starts, with the queue of what it read.
LEMMA SubmitShape ==
  ASSUME ShapeInv, NEW w \in Workers, NEW r \in Requests, Submit(w, r)
  PROVE  ShapeInv'
<1>1. HandlerQueues("submit", r) = SubmitQueues(r) /\ "submit" \in HandlerOps \ {"build"}
  BY DEF HandlerQueues, HandlerOps
<1>2. /\ <<Save(r, "STALE")>> \in SubmitQueues(r)
      /\ \A h \in {"own", "missing", "foreign"} : <<Write("arm", r, h)>> \in SubmitQueues(r)
  BY DEF SubmitQueues, ArmQueues, ArmSteps, Holds
<1>3. \E q \in SubmitQueues(r) : Begin(w, "submit", r, q)
  BY <1>2 DEF Submit
<1>. QED  BY <1>1, <1>3, BeginShape DEF Submit, Recorded

\* A handler stops: its queue is gone.
LEMMA AbortShape ==
  ASSUME ShapeInv, NEW w \in Workers, Abort(w)
  PROVE  ShapeInv'
<1>1. /\ task' = [task EXCEPT ![w] = Idle] /\ aborts' \in 0..MaxAborts
      /\ UNCHANGED <<chain, deep, sent, manifest, rec, out, tclaim, receipt>>
  BY SettlementAssumption DEF Abort, node, store, ShapeInv, TypeInv
<1>2. Idle \in [op: Ops, id: Requests \cup {None}, todo: Seq(Step)]
  BY DEF Idle, Ops
<1>3. /\ task' \in [Workers -> [op: Ops, id: Requests \cup {None}, todo: Seq(Step)]]
      /\ task'[w] = Idle /\ \A v \in Workers \ {w} : task'[v] = task[v]
  BY <1>1, <1>2 DEF ShapeInv, TypeInv
<1>4. TypeInv'
  BY <1>1, <1>3 DEF ShapeInv, TypeInv
<1>5. TaskShape(w)'
  BY <1>3 DEF TaskShape, Idle
<1>6. \A q \in Requests : rec[q] # "none" => out[q] \in Outpoints
  BY DEF ShapeInv, NodeInv
<1>. QED  BY <1>1, <1>3, <1>4, <1>5, <1>6, StoreStep

\* Which task a step belongs to.
LEMMA WhoDoes ==
  ASSUME ShapeInv, NEW w \in Workers, task[w].todo # <<>>
  PROVE  /\ Now(w).do \in {"claim", "reread"} => Handling(w) /\ task[w].op = "finalize"
         /\ Now(w).do \in ArmSteps \cup {"broadcast", "prove"} =>
              /\ Handling(w) /\ task[w].op = "submit"
              /\ SubmitHead(task[w].todo, task[w].id)
         /\ Now(w).do \in {"settle", "leftover", "adopt"} =>
              Verifying(w) /\ VerifyStep(Now(w))
         /\ Now(w).do = "advance" =>
              Now(w).id \in Requests /\ (Now(w).id \in Recovers => Deep(Now(w).id))
<1>1. CASE Verifying(w) /\ VerifyStep(Now(w))
  BY <1>1 DEF VerifyStep, ArmSteps
<1>2. CASE Handling(w) /\ Now(w).id = task[w].id
  <2>1. CASE task[w].op \in {"build", "reject"}
    <3>1. \A l : Save(task[w].id, l).do = "save"
      BY DEF Save, Write
    <3>. QED  BY <1>2, <2>1, <3>1, Short DEF Handling, HandlerQueues, Now, ArmSteps
  <2>2. CASE task[w].op = "finalize"
    <3>1. FinalizeHead(task[w].todo, task[w].id)
      BY <1>2, <2>2, FinalizeHeads DEF Handling, HandlerQueues
    <3>2. Now(w).do \in {"save", "claim", "reread"}
      BY <3>1 DEF FinalizeHead, Now, Do, Write
    <3>. QED  BY <1>2, <2>2, <3>2 DEF ArmSteps
  <2>3. CASE task[w].op = "submit"
    <3>1. SubmitHead(task[w].todo, task[w].id)
      BY <1>2, <2>3, SubmitHeads DEF Handling, HandlerQueues
    <3>2. /\ Now(w).do \in ArmSteps \cup {"save", "broadcast", "prove", "advance", "receipt",
                                         "release", "remove"}
          /\ Now(w).do = "advance" => task[w].id \notin Recovers
      BY <3>1 DEF SubmitHead, Now, Do, Write, ArmSteps
    <3>. QED  BY <1>2, <2>3, <3>1, <3>2 DEF Handling, ArmSteps
  <2>. QED  BY <1>2, <2>1, <2>2, <2>3 DEF Handling, HandlerOps
<1>. QED  BY <1>1, <1>2, Working

\* A step of worker w that goes on with queue q and leaves the chain alone.
LEMMA GoStep ==
  ASSUME ShapeInv, NEW w \in Workers, task[w].todo # <<>>, NEW q \in Seq(Step), Then(w, q),
         \/ q = Rest(w) \/ q = <<>>
         \/ Handling(w) /\ q \in HandlerQueues(task[w].op, task[w].id)
         \/ Verifying(w) /\ q \in VerifyQueues,
         chain' = chain, deep' = deep, out' = out, aborts' = aborts,
         sent' \in SUBSET Requests, \A r \in sent' : r \in sent \/ Recorded(r),
         rec' \in [Requests -> Labels],
         tclaim' \in [Outpoints -> Requests \cup {None}],
         receipt' \in SUBSET Requests,
         manifest' \in [live: Outpoints \cup {Closed}, last: Transactions \cup {None}],
         manifest' = manifest
           \/ (manifest'.live = Closed => manifest'.last \in Recovers /\ Deep(manifest'.last)),
         \A r \in Requests : rec[r] # "none" => rec'[r] # "none",
         \A r \in Requests : rec'[r] # "none" => out[r] \in Outpoints
  PROVE  ShapeInv'
<1>1. Grows
  BY DEF Grows, Deep, DeepSpender, Spends1, Spent
<1>2. TaskShape(w)'
  <2>1. CASE q = Rest(w)
    BY <1>1, <2>1, RestShape
  <2>2. CASE q # Rest(w)
    <3>1. q \in VerifyQueues => q \in VerifyQueues'
      BY <1>1, VerifyStays
    <3>. QED  BY <1>1, <2>2, <3>1, QueueShape DEF Handling, Verifying
  <2>. QED  BY <2>1, <2>2
<1>3. /\ \A v \in Workers \ {w} : task'[v] = task[v]
      /\ task' \in [Workers -> [op: Ops, id: Requests \cup {None}, todo: Seq(Step)]]
  BY ThenTask DEF ShapeInv
<1>4. TypeInv'
  BY <1>3 DEF ShapeInv, TypeInv
<1>. QED  BY <1>2, <1>3, <1>4, StoreStep

\* The types a step finds, and the outpoints of recorded requests.
LEMMA Found ==
  ASSUME ShapeInv
  PROVE  /\ sent \in SUBSET Requests /\ rec \in [Requests -> Labels]
         /\ out \in [Requests -> Outpoints \cup {None}]
         /\ tclaim \in [Outpoints -> Requests \cup {None}] /\ receipt \in SUBSET Requests
         /\ manifest \in [live: Outpoints \cup {Closed}, last: Transactions \cup {None}]
         /\ \A r \in Requests : rec[r] # "none" => out[r] \in Outpoints
BY DEF ShapeInv, TypeInv, NodeInv

\* A label is written.
LEMMA SaveShape ==
  ASSUME ShapeInv, NEW w \in Workers, DoSave(w)
  PROVE  ShapeInv'
<1>1. task[w].todo # <<>> /\ Now(w).do = "save" /\ Then(w, Rest(w))
  BY DEF DoSave, Doing, Now
<1>2. Now(w).id \in Requests /\ out[Now(w).id] \in Outpoints /\ Rest(w) \in Seq(Step)
  BY <1>1, NowRequest, Working
<1>3. Now(w).as \in Labels \ {"none"}
  <2>1. CASE Verifying(w) /\ VerifyStep(Now(w))
    BY <1>1, <2>1 DEF VerifyStep, Labels, SignedOrRejected
  <2>2. CASE Handling(w)
    <3>1. \A l : Save(task[w].id, l).as = l
      BY DEF Save, Write
    <3>2. CASE task[w].op \in {"build", "reject"}
      BY <2>2, <3>1, <3>2, Short DEF Handling, HandlerQueues, Now, Labels
    <3>3. CASE task[w].op = "finalize"
      <4>1. FinalizeHead(task[w].todo, task[w].id)
        BY <2>2, <3>3, FinalizeHeads DEF Handling, HandlerQueues
      <4>. QED  BY <1>1, <4>1 DEF FinalizeHead, Now, Do, Write, Labels, SignedOrRejected, InFlight
    <3>4. CASE task[w].op = "submit"
      <4>1. SubmitHead(task[w].todo, task[w].id)
        BY <2>2, <3>4, SubmitHeads DEF Handling, HandlerQueues
      <4>. QED  BY <1>1, <4>1 DEF SubmitHead, Now, Do, Write, After, Begun, ArmSteps
    <3>. QED  BY <2>2, <3>2, <3>3, <3>4 DEF Handling, HandlerOps
  <2>. QED  BY <1>1, <2>1, <2>2, Working
<1>4. /\ rec' = [rec EXCEPT ![Now(w).id] = Now(w).as]
      /\ UNCHANGED <<chain, deep, sent, manifest, out, tclaim, receipt, aborts>>
  BY DEF DoSave, node
<1>. QED  BY <1>1, <1>2, <1>3, <1>4, Found, GoStep

\* A finalize reads the label again after its claim.
LEMMA RereadShape ==
  ASSUME ShapeInv, NEW w \in Workers, DoReread(w)
  PROVE  ShapeInv'
<1> DEFINE q == IF rec[Now(w).id] = "BUILT" THEN Rest(w) ELSE <<>>
<1>1. task[w].todo # <<>> /\ Then(w, q)
  BY DEF DoReread, Doing
<1>2. q \in Seq(Step) /\ (q = Rest(w) \/ q = <<>>)
  BY <1>1, Working
<1>3. UNCHANGED <<chain, deep, sent, manifest, rec, out, tclaim, receipt, aborts>>
  BY DEF DoReread, node, store
<1> HIDE DEF q
<1>. QED  BY <1>1, <1>2, <1>3, Found, GoStep

\* A finalize claims the outpoint or finds it taken.
LEMMA ClaimShape ==
  ASSUME ShapeInv, NEW w \in Workers, DoClaim(w)
  PROVE  ShapeInv'
<1> DEFINE r == Now(w).id
           o == out[r]
           moved == r \notin BreakGlass /\ rec[r] # "BUILT"
           taken == ClaimedByOther(r)
           q == CASE moved -> <<>>
                  [] ~moved /\ taken /\ r \notin BreakGlass -> Close(r, "CLOSED")
                  [] OTHER -> Rest(w)
<1>1. /\ task[w].todo # <<>> /\ Now(w).do = "claim" /\ Then(w, q)
      /\ tclaim' = IF moved \/ taken THEN tclaim ELSE [tclaim EXCEPT ![o] = r]
  BY DEF DoClaim, Doing, Now
<1>2. r \in Requests /\ o \in Outpoints /\ Rest(w) \in Seq(Step)
  BY <1>1, NowRequest, Working
<1>3. Handling(w) /\ task[w].op = "finalize" /\ r = task[w].id
  <2>1. Handling(w) /\ task[w].op = "finalize"
    BY <1>1, WhoDoes
  <2>. QED  BY <1>1, <2>1, Working DEF Verifying
<1>4. Close(r, "CLOSED") \in HandlerQueues(task[w].op, task[w].id)
  BY <1>3 DEF HandlerQueues, FinalizeQueues, VerdictQueues, Close
<1>5. Close(r, "CLOSED") \in Seq(Step)
  <2>1. r \in Outpoints /\ "CLOSED" \in Labels
    BY <1>2, Names DEF Labels
  <2>2. Do("reread", r) \in Step /\ Save(r, "CLOSED") \in Step
    BY <2>1, StepType
  <2>. QED  BY <2>2 DEF Close
<1>6. q \in {Rest(w), <<>>, Close(r, "CLOSED")}
  OBVIOUS
<1>7. tclaim' \in [Outpoints -> Requests \cup {None}]
  BY <1>1, <1>2, Found
<1>8. UNCHANGED <<chain, deep, sent, manifest, rec, out, receipt, aborts>>
  BY DEF DoClaim, node
<1>9. q \in Seq(Step) /\ (q = Rest(w) \/ q = <<>> \/ q \in HandlerQueues(task[w].op, task[w].id))
  BY <1>2, <1>4, <1>5, <1>6
<1>10. Then(w, q)
  BY <1>1
<1> HIDE DEF q
<1>. QED  BY <1>1, <1>3, <1>7, <1>8, <1>9, <1>10, Found, GoStep

\* A receipt is written.
LEMMA ReceiptShape ==
  ASSUME ShapeInv, NEW w \in Workers, DoReceipt(w)
  PROVE  ShapeInv'
<1>1. task[w].todo # <<>> /\ Now(w).do = "receipt" /\ Then(w, Rest(w))
  BY DEF DoReceipt, Doing, Now
<1>2. Now(w).id \in Requests /\ Rest(w) \in Seq(Step)
  BY <1>1, NowRequest, Working
<1>3. /\ receipt' = receipt \cup {Now(w).id}
      /\ UNCHANGED <<chain, deep, sent, manifest, rec, out, tclaim, aborts>>
  BY DEF DoReceipt, node
<1>. QED  BY <1>1, <1>2, <1>3, Found, GoStep

\* A claim that was read is removed.
LEMMA RemoveShape ==
  ASSUME ShapeInv, NEW w \in Workers, DoRemove(w)
  PROVE  ShapeInv'
<1>1. task[w].todo # <<>> /\ Then(w, Rest(w)) /\ Rest(w) \in Seq(Step)
  BY Working DEF DoRemove, Doing, Now
<1>2. /\ tclaim' = [tclaim EXCEPT ![out[Now(w).id]] = None]
      /\ UNCHANGED <<chain, deep, sent, manifest, rec, out, receipt, aborts>>
  BY DEF DoRemove, node
<1>3. tclaim' \in [Outpoints -> Requests \cup {None}]
  BY <1>2, Found
<1>. QED  BY <1>1, <1>2, <1>3, Found, GoStep

\* The manifest is written: closed only with a recover that is deep.
LEMMA AdvanceShape ==
  ASSUME ShapeInv, NEW w \in Workers, DoAdvance(w)
  PROVE  ShapeInv'
<1>1. /\ task[w].todo # <<>> /\ Now(w).do = "advance" /\ Then(w, Rest(w))
      /\ Rest(w) \in Seq(Step)
  BY Working DEF DoAdvance, Doing, Now
<1> DEFINE r == Now(w).id
<1>2. r \in Requests /\ (r \in Recovers => Deep(r))
  BY <1>1, WhoDoes
<1>3. manifest' = [live |-> IF r \in Recovers THEN Closed ELSE r, last |-> r]
  BY DEF DoAdvance
<1>4. manifest' \in [live: Outpoints \cup {Closed}, last: Transactions \cup {None}]
  BY <1>2, <1>3, Names
<1>5. manifest'.live = Closed => manifest'.last \in Recovers /\ Deep(manifest'.last)
  BY <1>2, <1>3, Names
<1>6. UNCHANGED <<chain, deep, sent, rec, out, tclaim, receipt, aborts>>
  BY DEF DoAdvance, node
<1>. QED  BY <1>1, <1>4, <1>5, <1>6, Found, GoStep

\* Verify adopts the pause made outside: the manifest stays open.
LEMMA AdoptShape ==
  ASSUME ShapeInv, NEW w \in Workers, DoAdopt(w)
  PROVE  ShapeInv'
<1>1. task[w].todo # <<>> /\ Then(w, Rest(w)) /\ Rest(w) \in Seq(Step)
  BY Working DEF DoAdopt, Doing, Now
<1>2. /\ manifest' = [live |-> Outside, last |-> Outside]
      /\ UNCHANGED <<chain, deep, sent, rec, out, tclaim, receipt, aborts>>
  BY DEF DoAdopt, node
<1>3. /\ manifest' \in [live: Outpoints \cup {Closed}, last: Transactions \cup {None}]
      /\ manifest'.live # Closed
  BY <1>2, Names
<1>. QED  BY <1>1, <1>2, <1>3, Found, GoStep

\* A step of a submit that goes on with a queue of its own.
LEMMA SubmitGoes ==
  ASSUME ShapeInv, NEW w \in Workers, task[w].todo # <<>>, task[w].op = "submit",
         Handling(w), NEW q, q = <<>> \/ q \in SubmitQueues(task[w].id), Then(w, q),
         UNCHANGED <<chain, deep, manifest, rec, out, receipt, aborts>>,
         sent' \in SUBSET Requests, \A r \in sent' : r \in sent \/ Recorded(r),
         tclaim' \in [Outpoints -> Requests \cup {None}]
  PROVE  ShapeInv'
<1>1. HandlerQueues(task[w].op, task[w].id) = SubmitQueues(task[w].id)
  BY DEF HandlerQueues
<1>2. LocalQueues(HandlerQueues(task[w].op, task[w].id), task[w].id)
  BY QueueSteps DEF Handling
<1>3. q \in Seq(Step)
  <2>1. q \in SubmitQueues(task[w].id) => q \in Seq(Step)
    BY <1>1, <1>2, Zenon DEF LocalQueues, LocalQueue
  <2>2. <<>> \in Seq(Step)
    OBVIOUS
  <2>. QED  BY <2>1, <2>2, Zenon
<1>. QED  BY <1>1, <1>3, Found, GoStep

\* A submit that reads before its first write.
LEMMA ArmGoes ==
  ASSUME ShapeInv, NEW w \in Workers, task[w].todo # <<>>, Now(w).do \in ArmSteps
  PROVE  /\ Handling(w) /\ task[w].op = "submit" /\ Now(w).id = task[w].id
         /\ Now(w).id \in Requests /\ Now(w).as \in Holds
<1>1. Handling(w) /\ task[w].op = "submit" /\ SubmitHead(task[w].todo, task[w].id)
  BY WhoDoes
<1>2. Now(w).id = task[w].id /\ Now(w).id \in Requests
  BY <1>1, Working DEF Verifying, Handling
<1>. QED  BY <1>1, <1>2 DEF SubmitHead, Now, Do, Write, ArmSteps

\* A submit looks whether its predecessor is live.
LEMMA ArmShape ==
  ASSUME ShapeInv, NEW w \in Workers, DoArm(w)
  PROVE  ShapeInv'
<1> DEFINE r == Now(w).id
<1>1. /\ task[w].todo # <<>> /\ Now(w).do = "arm"
      /\ Then(w, <<[Now(w) EXCEPT !.do = "hold"]>>) \/ Then(w, <<>>)
      /\ UNCHANGED <<chain, deep, sent, manifest, rec, out, tclaim, receipt, aborts>>
  BY DEF DoArm, Doing, Now, node, store
<1>2. /\ Handling(w) /\ task[w].op = "submit" /\ r = task[w].id /\ r \in Requests
      /\ Now(w).as \in Holds
  BY <1>1, ArmGoes DEF ArmSteps
<1>3. [Now(w) EXCEPT !.do = "hold"] = Write("hold", r, Now(w).as)
  BY <1>1, Working DEF Step, Write
<1>4. <<Write("hold", r, Now(w).as)>> \in SubmitQueues(r)
  BY <1>2 DEF SubmitQueues, ArmQueues, ArmSteps
<1>. QED  BY <1>1, <1>2, <1>3, <1>4, Found, SubmitGoes

\* A submit takes a missing claim again.
LEMMA HoldShape ==
  ASSUME ShapeInv, NEW w \in Workers, DoHold(w)
  PROVE  ShapeInv'
<1> DEFINE r == Now(w).id
<1>1. /\ task[w].todo # <<>> /\ Now(w).do = "hold"
      /\ Then(w, <<>>) \/ \E h \in {"foreign", "own"} : Then(w, <<Write("contest", r, h)>>)
      /\ tclaim' = tclaim \/ tclaim' = [tclaim EXCEPT ![out[r]] = r]
      /\ UNCHANGED <<chain, deep, sent, manifest, rec, out, receipt, aborts>>
  BY DEF DoHold, Doing, Now, node
<1>2. Handling(w) /\ task[w].op = "submit" /\ r = task[w].id /\ r \in Requests
  BY <1>1, ArmGoes DEF ArmSteps
<1>3. tclaim' \in [Outpoints -> Requests \cup {None}]
  BY <1>1, <1>2, Found
<1>4. \A h \in {"foreign", "own"} : <<Write("contest", r, h)>> \in SubmitQueues(r)
  BY DEF SubmitQueues, ArmQueues, ArmSteps, Holds
<1>. QED  BY <1>1, <1>2, <1>3, <1>4, Found, SubmitGoes

\* A submit decides the contest, and only then queues its first write.
LEMMA ContestShape ==
  ASSUME ShapeInv, NEW w \in Workers, DoContest(w)
  PROVE  ShapeInv'
<1> DEFINE r == Now(w).id
           mode == IF Contested(r, Now(w).as = "foreign") THEN "contested" ELSE "uncontested"
           q == <<Save(r, "SUBMITTING"), Write("broadcast", r, mode)>>
<1>1. /\ task[w].todo # <<>> /\ Now(w).do = "contest" /\ Then(w, q)
      /\ UNCHANGED <<chain, deep, sent, manifest, rec, out, tclaim, receipt, aborts>>
  BY DEF DoContest, Doing, Now, node, store
<1>2. Handling(w) /\ task[w].op = "submit" /\ r = task[w].id /\ r \in Requests
  BY <1>1, ArmGoes DEF ArmSteps
<1>3. mode = "contested" \/ (mode = "uncontested" /\ r \notin Recovers)
  BY DEF Contested
<1>4. q \in SubmitQueues(r)
  <2> HIDE DEF mode
  <2>. QED  BY <1>3 DEF SubmitQueues, ProofQueues
<1>5. Then(w, q)
  BY <1>1
<1> HIDE DEF q
<1>. QED  BY <1>1, <1>2, <1>4, <1>5, Found, SubmitGoes

\* A submit broadcasts, and branches on the answer.
LEMMA BroadcastShape ==
  ASSUME ShapeInv, NEW w \in Workers, DoBroadcast(w)
  PROVE  ShapeInv'
<1> DEFINE r == Now(w).id
<1>1. /\ task[w].todo # <<>> /\ Now(w).do = "broadcast"
      /\ Taken(w, r) \/ Uncertain(w, r) \/ Rejected(w, r)
      /\ UNCHANGED <<chain, deep, manifest, rec, out, receipt, aborts>>
  BY DEF DoBroadcast, Doing, Now
<1>2. /\ Handling(w) /\ task[w].op = "submit" /\ r = task[w].id /\ r \in Requests
      /\ Now(w).as = "contested" \/ r \notin Recovers
  <2>1. Handling(w) /\ task[w].op = "submit" /\ SubmitHead(task[w].todo, task[w].id)
    BY <1>1, WhoDoes
  <2>2. r = task[w].id /\ r \in Requests
    BY <1>1, <2>1, Working DEF Verifying, Handling
  <2>3. Now(w).as = "contested" \/ r \notin Recovers
    BY <1>1, <2>1, <2>2 DEF SubmitHead, Now, Do, Write, ArmSteps
  <2>. QED  BY <2>1, <2>2, <2>3
<1>3. Recorded(r)
  BY <1>2 DEF Handling, Recorded
<1>4. /\ <<Save(r, "SUBMITTED")>> \in SubmitQueues(r)
      /\ r \notin Recovers => <<Save(r, "SUBMITTED"), Do("prove", r)>> \in SubmitQueues(r)
      /\ <<Save(r, "RECONCILIATION_REQUIRED")>> \in SubmitQueues(r)
      /\ <<Save(r, "SUBMISSION_REJECTED"), Do("release", r)>> \in SubmitQueues(r)
  BY DEF SubmitQueues, ProofQueues
<1>5. \E q \in SubmitQueues(r) : Then(w, q)
  BY <1>1, <1>2, <1>4 DEF Taken, Uncertain, Rejected
<1>6. /\ sent' = sent \/ sent' = sent \cup {r}
      /\ tclaim' = tclaim
  BY <1>1 DEF Taken, Uncertain, Rejected
<1>. QED  BY <1>1, <1>2, <1>3, <1>5, <1>6, Found, SubmitGoes

\* A submit looks for its effect, and queues what it may record of it.
LEMMA ProveShape ==
  ASSUME ShapeInv, NEW w \in Workers, DoProve(w)
  PROVE  ShapeInv'
<1> DEFINE r == Now(w).id
<1>1. /\ task[w].todo # <<>> /\ Now(w).do = "prove"
      /\ \/ Then(w, <<Do("advance", r), Save(r, "CHAIN_VERIFIED"), Do("receipt", r)>>)
         \/ Then(w, <<Save(r, "RECONCILIATION_REQUIRED")>>)
      /\ UNCHANGED <<chain, deep, sent, manifest, rec, out, tclaim, receipt, aborts>>
  BY DEF DoProve, Doing, Now, node, store
<1>2. /\ Handling(w) /\ task[w].op = "submit" /\ r = task[w].id /\ r \in Requests
      /\ r \notin Recovers
  <2>1. Handling(w) /\ task[w].op = "submit" /\ SubmitHead(task[w].todo, task[w].id)
    BY <1>1, WhoDoes
  <2>2. r = task[w].id /\ r \in Requests
    BY <1>1, <2>1, Working DEF Verifying, Handling
  <2>3. r \notin Recovers
    BY <1>1, <2>1, <2>2 DEF SubmitHead, Now, Do, Write, ArmSteps
  <2>. QED  BY <2>1, <2>2, <2>3
<1>3. /\ <<Do("advance", r), Save(r, "CHAIN_VERIFIED"), Do("receipt", r)>> \in SubmitQueues(r)
      /\ <<Save(r, "RECONCILIATION_REQUIRED")>> \in SubmitQueues(r)
  BY <1>2 DEF SubmitQueues, ProofQueues
<1>. QED  BY <1>1, <1>2, <1>3, Found, SubmitGoes

\* A Verify that goes on with steps put before the rest of its queue.
LEMMA PutBefore ==
  ASSUME NEW e \in Step, VerifyStep(e), NEW q \in VerifyQueues
  PROVE  <<e>> \o q \in VerifyQueues
<1>1. q \in Seq(Step) /\ \A i \in 1..Len(q) : VerifyStep(q[i])
  BY DEF VerifyQueues
<1>2. <<e>> \o q \in Seq(Step) /\ Len(<<e>> \o q) = Len(q) + 1
  BY <1>1
<1>3. ASSUME NEW i \in 1..Len(<<e>> \o q) PROVE VerifyStep((<<e>> \o q)[i])
  <2>1. CASE i = 1
    <3>1. (<<e>> \o q)[1] = e
      BY <1>1
    <3>. QED  BY <2>1, <3>1
  <2>2. CASE i # 1
    <3>1. i - 1 \in 1..Len(q) /\ (<<e>> \o q)[i] = q[i - 1]
      BY <1>1, <1>2, <2>2
    <3>. QED  BY <1>1, <3>1
  <2>. QED  BY <2>1, <2>2
<1>. QED  BY <1>2, <1>3 DEF VerifyQueues

\* A claim is read before it is removed.
LEMMA ReleaseShape ==
  ASSUME ShapeInv, NEW w \in Workers, DoRelease(w)
  PROVE  ShapeInv'
<1> DEFINE r == Now(w).id
<1>1. /\ task[w].todo # <<>> /\ Now(w).do = "release"
      /\ Then(w, <<Do("remove", r)>> \o Rest(w)) \/ Then(w, Rest(w))
      /\ UNCHANGED <<chain, deep, sent, manifest, rec, out, tclaim, receipt, aborts>>
  BY DEF DoRelease, Doing, Now, node, store
<1>2. tclaim' \in [Outpoints -> Requests \cup {None}]
  BY <1>1, Found
<1>3. r \in Requests /\ Rest(w) \in Seq(Step)
  BY <1>1, NowRequest, Working
<1>4. CASE Then(w, Rest(w))
  BY <1>1, <1>2, <1>3, <1>4, Found, GoStep
<1>5. CASE Then(w, <<Do("remove", r)>> \o Rest(w))
  <2>1. Do("remove", r) \in Step /\ Do("remove", r).do = "remove" /\ Do("remove", r).id = r
    BY <1>3, Names, StepType DEF Do, Write
  <2>2. <<Do("remove", r)>> \o Rest(w) \in Seq(Step)
    BY <1>3, <2>1
  <2>3. CASE Verifying(w) /\ VerifyStep(Now(w)) /\ Rest(w) \in VerifyQueues
    <3>1. VerifyStep(Do("remove", r))
      BY <1>1, <2>1, <2>3 DEF VerifyStep
    <3>2. <<Do("remove", r)>> \o Rest(w) \in VerifyQueues
      BY <2>1, <2>3, <3>1, PutBefore
    <3>. QED  BY <1>1, <1>2, <1>5, <2>2, <2>3, <3>2, Found, GoStep
  <2>4. CASE Handling(w) /\ r = task[w].id
    <3>1. task[w].op = "submit" /\ task[w].todo = <<Do("release", r)>>
      <4>1. CASE task[w].op \in {"build", "reject"}
        <5>1. \A l : Save(r, l).do = "save"
          BY DEF Save, Write
        <5>. QED  BY <1>1, <2>4, <4>1, <5>1, Short DEF Handling, HandlerQueues, Now
      <4>2. task[w].op # "finalize"
        <5>1. task[w].op = "finalize" => FinalizeHead(task[w].todo, r)
          BY <2>4, FinalizeHeads DEF Handling, HandlerQueues
        <5>. QED  BY <1>1, <5>1 DEF FinalizeHead, Now, Do, Write
      <4>3. task[w].op = "submit"
        BY <1>1, <2>4, <4>1, <4>2 DEF Handling, HandlerOps
      <4>4. SubmitHead(task[w].todo, r)
        BY <2>4, <4>3, SubmitHeads DEF Handling, HandlerQueues
      <4>5. PICK e, q : e = Head(q) /\ q = task[w].todo
        OBVIOUS
      <4>6. e.do = "release"
        BY <1>1, <4>5 DEF Now
      <4>7. \A d : Do(d, r).do = d
        BY DEF Do, Write
      <4>8. e \in {Do("receipt", r), Do("release", r), Do("remove", r)} /\ q = <<e>>
        BY <4>4, <4>5, <4>6 DEF SubmitHead, ArmSteps
      <4>9. e = Do("release", r)
        BY <4>6, <4>7, <4>8
      <4>. QED  BY <4>3, <4>5, <4>8, <4>9
    <3>2. Rest(w) = <<>>
      BY <3>1, Short DEF Rest
    <3>3. <<Do("remove", r)>> \o Rest(w) = <<Do("remove", r)>>
      BY <3>2
    <3>4. <<Do("remove", r)>> \in SubmitQueues(r)
      BY DEF SubmitQueues
    <3>. QED  BY <1>1, <1>2, <1>5, <2>4, <3>1, <3>3, <3>4, Found, SubmitGoes
  <2>. QED  BY <1>1, <2>3, <2>4, Working
<1>. QED  BY <1>1, <1>4, <1>5

\* Verify queues what it writes of a loser.
LEMMA SettleShape ==
  ASSUME ShapeInv, NEW w \in Workers, DoSettle(w)
  PROVE  ShapeInv'
<1> DEFINE r == Now(w).id
           stale == <<Save(r, "STALE")>> \o (<<Do("release", r)>> \o Rest(w))
<1>1. /\ task[w].todo # <<>> /\ Now(w).do = "settle"
      /\ Then(w, <<Save(r, "STALE"), Do("release", r)>> \o Rest(w)) \/ Then(w, Rest(w))
      /\ UNCHANGED <<chain, deep, sent, manifest, rec, out, tclaim, receipt, aborts>>
  BY DEF DoSettle, Doing, Now, node, store
<1>2. Verifying(w) /\ VerifyStep(Now(w)) /\ Rest(w) \in VerifyQueues /\ Rest(w) \in Seq(Step)
  <2>1. Verifying(w)
    BY <1>1, WhoDoes
  <2>. QED  BY <1>1, <2>1, Working DEF Handling, Verifying, HandlerOps
<1>3. Recorded(r) /\ LostDeep(r) /\ r \in Outpoints /\ "STALE" \in Labels
  BY <1>1, <1>2, Names DEF VerifyStep, Recorded, Labels
<1>4. /\ Save(r, "STALE") \in Step /\ VerifyStep(Save(r, "STALE"))
      /\ Do("release", r) \in Step /\ VerifyStep(Do("release", r))
  BY <1>3, StepType DEF VerifyStep, Save, Do, Write
<1>5. stale \in VerifyQueues
  <2>1. <<Do("release", r)>> \o Rest(w) \in VerifyQueues
    BY <1>2, <1>4, PutBefore
  <2>. QED  BY <1>4, <2>1, PutBefore
<1>6. <<Save(r, "STALE"), Do("release", r)>> \o Rest(w) = stale
  BY <1>2, <1>4
<1>7. \E q \in VerifyQueues : Then(w, q)
  BY <1>1, <1>2, <1>5, <1>6
<1>. QED  BY <1>1, <1>2, <1>7, Found, GoStep DEF VerifyQueues

\* Verify finds the leftover claim of a rejection.
LEMMA LeftoverShape ==
  ASSUME ShapeInv, NEW w \in Workers, DoLeftover(w)
  PROVE  ShapeInv'
<1> DEFINE o == Now(w).id
           q == IF Leftover(o) THEN <<Do("release", tclaim[o])>> \o Rest(w) ELSE Rest(w)
<1>1. /\ task[w].todo # <<>> /\ Now(w).do = "leftover" /\ Then(w, q)
      /\ UNCHANGED <<chain, deep, sent, manifest, rec, out, tclaim, receipt, aborts>>
  BY DEF DoLeftover, Doing, Now, node, store
<1>2. Verifying(w) /\ Rest(w) \in VerifyQueues /\ Rest(w) \in Seq(Step) /\ o \in Outpoints
  <2>1. Verifying(w)
    BY <1>1, WhoDoes
  <2>2. Now(w) \in Step
    BY <1>1, Working
  <2>. QED  BY <1>1, <2>1, <2>2, Working DEF Handling, Verifying, HandlerOps, Step
<1>3. Leftover(o) => Recorded(tclaim[o])
  BY <1>2, Found DEF Leftover, Recorded
<1>4. q \in VerifyQueues
  <2>1. ASSUME Leftover(o) PROVE <<Do("release", tclaim[o])>> \o Rest(w) \in VerifyQueues
    <3>1. tclaim[o] \in Requests /\ Recorded(tclaim[o])
      BY <1>3, <2>1 DEF Recorded
    <3>2. /\ Do("release", tclaim[o]) \in Step
          /\ Do("release", tclaim[o]).do = "release" /\ Do("release", tclaim[o]).id = tclaim[o]
      BY <3>1, Names, StepType DEF Do, Write
    <3>3. VerifyStep(Do("release", tclaim[o]))
      BY <3>1, <3>2 DEF VerifyStep
    <3>. QED  BY <1>2, <3>2, <3>3, PutBefore
  <2>. QED  BY <1>2, <2>1
<1>5. q \in Seq(Step)
  BY <1>4 DEF VerifyQueues
<1>6. Then(w, q)
  BY <1>1
<1> HIDE DEF q
<1>. QED  BY <1>1, <1>2, <1>4, <1>5, <1>6, Found, GoStep

-----------------------------------------------------------------------------
\* The chain moves.

\* A step of the chain alone keeps the shape of every task.
LEMMA ChainStep ==
  ASSUME ShapeInv, chain' \in Seq(Transactions), deep' \in 0..Len(chain'), deep <= deep',
         \A i \in 1..deep : chain'[i] = chain[i],
         NodeInv', UNCHANGED <<sent, store, task, aborts>>
  PROVE  ShapeInv'
<1>1. TypeInv'
  BY DEF ShapeInv, TypeInv, store
<1>2. deep' \in Nat /\ deep' <= Len(chain')
  BY <1>1 DEF TypeInv
<1>3. /\ \A t : Deep(t) => Deep(t)'
      /\ \A t \in Requests : \A o : DeepSpender(t, o) => DeepSpender(t, o)'
  BY <1>2, DeepStays DEF ShapeInv
<1>4. Grows
  BY <1>3 DEF Grows, store
<1>5. \A v \in Workers : TaskShape(v)'
  BY <1>4, ShapeKept
<1>6. RecoveredAtDepth'
  BY <1>3 DEF ShapeInv, RecoveredAtDepth, store
<1>. QED  BY <1>1, <1>5, <1>6 DEF ShapeInv

\* A block with a transaction that spends the tip and is not there already.
LEMMA BlockShape ==
  ASSUME ShapeInv, NEW t \in Transactions, chain' = Append(chain, t), deep' = deep,
         t \in Requests => Recorded(t) /\ out[t] = Tip,
         \A i \in 1..Len(chain) : chain[i] # t,
         UNCHANGED <<sent, store, task, aborts>>
  PROVE  ShapeInv'
<1>1. chain \in Seq(Transactions) /\ deep \in 0..Len(chain)
  BY DEF ShapeInv, TypeInv
<1>0. PICK n \in Nat : n = Len(chain)
  BY <1>1
<1>2. /\ chain' \in Seq(Transactions) /\ Len(chain') = n + 1
      /\ chain'[n + 1] = t /\ \A i \in 1..n : chain'[i] = chain[i]
  BY <1>1, <1>0
<1>3. \A i \in 1..n : Spent(i)' = Spent(i)
  BY <1>1, <1>0, <1>2 DEF Spent
<1>4. \A k \in 1..Len(chain') : k = n + 1 => Spent(k)' = Tip
  <2> SUFFICES ASSUME NEW k \in 1..Len(chain'), k = n + 1 PROVE Spent(k)' = Tip
    OBVIOUS
  <2>0. Spent(k)' = IF k = 1 THEN Genesis ELSE chain'[k - 1]
    BY DEF Spent
  <2>1. CASE n = 0
    <3>1. chain = <<>>
      BY <1>1, <1>0, <2>1, EmptySeq
    <3>. QED  BY <2>0, <2>1, <3>1 DEF Tip
  <2>2. CASE n # 0
    <3>1. k # 1 /\ k - 1 = n /\ n \in 1..n /\ chain # <<>>
      BY <1>1, <1>0, <1>2, <2>2
    <3>. QED  BY <1>0, <1>2, <2>0, <3>1 DEF Tip, Last
  <2>. QED  BY <2>1, <2>2
<1>5. NodeInv
  BY DEF ShapeInv
<1>6. NodeInv'
  <2>1. ASSUME NEW i \in 1..Len(chain'), chain'[i] \in Requests
        PROVE  rec'[chain'[i]] # "none" /\ Spent(i)' = out'[chain'[i]]
    <3>1. CASE i \in 1..n
      BY <1>0, <1>2, <1>3, <1>5, <2>1, <3>1 DEF NodeInv, Recorded, store
    <3>2. CASE i = n + 1
      BY <1>2, <1>4, <2>1, <3>2 DEF Recorded, store
    <3>. QED  BY <1>0, <1>2, <3>1, <3>2
  <2>2. ASSUME NEW i \in 1..Len(chain'), NEW j \in 1..Len(chain'), chain'[i] = chain'[j]
        PROVE  i = j
    BY <1>0, <1>2, <1>5, <2>2 DEF NodeInv
  <2>3. \A r \in Requests : rec'[r] # "none" => out'[r] \in Outpoints
    BY <1>5 DEF NodeInv, store
  <2>4. \A r \in sent' : Recorded(r)'
    BY <1>5 DEF NodeInv, Recorded, store
  <2>. QED  BY <2>1, <2>2, <2>3, <2>4 DEF NodeInv, Recorded
<1>7. deep' \in 0..Len(chain') /\ deep <= deep' /\ \A i \in 1..deep : chain'[i] = chain[i]
  BY <1>1, <1>0, <1>2
<1>. QED  BY <1>0, <1>2, <1>6, <1>7, ChainStep

\* A request is accepted on the tip.
LEMMA AcceptShape ==
  ASSUME ShapeInv, NEW r \in Requests, Accept(r)
  PROVE  ShapeInv'
<1>1. /\ r \in sent \/ rec[r] # "none"
      /\ out[r] = Tip /\ chain' = Append(chain, r)
      /\ UNCHANGED <<deep, sent, store, task, aborts>>
  BY DEF Accept, Unspent
<1>2. Recorded(r)
  BY <1>1 DEF ShapeInv, NodeInv, Recorded
<1>3. chain \in Seq(Transactions) /\ NodeInv
  BY DEF ShapeInv, TypeInv
<1>4. ASSUME NEW i \in 1..Len(chain), chain[i] = r PROVE FALSE
  <2>1. Spent(i) = Tip
    BY <1>1, <1>3, <1>4 DEF NodeInv
  <2>2. Len(chain) \in Nat /\ Len(chain) \in 1..Len(chain) /\ chain # <<>>
    BY <1>3
  <2>3. Tip = chain[Len(chain)] /\ chain[Len(chain)] \in Transactions
    BY <1>3, <2>2 DEF Tip, Last
  <2>4. CASE i = 1
    BY <2>1, <2>3, <2>4, Names DEF Spent
  <2>5. CASE i # 1
    <3>1. Spent(i) = chain[i - 1] /\ i - 1 \in 1..Len(chain)
      BY <2>2, <2>5 DEF Spent
    <3>2. i - 1 = Len(chain)
      BY <1>3, <2>1, <2>2, <2>3, <3>1 DEF NodeInv
    <3>. QED  BY <2>2, <3>2
  <2>. QED  BY <2>4, <2>5
<1>. QED  BY <1>1, <1>2, <1>4, Names, BlockShape

\* The pause made outside is accepted.
LEMMA OutsideShape ==
  ASSUME ShapeInv, AcceptOutside
  PROVE  ShapeInv'
<1>1. /\ \A i \in 1..Len(chain) : chain[i] # Outside
      /\ chain' = Append(chain, Outside)
      /\ UNCHANGED <<deep, sent, store, task, aborts>>
  BY DEF AcceptOutside, OnChain, Contains
<1>. QED  BY <1>1, Names, BlockShape

\* A block gets deep.
LEMMA BuryShape ==
  ASSUME ShapeInv, Bury
  PROVE  ShapeInv'
<1>1. /\ deep < Len(chain) /\ deep' = deep + 1 /\ chain' = chain
      /\ UNCHANGED <<sent, store, task, aborts>>
  BY DEF Bury
<1>2. chain' \in Seq(Transactions) /\ deep' \in 0..Len(chain') /\ deep <= deep'
  BY <1>1 DEF ShapeInv, TypeInv
<1>3. \A i : Spent(i)' = Spent(i)
  BY <1>1 DEF Spent
<1>4. NodeInv'
  BY <1>1, <1>3 DEF ShapeInv, NodeInv, Recorded, store
<1>. QED  BY <1>1, <1>2, <1>4, ChainStep

\* A block above the settlement depth is undone.
LEMMA ReorgShape ==
  ASSUME ShapeInv, Reorg
  PROVE  ShapeInv'
<1>1. UNCHANGED <<deep, sent, store, task, aborts>>
  BY DEF Reorg
<1>2. PICK n \in deep..(Len(chain) - 1) : chain' = SubSeq(chain, 1, n)
  BY DEF Reorg
<1>3. chain \in Seq(Transactions) /\ deep \in 0..Len(chain) /\ NodeInv
  BY DEF ShapeInv, TypeInv
<1>4. n \in Nat /\ n <= Len(chain) /\ deep <= n
  BY <1>2, <1>3
<1>5. /\ chain' \in Seq(Transactions) /\ Len(chain') = n
      /\ \A i \in 1..n : chain'[i] = chain[i]
  BY <1>2, <1>3, <1>4
<1>6. \A i \in 1..n : Spent(i)' = Spent(i)
  BY <1>4, <1>5 DEF Spent
<1>7. NodeInv'
  BY SMTT(20), <1>1, <1>3, <1>4, <1>5, <1>6 DEF NodeInv, Recorded, store
<1>8. deep' \in 0..Len(chain') /\ deep <= deep' /\ \A i \in 1..deep : chain'[i] = chain[i]
  BY <1>1, <1>3, <1>4, <1>5
<1>. QED  BY <1>1, <1>5, <1>7, <1>8, ChainStep

-----------------------------------------------------------------------------
\* Verify.

\* The sets of queues that hold every part Verify's plan is joined from.
PlanParts(Q) ==
  /\ Joinable(Q)
  /\ \A r \in Requests : Deep(r) \/ r \in Finishable => Complete(r) \in Q
  /\ \A r \in Winners : Completion(r) \in Q
  /\ \A t \in Requests : Deep(t) =>
       \A r \in PendingOn(out[t]) \ {t} : <<Write("settle", r, rec[r])>> \in Q
  /\ \A o \in Outpoints : <<Do("leftover", o)>> \in Q

\* A queue joined from the queues of the elements of a finite set.
LEMMA JoinedIn ==
  ASSUME NEW Q, Joinable(Q), NEW n \in Nat, NEW ss \in [1..n -> Q]
  PROVE  FlattenSeq(ss) \in Q
<1>1. ss \in Seq(Q)
  OBVIOUS
<1>. QED  BY <1>1, FlattenIn

\* Two queues of one step make a queue of two.
LEMMA Two ==
  ASSUME NEW S, NEW a \in S, NEW b \in S
  PROVE  <<a>> \o <<b>> = <<a, b>>
<1> DEFINE c == <<a>> \o <<b>>
           d == <<a, b>>
<1>1. c \in Seq(S) /\ Len(c) = 2 /\ c[1] = a /\ c[2] = b
  OBVIOUS
<1>2. d \in Seq(S) /\ Len(d) = 2 /\ d[1] = a /\ d[2] = b
  OBVIOUS
<1> HIDE DEF c, d
<1>3. \A i \in 1..2 : c[i] = d[i]
  <2>1. \A i \in 1..2 : i = 1 \/ i = 2
    OBVIOUS
  <2>. QED  BY <1>1, <1>2, <2>1
<1>4. c = d
  BY <1>1, <1>2, <1>3, SeqEqual
<1>. QED  BY <1>4 DEF c, d

\* A set of requests is finite, so SetToSeq lists it.
LEMMA RequestSeq ==
  ASSUME NEW S \in SUBSET Requests
  PROVE  Cardinality(S) \in Nat /\ SetToSeq(S) \in [1..Cardinality(S) -> S]
<1>1. IsFiniteSet(S)
  BY Names, FS_Subset
<1>. QED  BY <1>1, SetToSeqIn

\* The completions of a set of requests, joined.
LEMMA CompletesIn ==
  ASSUME NEW Q, Joinable(Q), NEW S \in SUBSET Requests, \A r \in S : Complete(r) \in Q
  PROVE  Each(S, Complete) \in Q
<1> DEFINE ss == [i \in 1..Cardinality(S) |-> Complete(SetToSeq(S)[i])]
<1>1. ss \in [1..Cardinality(S) -> Q]
  BY RequestSeq
<1>2. Each(S, Complete) = FlattenSeq(ss)
  BY DEF Each
<1> HIDE DEF ss
<1>. QED  BY <1>1, <1>2, RequestSeq, JoinedIn

\* The settlements of a set of losers, joined.
LEMMA LosersIn ==
  ASSUME NEW Q, Joinable(Q), NEW S \in SUBSET Requests,
         \A r \in S : <<Write("settle", r, rec[r])>> \in Q
  PROVE  SettleLosers(S) \in Q
<1> DEFINE ss == [i \in 1..Cardinality(S) |->
                    <<Write("settle", SetToSeq(S)[i], rec[SetToSeq(S)[i]])>>]
<1>1. ss \in [1..Cardinality(S) -> Q]
  BY RequestSeq
<1>2. SettleLosers(S) = FlattenSeq(ss)
  BY DEF SettleLosers, Each
<1> HIDE DEF ss
<1>. QED  BY <1>1, <1>2, RequestSeq, JoinedIn

\* The completion of one winner.
LEMMA CompletionIn ==
  ASSUME NEW Q, Joinable(Q), NEW r \in Winners, <<Do("receipt", r)>> \in Q,
         <<Do("advance", r)>> \in Q, Complete(r) \in Q,
         \A q \in PendingOn(manifest.live) \ {r} : <<Write("settle", q, rec[q])>> \in Q
  PROVE  Completion(r) \in Q
<1>1. r \in Requests
  BY DEF Winners
<1> DEFINE S == PendingOn(manifest.live) \ {r}
           losers == SettleLosers(S)
<1>3. S \in SUBSET Requests /\ \A q \in S : <<Write("settle", q, rec[q])>> \in Q
  BY DEF PendingOn
<1>4. losers \in Q
  BY <1>3, LosersIn
<1>5. /\ <<Do("receipt", r)>> \in Q /\ <<Do("advance", r)>> \in Q /\ Complete(r) \in Q
      /\ \A a, b \in Q : a \o b \in Q
  BY DEF Joinable
<1>6. <<Do("receipt", r)>> \o <<Do("advance", r)>> = <<Do("receipt", r), Do("advance", r)>>
  <2>1. Do("receipt", r) \in Step /\ Do("advance", r) \in Step
    BY <1>1, Names, StepType
  <2>. QED  BY <2>1, Two
<1>7. <<Do("receipt", r), Do("advance", r)>> \in Q
  BY <1>5, <1>6
<1>8. Completion(r) = IF r \in Recovers
        THEN <<Do("receipt", r)>> \o losers \o <<Do("advance", r)>> \o Complete(r)
        ELSE <<Do("receipt", r), Do("advance", r)>> \o Complete(r) \o losers
  BY DEF Completion
<1> HIDE DEF losers
<1>9. /\ <<Do("receipt", r)>> \o losers \in Q
      /\ <<Do("receipt", r), Do("advance", r)>> \o Complete(r) \in Q
  BY <1>4, <1>5, <1>7, Zenon
<1>10. /\ <<Do("receipt", r)>> \o losers \o <<Do("advance", r)>> \in Q
       /\ <<Do("receipt", r), Do("advance", r)>> \o Complete(r) \o losers \in Q
  BY <1>4, <1>5, <1>9, Zenon
<1>11. <<Do("receipt", r)>> \o losers \o <<Do("advance", r)>> \o Complete(r) \in Q
  BY <1>5, <1>10, Zenon
<1>. QED  BY <1>8, <1>10, <1>11

\* The completions of all winners.
LEMMA CompletionsIn ==
  ASSUME NEW Q, PlanParts(Q)
  PROVE  Each(Winners, Completion) \in Q
<1>0. Winners \in SUBSET Requests
  BY DEF Winners
<1> DEFINE ss == [i \in 1..Cardinality(Winners) |-> Completion(SetToSeq(Winners)[i])]
<1>1. ss \in [1..Cardinality(Winners) -> Q]
  BY <1>0, RequestSeq DEF PlanParts
<1>2. Each(Winners, Completion) = FlattenSeq(ss)
  BY DEF Each
<1> HIDE DEF ss
<1>. QED  BY <1>0, <1>1, <1>2, RequestSeq, JoinedIn DEF PlanParts

\* The plan for a closed vault.
LEMMA ClosedPlanIn ==
  ASSUME ShapeInv, manifest.live = Closed, NEW Q, PlanParts(Q)
  PROVE  ClosedPlan \in Q
<1> DEFINE t == manifest.last
           recorded == {r \in {t} \cap Requests : rec[r] \in SignedOrRejected /\ Pending(r)}
           rest == Finishable \ recorded
<1>1. Deep(t)
  BY DEF ShapeInv, RecoveredAtDepth
<1>2. recorded \in SUBSET Requests /\ rest \in SUBSET Requests
  BY Found DEF Finishable
<1>3. /\ \A r \in recorded : Complete(r) \in Q
      /\ \A r \in rest : Complete(r) \in Q
  BY <1>1, <1>2 DEF PlanParts
<1>4. ClosedPlan = Each(recorded, Complete) \o Each(rest, Complete)
  BY Zenon DEF ClosedPlan
<1>5. Joinable(Q)
  BY DEF PlanParts
<1> HIDE DEF recorded, rest
<1>6. Each(recorded, Complete) \in Q /\ Each(rest, Complete) \in Q
  BY <1>2, <1>3, <1>5, CompletesIn
<1>. QED  BY <1>4, <1>5, <1>6, Zenon DEF Joinable

\* The plan for a recorded outpoint that is live.
LEMMA LivePlanIn ==
  ASSUME ShapeInv, manifest.live # Closed, NEW Q, PlanParts(Q)
  PROVE  LivePlan \in Q
<1> DEFINE t == manifest.last
           finish == {r \in {t} \cap Requests :
                        /\ rec[r] \in SignedOrRejected
                        /\ ~(rec[r] = "CHAIN_VERIFIED" /\ r \in receipt)}
           losers == IF t \in Requests THEN PendingOn(out[t]) \ {t} ELSE {}
           rest == Finishable \ (finish \cup losers)
           long == Each(finish, Complete) \o SettleLosers(losers) \o Each(rest, Complete)
           hop == IF t # None /\ Deep(t) THEN long ELSE <<>>
<1>1. /\ <<>> \in Q /\ Joinable(Q) /\ \A a, b \in Q : a \o b \in Q
      /\ \A o \in Outpoints : <<Do("leftover", o)>> \in Q
  BY DEF PlanParts, Joinable
<1>2. manifest.live \in Outpoints
  BY Found
<1>3. LivePlan = IF hop = <<>> /\ ~Leftover(manifest.live) THEN <<>>
                 ELSE hop \o <<Do("leftover", manifest.live)>>
  BY Zenon DEF LivePlan
<1>4. hop \in Q
  <2>1. ASSUME Deep(t) PROVE long \in Q
    <3>1. finish \in SUBSET Requests /\ losers \in SUBSET Requests /\ rest \in SUBSET Requests
      BY Found DEF Finishable, PendingOn
    <3>2. \A r \in finish : Complete(r) \in Q
      BY <2>1 DEF PlanParts
    <3>3. \A r \in rest : Complete(r) \in Q
      BY <3>1 DEF PlanParts
    <3>4. \A r \in losers : <<Write("settle", r, rec[r])>> \in Q
      BY <2>1 DEF PlanParts
    <3> HIDE DEF finish, losers, rest
    <3>5. Each(finish, Complete) \in Q
      BY <1>1, <3>1, <3>2, CompletesIn
    <3>6. Each(rest, Complete) \in Q
      BY <1>1, <3>1, <3>3, CompletesIn
    <3>7. SettleLosers(losers) \in Q
      BY <1>1, <3>1, <3>4, LosersIn
    <3>. QED  BY <1>1, <3>5, <3>6, <3>7, Zenon
  <2> HIDE DEF long
  <2>. QED  BY <1>1, <2>1
<1> HIDE DEF hop
<1>. QED  BY <1>1, <1>2, <1>3, <1>4, Zenon

\* Verify plans nothing but these parts, or the adoption of a pause.
LEMMA PlanIn ==
  ASSUME ShapeInv, NEW Q, PlanParts(Q)
  PROVE  \/ Plan \in Q
         \/ Plan = <<Do("adopt", Outside)>> /\ Adoptable /\ manifest.live # Closed
<1>1. manifest.live = Closed => ClosedPlan \in Q
  BY ClosedPlanIn
<1>2. manifest.live # Closed => LivePlan \in Q
  BY LivePlanIn
<1>3. Each(Winners, Completion) \in Q
  BY CompletionsIn
<1>4. <<>> \in Q
  BY DEF PlanParts, Joinable
<1>. QED  BY <1>1, <1>2, <1>3, <1>4, Zenon DEF Plan

\* Queues of steps that Verify may make can be joined.
LEMMA VerifyJoins == Joinable(VerifyQueues)
<1>1. <<>> \in VerifyQueues
  BY DEF VerifyQueues
<1>2. ASSUME NEW a \in VerifyQueues, NEW b \in VerifyQueues
      PROVE  a \o b \in VerifyQueues
  <2>1. /\ a \in Seq(Step) /\ \A i \in 1..Len(a) : VerifyStep(a[i])
        /\ b \in Seq(Step) /\ \A i \in 1..Len(b) : VerifyStep(b[i])
    BY DEF VerifyQueues
  <2>2. /\ a \o b \in Seq(Step) /\ Len(a \o b) = Len(a) + Len(b)
        /\ \A i \in 1..(Len(a) + Len(b)) :
             (a \o b)[i] = IF i <= Len(a) THEN a[i] ELSE b[i - Len(a)]
    BY <2>1, ConcatProperties
  <2>3. ASSUME NEW i \in 1..Len(a \o b) PROVE VerifyStep((a \o b)[i])
    <3>0. Len(a) \in Nat /\ Len(b) \in Nat
      BY <2>1
    <3>1. CASE i <= Len(a)
      <4>1. i \in 1..Len(a) /\ (a \o b)[i] = a[i]
        BY <2>2, <3>0, <3>1
      <4>. QED  BY <2>1, <4>1
    <3>2. CASE ~(i <= Len(a))
      <4>1. i - Len(a) \in 1..Len(b) /\ (a \o b)[i] = b[i - Len(a)]
        BY <2>2, <3>0, <3>2
      <4>. QED  BY <2>1, <4>1
    <3>. QED  BY <3>1, <3>2
  <2>. QED  BY <2>2, <2>3 DEF VerifyQueues
<1>. QED  BY <1>1, <1>2 DEF Joinable

\* One step that Verify may make, and the three of a completion.
LEMMA OneStep ==
  ASSUME NEW e \in Step, VerifyStep(e)
  PROVE  <<e>> \in VerifyQueues
BY DEF VerifyQueues

\* Completing a recorded request consists of steps Verify may make.
LEMMA CompleteIn ==
  ASSUME NEW r, Recorded(r)
  PROVE  Complete(r) \in VerifyQueues
<1>1. r \in Requests /\ r \in Outpoints /\ "CHAIN_VERIFIED" \in Labels
  BY Names DEF Recorded, Labels, SignedOrRejected
<1>2. Do("receipt", r) \in Step /\ Do("release", r) \in Step /\ Save(r, "CHAIN_VERIFIED") \in Step
  BY <1>1, StepType
<1>3. /\ VerifyStep(Do("receipt", r)) /\ VerifyStep(Do("release", r))
      /\ VerifyStep(Save(r, "CHAIN_VERIFIED"))
  BY DEF VerifyStep, Do, Save, Write
<1> DEFINE q == <<Do("receipt", r), Do("release", r), Save(r, "CHAIN_VERIFIED")>>
<1>4. q \in Seq(Step) /\ Len(q) = 3
  BY <1>2
<1>5. /\ q[1] = Do("receipt", r) /\ q[2] = Do("release", r)
      /\ q[3] = Save(r, "CHAIN_VERIFIED")
  OBVIOUS
<1>6. \A i \in 1..Len(q) : i = 1 \/ i = 2 \/ i = 3
  BY <1>4
<1> HIDE DEF q
<1>7. \A i \in 1..Len(q) : VerifyStep(q[i])
  BY <1>3, <1>5, <1>6
<1>. QED  BY <1>4, <1>7 DEF VerifyQueues, q, Complete

\* So does every part of its plan: it plans a recover only when it is deep.
LEMMA VerifyParts ==
  ASSUME ShapeInv
  PROVE  PlanParts(VerifyQueues) /\ <<Do("adopt", Outside)>> \in VerifyQueues
<1>1. ASSUME NEW r \in Requests, Deep(r) \/ r \in Finishable
      PROVE  Complete(r) \in VerifyQueues
  <2>1. Deep(r) => Recorded(r)
    BY DeepSpends DEF ShapeInv
  <2>2. r \in Finishable => Recorded(r)
    BY DEF Finishable, Recorded, SignedOrRejected, InFlight
  <2>. QED  BY <1>1, <2>1, <2>2, CompleteIn
<1>2. ASSUME NEW r \in Requests, Deep(r)
      PROVE  <<Do("receipt", r)>> \in VerifyQueues /\ <<Do("advance", r)>> \in VerifyQueues
  <2>1. Recorded(r) /\ r \in Outpoints
    BY <1>2, DeepSpends, Names DEF ShapeInv
  <2>2. VerifyStep(Do("receipt", r)) /\ VerifyStep(Do("advance", r))
    BY <1>2, <2>1 DEF VerifyStep, Do, Write
  <2>. QED  BY <2>1, <2>2, StepType, OneStep
<1>3. ASSUME NEW r \in Requests, Pending(r), LostDeep(r)
      PROVE  <<Write("settle", r, rec[r])>> \in VerifyQueues
  <2>1. Recorded(r)
    BY <1>3 DEF Pending, Recorded, InFlight
  <2>2. r \in Outpoints /\ rec[r] \in Marks
    BY Names, Found DEF Marks
  <2>3. VerifyStep(Write("settle", r, rec[r]))
    BY <1>3, <2>1 DEF VerifyStep, Write
  <2>. QED  BY <2>2, <2>3, StepType, OneStep
<1>4. ASSUME NEW o \in Outpoints PROVE <<Do("leftover", o)>> \in VerifyQueues
  <2>1. VerifyStep(Do("leftover", o))
    BY DEF VerifyStep, Do, Write
  <2>. QED  BY <2>1, StepType, OneStep
<1>5. <<Do("adopt", Outside)>> \in VerifyQueues
  <2>1. VerifyStep(Do("adopt", Outside)) /\ Outside \in Outpoints
    BY Names DEF VerifyStep, Do, Write
  <2>. QED  BY <2>1, StepType, OneStep
<1>6. ASSUME NEW r \in Winners PROVE Completion(r) \in VerifyQueues
  <2>1. r \in Requests /\ Deep(r) /\ DeepSpender(r, manifest.live)
    BY DEF Winners, DeepSpender
  <2>2. \A q \in PendingOn(manifest.live) \ {r} : q \in Requests /\ Pending(q) /\ LostDeep(q)
    BY <2>1 DEF PendingOn, LostDeep
  <2>. QED  BY <1>1, <1>2, <1>3, <2>1, <2>2, VerifyJoins, CompletionIn
<1>7. ASSUME NEW t \in Requests, Deep(t), NEW r \in PendingOn(out[t]) \ {t}
      PROVE  <<Write("settle", r, rec[r])>> \in VerifyQueues
  <2>1. DeepSpender(t, out[t])
    BY <1>7, DeepSpends DEF ShapeInv
  <2>2. r \in Requests /\ Pending(r) /\ LostDeep(r)
    BY <2>1 DEF PendingOn, LostDeep
  <2>. QED  BY <1>3, <2>2
<1>. QED  BY <1>1, <1>4, <1>5, <1>6, <1>7, VerifyJoins DEF PlanParts

\* A Verify starts, with its plan for queue.
LEMMA VerifyShape ==
  ASSUME ShapeInv, NEW w \in Workers, Verify(w)
  PROVE  ShapeInv'
<1>1. Plan \in VerifyQueues /\ Plan # <<>>
  BY VerifyParts, PlanIn DEF Verify
<1>2. /\ task' = [task EXCEPT ![w] = [op |-> "verify", id |-> None, todo |-> Plan]]
      /\ UNCHANGED <<chain, deep, sent, manifest, rec, out, tclaim, receipt, aborts>>
  BY DEF Verify, node, store
<1> DEFINE t == [op |-> "verify", id |-> None, todo |-> Plan]
<1>3. t \in [op: Ops, id: Requests \cup {None}, todo: Seq(Step)]
  BY <1>1 DEF Ops, VerifyQueues
<1>4. /\ task' \in [Workers -> [op: Ops, id: Requests \cup {None}, todo: Seq(Step)]]
      /\ task'[w] = t /\ \A v \in Workers \ {w} : task'[v] = task[v]
  <2>1. task \in [Workers -> [op: Ops, id: Requests \cup {None}, todo: Seq(Step)]]
    BY DEF ShapeInv, TypeInv
  <2> HIDE DEF t
  <2>2. task' = [task EXCEPT ![w] = t]
    BY <1>2 DEF t
  <2>. QED  BY <1>3, <2>1, <2>2
<1>5. TypeInv'
  <2> HIDE DEF t
  <2>. QED  BY <1>2, <1>4 DEF ShapeInv, TypeInv
<1>6. VerifyQueues' = VerifyQueues
  <2>1. \A e : VerifyStep(e)' <=> VerifyStep(e)
    <3>1. \A r : Recorded(r)' <=> Recorded(r)
      BY <1>2 DEF Recorded
    <3>2. \A r : Deep(r)' <=> Deep(r)
      BY <1>2 DEF Deep
    <3>3. \A r : LostDeep(r)' <=> LostDeep(r)
      <4>1. \A s, o : DeepSpender(s, o)' <=> DeepSpender(s, o)
        BY <1>2 DEF DeepSpender, Deep, Spends1, Spent
      <4>. QED  BY <1>2, <4>1 DEF LostDeep
    <3>. QED  BY <3>1, <3>2, <3>3, Zenon DEF VerifyStep
  <2>. QED  BY <2>1 DEF VerifyQueues
<1>7. TaskShape(w)'
  <2>1. t.op = "verify" /\ t.id = None /\ t.todo = Plan
    OBVIOUS
  <2> HIDE DEF t
  <2>. QED  BY <1>1, <1>4, <1>6, <2>1 DEF TaskShape
<1> HIDE DEF t
<1>8. \A q \in Requests : rec[q] # "none" => out[q] \in Outpoints
  BY Found
<1>. QED  BY <1>2, <1>4, <1>5, <1>7, <1>8, StoreStep

\* Initially no worker has a task and nothing is recorded.
LEMMA ShapeInit == Init => ShapeInv
<1> SUFFICES ASSUME Init PROVE ShapeInv
  OBVIOUS
<1>1. Idle \in [op: Ops, id: Requests \cup {None}, todo: Seq(Step)]
  BY DEF Idle, Ops
<1>2. TypeInv
  BY <1>1, Names, SettlementAssumption DEF Init, TypeInv, Labels
<1>3. NodeInv
  BY DEF Init, NodeInv
<1>4. \A w \in Workers : TaskShape(w)
  BY DEF Init, TaskShape
<1>5. RecoveredAtDepth
  BY Names DEF Init, RecoveredAtDepth
<1>. QED  BY <1>2, <1>3, <1>4, <1>5 DEF ShapeInv

\* Every step keeps ShapeInv.
LEMMA ShapeNext == ShapeInv /\ [Next]_vars => ShapeInv'
<1> SUFFICES ASSUME ShapeInv, [Next]_vars PROVE ShapeInv'
  OBVIOUS
<1>1. CASE \E r \in Requests : Accept(r)
  BY <1>1, AcceptShape
<1>2. CASE AcceptOutside
  BY <1>2, OutsideShape
<1>3. CASE Bury
  BY <1>3, BuryShape
<1>4. CASE Reorg
  BY <1>4, ReorgShape
<1>5. ASSUME NEW w \in Workers, Start(w) PROVE ShapeInv'
  BY <1>5, BuildShape, RejectShape, FinalizeShape, SubmitShape DEF Start
<1>6. ASSUME NEW w \in Workers, Verify(w) PROVE ShapeInv'
  BY <1>6, VerifyShape
<1>7. ASSUME NEW w \in Workers, Perform(w) PROVE ShapeInv'
  <2>1. CASE DoSave(w) \/ DoReread(w) \/ DoClaim(w)
    BY <2>1, SaveShape, RereadShape, ClaimShape
  <2>4. CASE DoArm(w) \/ DoHold(w) \/ DoContest(w)
    BY <2>4, ArmShape, HoldShape, ContestShape
  <2>2. CASE DoBroadcast(w) \/ DoProve(w) \/ DoAdvance(w) \/ DoReceipt(w)
    BY <2>2, BroadcastShape, ProveShape, AdvanceShape, ReceiptShape
  <2>3. CASE DoRelease(w) \/ DoRemove(w) \/ DoSettle(w) \/ DoAdopt(w) \/ DoLeftover(w)
    BY <2>3, ReleaseShape, RemoveShape, SettleShape, AdoptShape, LeftoverShape
  <2>. QED  BY <1>7, <2>1, <2>2, <2>3, <2>4 DEF Perform
<1>8. ASSUME NEW w \in Workers, Abort(w) PROVE ShapeInv'
  BY <1>8, AbortShape
<1>9. CASE UNCHANGED vars
  <2>1. UNCHANGED <<chain, deep, sent, manifest, rec, out, tclaim, receipt, task, aborts>>
    BY <1>9 DEF vars
  <2>2. TypeInv'
    BY <2>1 DEF ShapeInv, TypeInv
  <2>3. NodeInv'
    BY <2>1 DEF ShapeInv, NodeInv, Recorded, Spent
  <2>4. Grows
    BY <2>1 DEF Grows, Deep, DeepSpender, Spends1, Spent
  <2>5. \A w \in Workers : TaskShape(w)'
    BY <2>1, <2>4, ShapeKept
  <2>6. RecoveredAtDepth'
    BY <2>1 DEF ShapeInv, RecoveredAtDepth, Deep
  <2>. QED  BY <2>2, <2>3, <2>5, <2>6 DEF ShapeInv
<1>. QED  BY <1>1, <1>2, <1>3, <1>4, <1>5, <1>6, <1>7, <1>8, <1>9 DEF Next

\* For every number of requests and handlers, and however they interleave,
\* crash and meet reorganisations.
THEOREM ShapeAlways == Spec => []ShapeInv
BY ShapeInit, ShapeNext, PTL DEF Spec

\* A vault recorded as recovered has its recover at the settlement depth: no
\* handler of a recover proves one at zero depth, Verify plans the manifest of
\* one only when it is deep, and what is deep stays so.
THEOREM RecoveredDeep == Spec => []RecoveredAtDepth
<1>1. ShapeInv => RecoveredAtDepth
  BY DEF ShapeInv
<1>. QED  BY <1>1, ShapeAlways, PTL

-----------------------------------------------------------------------------
\* Who holds which claim.

\* Two founded queues make a founded queue.
LEMMA LedJoin ==
  ASSUME NEW G, NEW F, NEW a \in Seq(Step), NEW b \in Seq(Step), Led(G, F, a), Led(G, F, b)
  PROVE  Led(G, F, a \o b)
<1>1. /\ Len(a) \in Nat /\ Len(b) \in Nat /\ Len(a \o b) = Len(a) + Len(b)
      /\ \A i \in 1..(Len(a) + Len(b)) :
           (a \o b)[i] = IF i <= Len(a) THEN a[i] ELSE b[i - Len(a)]
  BY ConcatProperties
<1> SUFFICES ASSUME NEW i \in 1..Len(a \o b)
             PROVE  LET c == a \o b
                    IN c[i] \in G /\ (c[i] \in F \/ \E j \in 1..(i - 1) : c[j] = Do("receipt", c[i].id))
  BY DEF Led
<1>2. CASE i <= Len(a)
  <2>1. i \in 1..Len(a) /\ (a \o b)[i] = a[i] /\ \A j \in 1..(i - 1) : (a \o b)[j] = a[j]
    BY <1>1, <1>2
  <2>. QED  BY <2>1 DEF Led
<1>3. CASE ~(i <= Len(a))
  <2>1. PICK k \in 1..Len(b) : i = k + Len(a)
    <3>1. i - Len(a) \in 1..Len(b) /\ i = (i - Len(a)) + Len(a)
      BY <1>1, <1>3
    <3>. QED  BY <3>1
  <2>2. (a \o b)[i] = b[k]
    BY <1>1, <2>1
  <2>3. \A j \in 1..(k - 1) : j + Len(a) \in 1..(i - 1) /\ (a \o b)[j + Len(a)] = b[j]
    BY <1>1, <2>1
  <2>. QED  BY <2>2, <2>3 DEF Led
<1>. QED  BY <1>2, <1>3

\* What is left after the first step, when a receipt just written frees the
\* steps that waited for it.
LEMMA LedTail ==
  ASSUME NEW G, NEW F, NEW H, NEW E, G \subseteq H, F \subseteq E,
         NEW q \in Seq(Step), q # <<>>, Led(G, F, q),
         \A s : Head(q) = Do("receipt", s) => OwnSteps(s) \subseteq E
  PROVE  Led(H, E, Tail(q))
<1> SUFFICES ASSUME NEW i \in 1..Len(Tail(q))
             PROVE  LET t == Tail(q)
                    IN t[i] \in H /\ (t[i] \in E \/ \E j \in 1..(i - 1) : t[j] = Do("receipt", t[i].id))
  BY DEF Led
<1>1. /\ Len(q) \in Nat /\ Len(Tail(q)) = Len(q) - 1 /\ Head(q) = q[1]
      /\ \A j \in 1..Len(Tail(q)) : Tail(q)[j] = q[j + 1]
  OBVIOUS
<1>2. i + 1 \in 1..Len(q) /\ Tail(q)[i] = q[i + 1] /\ q[i + 1] \in Step
  BY <1>1
<1>3. q[i + 1] \in G /\ (q[i + 1] \in F \/ \E j \in 1..i : q[j] = Do("receipt", q[i + 1].id))
  BY <1>2 DEF Led
<1>4. CASE q[i + 1] \in F
  BY <1>2, <1>3, <1>4
<1>5. ASSUME NEW j \in 1..i, q[j] = Do("receipt", q[i + 1].id)
      PROVE  q[i + 1] \in E \/ \E k \in 1..(i - 1) : Tail(q)[k] = Do("receipt", q[i + 1].id)
  <2>1. CASE j = 1
    BY <1>1, <1>2, <1>5, <2>1 DEF OwnSteps
  <2>2. CASE j # 1
    <3>1. j - 1 \in 1..(i - 1) /\ j - 1 \in 1..Len(Tail(q)) /\ (j - 1) + 1 = j
      BY <1>1, <2>2
    <3>2. Tail(q)[j - 1] = q[j]
      BY <1>1, <3>1
    <3>. QED  BY <1>5, <3>1, <3>2
  <2>. QED  BY <2>1, <2>2
<1>. QED  BY <1>2, <1>3, <1>4, <1>5

\* A founded queue stays founded while reasons are only added.
LEMMA LedStays ==
  ASSUME NEW G, NEW F, NEW H, NEW E, G \subseteq H, F \subseteq E, NEW q, Led(G, F, q)
  PROVE  Led(H, E, q)
BY DEF Led

\* What every step leaves of receipts, records and the deep part of the chain.
Keeps ==
  /\ receipt \subseteq receipt'
  /\ \A r \in Requests : rec[r] # "none" => rec'[r] # "none" /\ out'[r] = out[r]
  /\ \A o : SpentDeep(o) => SpentDeep(o)'

\* What a step may do to a request it is not a handler of: only Verify writes
\* of it, when a deep transaction spends its outpoint, or after a rejection.
Effect(r) ==
  /\ rec'[r] # rec[r] =>
       /\ Settled(r) /\ rec'[r] \in {"CHAIN_VERIFIED", "STALE"}
       /\ r \in receipt \/ rec[r] \in Begun
  /\ r \in receipt' => r \in receipt \/ Settled(r)
  /\ HasClaim(r) /\ ~HasClaim(r)' => Evidence(out[r])

BegunStays(r) ==
  /\ rec[r] \in Begun => rec'[r] \in Begun
  /\ rec[r] = "SUBMISSION_REJECTED" => rec'[r] = "SUBMISSION_REJECTED" \/ Settled(r)'

\* A request that is settled at depth stays so.
LEMMA SettledStays ==
  ASSUME Keeps, NEW r \in Requests, Settled(r)
  PROVE  Settled(r)'
BY DEF Keeps, Settled

\* Verify's own effects take no request back.
LEMMA EffectStays ==
  ASSUME Keeps, NEW r \in Requests, Effect(r)
  PROVE  BegunStays(r)
<1>1. Settled(r) => Settled(r)'
  BY SettledStays
<1>2. "CHAIN_VERIFIED" \in Begun /\ "STALE" \in Begun
  BY DEF Begun, Labels, SignedOrRejected
<1>. QED  BY <1>1, <1>2 DEF BegunStays, Effect

\* Evidence on an outpoint stays there: a rejected request is written of only
\* when a deep transaction spends what it is built on.
LEMMA EvidenceStays ==
  ASSUME Keeps, \A r \in Requests : BegunStays(r)
  PROVE  /\ \A o : Evidence(o) => Evidence(o)'
         /\ \A r \in Requests : Excused(r) => Excused(r)'
<1>1. ASSUME NEW o, Evidence(o) PROVE Evidence(o)'
  <2>1. CASE SpentDeep(o)
    BY <2>1 DEF Keeps, Evidence
  <2>2. ASSUME NEW r \in Requests, out[r] = o, rec[r] = "SUBMISSION_REJECTED"
        PROVE  Evidence(o)'
    <3>1. out'[r] = o
      BY <2>2 DEF Keeps
    <3>2. rec'[r] = "SUBMISSION_REJECTED" \/ SpentDeep(o)'
      BY <2>2, <3>1 DEF BegunStays, Settled
    <3>. QED  BY <3>1, <3>2 DEF Evidence
  <2>. QED  BY <1>1, <2>1, <2>2 DEF Evidence
<1>2. \A r \in Requests : Excused(r) => Excused(r)'
  BY <1>1 DEF Excused, Keeps
<1>. QED  BY <1>1, <1>2

\* They leave what is claimed as it should be.
LEMMA EffectKeeps ==
  ASSUME Keeps, \A s \in Requests : BegunStays(s), NEW r \in Requests,
         ClaimedRight(r), Effect(r)
  PROVE  ClaimedRight(r)'
<1>1. (Settled(r) => Settled(r)') /\ (Excused(r) => Excused(r)')
  BY SettledStays, EvidenceStays
<1>2. r \in receipt => r \in receipt'
  BY DEF Keeps
<1>3. "CHAIN_VERIFIED" \notin InFlight /\ "STALE" \notin InFlight
  BY DEF InFlight
<1>5. r \in receipt' => rec'[r] = "CHAIN_VERIFIED" \/ Settled(r)'
  BY <1>1, <1>3 DEF Effect, ClaimedRight
<1>6. r \in Ordinary /\ rec'[r] \in InFlight => HasClaim(r)' \/ Excused(r)'
  <2> SUFFICES ASSUME r \in Ordinary, rec'[r] \in InFlight PROVE HasClaim(r)' \/ Excused(r)'
    OBVIOUS
  <2>1. rec'[r] = rec[r]
    BY <1>3 DEF Effect
  <2>2. HasClaim(r) \/ Excused(r)
    BY <2>1 DEF ClaimedRight
  <2>3. rec[r] # "none"
    BY <2>1 DEF InFlight
  <2>. QED  BY <1>1, <2>2, <2>3 DEF Effect, Excused
<1>. QED  BY <1>5, <1>6 DEF ClaimedRight

\* So do they when every request has nothing else done to it.
LEMMA EffectsKeep ==
  ASSUME WorkInv, Keeps, \A r \in Requests : Effect(r)
  PROVE  \A r \in Requests : ClaimedRight(r)' /\ BegunStays(r)
<1>1. \A r \in Requests : BegunStays(r)
  BY EffectStays
<1>. QED  BY <1>1, EffectKeeps DEF WorkInv

\* So Verify's reasons stay, once given.
LEMMA GroundStays ==
  ASSUME Keeps, \A r \in Requests : BegunStays(r)
  PROVE  Grounded \subseteq Grounded' /\ Freed \subseteq Freed'
<1>1. \A r \in Requests : Settled(r) => Settled(r)'
  BY SettledStays
<1>2. ASSUME NEW e \in Grounded PROVE e \in Grounded'
  BY <1>1 DEF Grounded, BegunStays
<1>3. ASSUME NEW e \in Freed PROVE e \in Freed'
  BY DEF Freed, BegunStays, Keeps
<1>. QED  BY <1>2, <1>3

\* A handler stays where it is, whatever others do under their reasons.
LEMMA PhaseStays ==
  ASSUME ShapeInv, Keeps, \A r \in Requests : BegunStays(r),
         NEW v \in Workers, Phase(v), task'[v] = task[v],
         \A r \in Requests : task[v].id = r => Effect(r)
  PROVE  Phase(v)'
<1> SUFFICES ASSUME task[v].op \in HandlerOps PROVE Phase(v)'
  BY DEF Phase
<1>0. PICK r, q, op : r = task[v].id /\ q = task[v].todo /\ op = task[v].op
  OBVIOUS
<1>1. r \in Requests /\ Effect(r) /\ (op # "build" => rec[r] # "none")
  <2>1. TaskShape(v)
    BY DEF ShapeInv
  <2>. QED  BY <1>0, <2>1 DEF TaskShape, Idle, HandlerOps
<1>2. /\ r \in receipt => Settled(r)
      /\ rec[r] = "SUBMISSION_REJECTED" => Settled(r) \/ (op = "submit" /\ Letting(q))
      /\ op = "build" => BuildPhase(r)
      /\ op = "finalize" => FinalizePhase(r, q)
      /\ op = "submit" => SubmitPhase(r, q)
  BY <1>0 DEF Phase, HandlerPhase
<1>3. /\ Settled(r) => Settled(r)'
      /\ Excused(r) => Excused(r)'
      /\ r \in receipt => r \in receipt'
  BY <1>1, SettledStays, EvidenceStays DEF Keeps
<1>5. task'[v].op = op /\ task'[v].id = r /\ task'[v].todo = q
  BY <1>0
<1>6. r \in receipt' => Settled(r)'
  BY <1>1, <1>2, <1>3 DEF Effect
<1>7. rec'[r] = "SUBMISSION_REJECTED" => Settled(r)' \/ (op = "submit" /\ Letting(q))
  BY <1>1, <1>2, <1>3 DEF Effect
<1>8. op = "build" => BuildPhase(r)'
  BY <1>1, <1>2 DEF BuildPhase, Effect, Settled
<1>4. op # "build" => (HasClaim(r) \/ Excused(r) => HasClaim(r)' \/ Excused(r)')
  BY <1>1, <1>3 DEF Effect, Excused
<1>9. op = "finalize" => FinalizePhase(r, q)'
  BY <1>2, <1>4 DEF FinalizePhase
<1>10. op = "submit" => SubmitPhase(r, q)'
  BY <1>1, <1>2, <1>3, <1>4 DEF SubmitPhase, Effect
<1>. QED  BY <1>5, <1>6, <1>7, <1>8, <1>9, <1>10 DEF Phase, HandlerPhase

\* WorkInv after a step, from what it does to the requests and to the tasks.
LEMMA WorkStep ==
  ASSUME ShapeInv, WorkInv, Keeps,
         \A r \in Requests : ClaimedRight(r)' /\ BegunStays(r),
         \A v \in Workers :
           \/ task'[v] = task[v] /\ \A r \in Requests : task[v].id = r => Effect(r)
           \/ Phase(v)' /\ FoundedTask(v)',
         HandlerInv'
  PROVE  WorkInv'
<1>1. Grounded \subseteq Grounded' /\ Freed \subseteq Freed'
  BY GroundStays
<1>2. ASSUME NEW v \in Workers PROVE Phase(v)' /\ FoundedTask(v)'
  <2>1. CASE task'[v] = task[v] /\ \A r \in Requests : task[v].id = r => Effect(r)
    <3>1. Phase(v)'
      BY <2>1, PhaseStays DEF WorkInv
    <3>2. FoundedTask(v)'
      <4>1. task[v].op = "verify" => Led(Grounded, Freed, task[v].todo)
        BY DEF WorkInv, FoundedTask
      <4>2. task[v].op = "verify" => Led(Grounded', Freed', task[v].todo)
        BY <1>1, <4>1, LedStays
      <4>. QED  BY <2>1, <4>2 DEF FoundedTask
    <3>. QED  BY <3>1, <3>2
  <2>. QED  BY <2>1
<1>. QED  BY <1>2 DEF WorkInv

\* A task that goes on, or ends.
LEMMA GoesOn ==
  ASSUME ShapeInv, WorkInv, Keeps, NEW w \in Workers, NEW q \in Seq(Step), Then(w, q),
         NEW op, NEW id, op = task[w].op, id = task[w].id,
         Handling(w) \/ Verifying(w),
         \A r \in Requests : ClaimedRight(r)' /\ BegunStays(r),
         \A r \in Requests : Verifying(w) \/ task[w].id # r => Effect(r),
         Handling(w) /\ q # <<>> => HandlerPhase(op, id, q)',
         Verifying(w) => Led(Grounded', Freed', q)
  PROVE  WorkInv'
<1>1. /\ task'[w] = IF q = <<>> THEN Idle
                    ELSE [op |-> task[w].op, id |-> task[w].id, todo |-> q]
      /\ \A v \in Workers \ {w} : task'[v] = task[v]
  BY ThenTask DEF ShapeInv
<1>2. Phase(w)' /\ FoundedTask(w)'
  <2>1. CASE q = <<>>
    BY <1>1, <2>1 DEF Phase, FoundedTask, Idle, HandlerOps
  <2>2. CASE q # <<>> /\ Handling(w)
    <3>1. task'[w].op = task[w].op /\ task'[w].id = task[w].id /\ task'[w].todo = q
      BY <1>1, <2>2
    <3>. QED  BY <2>2, <3>1 DEF Phase, FoundedTask, Handling, HandlerOps
  <2>3. CASE q # <<>> /\ Verifying(w)
    <3>1. task'[w].op = "verify" /\ task'[w].todo = q
      BY <1>1, <2>3 DEF Verifying
    <3>. QED  BY <2>3, <3>1 DEF Phase, FoundedTask, HandlerOps
  <2>. QED  BY <2>1, <2>2, <2>3
<1>3. HandlerInv'
  <2>1. \A v \in Workers : task'[v].op \in HandlerOps =>
          task'[v].op = task[v].op /\ task'[v].id = task[v].id
    BY <1>1 DEF Idle, HandlerOps
  <2>. QED  BY <2>1 DEF WorkInv, HandlerInv
<1>4. ASSUME NEW v \in Workers, v # w, NEW r \in Requests, task[v].id = r PROVE Effect(r)
  <2>1. CASE Verifying(w)
    BY <2>1
  <2>2. CASE Handling(w)
    <3>1. TaskShape(v)
      BY DEF ShapeInv
    <3>2. task[v].op \in HandlerOps
      BY <1>4, <3>1, Names DEF TaskShape, Idle, Transactions
    <3>. QED  BY <1>4, <2>2, <3>2 DEF WorkInv, HandlerInv, Handling
  <2>. QED  BY <2>1, <2>2
<1>. QED  BY <1>1, <1>2, <1>3, <1>4, WorkStep

\* The same, when nothing but Verify's own effects is done to any request.
LEMMA GoesOnFree ==
  ASSUME ShapeInv, WorkInv, Keeps, NEW w \in Workers, NEW q \in Seq(Step), Then(w, q),
         NEW op, NEW id, op = task[w].op, id = task[w].id,
         Handling(w) \/ Verifying(w),
         \A r \in Requests : Effect(r),
         Handling(w) /\ q # <<>> => HandlerPhase(op, id, q)',
         Verifying(w) => Led(Grounded', Freed', q)
  PROVE  WorkInv'
<1>1. \A r \in Requests : ClaimedRight(r)' /\ BegunStays(r)
  BY EffectsKeep
<1>. QED  BY <1>1, GoesOn

\* A step that leaves the chain, the records and the outpoints alone.
LEMMA StoreKeeps ==
  ASSUME chain' = chain, deep' = deep, receipt \subseteq receipt',
         \A r \in Requests : rec[r] # "none" => rec'[r] # "none" /\ out'[r] = out[r]
  PROVE  Keeps /\ \A o : SpentDeep(o)' <=> SpentDeep(o)
BY DEF Keeps, SpentDeep, Spends1, Spent, Deep

\* The first step of a Verify and what is left of it.
LEMMA VerifyFirst ==
  ASSUME ShapeInv, WorkInv, NEW w \in Workers, task[w].todo # <<>>, Verifying(w)
  PROVE  /\ Now(w) \in Grounded /\ Now(w) \in Freed
         /\ Keeps /\ (\A r \in Requests : BegunStays(r))
              /\ (Now(w).do = "receipt" => Now(w).id \in receipt')
              => Led(Grounded', Freed', Rest(w))
<1>1. task[w].todo \in Seq(Step) /\ Led(Grounded, Freed, task[w].todo)
  BY Working DEF WorkInv, FoundedTask, Verifying
<1>2. 1 \in 1..Len(task[w].todo) /\ Now(w) = task[w].todo[1] /\ 1..(1 - 1) = {}
  BY <1>1 DEF Now
<1>3. Now(w) \in Grounded /\ Now(w) \in Freed
  BY <1>1, <1>2 DEF Led
<1>4. ASSUME Keeps, \A r \in Requests : BegunStays(r),
             Now(w).do = "receipt" => Now(w).id \in receipt'
      PROVE  Led(Grounded', Freed', Rest(w))
  <2>1. Grounded \subseteq Grounded' /\ Freed \subseteq Freed'
    BY <1>4, GroundStays
  <2>2. ASSUME NEW s, Head(task[w].todo) = Do("receipt", s) PROVE OwnSteps(s) \subseteq Freed'
    <3>1. s \in receipt'
      BY <1>4, <2>2 DEF Now, Do, Write
    <3>. QED  BY <3>1 DEF OwnSteps, Freed
  <2>. QED  BY <1>1, <2>1, <2>2, LedTail DEF Rest
<1>. QED  BY <1>3, <1>4

\* A step put before the rest.
LEMMA LedPut ==
  ASSUME NEW G, NEW F, NEW e \in Step, e \in G, e \in F, NEW q \in Seq(Step), Led(G, F, q)
  PROVE  Led(G, F, <<e>> \o q)
<1>1. <<e>> \in Seq(Step) /\ Led(G, F, <<e>>)
  BY DEF Led
<1>. QED  BY <1>1, LedJoin

\* What a handler is at.
LEMMA HandlerFirst ==
  ASSUME ShapeInv, WorkInv, NEW w \in Workers, task[w].todo # <<>>, Handling(w)
  PROVE  /\ Now(w).id = task[w].id /\ task[w].id \in Requests
         /\ HandlerPhase(task[w].op, task[w].id, task[w].todo)
         /\ Now(w) = Head(task[w].todo) /\ Rest(w) = Tail(task[w].todo)
         /\ \A r \in Requests : ClaimedRight(r)
<1>1. Now(w).id = task[w].id
  BY Working DEF Handling, Verifying, HandlerOps
<1>. QED  BY <1>1 DEF WorkInv, Phase, Handling, Now, Rest

\* What follows the first step of a finalize and of a submit.
LEMMA FinalizeRest ==
  ASSUME NEW r \in Requests, NEW q \in FinalizeQueues(r)
  PROVE  /\ Head(q).do \in {"save", "reread", "claim"}
         /\ Head(q).do = "save" => Tail(q) = <<>> \/ Head(Tail(q)).do = "claim"
         /\ Head(q).do = "reread" => Head(Tail(q)).do = "save"
         /\ Head(q).do = "claim" =>
              Tail(q) = <<>> \/ (r \in Ordinary /\ Head(Tail(q)).do = "reread")
<1>1. /\ \A l : Save(r, l).do = "save" /\ Do("reread", r).do = "reread"
      /\ Do("claim", r).do = "claim"
  BY DEF Save, Do, Write
<1>2. CASE q \in VerdictQueues(r)
  BY <1>1, <1>2, Short DEF VerdictQueues
<1>3. CASE q \in OrdinaryQueues(r) /\ r \in Ordinary
  <2>1. CASE q = <<Do("claim", r), Do("reread", r), Save(r, "PREFLIGHT_VERIFIED")>>
    <3>1. Head(q) = Do("claim", r) /\ Head(Tail(q)) = Do("reread", r)
      BY <2>1, Short
    <3>. QED  BY <1>1, <1>3, <3>1
  <2>2. CASE q = <<Do("reread", r), Save(r, "PREFLIGHT_VERIFIED")>>
    BY <1>1, <2>2, Short
  <2>3. CASE q = <<Save(r, "PREFLIGHT_VERIFIED")>>
    BY <1>1, <2>3, Short
  <2>. QED  BY <1>3, <2>1, <2>2, <2>3 DEF OrdinaryQueues
<1>4. CASE q \in BreakGlassQueues(r)
  BY <1>1, <1>4, Short DEF BreakGlassQueues
<1>. QED  BY <1>2, <1>3, <1>4 DEF FinalizeQueues, Ordinary

\* What follows the first step of a submit.
LEMMA SubmitRest ==
  ASSUME NEW r, NEW q \in SubmitQueues(r)
  PROVE  /\ Head(q).do = "save" =>
              \/ Head(q).as = "SUBMISSION_REJECTED" /\ Head(Tail(q)).do = "release"
              \/ Head(q).as = "CHAIN_VERIFIED" /\ Head(Tail(q)).do = "receipt"
              \/ /\ Head(q).as # "SUBMISSION_REJECTED"
                 /\ Tail(q) = <<>> \/ Head(Tail(q)).do \in {"broadcast", "prove"}
         /\ Head(q).do = "advance" => Head(Tail(q)).do = "save"
         /\ Head(q).do \in {"receipt", "release", "remove"} => Tail(q) = <<>>
<1>1. \A l : Save(r, l).do = "save" /\ Save(r, l).as = l
  BY DEF Save, Write
<1>2. \A d, m : Write(d, r, m).do = d
  BY DEF Write
<1>3. \A d : Do(d, r).do = d
  BY DEF Do, Write
<1> DEFINE Goal ==
      /\ Head(q).do = "save" =>
           \/ Head(q).as = "SUBMISSION_REJECTED" /\ Head(Tail(q)).do = "release"
           \/ Head(q).as = "CHAIN_VERIFIED" /\ Head(Tail(q)).do = "receipt"
           \/ /\ Head(q).as # "SUBMISSION_REJECTED"
              /\ Tail(q) = <<>> \/ Head(Tail(q)).do \in {"broadcast", "prove"}
      /\ Head(q).do = "advance" => Head(Tail(q)).do = "save"
      /\ Head(q).do \in {"receipt", "release", "remove"} => Tail(q) = <<>>
<1>4. ASSUME NEW e, q = <<e>>, e.do = "save" => e.as # "SUBMISSION_REJECTED", e.do # "advance"
      PROVE  Goal
  BY <1>4, Short
<1>5. ASSUME NEW e, NEW f, q = <<e, f>> \/ \E g : q = <<e, f, g>>,
             e.do \notin {"receipt", "release", "remove"},
             e.do = "save" =>
               \/ e.as = "SUBMISSION_REJECTED" /\ f.do = "release"
               \/ e.as = "CHAIN_VERIFIED" /\ f.do = "receipt"
               \/ e.as # "SUBMISSION_REJECTED" /\ f.do \in {"broadcast", "prove"},
             e.do = "advance" => f.do = "save"
      PROVE  Goal
  <2>1. Head(q) = e /\ Head(Tail(q)) = f
    BY SMTT(20), <1>5, Short
  <2>. QED  BY <1>5, <2>1
<1>6. CASE q \in ProofQueues(r) /\ r \notin Recovers
  <2> HIDE DEF Goal
  <2>1. CASE \E e : q = <<e>> /\ e.do \in {"broadcast", "prove", "receipt"}
    BY <1>4, <2>1
  <2>4. CASE \/ q = <<Write("broadcast", r, "uncontested")>>
             \/ q = <<Do("prove", r)>> \/ q = <<Do("receipt", r)>>
    BY <1>2, <1>3, <2>1, <2>4
  <2>2. CASE \/ q = <<Save(r, "SUBMITTING"), Write("broadcast", r, "uncontested")>>
             \/ q = <<Save(r, "SUBMITTED"), Do("prove", r)>>
             \/ q = <<Save(r, "CHAIN_VERIFIED"), Do("receipt", r)>>
    BY <1>1, <1>2, <1>3, <1>5, <2>2
  <2>3. CASE q = <<Do("advance", r), Save(r, "CHAIN_VERIFIED"), Do("receipt", r)>>
    BY <1>1, <1>3, <1>5, <2>3
  <2>. QED  BY <1>6, <2>2, <2>3, <2>4 DEF ProofQueues
<1>8. CASE q \in ArmQueues(r)
  <2>1. PICK d \in ArmSteps, m \in Holds : q = <<Write(d, r, m)>>
    BY <1>8 DEF ArmQueues
  <2>2. PICK e : e = Write(d, r, m)
    OBVIOUS
  <2>3. q = <<e>> /\ e.do \notin {"save", "advance"}
    BY <1>2, <2>1, <2>2 DEF ArmSteps
  <2> HIDE DEF Goal
  <2>. QED  BY <1>4, <2>3
<1>7. CASE q \notin ArmQueues(r) /\ ~(q \in ProofQueues(r) /\ r \notin Recovers)
  <2> HIDE DEF Goal
  <2>. QED  BY <1>1, <1>2, <1>3, <1>4, <1>5, <1>7 DEF SubmitQueues
<1>. QED  BY <1>6, <1>7, <1>8

\* A finalize that finds another label now writes nothing.
LEMMA RereadWork ==
  ASSUME ShapeInv, WorkInv, NEW w \in Workers, DoReread(w)
  PROVE  WorkInv'
<1>1. /\ task[w].todo # <<>> /\ Now(w).do = "reread"
      /\ Then(w, IF rec[Now(w).id] = "BUILT" THEN Rest(w) ELSE <<>>)
      /\ UNCHANGED <<chain, deep, sent, manifest, rec, out, tclaim, receipt, aborts>>
  BY DEF DoReread, Doing, Now, node, store
<1>2. Handling(w) /\ task[w].op = "finalize"
  BY <1>1, WhoDoes
<1>3. PICK r, q, t : /\ r = task[w].id /\ t = task[w].todo
                     /\ q = IF rec[Now(w).id] = "BUILT" THEN Rest(w) ELSE <<>>
  OBVIOUS
<1>4. /\ Now(w).id = r /\ r \in Requests /\ HandlerPhase("finalize", r, t)
      /\ Head(t).do = "reread" /\ Rest(w) = Tail(t) /\ Rest(w) \in Seq(Step)
      /\ t \in FinalizeQueues(r)
  BY <1>1, <1>2, <1>3, HandlerFirst, Working DEF Handling, HandlerQueues
<1>5. Keeps
  BY <1>1, StoreKeeps
<1>6. \A s \in Requests : Effect(s)
  BY <1>1 DEF Effect, HasClaim
<1>7. q \in Seq(Step) /\ Then(w, q)
  BY <1>1, <1>3, <1>4
<1>8. Settled(r) => Settled(r)'
  BY <1>4, <1>5, SettledStays
<1>11. \A s \in Requests : BegunStays(s)
  BY <1>5, <1>6, EffectStays
<1>9. ASSUME q # <<>> PROVE HandlerPhase("finalize", r, q)'
  <2>1. rec[r] = "BUILT" /\ q = Tail(t) /\ Head(q).do = "save"
    BY <1>3, <1>4, <1>9, FinalizeRest
  <2>2. FinalizePhase(r, q)'
    <3>1. Signing(q) => Signing(t)
      BY <1>4, <2>1 DEF Signing
    <3>2. HasClaim(r) \/ Excused(r) => HasClaim(r)' \/ Excused(r)'
      BY <1>1, <1>4, <1>11, EvidenceStays, <1>5 DEF HasClaim
    <3>. QED  BY <1>4, <3>1, <3>2 DEF HandlerPhase, FinalizePhase
  <2>. QED  BY <1>1, <1>4, <1>8, <2>2 DEF HandlerPhase
<1>10. ~Verifying(w)
  BY <1>2 DEF Verifying
<1>. QED  BY <1>2, <1>3, <1>5, <1>6, <1>7, <1>9, <1>10, GoesOnFree

\* A claim is taken only when there is none.
LEMMA ClaimWork ==
  ASSUME ShapeInv, WorkInv, NEW w \in Workers, DoClaim(w)
  PROVE  WorkInv'
<1>1. PICK r, q, t, o, moved, taken :
        /\ r = task[w].id /\ t = task[w].todo /\ o = out[Now(w).id]
        /\ moved = (Now(w).id \notin BreakGlass /\ rec[Now(w).id] # "BUILT")
        /\ taken = ClaimedByOther(Now(w).id)
        /\ q = CASE moved -> <<>>
                 [] ~moved /\ taken /\ Now(w).id \notin BreakGlass -> Close(Now(w).id, "CLOSED")
                 [] OTHER -> Rest(w)
  OBVIOUS
<1>2. /\ task[w].todo # <<>> /\ Now(w).do = "claim" /\ Then(w, q)
      /\ tclaim' = IF moved \/ taken THEN tclaim ELSE [tclaim EXCEPT ![o] = Now(w).id]
      /\ UNCHANGED <<chain, deep, sent, manifest, rec, out, receipt, aborts>>
  BY <1>1 DEF DoClaim, Doing, Now, node
<1>3. Handling(w) /\ task[w].op = "finalize"
  BY <1>2, WhoDoes
<1>4. /\ Now(w).id = r /\ r \in Requests /\ HandlerPhase("finalize", r, t)
      /\ Head(t).do = "claim" /\ Rest(w) = Tail(t) /\ Rest(w) \in Seq(Step)
      /\ t \in FinalizeQueues(r)
  BY <1>1, <1>2, <1>3, HandlerFirst, Working DEF Handling, HandlerQueues
<1>5. o \in Outpoints /\ o = out[r] /\ tclaim \in [Outpoints -> Requests \cup {None}]
  BY <1>1, <1>2, <1>4, NowRequest, Found
<1>6. Keeps
  BY <1>2, StoreKeeps
<1>7. \A s \in Requests : HasClaim(s) => HasClaim(s)'
  <2>1. tclaim' = tclaim
          \/ (tclaim[o] \in {None, r} /\ tclaim' = [tclaim EXCEPT ![o] = r])
    BY <1>1, <1>2, <1>4 DEF ClaimedByOther
  <2>. QED  BY <1>2, <1>5, <2>1, Names DEF HasClaim
<1>8. \A s \in Requests : Effect(s)
  BY <1>2, <1>7 DEF Effect
<1>9. Close(r, "CLOSED") \in Seq(Step) /\ Head(Close(r, "CLOSED")).do = "reread"
        /\ Head(Tail(Close(r, "CLOSED"))).as = "CLOSED"
  <2>1. Do("reread", r) \in Step /\ Save(r, "CLOSED") \in Step
    BY <1>4, Names, StepType DEF Labels
  <2>2. Do("reread", r).do = "reread" /\ Save(r, "CLOSED").as = "CLOSED"
    BY DEF Do, Save, Write
  <2>. QED  BY <2>1, <2>2, Short DEF Close
<1>10. q \in Seq(Step)
  BY <1>1, <1>4, <1>9
<1>11. Settled(r) => Settled(r)'
  BY <1>4, <1>6, SettledStays
<1>12. ASSUME q # <<>> PROVE HandlerPhase("finalize", r, q)'
  <2>1. /\ Head(q).do = "reread"
        /\ r \in Ordinary /\ Head(Tail(q)).as = "PREFLIGHT_VERIFIED" => ~moved /\ ~taken
    BY <1>1, <1>4, <1>9, <1>12, FinalizeRest DEF Ordinary
  <2>2. ~moved /\ ~taken => HasClaim(r)'
    BY <1>2, <1>4, <1>5 DEF HasClaim
  <2>3. FinalizePhase(r, q)'
    BY <2>1, <2>2 DEF FinalizePhase, Signing
  <2>. QED  BY <1>2, <1>4, <1>11, <2>3 DEF HandlerPhase
<1>13. ~Verifying(w)
  BY <1>3 DEF Verifying
<1>. QED  BY <1>1, <1>2, <1>3, <1>6, <1>8, <1>10, <1>12, <1>13, GoesOnFree

\* A submit that goes on with a step other than a release or a receipt keeps
\* its claim, as long as no step takes it away.
LEMMA SubmitGoesOn ==
  ASSUME ShapeInv, WorkInv, Keeps, NEW w \in Workers, NEW q \in Seq(Step), Then(w, q),
         Handling(w), task[w].op = "submit", task[w].todo # <<>>,
         Now(w).do \notin {"release", "remove"},
         UNCHANGED <<rec, out, receipt>>,
         \A s \in Requests : HasClaim(s) => HasClaim(s)',
         q # <<>> => Head(q).do \notin {"remove", "release", "receipt"}
  PROVE  WorkInv'
<1>1. PICK r, t : r = task[w].id /\ t = task[w].todo
  OBVIOUS
<1>2. r \in Requests /\ HandlerPhase("submit", r, t) /\ ~Letting(t)
  BY <1>1, HandlerFirst DEF Handling, Letting
<1>3. \A s \in Requests : Effect(s)
  BY DEF Effect
<1>4. (Settled(r) => Settled(r)') /\ (Excused(r) => Excused(r)')
  <2>1. \A s \in Requests : BegunStays(s)
    BY <1>3, EffectStays
  <2>. QED  BY <1>2, <2>1, SettledStays, EvidenceStays
<1>5. ASSUME q # <<>> PROVE HandlerPhase("submit", r, q)'
  <2>1. r \in Ordinary => HasClaim(r)' \/ Excused(r)'
    BY <1>2, <1>4 DEF HandlerPhase, SubmitPhase
  <2>2. SubmitPhase(r, q)'
    BY <1>5, <2>1 DEF SubmitPhase, Letting
  <2>. QED  BY <1>2, <1>4, <2>2 DEF HandlerPhase
<1>6. ~Verifying(w)
  BY DEF Verifying
<1>. QED  BY <1>1, <1>3, <1>5, <1>6, GoesOnFree

\* A submit looks, takes its claim again and decides the contest: no claim of
\* another request changes.
LEMMA ArmWork ==
  ASSUME ShapeInv, WorkInv, NEW w \in Workers, DoArm(w) \/ DoHold(w) \/ DoContest(w)
  PROVE  WorkInv'
<1>1. PICK r : r = Now(w).id
  OBVIOUS
<1>2. /\ task[w].todo # <<>> /\ Now(w).do \in ArmSteps
      /\ UNCHANGED <<chain, deep, manifest, rec, out, receipt, aborts>>
      /\ tclaim' = tclaim
           \/ (tclaim[out[r]] \in {None, r} /\ tclaim' = [tclaim EXCEPT ![out[r]] = r])
  <2>1. CASE DoArm(w) \/ DoContest(w)
    BY <2>1 DEF DoArm, DoContest, Doing, Now, ArmSteps, node, store
  <2>2. CASE DoHold(w)
    BY <1>1, <2>2 DEF DoHold, Doing, Now, ArmSteps, node, ClaimedByOther
  <2>. QED  BY <2>1, <2>2
<1>3. Handling(w) /\ task[w].op = "submit" /\ r \in Requests /\ r \in Outpoints
        /\ out[r] \in Outpoints /\ Now(w).as \in Holds
  BY <1>1, <1>2, ArmGoes, NowRequest, Names DEF ArmSteps
<1>4. \A s \in Requests : HasClaim(s) => HasClaim(s)'
  BY <1>2, <1>3, Found, Names DEF HasClaim
<1>5. Keeps
  BY <1>2, StoreKeeps
<1>6. PICK q \in Seq(Step) : Then(w, q) /\ (q # <<>> => Head(q).do \in {"hold", "contest", "save"})
  <2>1. CASE DoArm(w)
    <3>1. PICK e : e = [Now(w) EXCEPT !.do = "hold"]
      OBVIOUS
    <3>2. e = Write("hold", r, Now(w).as)
      BY <1>1, <1>2, <3>1, Working DEF Step, Write
    <3>3. e \in Step /\ e.do = "hold"
      BY <1>3, <3>2, StepType DEF ArmSteps, Holds, Marks, Write
    <3>4. Then(w, <<e>>) \/ Then(w, <<>>)
      BY <2>1, <3>1 DEF DoArm
    <3>5. <<e>> \in Seq(Step) /\ <<>> \in Seq(Step)
      BY <3>3
    <3>6. Head(<<e>>) = e
      BY Short
    <3>. QED  BY <3>3, <3>4, <3>5, <3>6
  <2>2. CASE DoHold(w)
    <3>1. PICK h \in Holds : Then(w, <<Write("contest", r, h)>>) \/ Then(w, <<>>)
      BY <1>1, <2>2 DEF DoHold, Holds
    <3>2. PICK e : e = Write("contest", r, h)
      OBVIOUS
    <3>3. e \in Step /\ e.do = "contest"
      BY <1>3, <3>2, StepType DEF ArmSteps, Holds, Marks, Write
    <3>4. <<e>> \in Seq(Step) /\ <<>> \in Seq(Step)
      BY <3>3
    <3>5. Head(<<e>>) = e
      BY Short
    <3>. QED  BY <3>1, <3>2, <3>3, <3>4, <3>5
  <2>3. CASE DoContest(w)
    <3>1. PICK m \in {"contested", "uncontested"} :
            Then(w, <<Save(r, "SUBMITTING"), Write("broadcast", r, m)>>)
      BY <1>1, <2>3 DEF DoContest
    <3>2. PICK e, f : e = Save(r, "SUBMITTING") /\ f = Write("broadcast", r, m)
      OBVIOUS
    <3>3. e \in Step /\ f \in Step /\ e.do = "save"
      BY <1>3, <3>2, StepType DEF Labels, SignedOrRejected, InFlight, Marks, Save, Write
    <3>4. <<e, f>> \in Seq(Step) /\ Head(<<e, f>>) = e
      BY <3>3, Short
    <3>. QED  BY <3>1, <3>2, <3>3, <3>4
  <2>. QED  BY <2>1, <2>2, <2>3
<1>. QED  BY <1>2, <1>3, <1>4, <1>5, <1>6, SubmitGoesOn DEF ArmSteps

\* A submit broadcasts, and goes on with what the answer calls for.
LEMMA BroadcastWork ==
  ASSUME ShapeInv, WorkInv, NEW w \in Workers, DoBroadcast(w)
  PROVE  WorkInv'
<1>1. PICK r : r = Now(w).id
  OBVIOUS
<1>2. /\ task[w].todo # <<>> /\ Now(w).do = "broadcast"
      /\ Taken(w, r) \/ Uncertain(w, r) \/ Rejected(w, r)
      /\ UNCHANGED <<chain, deep, manifest, rec, out, receipt, aborts>>
  BY <1>1 DEF DoBroadcast, Doing, Now
<1>3. Handling(w) /\ task[w].op = "submit" /\ r \in Outpoints
  BY <1>1, <1>2, WhoDoes, NowRequest, Names
<1>4. \E q \in {<<Save(r, "SUBMITTED")>>, <<Save(r, "SUBMITTED"), Do("prove", r)>>,
                <<Save(r, "RECONCILIATION_REQUIRED")>>,
                <<Save(r, "SUBMISSION_REJECTED"), Do("release", r)>>} : Then(w, q)
  BY <1>2 DEF Taken, Uncertain, Rejected
<1>5. tclaim' = tclaim
  BY <1>2 DEF Taken, Uncertain, Rejected
<1>6. \A s \in Requests : HasClaim(s) => HasClaim(s)'
  BY <1>2, <1>5 DEF HasClaim
<1>7. Keeps
  BY <1>2, StoreKeeps
<1>8. /\ Save(r, "SUBMITTED") \in Step /\ Save(r, "RECONCILIATION_REQUIRED") \in Step
      /\ Save(r, "SUBMISSION_REJECTED") \in Step
      /\ Do("prove", r) \in Step /\ Do("release", r) \in Step
      /\ \A l : Save(r, l).do = "save"
  BY <1>3, StepType DEF Labels, SignedOrRejected, InFlight, Save, Write
<1>9. PICK q : /\ q \in Seq(Step) /\ Then(w, q) /\ Head(q).do = "save"
  <2>1. /\ <<Save(r, "SUBMITTED")>> \in Seq(Step)
        /\ <<Save(r, "SUBMITTED"), Do("prove", r)>> \in Seq(Step)
        /\ <<Save(r, "RECONCILIATION_REQUIRED")>> \in Seq(Step)
        /\ <<Save(r, "SUBMISSION_REJECTED"), Do("release", r)>> \in Seq(Step)
    BY <1>8
  <2>2. \A e, f : e.do = "save" => Head(<<e>>).do = "save" /\ Head(<<e, f>>).do = "save"
    BY Short
  <2>. QED  BY <1>4, <1>8, <2>1, <2>2
<1>. QED  BY <1>2, <1>3, <1>6, <1>7, <1>9, SubmitGoesOn

\* A submit sees its successor or gives up: no claim changes.
LEMMA ProveWork ==
  ASSUME ShapeInv, WorkInv, NEW w \in Workers, DoProve(w)
  PROVE  WorkInv'
<1>1. PICK r : r = Now(w).id
  OBVIOUS
<1>2. /\ task[w].todo # <<>> /\ Now(w).do = "prove"
      /\ \/ Then(w, <<Do("advance", r), Save(r, "CHAIN_VERIFIED"), Do("receipt", r)>>)
         \/ Then(w, <<Save(r, "RECONCILIATION_REQUIRED")>>)
      /\ UNCHANGED <<chain, deep, sent, manifest, rec, out, tclaim, receipt, aborts>>
  BY <1>1 DEF DoProve, Doing, Now, node, store
<1>3. Handling(w) /\ task[w].op = "submit" /\ r \in Outpoints
  BY <1>1, <1>2, WhoDoes, NowRequest, Names
<1>4. \A s \in Requests : HasClaim(s) => HasClaim(s)'
  BY <1>2 DEF HasClaim
<1>5. Keeps
  BY <1>2, StoreKeeps
<1>6. /\ Save(r, "CHAIN_VERIFIED") \in Step /\ Save(r, "RECONCILIATION_REQUIRED") \in Step
      /\ Do("advance", r) \in Step /\ Do("receipt", r) \in Step
      /\ \A l : Save(r, l).do = "save"
      /\ Do("advance", r).do = "advance"
  BY <1>3, StepType DEF Labels, SignedOrRejected, InFlight, Save, Do, Write
<1>7. PICK q : q \in Seq(Step) /\ Then(w, q) /\ Head(q).do \in {"save", "advance"}
  <2>1. CASE Then(w, <<Do("advance", r), Save(r, "CHAIN_VERIFIED"), Do("receipt", r)>>)
    <3>1. <<Do("advance", r), Save(r, "CHAIN_VERIFIED"), Do("receipt", r)>> \in Seq(Step)
      BY <1>6
    <3>2. Head(<<Do("advance", r), Save(r, "CHAIN_VERIFIED"), Do("receipt", r)>>).do = "advance"
      BY <1>6, Short
    <3>. QED  BY <2>1, <3>1, <3>2
  <2>2. CASE Then(w, <<Save(r, "RECONCILIATION_REQUIRED")>>)
    <3>1. <<Save(r, "RECONCILIATION_REQUIRED")>> \in Seq(Step)
      BY <1>6
    <3>2. Head(<<Save(r, "RECONCILIATION_REQUIRED")>>).do = "save"
      BY <1>6, Short
    <3>. QED  BY <2>2, <3>1, <3>2
  <2>. QED  BY <1>2, <2>1, <2>2
<1>. QED  BY <1>2, <1>3, <1>4, <1>5, <1>7, SubmitGoesOn

\* A step that writes neither records nor receipts nor claims and goes on with
\* the rest of the queue.
LEMMA QuietWork ==
  ASSUME ShapeInv, WorkInv, NEW w \in Workers, task[w].todo # <<>>, Then(w, Rest(w)),
         Now(w).do \in {"advance", "adopt"},
         UNCHANGED <<chain, deep, sent, rec, out, tclaim, receipt, aborts>>
  PROVE  WorkInv'
<1>1. Keeps
  BY StoreKeeps
<1>2. \A s \in Requests : Effect(s) /\ BegunStays(s)
  <2>1. \A s \in Requests : Effect(s)
    BY DEF Effect, HasClaim
  <2>. QED  BY <1>1, <2>1, EffectsKeep
<1>3. PICK q : q = Rest(w)
  OBVIOUS
<1>4. q \in Seq(Step) /\ Then(w, q)
  BY <1>3, Working
<1>5. CASE Verifying(w)
  <2>1. Led(Grounded', Freed', q)
    BY <1>1, <1>2, <1>3, <1>5, VerifyFirst
  <2>2. ~Handling(w)
    BY <1>5 DEF Handling, Verifying, HandlerOps
  <2>. QED  BY <1>1, <1>2, <1>4, <1>5, <2>1, <2>2, GoesOnFree
<1>6. CASE Handling(w)
  <2>1. task[w].op = "submit" /\ task[w].todo \in SubmitQueues(task[w].id)
    <3>1. CASE task[w].op \in {"build", "reject"}
      <4>1. \A r, l : Save(r, l).do = "save"
        BY DEF Save, Write
      <4>. QED  BY <1>6, <3>1, <4>1, Short DEF Handling, HandlerQueues, Now
    <3>2. CASE task[w].op = "finalize"
      BY <1>6, <3>2, FinalizeRest DEF Handling, HandlerQueues, Now
    <3>. QED  BY <1>6, <3>1, <3>2 DEF Handling, HandlerOps, HandlerQueues
  <2>2. SubmitHead(task[w].todo, task[w].id)
    BY <2>1, SubmitHeads
  <2>3. Now(w).do = "advance"
    BY <2>2 DEF SubmitHead, Now, Do, Write, ArmSteps
  <2>4. q = Tail(task[w].todo) /\ Head(q).do = "save"
    BY <1>3, <2>1, <2>3, SubmitRest DEF Rest, Now
  <2>5. \A s \in Requests : HasClaim(s) => HasClaim(s)'
    BY DEF HasClaim
  <2>. QED  BY <1>1, <1>4, <1>6, <2>1, <2>3, <2>4, <2>5, SubmitGoesOn
<1>. QED  BY <1>5, <1>6, Working

\* Writing the manifest disturbs no claim.
LEMMA AdvanceWork ==
  ASSUME ShapeInv, WorkInv, NEW w \in Workers, DoAdvance(w) \/ DoAdopt(w)
  PROVE  WorkInv'
<1>1. /\ task[w].todo # <<>> /\ Then(w, Rest(w)) /\ Now(w).do \in {"advance", "adopt"}
      /\ UNCHANGED <<chain, deep, sent, rec, out, tclaim, receipt, aborts>>
  BY DEF DoAdvance, DoAdopt, Doing, Now, node
<1>. QED  BY <1>1, QuietWork

\* A handler that writes a receipt or lets a claim go is a submit, at its end.
LEMMA SubmitEnds ==
  ASSUME ShapeInv, WorkInv, NEW w \in Workers, task[w].todo # <<>>, Handling(w),
         Now(w).do \in {"receipt", "release", "remove"}
  PROVE  /\ task[w].op = "submit" /\ Rest(w) = <<>> /\ Now(w).id = task[w].id
         /\ Now(w).id \in Requests /\ SubmitPhase(Now(w).id, task[w].todo)
         /\ Head(task[w].todo) = Now(w) /\ ~Verifying(w)
<1>1. task[w].op = "submit" /\ task[w].todo \in SubmitQueues(task[w].id)
  <2>1. CASE task[w].op \in {"build", "reject"}
    <3>1. \A r, l : Save(r, l).do = "save"
      BY DEF Save, Write
    <3>. QED  BY <2>1, <3>1, Short DEF Handling, HandlerQueues, Now
  <2>2. CASE task[w].op = "finalize"
    BY <2>2, FinalizeRest DEF Handling, HandlerQueues, Now
  <2>. QED  BY <2>1, <2>2 DEF Handling, HandlerOps, HandlerQueues
<1>2. Rest(w) = <<>>
  BY <1>1, SubmitRest DEF Rest, Now
<1>3. /\ Now(w).id = task[w].id /\ task[w].id \in Requests
      /\ HandlerPhase(task[w].op, task[w].id, task[w].todo) /\ Now(w) = Head(task[w].todo)
  BY HandlerFirst
<1>. QED  BY <1>1, <1>2, <1>3 DEF HandlerPhase, Verifying

\* Why a claim is let go: what the step's request was when it was queued still
\* is evidence on the outpoint.
LEMMA LettingWhy ==
  ASSUME ShapeInv, WorkInv, NEW w \in Workers, task[w].todo # <<>>,
         Now(w).do \in {"release", "remove"}
  PROVE  /\ Now(w).id \in Requests /\ out[Now(w).id] \in Outpoints
         /\ Settled(Now(w).id) \/ rec[Now(w).id] = "SUBMISSION_REJECTED"
         /\ Evidence(out[Now(w).id])
<1>1. Now(w).id \in Requests /\ out[Now(w).id] \in Outpoints
  BY NowRequest
<1>2. Settled(Now(w).id) \/ rec[Now(w).id] = "SUBMISSION_REJECTED"
  <2>1. CASE Verifying(w)
    BY <2>1, VerifyFirst DEF Grounded
  <2>2. CASE Handling(w)
    BY <2>2, SubmitEnds DEF SubmitPhase, Letting
  <2>. QED  BY <2>1, <2>2, Working
<1>. QED  BY <1>1, <1>2 DEF Settled, Evidence

\* A claim is read, and what was read removed, for the same reason.
LEMMA ReleaseWork ==
  ASSUME ShapeInv, WorkInv, NEW w \in Workers, DoRelease(w)
  PROVE  WorkInv'
<1>1. PICK r, e : r = Now(w).id /\ e = Do("remove", r)
  OBVIOUS
<1>2. /\ task[w].todo # <<>> /\ Now(w).do = "release"
      /\ Then(w, <<e>> \o Rest(w)) \/ Then(w, Rest(w))
      /\ UNCHANGED <<chain, deep, sent, manifest, rec, out, tclaim, receipt, aborts>>
  BY <1>1 DEF DoRelease, Doing, Now, node, store
<1>3. r \in Requests /\ (Settled(r) \/ rec[r] = "SUBMISSION_REJECTED")
  BY <1>1, <1>2, LettingWhy
<1>4. Keeps
  BY <1>2, StoreKeeps
<1>5. \A s \in Requests : Effect(s)
  BY <1>2 DEF Effect, HasClaim
<1>6. \A s \in Requests : BegunStays(s)
  BY <1>4, <1>5, EffectStays
<1>7. e \in Step /\ e.do = "remove" /\ e.id = r /\ Rest(w) \in Seq(Step)
  <2>1. r \in Outpoints
    BY <1>3, Names
  <2>2. e \in Step
    BY <1>1, <2>1, StepType
  <2>3. e.do = "remove" /\ e.id = r
    BY <1>1 DEF Do, Write
  <2>. QED  BY <1>2, <2>2, <2>3, Working
<1>8. PICK q \in Seq(Step) : Then(w, q) /\ q \in {<<e>> \o Rest(w), Rest(w)}
  <2>1. <<e>> \o Rest(w) \in Seq(Step)
    BY <1>7
  <2>. QED  BY <1>2, <1>7, <2>1
<1>9. CASE Verifying(w)
  <2>1. Led(Grounded', Freed', Rest(w))
    BY <1>2, <1>4, <1>6, <1>9, VerifyFirst
  <2>2. r \in Requests /\ (Settled(r)' \/ rec'[r] = "SUBMISSION_REJECTED")
    BY <1>2, <1>3, <1>4, SettledStays
  <2>3. e \in Grounded' /\ e \in Freed'
    BY <1>7, <2>2 DEF Grounded, Freed
  <2>4. Led(Grounded', Freed', q)
    BY <1>7, <1>8, <2>1, <2>3, LedPut
  <2>5. ~Handling(w)
    BY <1>9 DEF Handling, Verifying, HandlerOps
  <2>. QED  BY <1>4, <1>5, <1>8, <1>9, <2>4, <2>5, GoesOnFree
<1>10. CASE Handling(w)
  <2>1. /\ task[w].op = "submit" /\ Rest(w) = <<>> /\ r = task[w].id /\ ~Verifying(w)
        /\ HandlerPhase("submit", r, task[w].todo)
    BY <1>1, <1>2, <1>10, SubmitEnds, HandlerFirst
  <2>2. q # <<>> => Head(q) = e
    <3>1. <<e>> \in Seq(Step) /\ Head(<<e>>) = e
      BY <1>7, Short
    <3>2. <<e>> \o <<>> = <<e>>
      BY <3>1
    <3>. QED  BY <1>8, <2>1, <3>1, <3>2
  <2>3. ASSUME q # <<>> PROVE HandlerPhase("submit", r, q)'
    <3>1. Letting(q)
      BY <1>7, <2>2, <2>3 DEF Letting
    <3>2. SubmitPhase(r, q)'
      BY <1>2, <1>3, <1>4, <1>7, <2>2, <2>3, <3>1, SettledStays DEF SubmitPhase
    <3>3. r \in receipt' => Settled(r)'
      <4>1. r \in receipt => Settled(r)
        BY <2>1 DEF HandlerPhase
      <4>. QED  BY <1>2, <1>3, <1>4, <4>1, SettledStays
    <3>. QED  BY <3>1, <3>2, <3>3 DEF HandlerPhase
  <2>. QED  BY <1>4, <1>5, <1>8, <1>10, <2>1, <2>3, GoesOnFree
<1>. QED  BY <1>2, <1>9, <1>10, Working

\* What is removed is the claim of the outpoint, whoever holds it by now.
LEMMA RemoveWork ==
  ASSUME ShapeInv, WorkInv, NEW w \in Workers, DoRemove(w)
  PROVE  WorkInv'
<1>1. /\ task[w].todo # <<>> /\ Now(w).do = "remove" /\ Then(w, Rest(w))
      /\ tclaim' = [tclaim EXCEPT ![out[Now(w).id]] = None]
      /\ UNCHANGED <<chain, deep, sent, manifest, rec, out, receipt, aborts>>
  BY DEF DoRemove, Doing, Now, node
<1>2. Keeps
  BY <1>1, StoreKeeps
<1>3. ASSUME NEW s \in Requests, HasClaim(s), ~HasClaim(s)' PROVE Evidence(out[s])
  <2>1. out[s] \in Outpoints /\ tclaim[out[s]] = s /\ tclaim'[out[s]] # s
    BY <1>1, <1>3 DEF HasClaim
  <2>2. out[s] = out[Now(w).id]
    BY <1>1, <2>1, Found
  <2>. QED  BY <1>1, <2>2, LettingWhy
<1>4. \A s \in Requests : Effect(s)
  BY <1>1, <1>3 DEF Effect
<1>5. \A s \in Requests : BegunStays(s)
  BY <1>2, <1>4, EffectStays
<1>6. PICK q : q = Rest(w)
  OBVIOUS
<1>7. q \in Seq(Step) /\ Then(w, q)
  BY <1>1, <1>6, Working
<1>8. CASE Verifying(w)
  <2>1. Led(Grounded', Freed', q)
    BY <1>1, <1>2, <1>5, <1>6, <1>8, VerifyFirst
  <2>2. ~Handling(w)
    BY <1>8 DEF Handling, Verifying, HandlerOps
  <2>. QED  BY <1>2, <1>4, <1>7, <1>8, <2>1, <2>2, GoesOnFree
<1>9. CASE Handling(w)
  <2>1. q = <<>> /\ ~Verifying(w)
    BY <1>1, <1>6, <1>9, SubmitEnds
  <2>. QED  BY <1>2, <1>4, <1>7, <1>9, <2>1, GoesOnFree
<1>. QED  BY <1>1, <1>8, <1>9, Working

\* A receipt is of a completion, or of a deep outpoint.
LEMMA ReceiptWork ==
  ASSUME ShapeInv, WorkInv, NEW w \in Workers, DoReceipt(w)
  PROVE  WorkInv'
<1>1. PICK r, q : r = Now(w).id /\ q = Rest(w)
  OBVIOUS
<1>2. /\ task[w].todo # <<>> /\ Now(w).do = "receipt" /\ Then(w, q)
      /\ receipt' = receipt \cup {r}
      /\ UNCHANGED <<chain, deep, sent, manifest, rec, out, tclaim, aborts>>
  BY <1>1 DEF DoReceipt, Doing, Now, node
<1>3. r \in Requests /\ q \in Seq(Step)
  BY <1>1, <1>2, NowRequest, Working
<1>4. Keeps
  BY <1>2, StoreKeeps
<1>5. \A s \in Requests : HasClaim(s)' <=> HasClaim(s)
  BY <1>2 DEF HasClaim
<1>6. CASE Verifying(w)
  <2>1. Settled(r)
    BY <1>1, <1>2, <1>6, VerifyFirst DEF Grounded
  <2>2. \A s \in Requests : Effect(s)
    BY <1>2, <1>5, <2>1 DEF Effect
  <2>3. \A s \in Requests : BegunStays(s)
    BY <1>4, <2>2, EffectsKeep
  <2>4. Led(Grounded', Freed', q)
    BY <1>1, <1>2, <1>4, <1>6, <2>3, VerifyFirst
  <2>5. ~Handling(w)
    BY <1>6 DEF Handling, Verifying, HandlerOps
  <2>. QED  BY <1>2, <1>3, <1>4, <1>6, <2>2, <2>4, <2>5, GoesOnFree
<1>7. CASE Handling(w)
  <2>1. q = <<>> /\ ~Verifying(w) /\ r = task[w].id
    BY <1>1, <1>2, <1>7, SubmitEnds
  <2>2. rec[r] = "CHAIN_VERIFIED" \/ Settled(r)
    <3>1. SubmitPhase(r, task[w].todo) /\ Head(task[w].todo).do = "receipt"
      BY <1>1, <1>2, <1>7, SubmitEnds
    <3>. QED  BY <3>1 DEF SubmitPhase
  <2>3. \A s \in Requests : s # r => Effect(s)
    BY <1>2, <1>5 DEF Effect
  <2>4. ClaimedRight(r) /\ (Settled(r) => Settled(r)')
    BY <1>3, <1>4, SettledStays DEF WorkInv
  <2>5. \A s \in Requests : BegunStays(s)
    BY <1>2 DEF BegunStays
  <2>7. ClaimedRight(r)'
    <3>1. Excused(r) => Excused(r)'
      BY <1>3, <1>4, <2>5, EvidenceStays
    <3>. QED  BY <1>2, <1>3, <1>5, <2>2, <2>4, <3>1 DEF ClaimedRight
  <2>6. \A s \in Requests : ClaimedRight(s)' /\ BegunStays(s)
    BY <1>4, <2>3, <2>5, <2>7, EffectKeeps DEF WorkInv
  <2>. QED  BY <1>2, <1>3, <1>4, <1>7, <2>1, <2>3, <2>6, GoesOn
<1>. QED  BY <1>2, <1>6, <1>7, Working

\* A loser that still is as it was read is settled by what is queued next.
LEMMA SettleWork ==
  ASSUME ShapeInv, WorkInv, NEW w \in Workers, DoSettle(w)
  PROVE  WorkInv'
<1>1. PICK r, e, f, q : /\ r = Now(w).id /\ e = Save(r, "STALE") /\ f = Do("release", r)
                        /\ q = IF rec[r] = Now(w).as THEN <<e, f>> \o Rest(w) ELSE Rest(w)
  OBVIOUS
<1>2. /\ task[w].todo # <<>> /\ Now(w).do = "settle" /\ Then(w, q)
      /\ UNCHANGED <<chain, deep, sent, manifest, rec, out, tclaim, receipt, aborts>>
  BY <1>1 DEF DoSettle, Doing, Now, node, store
<1>3. Verifying(w) /\ r \in Requests /\ Rest(w) \in Seq(Step)
  BY <1>1, <1>2, WhoDoes, NowRequest, Working
<1>4. Settled(r) /\ Now(w).as \in InFlight \cup {"CHAIN_VERIFIED"}
  BY <1>1, <1>2, <1>3, VerifyFirst DEF Grounded
<1>5. Keeps
  BY <1>2, StoreKeeps
<1>6. \A s \in Requests : Effect(s)
  BY <1>2 DEF Effect, HasClaim
<1>7. \A s \in Requests : BegunStays(s)
  BY <1>5, <1>6, EffectStays
<1>8. Led(Grounded', Freed', Rest(w))
  BY <1>2, <1>3, <1>5, <1>7, VerifyFirst
<1>9. /\ e \in Step /\ e.do = "save" /\ e.id = r
      /\ f \in Step /\ f.do = "release" /\ f.id = r
  BY <1>1, <1>3, Names, StepType DEF Save, Do, Write, Labels
<1>10. q \in Seq(Step) /\ Led(Grounded', Freed', q)
  <2>1. CASE rec[r] = Now(w).as
    <3>1. rec'[r] \in Begun /\ Settled(r)'
      BY <1>2, <1>3, <1>4, <1>5, <2>1, SettledStays DEF Begun, Labels, SignedOrRejected, InFlight
    <3>2. e \in Grounded' /\ e \in Freed' /\ f \in Grounded' /\ f \in Freed'
      BY <1>3, <1>9, <3>1 DEF Grounded, Freed
    <3>3. <<f>> \o Rest(w) \in Seq(Step) /\ Led(Grounded', Freed', <<f>> \o Rest(w))
      BY <1>3, <1>8, <1>9, <3>2, LedPut
    <3>4. q = <<e>> \o (<<f>> \o Rest(w))
      BY <1>1, <1>3, <1>9, <2>1
    <3>5. Led(Grounded', Freed', <<e>> \o (<<f>> \o Rest(w)))
      BY <1>9, <3>2, <3>3, LedPut
    <3>6. <<e>> \o (<<f>> \o Rest(w)) \in Seq(Step)
      BY <1>9, <3>3
    <3>. QED  BY <3>4, <3>5, <3>6
  <2>2. CASE rec[r] # Now(w).as
    BY <1>1, <1>3, <1>8, <2>2
  <2>. QED  BY <2>1, <2>2
<1>11. ~Handling(w)
  BY <1>3 DEF Handling, Verifying, HandlerOps
<1>. QED  BY <1>2, <1>3, <1>5, <1>6, <1>10, <1>11, GoesOnFree

\* A leftover claim of an established rejection is let go.
LEMMA LeftoverWork ==
  ASSUME ShapeInv, WorkInv, NEW w \in Workers, DoLeftover(w)
  PROVE  WorkInv'
<1>1. PICK o, q, e : /\ o = Now(w).id /\ e = Do("release", tclaim[Now(w).id])
                     /\ q = IF Leftover(Now(w).id) THEN <<e>> \o Rest(w) ELSE Rest(w)
  OBVIOUS
<1>2. /\ task[w].todo # <<>> /\ Now(w).do = "leftover" /\ Then(w, q)
      /\ UNCHANGED <<chain, deep, sent, manifest, rec, out, tclaim, receipt, aborts>>
  BY <1>1 DEF DoLeftover, Doing, Now, node, store
<1>3. Verifying(w) /\ Rest(w) \in Seq(Step) /\ o \in Outpoints
  BY <1>1, <1>2, WhoDoes, Working DEF Step
<1>4. Keeps
  BY <1>2, StoreKeeps
<1>5. \A s \in Requests : Effect(s)
  BY <1>2 DEF Effect, HasClaim
<1>6. \A s \in Requests : BegunStays(s)
  BY <1>4, <1>5, EffectsKeep
<1>7. Led(Grounded', Freed', Rest(w))
  BY <1>2, <1>3, <1>4, <1>6, VerifyFirst
<1>8. ASSUME Leftover(o) PROVE e \in Step /\ e \in Grounded' /\ e \in Freed'
  <2>1. tclaim[o] \in Requests /\ rec[tclaim[o]] = "SUBMISSION_REJECTED"
    BY <1>3, <1>8, Found DEF Leftover
  <2>2. e \in Step /\ e.do = "release" /\ e.id = tclaim[o]
    BY <1>1, <2>1, Names, StepType DEF Do, Write
  <2>. QED  BY <1>2, <2>1, <2>2 DEF Grounded, Freed
<1>9. q \in Seq(Step) /\ Led(Grounded', Freed', q)
  <2>1. CASE Leftover(o)
    <3>1. q = <<e>> \o Rest(w)
      BY <1>1, <2>1
    <3>. QED  BY <1>3, <1>7, <1>8, <2>1, <3>1, LedPut
  <2>2. CASE ~Leftover(o)
    BY <1>1, <1>3, <1>7, <2>2
  <2>. QED  BY <2>1, <2>2
<1>10. ~Handling(w)
  BY <1>3 DEF Handling, Verifying, HandlerOps
<1>. QED  BY <1>2, <1>3, <1>4, <1>5, <1>9, <1>10, GoesOnFree

\* Verify saves a completion, whose receipt is there, or a loser.
LEMMA VerifySaves ==
  ASSUME ShapeInv, WorkInv, NEW w \in Workers, DoSave(w), Verifying(w)
  PROVE  WorkInv'
<1>1. PICK r, q : r = Now(w).id /\ q = Rest(w)
  OBVIOUS
<1>2. /\ task[w].todo # <<>> /\ Now(w).do = "save" /\ Then(w, q)
      /\ rec' = [rec EXCEPT ![r] = Now(w).as]
      /\ UNCHANGED <<chain, deep, sent, manifest, out, tclaim, receipt, aborts>>
  BY <1>1 DEF DoSave, Doing, Now, node
<1>3. r \in Requests /\ q \in Seq(Step)
  BY <1>1, <1>2, NowRequest, Working
<1>4. Now(w).as \in {"CHAIN_VERIFIED", "STALE"}
  BY <1>2, Working DEF Handling, Verifying, HandlerOps, VerifyStep
<1>5. Settled(r) /\ (r \in receipt \/ rec[r] \in Begun)
  BY <1>1, <1>2, VerifyFirst DEF Grounded, Freed
<1>6. \A s \in Requests : rec'[s] = IF s = r THEN Now(w).as ELSE rec[s]
  BY <1>2, <1>3, Found
<1>7. Keeps
  BY <1>2, <1>4, <1>6, StoreKeeps
<1>8. \A s \in Requests : Effect(s)
  BY <1>2, <1>4, <1>5, <1>6 DEF Effect, HasClaim
<1>9. \A s \in Requests : BegunStays(s)
  BY <1>7, <1>8, EffectsKeep
<1>10. Led(Grounded', Freed', q)
  BY <1>1, <1>2, <1>7, <1>9, VerifyFirst
<1>11. ~Handling(w)
  BY DEF Handling, Verifying, HandlerOps
<1>. QED  BY <1>2, <1>3, <1>7, <1>8, <1>10, <1>11, GoesOnFree

\* What a handler saves, and what it is at after that.
LEMMA HandlerSave ==
  ASSUME ShapeInv, WorkInv, NEW w \in Workers, task[w].todo # <<>>, Now(w).do = "save",
         Handling(w), NEW op, NEW r, NEW l, NEW q,
         op = task[w].op, r = task[w].id, l = Now(w).as, q = Rest(w)
  PROVE  \/ op = "build" /\ l = "BUILT" /\ rec[r] = "none" /\ q = <<>>
         \/ op = "reject" /\ l = "CLOSED" /\ q = <<>>
         \/ /\ op = "finalize" /\ l \in {"CLOSED", "STALE", "PREFLIGHT_VERIFIED"}
            /\ l = "PREFLIGHT_VERIFIED" /\ r \in Ordinary => HasClaim(r) \/ Excused(r)
            /\ q = <<>> \/ Head(q).do = "claim"
         \/ /\ op = "submit" /\ l \in After
            /\ r \in Ordinary => HasClaim(r) \/ Excused(r)
            /\ \/ l = "SUBMISSION_REJECTED" /\ Head(q).do = "release"
               \/ l = "CHAIN_VERIFIED" /\ Head(q).do = "receipt"
               \/ /\ l # "SUBMISSION_REJECTED"
                  /\ q = <<>> \/ Head(q).do \in {"broadcast", "prove"}
<1> DEFINE t == task[w].todo
<1>1. /\ r \in Requests /\ HandlerPhase(op, r, t) /\ Now(w) = Head(t) /\ q = Tail(t)
      /\ t \in HandlerQueues(op, r) /\ op \in HandlerOps
  BY HandlerFirst DEF Handling
<1>2. \A a : Save(r, a).as = a
  BY DEF Save, Write
<1>3. CASE op = "build"
  <2>1. t = <<Save(r, "BUILT")>> /\ rec[r] = "none"
    BY <1>1, <1>3 DEF HandlerQueues, HandlerPhase, BuildPhase
  <2>2. PICK a : a = Save(r, "BUILT")
    OBVIOUS
  <2>3. Now(w) = Save(r, "BUILT") /\ q = <<>>
    BY <1>1, <2>1, <2>2, Short
  <2>. QED  BY <1>2, <1>3, <2>1, <2>3
<1>4. CASE op = "reject"
  <2>1. t = <<Save(r, "CLOSED")>>
    BY <1>1, <1>4 DEF HandlerQueues
  <2>2. PICK a : a = Save(r, "CLOSED")
    OBVIOUS
  <2>3. Head(t) = a /\ Tail(t) = <<>>
    BY <2>1, <2>2, Short
  <2>. QED  BY <1>1, <1>2, <1>4, <2>2, <2>3
<1>5. CASE op = "finalize"
  <2>1. t \in FinalizeQueues(r) /\ FinalizePhase(r, t)
    BY <1>1, <1>5 DEF HandlerQueues, HandlerPhase
  <2>2. FinalizeHead(t, r) /\ (q = <<>> \/ Head(q).do = "claim")
    <3>1. Head(t).do = "save"
      BY <1>1
    <3>2. FinalizeHead(t, r)
      BY <2>1, FinalizeHeads
    <3>3. Tail(t) = <<>> \/ Head(Tail(t)).do = "claim"
      BY <1>1, <2>1, <3>1, FinalizeRest
    <3>. QED  BY <1>1, <3>2, <3>3
  <2>3. l \in {"CLOSED", "STALE", "PREFLIGHT_VERIFIED"}
    BY <1>1, <2>2 DEF FinalizeHead, Do, Write
  <2>. QED  BY <1>1, <1>5, <2>1, <2>2, <2>3 DEF FinalizePhase, Signing
<1>6. CASE op = "submit"
  <2>1. t \in SubmitQueues(r) /\ SubmitPhase(r, t)
    BY <1>1, <1>6 DEF HandlerQueues, HandlerPhase
  <2>2. l \in After
    <3>1. SubmitHead(t, r)
      BY <2>1, SubmitHeads
    <3>. QED  BY <1>1, <3>1 DEF SubmitHead, Do, Write, ArmSteps
  <2>3. r \in Ordinary => HasClaim(r) \/ Excused(r)
    BY <1>1, <2>1 DEF SubmitPhase, Letting
  <2>. QED  BY <1>1, <1>6, <2>1, <2>2, <2>3, SubmitRest
<1>. QED  BY <1>1, <1>3, <1>4, <1>5, <1>6 DEF HandlerOps

\* A label is saved, by a handler in its phase or by Verify with a reason.
LEMMA SaveWork ==
  ASSUME ShapeInv, WorkInv, NEW w \in Workers, DoSave(w)
  PROVE  WorkInv'
<1>1. PICK op, r, l, q : op = task[w].op /\ r = task[w].id /\ l = Now(w).as /\ q = Rest(w)
  OBVIOUS
<1>2. /\ task[w].todo # <<>> /\ Now(w).do = "save" /\ Then(w, q)
      /\ rec' = [rec EXCEPT ![Now(w).id] = l]
      /\ UNCHANGED <<chain, deep, sent, manifest, out, tclaim, receipt, aborts>>
  BY <1>1 DEF DoSave, Doing, Now, node
<1> SUFFICES ASSUME Handling(w) PROVE WorkInv'
  BY <1>2, VerifySaves, Working
<1>3. /\ Now(w).id = r /\ r \in Requests /\ q \in Seq(Step)
      /\ HandlerPhase(op, r, task[w].todo) /\ ClaimedRight(r)
      /\ Now(w) = Head(task[w].todo)
  BY <1>1, <1>2, HandlerFirst, Working
<1>4. \/ op = "build" /\ l = "BUILT" /\ rec[r] = "none" /\ q = <<>>
      \/ op = "reject" /\ l = "CLOSED" /\ q = <<>>
      \/ /\ op = "finalize" /\ l \in {"CLOSED", "STALE", "PREFLIGHT_VERIFIED"}
         /\ l = "PREFLIGHT_VERIFIED" /\ r \in Ordinary => HasClaim(r) \/ Excused(r)
         /\ q = <<>> \/ Head(q).do = "claim"
      \/ /\ op = "submit" /\ l \in After
         /\ r \in Ordinary => HasClaim(r) \/ Excused(r)
         /\ \/ l = "SUBMISSION_REJECTED" /\ Head(q).do = "release"
            \/ l = "CHAIN_VERIFIED" /\ Head(q).do = "receipt"
            \/ /\ l # "SUBMISSION_REJECTED"
               /\ q = <<>> \/ Head(q).do \in {"broadcast", "prove"}
  BY <1>1, <1>2, HandlerSave
<1>5. /\ "BUILT" \notin InFlight /\ "CLOSED" \notin InFlight /\ "STALE" \notin InFlight
      /\ {"CLOSED", "STALE", "PREFLIGHT_VERIFIED"} \subseteq Begun /\ After \subseteq Begun
      /\ "none" \notin Begun
  BY DEF InFlight, Begun, After, Labels, SignedOrRejected
<1>6. \A s \in Requests : rec'[s] = IF s = r THEN l ELSE rec[s]
  BY <1>2, <1>3, Found
<1>7. l # "none"
  BY <1>4, <1>5
<1>8. Keeps
  BY <1>2, <1>3, <1>6, <1>7, StoreKeeps
<1>10. \A s \in Requests : s # r => Effect(s)
  BY <1>2, <1>6 DEF Effect, HasClaim
<1>11. /\ r \in receipt => Settled(r)
       /\ rec[r] = "SUBMISSION_REJECTED" => Settled(r)
  <2>1. ~Letting(task[w].todo)
    BY <1>2, <1>3 DEF Letting
  <2>. QED  BY <1>3, <2>1 DEF HandlerPhase
<1>12. rec'[r] = l /\ receipt' = receipt
  BY <1>2, <1>3, <1>6
<1>14. \A s \in Requests : BegunStays(s)
  <2>1. BegunStays(r)
    <3>1. rec[r] \in Begun => rec'[r] \in Begun
      BY <1>4, <1>5, <1>12
    <3>2. Settled(r) => Settled(r)'
      BY <1>3, <1>8, SettledStays
    <3>. QED  BY <1>11, <3>1, <3>2 DEF BegunStays
  <2>. QED  BY <1>8, <1>10, <2>1, EffectStays
<1>9. /\ Settled(r) => Settled(r)'
      /\ HasClaim(r)' <=> HasClaim(r)
      /\ Excused(r) => Excused(r)'
  BY <1>2, <1>3, <1>8, <1>14, SettledStays, EvidenceStays DEF HasClaim
<1>13. ClaimedRight(r)'
  <2>1. r \in receipt' => Settled(r)'
    BY <1>9, <1>11, <1>12
  <2>2. r \in Ordinary /\ rec'[r] \in InFlight => HasClaim(r)' \/ Excused(r)'
    BY <1>4, <1>5, <1>9, <1>12
  <2>. QED  BY <2>1, <2>2 DEF ClaimedRight
<1>15. \A s \in Requests : ClaimedRight(s)' /\ BegunStays(s)
  BY <1>8, <1>10, <1>13, <1>14, EffectKeeps DEF WorkInv
<1>16. ASSUME q # <<>> PROVE HandlerPhase(op, r, q)'
  <2>1. r \in receipt' => Settled(r)'
    BY <1>9, <1>11, <1>12
  <2>2. CASE op = "finalize"
    <3>1. FinalizePhase(r, q)'
      BY <1>4, <1>16, <2>2 DEF FinalizePhase, Signing
    <3>2. rec'[r] # "SUBMISSION_REJECTED"
      BY <1>4, <1>12, <2>2
    <3>. QED  BY <2>1, <2>2, <3>1, <3>2 DEF HandlerPhase
  <2>3. CASE op = "submit"
    <3>1. SubmitPhase(r, q)'
      BY <1>4, <1>9, <1>12, <1>16, <2>3 DEF SubmitPhase, Letting
    <3>2. rec'[r] = "SUBMISSION_REJECTED" => Letting(q)
      BY <1>4, <1>12, <2>3 DEF Letting
    <3>. QED  BY <2>1, <2>3, <3>1, <3>2 DEF HandlerPhase
  <2>. QED  BY <1>4, <1>16, <2>2, <2>3
<1>17. ~Verifying(w)
  BY DEF Handling, Verifying, HandlerOps
<1>. QED  BY <1>1, <1>2, <1>3, <1>8, <1>10, <1>15, <1>16, <1>17, GoesOn

\* A handler that starts is the only one of its request.
LEMMA BeginWork ==
  ASSUME ShapeInv, WorkInv, OneHandler = TRUE, NEW w \in Workers, NEW op \in HandlerOps,
         NEW r \in Requests, NEW q \in HandlerQueues(op, r), Begin(w, op, r, q), Keeps,
         \A s \in Requests : ClaimedRight(s)' /\ BegunStays(s),
         \A s \in Requests : s # r => Effect(s),
         HandlerPhase(op, r, q)'
  PROVE  WorkInv'
<1>1. /\ task'[w] = [op |-> op, id |-> r, todo |-> q]
      /\ \A v \in Workers \ {w} : task'[v] = task[v]
  BY BeginTask DEF ShapeInv
<1>2. \A v \in Workers : task[v].id # r
  BY DEF Begin
<1>3. task'[w].op = op /\ task'[w].id = r /\ task'[w].todo = q
  BY <1>1
<1>4. Phase(w)' /\ FoundedTask(w)'
  BY <1>3 DEF Phase, FoundedTask, HandlerOps
<1>5. HandlerInv'
  BY <1>1, <1>2, <1>3 DEF WorkInv, HandlerInv
<1>. QED  BY <1>1, <1>2, <1>4, <1>5, WorkStep

\* The same, when the store stays as it is.
LEMMA StartWork ==
  ASSUME ShapeInv, WorkInv, OneHandler = TRUE, NEW w \in Workers, NEW op \in HandlerOps,
         NEW r \in Requests, NEW q \in HandlerQueues(op, r), Begin(w, op, r, q),
         UNCHANGED <<node, store, aborts>>, rec[r] \in {"BUILT", "PREFLIGHT_VERIFIED"},
         op = "finalize" => FinalizePhase(r, q)',
         op = "submit" => SubmitPhase(r, q)',
         op # "build"
  PROVE  WorkInv'
<1>1. UNCHANGED <<chain, deep, sent, manifest, rec, out, tclaim, receipt, aborts>>
  BY DEF node, store
<1>2. Keeps
  BY <1>1, StoreKeeps
<1>3. \A s \in Requests : Effect(s)
  BY <1>1 DEF Effect, HasClaim
<1>4. \A s \in Requests : ClaimedRight(s)' /\ BegunStays(s)
  BY <1>2, <1>3, EffectsKeep
<1>5. r \in receipt' => Settled(r)'
  BY <1>1, <1>4 DEF ClaimedRight
<1>6. HandlerPhase(op, r, q)'
  BY <1>1, <1>5 DEF HandlerPhase
<1>. QED  BY <1>2, <1>3, <1>4, <1>6, BeginWork

\* A build starts, for a request nothing is recorded of.
LEMMA BuildWork ==
  ASSUME ShapeInv, WorkInv, OneHandler = TRUE, NEW w \in Workers, NEW r \in Requests, Build(w, r)
  PROVE  WorkInv'
<1>1. PICK q : q = <<Save(r, "BUILT")>>
  OBVIOUS
<1>2. /\ rec[r] = "none" /\ Begin(w, "build", r, q) /\ out' = [out EXCEPT ![r] = manifest.live]
      /\ UNCHANGED <<chain, deep, sent, manifest, rec, tclaim, receipt, aborts>>
  BY <1>1 DEF Build, node
<1>3. "build" \in HandlerOps /\ q \in HandlerQueues("build", r)
  BY <1>1 DEF HandlerOps, HandlerQueues
<1>4. \A s \in Requests : s # r => out'[s] = out[s]
  BY <1>2, Found
<1>5. Keeps
  BY <1>2, <1>4, StoreKeeps
<1>6. \A s \in Requests : s # r => Effect(s)
  BY <1>2, <1>4 DEF Effect, HasClaim
<1>7. r \notin receipt
  BY <1>2 DEF WorkInv, ClaimedRight, Settled
<1>8. ClaimedRight(r)' /\ BegunStays(r)
  BY <1>2, <1>7 DEF ClaimedRight, BegunStays, InFlight, Begun
<1>11. \A s \in Requests : BegunStays(s)
  BY <1>5, <1>6, <1>8, EffectStays
<1>9. \A s \in Requests : ClaimedRight(s)' /\ BegunStays(s)
  BY <1>5, <1>6, <1>8, <1>11, EffectKeeps DEF WorkInv
<1>10. HandlerPhase("build", r, q)'
  BY <1>2, <1>7 DEF HandlerPhase, BuildPhase
<1>. QED  BY <1>2, <1>3, <1>5, <1>6, <1>9, <1>10, BeginWork

\* A reject starts, for a request without signed bytes.
LEMMA RejectWork ==
  ASSUME ShapeInv, WorkInv, OneHandler = TRUE, NEW w \in Workers, NEW r \in Requests,
         Reject(w, r)
  PROVE  WorkInv'
<1>1. PICK q : q = <<Save(r, "CLOSED")>>
  OBVIOUS
<1>2. rec[r] = "BUILT" /\ Begin(w, "reject", r, q) /\ UNCHANGED <<node, store, aborts>>
  BY <1>1 DEF Reject
<1>3. "reject" \in HandlerOps /\ q \in HandlerQueues("reject", r)
  BY <1>1 DEF HandlerOps, HandlerQueues
<1>. QED  BY <1>2, <1>3, StartWork

\* A finalize starts.
LEMMA FinalizeWork ==
  ASSUME ShapeInv, WorkInv, OneHandler = TRUE, NEW w \in Workers, NEW r \in Requests,
         Finalize(w, r)
  PROVE  WorkInv'
<1>1. PICK q \in {Close(r, "STALE"), Close(r, "CLOSED"), Finalization(r)} :
        Begin(w, "finalize", r, q)
  BY DEF Finalize
<1>2. rec[r] = "BUILT" /\ UNCHANGED <<node, store, aborts>>
  BY DEF Finalize
<1>3. "finalize" \in HandlerOps /\ HandlerQueues("finalize", r) = FinalizeQueues(r)
  BY DEF HandlerOps, HandlerQueues
<1>4. q \in FinalizeQueues(r)
  BY <1>1 DEF FinalizeQueues, VerdictQueues, OrdinaryQueues, BreakGlassQueues, Close, Finalization
<1>5. /\ Head(q).do # "save"
      /\ r \in Ordinary /\ Head(q).do = "reread" => Head(Tail(q)).as # "PREFLIGHT_VERIFIED"
  <2>1. /\ Do("reread", r).do = "reread" /\ Do("claim", r).do = "claim"
        /\ \A l : Save(r, l).as = l
    BY DEF Do, Save, Write
  <2>2. CASE q = Close(r, "STALE") \/ q = Close(r, "CLOSED")
    <3>1. PICK l \in {"STALE", "CLOSED"} : q = <<Do("reread", r), Save(r, l)>>
      BY <2>2 DEF Close
    <3>2. PICK a, b : a = Do("reread", r) /\ b = Save(r, l)
      OBVIOUS
    <3>3. Head(q) = a /\ Head(Tail(q)) = b
      BY <3>1, <3>2, Short
    <3>4. a.do = "reread" /\ b.as = l
      BY <2>1, <3>2
    <3>. QED  BY <3>3, <3>4
  <2>3. CASE q = Finalization(r) /\ r \in Ordinary
    BY <2>1, <2>3, Short DEF Finalization, Ordinary
  <2>4. CASE q = Finalization(r) /\ r \notin Ordinary
    BY <2>1, <2>4, Short DEF Finalization, Ordinary
  <2>. QED  BY <1>1, <2>2, <2>3, <2>4
<1>6. FinalizePhase(r, q)'
  <2>1. r \in Ordinary => ~Signing(q)
    BY <1>5 DEF Signing
  <2>. QED  BY <2>1 DEF FinalizePhase
<1>. QED  BY <1>1, <1>2, <1>3, <1>4, <1>6, StartWork

\* A submit starts.
LEMMA SubmitWork ==
  ASSUME ShapeInv, WorkInv, OneHandler = TRUE, NEW w \in Workers, NEW r \in Requests,
         Submit(w, r)
  PROVE  WorkInv'
<1>1. /\ rec[r] = "PREFLIGHT_VERIFIED" /\ r \notin receipt
      /\ UNCHANGED <<node, store, aborts>>
  BY DEF Submit, Admissible
<1>2. PICK q \in {<<Save(r, "STALE")>>, <<Write("arm", r, "own")>>,
                  <<Write("arm", r, "missing")>>, <<Write("arm", r, "foreign")>>} :
        Begin(w, "submit", r, q)
  BY DEF Submit
<1>3. "submit" \in HandlerOps /\ q \in HandlerQueues("submit", r)
  BY <1>2 DEF HandlerOps, HandlerQueues, SubmitQueues, ArmQueues, ArmSteps, Holds
<1>4. Head(q).do \in {"save", "arm"}
  <2>1. Save(r, "STALE").do = "save" /\ \A m : Write("arm", r, m).do = "arm"
    BY DEF Save, Write
  <2>. QED  BY <1>2, <2>1, Short
<1>5. r \in Ordinary => HasClaim(r) \/ Excused(r)
  BY <1>1 DEF WorkInv, ClaimedRight, InFlight
<1>6. r \in Ordinary => HasClaim(r)' \/ Excused(r)'
  BY <1>1, <1>5 DEF HasClaim, Excused, Evidence, SpentDeep, Spends1, Spent, Deep, store, node
<1>7. SubmitPhase(r, q)'
  BY <1>4, <1>6 DEF SubmitPhase, Letting
<1>. QED  BY <1>1, <1>2, <1>3, <1>7, StartWork

\* The queues Verify may plan.
LedQueues == {q \in Seq(Step) : Led(Grounded, Freed, q)}

\* One founded step that needs no receipt.
LEMMA LedOne ==
  ASSUME NEW e \in Step, e \in Grounded, e \in Freed
  PROVE  <<e>> \in LedQueues
BY DEF LedQueues, Led

\* Every part of the plan is founded: what is planned was read deep.
LEMMA LedParts ==
  ASSUME ShapeInv, WorkInv
  PROVE  PlanParts(LedQueues) /\ <<Do("adopt", Outside)>> \in LedQueues
<1>1. Joinable(LedQueues)
  <2>1. <<>> \in LedQueues
    BY DEF LedQueues, Led
  <2>2. ASSUME NEW a \in LedQueues, NEW b \in LedQueues PROVE a \o b \in LedQueues
    BY LedJoin DEF LedQueues
  <2>. QED  BY <2>1, <2>2 DEF Joinable
<1>2. ASSUME NEW r \in Requests, Settled(r) PROVE Complete(r) \in LedQueues
  <2> DEFINE a == Do("receipt", r)
             b == Do("release", r)
             c == Save(r, "CHAIN_VERIFIED")
  <2>1. /\ a \in Step /\ a.do = "receipt" /\ a.id = r
        /\ b \in Step /\ b.do = "release" /\ b.id = r
        /\ c \in Step /\ c.do = "save" /\ c.id = r
    BY Names, StepType DEF Labels, SignedOrRejected, Do, Save, Write
  <2>2. a \in Grounded /\ a \in Freed /\ b \in Grounded /\ c \in Grounded
    <3> HIDE DEF a, b, c
    <3>. QED  BY <1>2, <2>1 DEF Grounded, Freed
  <2>3. PICK q : q = <<a, b, c>>
    OBVIOUS
  <2>4. q \in Seq(Step) /\ Len(q) = 3 /\ q[1] = a /\ q[2] = b /\ q[3] = c
    <3> HIDE DEF a, b, c
    <3>. QED  BY <2>1, <2>3
  <2>5. ASSUME NEW i \in 1..Len(q)
        PROVE  q[i] \in Grounded
                 /\ (q[i] \in Freed \/ \E j \in 1..(i - 1) : q[j] = Do("receipt", q[i].id))
    <3>1. i = 1 \/ i = 2 \/ i = 3
      BY <2>4
    <3>2. i # 1 => 1 \in 1..(i - 1) /\ q[1] = Do("receipt", r)
      BY <2>4
    <3> HIDE DEF a, b, c
    <3>. QED  BY <2>1, <2>2, <2>4, <3>1, <3>2
  <2>6. Complete(r) = q
    BY <2>3 DEF Complete
  <2>. QED  BY <2>4, <2>5, <2>6 DEF LedQueues, Led
<1>3. ASSUME NEW r \in Requests, Deep(r) \/ r \in Finishable
      PROVE  Complete(r) \in LedQueues
  <2>1. Deep(r) => Settled(r)
    BY DeepSpends DEF ShapeInv
  <2>2. r \in Finishable => Settled(r)
    BY DEF Finishable, WorkInv, ClaimedRight
  <2>. QED  BY <1>2, <1>3, <2>1, <2>2
<1>4. ASSUME NEW r \in Requests, Deep(r)
      PROVE  <<Do("receipt", r)>> \in LedQueues /\ <<Do("advance", r)>> \in LedQueues
  <2>1. Settled(r)
    BY <1>4, DeepSpends DEF ShapeInv
  <2>2. PICK a, b : a = Do("receipt", r) /\ b = Do("advance", r)
    OBVIOUS
  <2>3. /\ a \in Step /\ a.do = "receipt" /\ a.id = r
        /\ b \in Step /\ b.do = "advance"
    BY <2>2, Names, StepType DEF Do, Write
  <2>4. a \in Grounded /\ a \in Freed /\ b \in Grounded /\ b \in Freed
    BY <2>1, <2>3 DEF Grounded, Freed
  <2>. QED  BY <2>2, <2>3, <2>4, LedOne
<1>5. ASSUME NEW r \in Requests, Pending(r), SpentDeep(out[r])
      PROVE  <<Write("settle", r, rec[r])>> \in LedQueues
  <2>1. rec[r] \in InFlight \cup {"CHAIN_VERIFIED"}
    BY <1>5 DEF Pending
  <2>2. Settled(r)
    BY <1>5, <2>1 DEF Settled, InFlight
  <2>3. PICK a : a = Write("settle", r, rec[r])
    OBVIOUS
  <2>4. r \in Outpoints /\ rec[r] \in Marks
    BY Names, Found DEF Marks
  <2>5. a \in Step /\ a.do = "settle" /\ a.id = r /\ a.as = rec[r]
    BY <2>3, <2>4, StepType DEF Write
  <2>6. a \in Grounded /\ a \in Freed
    BY <2>1, <2>2, <2>5 DEF Grounded, Freed
  <2>. QED  BY <2>3, <2>5, <2>6, LedOne
<1>6. ASSUME NEW o \in Outpoints, NEW d \in {"leftover", "adopt"}
      PROVE  <<Do(d, o)>> \in LedQueues
  <2>1. PICK a : a = Do(d, o)
    OBVIOUS
  <2>2. a \in Step /\ a.do = d
    BY <2>1, StepType DEF Do, Write
  <2>3. a \in Grounded /\ a \in Freed
    BY <2>2 DEF Grounded, Freed
  <2>. QED  BY <2>1, <2>2, <2>3, LedOne
<1>7. <<Do("adopt", Outside)>> \in LedQueues
  BY <1>6, Names
<1>8. ASSUME NEW r \in Winners PROVE Completion(r) \in LedQueues
  <2>1. r \in Requests /\ Deep(r) /\ SpentDeep(manifest.live)
    BY DEF Winners, SpentDeep
  <2>2. \A q \in PendingOn(manifest.live) :
          q \in Requests /\ Pending(q) /\ SpentDeep(out[q])
    BY <2>1 DEF PendingOn
  <2>. QED  BY <1>1, <1>3, <1>4, <1>5, <2>1, <2>2, CompletionIn
<1>9. ASSUME NEW t \in Requests, Deep(t), NEW r \in PendingOn(out[t]) \ {t}
      PROVE  <<Write("settle", r, rec[r])>> \in LedQueues
  <2>1. SpentDeep(out[t])
    BY <1>9, DeepSpends DEF ShapeInv
  <2>. QED  BY <1>5, <2>1 DEF PendingOn
<1>. QED  BY <1>1, <1>3, <1>6, <1>7, <1>8, <1>9 DEF PlanParts

\* A Verify starts, with a founded plan.
LEMMA VerifyWork ==
  ASSUME ShapeInv, WorkInv, NEW w \in Workers, Verify(w)
  PROVE  WorkInv'
<1>1. PICK q : q = Plan
  OBVIOUS
<1>2. Led(Grounded, Freed, q)
  BY <1>1, LedParts, PlanIn DEF LedQueues
<1>3. /\ task' = [task EXCEPT ![w] = [op |-> "verify", id |-> None, todo |-> q]]
      /\ UNCHANGED <<chain, deep, sent, manifest, rec, out, tclaim, receipt, aborts>>
  BY <1>1 DEF Verify, node, store
<1>4. Keeps
  BY <1>3, StoreKeeps
<1>5. \A s \in Requests : Effect(s)
  BY <1>3 DEF Effect, HasClaim
<1>6. \A s \in Requests : ClaimedRight(s)' /\ BegunStays(s)
  BY <1>4, <1>5, EffectsKeep
<1>7. task \in [Workers -> [op: Ops, id: Requests \cup {None}, todo: Seq(Step)]]
  BY DEF ShapeInv, TypeInv
<1>8. /\ task'[w].op = "verify" /\ task'[w].todo = q
      /\ \A v \in Workers \ {w} : task'[v] = task[v]
  BY <1>3, <1>7
<1>9. Led(Grounded', Freed', q)
  BY <1>2, <1>4, <1>6, GroundStays, LedStays
<1>10. Phase(w)' /\ FoundedTask(w)'
  BY <1>8, <1>9 DEF Phase, FoundedTask, HandlerOps
<1>11. HandlerInv'
  BY <1>8 DEF WorkInv, HandlerInv, HandlerOps
<1>. QED  BY <1>4, <1>5, <1>6, <1>8, <1>10, <1>11, WorkStep

\* A step that leaves the store and the tasks alone.
LEMMA StillWork ==
  ASSUME ShapeInv, WorkInv, Keeps, UNCHANGED <<rec, out, tclaim, receipt, task>>
  PROVE  WorkInv'
<1>1. \A s \in Requests : Effect(s)
  BY DEF Effect, HasClaim
<1>2. \A s \in Requests : ClaimedRight(s)' /\ BegunStays(s)
  BY <1>1, EffectsKeep
<1>3. HandlerInv'
  BY DEF WorkInv, HandlerInv
<1>. QED  BY <1>1, <1>2, <1>3, WorkStep

\* The chain moves: what was deep is still deep.
LEMMA ChainWork ==
  ASSUME ShapeInv, WorkInv,
         (\E r \in Requests : Accept(r)) \/ AcceptOutside \/ Bury \/ Reorg
  PROVE  WorkInv'
<1>1. chain \in Seq(Transactions) /\ deep \in 0..Len(chain)
  BY DEF ShapeInv, TypeInv
<1>2. UNCHANGED <<manifest, rec, out, tclaim, receipt, task>>
  BY DEF Accept, AcceptOutside, Bury, Reorg, store
<1>3. /\ deep' \in Nat /\ deep <= deep' /\ deep' <= Len(chain')
      /\ \A i \in 1..deep : chain'[i] = chain[i]
  <2>1. CASE \E t : chain' = Append(chain, t) /\ deep' = deep
    BY <1>1, <2>1
  <2>2. CASE Bury
    BY <1>1, <2>2 DEF Bury
  <2>3. CASE Reorg
    <3>1. PICK n \in deep..(Len(chain) - 1) : chain' = SubSeq(chain, 1, n)
      BY <2>3 DEF Reorg
    <3>2. n \in Nat /\ n <= Len(chain) /\ deep <= n /\ deep' = deep
      BY <1>1, <2>3, <3>1 DEF Reorg
    <3>. QED  BY <1>1, <3>1, <3>2
  <2>. QED  BY <2>1, <2>2, <2>3 DEF Accept, AcceptOutside
<1>4. \A o : SpentDeep(o) => SpentDeep(o)'
  BY <1>3, DeepStays DEF ShapeInv
<1>5. Keeps
  BY <1>2, <1>4 DEF Keeps
<1>. QED  BY <1>2, <1>5, StillWork

\* A handler stops: nothing it would have written is claimed to be there.
LEMMA AbortWork ==
  ASSUME ShapeInv, WorkInv, NEW w \in Workers, Abort(w)
  PROVE  WorkInv'
<1>1. /\ task' = [task EXCEPT ![w] = Idle]
      /\ UNCHANGED <<chain, deep, sent, manifest, rec, out, tclaim, receipt>>
  BY DEF Abort, node, store
<1>2. Keeps
  BY <1>1, StoreKeeps
<1>3. \A s \in Requests : Effect(s)
  BY <1>1 DEF Effect, HasClaim
<1>4. \A s \in Requests : ClaimedRight(s)' /\ BegunStays(s)
  BY <1>2, <1>3, EffectsKeep
<1>5. task'[w] = Idle /\ \A v \in Workers \ {w} : task'[v] = task[v]
  BY <1>1 DEF ShapeInv, TypeInv
<1>6. Phase(w)' /\ FoundedTask(w)'
  BY <1>5 DEF Phase, FoundedTask, Idle, HandlerOps
<1>7. HandlerInv'
  BY <1>5 DEF WorkInv, HandlerInv, Idle, HandlerOps
<1>. QED  BY <1>2, <1>3, <1>4, <1>5, <1>6, <1>7, WorkStep

\* Initially no request is recorded and none is worked on.
LEMMA WorkInit == Init => WorkInv
<1> SUFFICES ASSUME Init PROVE WorkInv
  OBVIOUS
<1>1. HandlerInv
  BY DEF Init, HandlerInv, Idle, HandlerOps
<1>2. \A r \in Requests : ClaimedRight(r)
  BY DEF Init, ClaimedRight, InFlight
<1>3. \A w \in Workers : Phase(w) /\ FoundedTask(w)
  BY DEF Init, Phase, FoundedTask, Idle, HandlerOps
<1>. QED  BY <1>1, <1>2, <1>3 DEF WorkInv

\* Every step keeps WorkInv.
LEMMA WorkNext ==
  ASSUME OneHandler = TRUE
  PROVE  ShapeInv /\ WorkInv /\ [Next]_vars => WorkInv'
<1> SUFFICES ASSUME ShapeInv, WorkInv, [Next]_vars PROVE WorkInv'
  OBVIOUS
<1>1. CASE (\E r \in Requests : Accept(r)) \/ AcceptOutside \/ Bury \/ Reorg
  BY <1>1, ChainWork
<1>2. ASSUME NEW w \in Workers, Start(w) PROVE WorkInv'
  BY <1>2, BuildWork, RejectWork, FinalizeWork, SubmitWork DEF Start
<1>3. ASSUME NEW w \in Workers, Verify(w) PROVE WorkInv'
  BY <1>3, VerifyWork
<1>4. ASSUME NEW w \in Workers, Perform(w) PROVE WorkInv'
  <2>1. CASE DoSave(w) \/ DoReread(w) \/ DoClaim(w)
    BY <2>1, SaveWork, RereadWork, ClaimWork
  <2>4. CASE DoArm(w) \/ DoHold(w) \/ DoContest(w)
    BY <2>4, ArmWork
  <2>2. CASE DoBroadcast(w) \/ DoProve(w) \/ DoAdvance(w) \/ DoAdopt(w) \/ DoReceipt(w)
    BY <2>2, BroadcastWork, ProveWork, AdvanceWork, ReceiptWork
  <2>3. CASE DoRelease(w) \/ DoRemove(w) \/ DoSettle(w) \/ DoLeftover(w)
    BY <2>3, ReleaseWork, RemoveWork, SettleWork, LeftoverWork
  <2>. QED  BY <1>4, <2>1, <2>2, <2>3, <2>4 DEF Perform
<1>5. ASSUME NEW w \in Workers, Abort(w) PROVE WorkInv'
  BY <1>5, AbortWork
<1>6. CASE UNCHANGED vars
  <2>1. UNCHANGED <<chain, deep, manifest, rec, out, tclaim, receipt, task>>
    BY <1>6 DEF vars
  <2>2. Keeps
    BY <2>1, StoreKeeps
  <2>. QED  BY <2>1, <2>2, StillWork
<1>. QED  BY <1>1, <1>2, <1>3, <1>4, <1>5, <1>6 DEF Next

\* WorkInv holds when a request has one handler at a time, which its own
\* reservation of a request id and the state of its record are for.
THEOREM WorkAlways ==
  ASSUME OneHandler = TRUE
  PROVE  Spec => []WorkInv
<1>1. ShapeInv /\ WorkInv /\ [Next]_vars => WorkInv'
  BY WorkNext
<1>. QED  BY <1>1, WorkInit, ShapeAlways, PTL DEF Spec

\* An armed ordinary request holds the claim on its outpoint until a claim on
\* it could be released, whoever crashes, verifies or removes a claim late.
THEOREM ClaimHeld ==
  ASSUME OneHandler = TRUE
  PROVE  Spec => []ArmedHoldsClaim
<1>1. WorkInv => ArmedHoldsClaim
  <2> SUFFICES ASSUME WorkInv, NEW r \in Requests \ BreakGlass,
                      rec[r] = "PREFLIGHT_VERIFIED"
               PROVE  tclaim[out[r]] = r \/ Evidence(out[r])
    BY DEF ArmedHoldsClaim
  <2>. QED  BY DEF WorkInv, ClaimedRight, HasClaim, Excused, Ordinary, InFlight
<1>. QED  BY <1>1, WorkAlways, PTL

\* Two ordinary requests of one outpoint are in flight together only when a
\* claim on it could be released: each holds the one claim, or that excuses it.
THEOREM OneAtWork ==
  ASSUME OneHandler = TRUE
  PROVE  Spec => []OneOrdinaryAtWork
<1>1. WorkInv => OneOrdinaryAtWork
  <2> SUFFICES ASSUME WorkInv,
                      NEW q \in {s \in Requests \ BreakGlass : rec[s] \in InFlight},
                      NEW r \in {s \in Requests \ BreakGlass : rec[s] \in InFlight},
                      out[q] = out[r], ~Evidence(out[r])
               PROVE  q = r
    BY DEF OneOrdinaryAtWork
  <2>1. HasClaim(q) /\ HasClaim(r)
    BY DEF WorkInv, ClaimedRight, Ordinary, Excused
  <2>. QED  BY <2>1 DEF HasClaim
<1>. QED  BY <1>1, WorkAlways, PTL

\* Only the removal of a claim takes it from its holder.
LEMMA ClaimLost ==
  ASSUME ShapeInv, [Next]_vars, NEW o \in Outpoints, tclaim[o] # None, tclaim'[o] # tclaim[o]
  PROVE  \E w \in Workers : DoRemove(w) /\ out[Now(w).id] = o
<1>1. tclaim \in [Outpoints -> Requests \cup {None}]
  BY Found
<1>2. tclaim' # tclaim
  OBVIOUS
<1>3. PICK w \in Workers : DoClaim(w) \/ DoHold(w) \/ DoRemove(w)
  BY ZenonT(20), <1>2 DEF Next, vars, Accept, AcceptOutside, Bury, Reorg, Start, Verify, Perform, Abort,
              Build, Reject, Finalize, Submit, DoSave, DoReread, DoArm, DoContest, DoBroadcast,
              DoProve, DoAdvance, DoReceipt, DoRelease, DoSettle, DoAdopt, DoLeftover, store,
              Taken, Uncertain, Rejected
<1>4. CASE DoClaim(w)
  BY <1>1, <1>4 DEF DoClaim, ClaimedByOther
<1>5. CASE DoHold(w)
  BY <1>1, <1>5 DEF DoHold, ClaimedByOther
<1>6. CASE DoRemove(w)
  BY <1>1, <1>6 DEF DoRemove
<1>. QED  BY <1>3, <1>4, <1>5, <1>6

\* A claim leaves its holder when the node rejected a request of the outpoint,
\* or a deep transaction spends it: the reason of the handler that removes it
\* still stands, also when the holder has changed since it looked.
THEOREM ClaimReleasedRight ==
  ASSUME OneHandler = TRUE
  PROVE  Spec => ReleasedOnEvidence
<1> DEFINE Evident ==
      \A o \in Outpoints : tclaim[o] # None /\ tclaim'[o] # tclaim[o] => Evidence(o)
<1>1. ShapeInv /\ WorkInv /\ [Next]_vars => [Evident]_vars
  <2> SUFFICES ASSUME ShapeInv, WorkInv, [Next]_vars, NEW o \in Outpoints,
                      tclaim[o] # None, tclaim'[o] # tclaim[o]
               PROVE  Evidence(o)
    OBVIOUS
  <2>1. PICK w \in Workers : DoRemove(w) /\ out[Now(w).id] = o
    BY ClaimLost
  <2>2. task[w].todo # <<>> /\ Now(w).do = "remove"
    BY <2>1 DEF DoRemove, Doing, Now
  <2>. QED  BY <2>1, <2>2, LettingWhy
<1>. QED  BY <1>1, ShapeAlways, WorkAlways, PTL DEF Spec, ReleasedOnEvidence

-----------------------------------------------------------------------------
\* What a step of any kind moves.

\* A worker goes on with its task, or ends it; the others do nothing.
TaskKept(w) ==
  /\ \A v \in Workers \ {w} : task'[v] = task[v]
  /\ task'[w] = Idle \/ (task'[w].op = task[w].op /\ task'[w].id = task[w].id)

\* Every step of a task goes on with a queue.
LEMMA GoesKept ==
  ASSUME TypeInv, NEW w \in Workers, NEW q, Then(w, q)
  PROVE  TaskKept(w)
BY DEF TypeInv, Then, TaskKept

\* So does every step of a handler or of Verify, and a stop.
LEMMA PerformKept ==
  ASSUME TypeInv, NEW w \in Workers, Perform(w) \/ Abort(w)
  PROVE  TaskKept(w)
<1>1. CASE Abort(w)
  BY <1>1 DEF Abort, TypeInv, TaskKept
<1>2. CASE DoBroadcast(w)
  <2>1. \E q : Then(w, q)
    BY <1>2, Zenon DEF DoBroadcast, Taken, Uncertain, Rejected
  <2>. QED  BY <2>1, GoesKept
<1>3. CASE DoSave(w) \/ DoReread(w) \/ DoClaim(w) \/ DoArm(w) \/ DoHold(w) \/ DoContest(w)
  <2>1. \E q : Then(w, q)
    BY <1>3, Zenon DEF DoSave, DoReread, DoClaim, DoArm, DoHold, DoContest
  <2>. QED  BY <2>1, GoesKept
<1>4. CASE DoProve(w) \/ DoAdvance(w) \/ DoReceipt(w) \/ DoRelease(w) \/ DoRemove(w)
             \/ DoSettle(w) \/ DoAdopt(w) \/ DoLeftover(w)
  <2>1. \E q : Then(w, q)
    BY <1>4, Zenon DEF DoProve, DoAdvance, DoReceipt, DoRelease, DoRemove, DoSettle, DoAdopt,
      DoLeftover
  <2>. QED  BY <2>1, GoesKept
<1>. QED  BY <1>1, <1>2, <1>3, <1>4 DEF Perform

\* A worker that performs a step has one to perform.
LEMMA PerformBusy ==
  ASSUME NEW w \in Workers, Perform(w)
  PROVE  task[w].todo # <<>>
BY DEF Perform, DoSave, DoReread, DoClaim, DoArm, DoHold, DoContest, DoBroadcast, DoProve,
  DoAdvance, DoReceipt, DoRelease, DoRemove, DoSettle, DoAdopt, DoLeftover, Doing

\* A task is moved by its own worker.
LEMMA TaskMoved ==
  ASSUME TypeInv, [Next]_vars, NEW w \in Workers, task'[w] # task[w]
  PROVE  Start(w) \/ Verify(w) \/ Perform(w) \/ Abort(w)
<1>1. task' # task
  OBVIOUS
<1>2. PICK v \in Workers : Start(v) \/ Verify(v) \/ Perform(v) \/ Abort(v)
  BY <1>1 DEF Next, vars, Accept, AcceptOutside, Bury, Reorg
<1>3. CASE Perform(v) \/ Abort(v)
  <2>1. \A u \in Workers \ {v} : task'[u] = task[u]
    BY <1>3, PerformKept DEF TaskKept
  <2>. QED  BY <1>2, <2>1
<1>4. CASE Start(v)
  <2>1. \E op, r, q : Begin(v, op, r, q)
    BY <1>4 DEF Start, Build, Reject, Finalize, Submit
  <2>2. \A u \in Workers \ {v} : task'[u] = task[u]
    BY <2>1 DEF Begin, TypeInv
  <2>. QED  BY <1>2, <2>2
<1>5. CASE Verify(v)
  <2>1. \A u \in Workers \ {v} : task'[u] = task[u]
    BY <1>5 DEF Verify, TypeInv
  <2>. QED  BY <1>2, <2>1
<1>. QED  BY <1>2, <1>3, <1>4, <1>5

\* The deep part of the chain stays, whatever step is made.
LEMMA DeepKept ==
  ASSUME ShapeInv, [Next]_vars
  PROVE  /\ \A t : Deep(t) => Deep(t)'
         /\ \A t \in Requests : \A o : DeepSpender(t, o) => DeepSpender(t, o)'
         /\ \A o : SpentDeep(o) => SpentDeep(o)'
<1>1. chain \in Seq(Transactions) /\ deep \in 0..Len(chain)
  BY DEF ShapeInv, TypeInv
<1>2. CASE UNCHANGED <<chain, deep>>
  BY <1>2 DEF Deep, DeepSpender, SpentDeep, Spends1, Spent
<1>3. CASE (\E r \in Requests : Accept(r)) \/ AcceptOutside \/ Bury \/ Reorg
  <2>1. /\ deep' \in Nat /\ deep <= deep' /\ deep' <= Len(chain')
        /\ \A i \in 1..deep : chain'[i] = chain[i]
    <3>1. CASE \E t : chain' = Append(chain, t) /\ deep' = deep
      BY <1>1, <3>1
    <3>2. CASE Bury
      BY <1>1, <3>2 DEF Bury
    <3>3. CASE Reorg
      <4>1. PICK n \in deep..(Len(chain) - 1) : chain' = SubSeq(chain, 1, n)
        BY <3>3 DEF Reorg
      <4>2. n \in Nat /\ n <= Len(chain) /\ deep <= n /\ deep' = deep
        BY <1>1, <3>3, <4>1 DEF Reorg
      <4>. QED  BY <1>1, <4>1, <4>2
    <3>. QED  BY <1>3, <3>1, <3>2, <3>3 DEF Accept, AcceptOutside
  <2>. QED  BY <2>1, DeepStays DEF ShapeInv
<1>4. ASSUME NEW w \in Workers, Start(w) \/ Verify(w) \/ Abort(w) PROVE UNCHANGED <<chain, deep>>
  BY <1>4 DEF Start, Verify, Abort, Build, Reject, Finalize, Submit, node
<1>5. ASSUME NEW w \in Workers, Perform(w) PROVE UNCHANGED <<chain, deep>>
  BY <1>5, Zenon DEF Perform, DoSave, DoReread, DoClaim, DoArm, DoHold, DoContest, DoBroadcast,
    DoProve, DoAdvance, DoReceipt, DoRelease, DoRemove, DoSettle, DoAdopt, DoLeftover, node
<1>6. CASE UNCHANGED vars
  BY <1>6, <1>2 DEF vars
<1>. QED  BY <1>2, <1>3, <1>4, <1>5, <1>6 DEF Next

\* Only a build says on which outpoint a request is.
LEMMA OutMoved ==
  ASSUME [Next]_vars, NEW r \in Requests, out'[r] # out[r], ShapeInv
  PROVE  \E w \in Workers : Build(w, r)
<1>1. out' # out
  OBVIOUS
<1>2. PICK w \in Workers, s \in Requests : Build(w, s)
  BY ZenonT(20), <1>1 DEF Next, vars, Accept, AcceptOutside, Bury, Reorg, Start, Verify, Perform, Abort,
              Reject, Finalize, Submit, DoSave, DoReread, DoClaim, DoArm, DoHold, DoContest,
              DoBroadcast, DoProve, DoAdvance, DoReceipt, DoRelease, DoRemove, DoSettle, DoAdopt,
              DoLeftover, store
<1>3. out \in [Requests -> Outpoints \cup {None}] /\ out' = [out EXCEPT ![s] = manifest.live]
  BY <1>2, Found DEF Build
<1>. QED  BY <1>2, <1>3

\* Who writes a record: its handler, or a Verify that knows it is settled, and
\* when it says that the request is stale, that another one won.
LEMMA RecordWritten ==
  ASSUME ShapeInv, WorkInv, [Next]_vars, NEW r \in Requests, rec'[r] # rec[r]
  PROVE  \/ \E w \in Workers : /\ DoSave(w) /\ Handling(w) /\ task[w].id = r
                               /\ rec' = [rec EXCEPT ![r] = Now(w).as]
         \/ /\ Settled(r) /\ rec'[r] \in {"CHAIN_VERIFIED", "STALE"}
            /\ rec'[r] = "STALE" => LostDeep(r)
<1>1. rec \in [Requests -> Labels]
  BY Found
<1>2. PICK w \in Workers : DoSave(w)
  <2>1. rec' # rec
    OBVIOUS
  <2>. QED  BY ZenonT(20), <2>1 DEF Next, vars, Accept, AcceptOutside, Bury, Reorg, Start, Verify, Perform, Abort,
              Build, Reject, Finalize, Submit, DoReread, DoClaim, DoArm, DoHold, DoContest,
              DoBroadcast, DoProve, DoAdvance, DoReceipt, DoRelease, DoRemove, DoSettle, DoAdopt,
              DoLeftover, store
<1>3. PICK e : e = Now(w)
  OBVIOUS
<1>4. task[w].todo # <<>> /\ e.do = "save" /\ rec' = [rec EXCEPT ![e.id] = e.as]
  BY <1>2, <1>3 DEF DoSave, Doing, Now
<1>5. e.id = r /\ rec'[r] = e.as
  BY <1>1, <1>4
<1>6. CASE Handling(w) /\ Now(w).id = task[w].id
  BY <1>2, <1>3, <1>4, <1>5, <1>6
<1>7. CASE Verifying(w) /\ VerifyStep(Now(w))
  <2>1. e.as \in {"CHAIN_VERIFIED", "STALE"} /\ (e.as = "STALE" => LostDeep(r))
    BY <1>3, <1>4, <1>5, <1>7 DEF VerifyStep
  <2>2. Settled(r)
    BY <1>3, <1>4, <1>5, <1>7, VerifyFirst DEF Grounded
  <2>. QED  BY <1>5, <2>1, <2>2
<1>. QED  BY <1>3, <1>4, <1>6, <1>7, Working

\* A recorded request stays recorded, on the outpoint it is built on.
LEMMA RecordKept ==
  ASSUME ShapeInv, WorkInv, [Next]_vars, NEW r \in Requests, rec[r] # "none"
  PROVE  rec'[r] # "none" /\ out'[r] = out[r]
<1>1. out'[r] = out[r]
  BY OutMoved DEF Build
<1>2. rec'[r] # "none"
  <2> SUFFICES ASSUME rec'[r] # rec[r] PROVE rec'[r] # "none"
    OBVIOUS
  <2>1. CASE \E w \in Workers : /\ DoSave(w) /\ Handling(w) /\ task[w].id = r
                                /\ rec' = [rec EXCEPT ![r] = Now(w).as]
    <3>1. PICK w \in Workers : /\ DoSave(w) /\ Handling(w) /\ task[w].id = r
                               /\ rec' = [rec EXCEPT ![r] = Now(w).as]
      BY <2>1
    <3>2. task[w].todo # <<>> /\ Now(w).do = "save" /\ rec'[r] = Now(w).as
      BY <3>1, Found DEF DoSave, Doing, Now
    <3>3. PICK op, l, q : op = task[w].op /\ l = Now(w).as /\ q = Rest(w)
      OBVIOUS
    <3>4. l \in {"BUILT", "CLOSED", "STALE", "PREFLIGHT_VERIFIED"} \cup After
      BY <3>1, <3>2, <3>3, HandlerSave
    <3>. QED  BY <3>2, <3>3, <3>4 DEF After, Begun
  <2>. QED  BY <2>1, RecordWritten
<1>. QED  BY <1>1, <1>2

-----------------------------------------------------------------------------
\* What the node has taken.

\* A request whose bytes left: its label is one that follows the broadcast,
\* and says that it is stale only when another one won its outpoint.
Dispatched(r) == rec[r] \in After /\ (rec[r] = "STALE" => LostDeep(r))

\* A handler of a request that was sent is the submit that sent it, and one
\* that is about to send it has recorded that it does.
SentTask(w) ==
  LET t == task[w]
  IN t.op \in HandlerOps =>
       /\ t.id \in sent => t.op = "submit" /\ t.todo # <<Save(t.id, "STALE")>>
       /\ t.op = "submit" /\ Head(t.todo).do = "broadcast" => Dispatched(t.id)

SentInv ==
  /\ \A r \in sent : Dispatched(r)
  /\ \A w \in Workers : SentTask(w)

\* A submit that says its request is stale does nothing else.
LEMMA SubmitStale ==
  ASSUME NEW r, NEW q \in SubmitQueues(r), Head(q).do = "save", Head(q).as = "STALE"
  PROVE  q = <<Save(r, "STALE")>>
<1>1. \A l : Save(r, l).as = l
  BY DEF Save, Write
<1>2. \A d, m : Write(d, r, m).do = d /\ Do(d, r).do = d
  BY DEF Do, Write
<1>3. CASE q \in ProofQueues(r)
  <2>1. Head(q) \in {Write("broadcast", r, "uncontested"), Save(r, "SUBMITTING"),
                     Save(r, "SUBMITTED"), Do("prove", r), Do("advance", r),
                     Save(r, "CHAIN_VERIFIED"), Do("receipt", r)}
    BY <1>3, Short DEF ProofQueues
  <2>. QED  BY <1>1, <1>2, <2>1
<1>4. CASE q \in ArmQueues(r)
  <2>1. PICK d \in ArmSteps, m \in Holds : q = <<Write(d, r, m)>>
    BY <1>4 DEF ArmQueues
  <2>. QED  BY <1>2, <2>1, Short DEF ArmSteps
<1>5. CASE q \notin ProofQueues(r) /\ q \notin ArmQueues(r)
  <2>1. \/ q = <<Save(r, "STALE")>>
        \/ Head(q) \in {Save(r, "SUBMITTING"), Write("broadcast", r, "contested"),
                        Save(r, "SUBMITTED"), Save(r, "RECONCILIATION_REQUIRED"),
                        Save(r, "SUBMISSION_REJECTED"), Do("release", r), Do("remove", r)}
    BY <1>5, Short DEF SubmitQueues
  <2>. QED  BY <1>1, <1>2, <2>1
<1>. QED  BY <1>3, <1>4, <1>5

\* A request that was dispatched stays so: it is recorded again by the submit
\* that is past its checks, or by a Verify that found another winner.
LEMMA DispatchedStays ==
  ASSUME ShapeInv, WorkInv, [Next]_vars, NEW r \in Requests, Dispatched(r),
         \A w \in Workers :
           Handling(w) /\ task[w].id = r =>
             task[w].op = "submit" /\ task[w].todo # <<Save(r, "STALE")>>
  PROVE  Dispatched(r)'
<1>1. rec[r] # "none" /\ "CHAIN_VERIFIED" \in After /\ "STALE" \in After
  BY DEF Dispatched, After, Begun, Labels, SignedOrRejected
<1>2. out'[r] = out[r]
  BY <1>1, RecordKept
<1>3. LostDeep(r) => LostDeep(r)'
  BY <1>2, DeepKept DEF LostDeep
<1>4. CASE rec'[r] = rec[r]
  BY <1>3, <1>4 DEF Dispatched
<1>5. ASSUME NEW w \in Workers, DoSave(w), Handling(w), task[w].id = r,
             rec' = [rec EXCEPT ![r] = Now(w).as]
      PROVE  Dispatched(r)'
  <2>1. PICK q : q = task[w].todo
    OBVIOUS
  <2>2. /\ task[w].todo # <<>> /\ Now(w).do = "save" /\ rec'[r] = Now(w).as
        /\ q \in SubmitQueues(r) /\ Now(w) = Head(q) /\ q # <<Save(r, "STALE")>>
    BY <1>5, <2>1, Found DEF DoSave, Doing, Now, Handling, HandlerQueues
  <2>3. SubmitHead(q, r)
    BY <2>2, SubmitHeads
  <2>4. Now(w).as \in After
    BY <2>2, <2>3 DEF SubmitHead, Do, Write, ArmSteps
  <2>5. Now(w).as # "STALE"
    BY <2>2, SubmitStale
  <2>. QED  BY <2>2, <2>4, <2>5 DEF Dispatched
<1>6. CASE /\ rec'[r] \in {"CHAIN_VERIFIED", "STALE"}
           /\ rec'[r] = "STALE" => LostDeep(r)
  BY <1>1, <1>3, <1>6 DEF Dispatched
<1>. QED  BY <1>4, <1>5, <1>6, RecordWritten

\* After the manifest a submit says that its request is complete.
LEMMA AdvanceRest ==
  ASSUME NEW r, NEW q \in SubmitQueues(r), Head(q).do = "advance"
  PROVE  Head(Tail(q)) = Save(r, "CHAIN_VERIFIED")
<1>1. \A l : Save(r, l).do = "save"
  BY DEF Save, Write
<1>2. \A d, m : Write(d, r, m).do = d /\ Do(d, r).do = d
  BY DEF Do, Write
<1>3. CASE q \in ProofQueues(r)
  <2>1. CASE q = <<Do("advance", r), Save(r, "CHAIN_VERIFIED"), Do("receipt", r)>>
    <3>1. PICK a, b, c : a = Do("advance", r) /\ b = Save(r, "CHAIN_VERIFIED") /\ c = Do("receipt", r)
      OBVIOUS
    <3>2. Tail(q) = <<b, c>> /\ Head(<<b, c>>) = b
      BY <2>1, <3>1, Short
    <3>. QED  BY <3>1, <3>2
  <2>2. CASE q # <<Do("advance", r), Save(r, "CHAIN_VERIFIED"), Do("receipt", r)>>
    <3>1. Head(q) \in {Write("broadcast", r, "uncontested"), Save(r, "SUBMITTING"),
                       Save(r, "SUBMITTED"), Do("prove", r), Save(r, "CHAIN_VERIFIED"),
                       Do("receipt", r)}
      BY <1>3, <2>2, Short DEF ProofQueues
    <3>. QED  BY <1>1, <1>2, <3>1
  <2>. QED  BY <2>1, <2>2
<1>4. CASE q \in ArmQueues(r)
  <2>1. PICK d \in ArmSteps, m \in Holds : q = <<Write(d, r, m)>>
    BY <1>4 DEF ArmQueues
  <2>. QED  BY <1>2, <2>1, Short DEF ArmSteps
<1>5. CASE q \notin ProofQueues(r) /\ q \notin ArmQueues(r)
  <2>1. Head(q) \in {Save(r, "STALE"), Save(r, "SUBMITTING"), Write("broadcast", r, "contested"),
                     Save(r, "SUBMITTED"), Save(r, "RECONCILIATION_REQUIRED"),
                     Save(r, "SUBMISSION_REJECTED"), Do("release", r), Do("remove", r)}
    BY <1>5, Short DEF SubmitQueues
  <2>. QED  BY <1>1, <1>2, <2>1
<1>. QED  BY <1>3, <1>4, <1>5

\* Past its checks a submit never says that its request is stale, and it
\* broadcasts only when it has recorded that it does.
LEMMA SubmitNext ==
  ASSUME ShapeInv, NEW w \in Workers, Perform(w), task[w].op = "submit", NEW r, r = task[w].id,
         NEW e, task'[w].todo # <<>>, e = Head(task'[w].todo)
  PROVE  /\ e.do = "save" => e.as # "STALE"
         /\ e.do = "broadcast" => DoSave(w) /\ Now(w).as \in After \ {"STALE"}
<1>1. PICK q, z : q = task[w].todo /\ z = task'[w].todo
  OBVIOUS
<1>2. /\ TypeInv /\ task[w].todo # <<>> /\ r \in Requests /\ Now(w).id = r
      /\ q \in Seq(Step) /\ q \in SubmitQueues(r) /\ Head(q) = Now(w) /\ Tail(q) = Rest(w)
      /\ Handling(w) /\ ~Verifying(w)
  <2>1. task[w].todo # <<>>
    BY PerformBusy
  <2>2. Handling(w) /\ ~Verifying(w) /\ Now(w).id = task[w].id
    BY <2>1, Working DEF Verifying
  <2>. QED  BY <1>1, <2>1, <2>2, Working DEF ShapeInv, Handling, HandlerQueues, Now, Rest
<1>3. ASSUME NEW y, Then(w, y) PROVE y = z /\ y # <<>>
  BY <1>1, <1>2, <1>3 DEF Then, TypeInv, Idle
<1>4. \A l : Save(r, l).do = "save" /\ Save(r, l).as = l
  BY DEF Save, Write
<1>5. \A d, m : Write(d, r, m).do = d /\ Do(d, r).do = d
  BY DEF Do, Write
<1>6. SubmitHead(q, r)
  BY <1>2, SubmitHeads
<1>7. ~DoReread(w) /\ ~DoClaim(w) /\ ~DoSettle(w) /\ ~DoAdopt(w) /\ ~DoLeftover(w)
  BY <1>2, WhoDoes DEF DoReread, DoClaim, DoSettle, DoAdopt, DoLeftover, Doing, Now
<1>8. CASE DoSave(w)
  <2>1. Now(w).do = "save" /\ z = Tail(q) /\ z # <<>>
    BY <1>2, <1>3, <1>8 DEF DoSave, Doing, Now
  <2>2. Head(z).do \in {"release", "receipt", "broadcast", "prove"}
    BY <1>2, <2>1, SubmitRest
  <2>3. Now(w).as \in After
    BY <1>2, <1>6, <2>1 DEF SubmitHead, Do, Write, ArmSteps
  <2>4. Now(w).as # "STALE"
    <3> SUFFICES ASSUME Now(w).as = "STALE" PROVE FALSE
      OBVIOUS
    <3>1. q = <<Save(r, "STALE")>>
      BY <1>2, <2>1, SubmitStale
    <3>. QED  BY <2>1, <3>1, Short
  <2>. QED  BY <1>1, <1>8, <2>2, <2>3, <2>4
<1>9. CASE DoArm(w) \/ DoHold(w)
  <2>1. PICK a : z = <<a>> /\ (a = [Now(w) EXCEPT !.do = "hold"] \/ \E m : a = Write("contest", r, m))
    <3>1. CASE DoArm(w)
      <4>1. Then(w, <<[Now(w) EXCEPT !.do = "hold"]>>) \/ Then(w, <<>>)
        BY <3>1 DEF DoArm
      <4>. QED  BY <1>3, <4>1
    <3>2. CASE DoHold(w)
      <4>1. \/ Then(w, <<>>) \/ Then(w, <<Write("contest", r, "foreign")>>)
            \/ Then(w, <<Write("contest", r, "own")>>)
        BY <1>2, <3>2 DEF DoHold
      <4>. QED  BY <1>3, <4>1
    <3>. QED  BY <1>9, <3>1, <3>2
  <2>2. Now(w) \in Step
    BY <1>2, Working
  <2>3. [Now(w) EXCEPT !.do = "hold"].do = "hold"
    BY <2>2 DEF Step
  <2>4. e.do \in {"hold", "contest"}
    <3>1. e = a
      BY <1>1, <2>1, Short
    <3>2. CASE a = [Now(w) EXCEPT !.do = "hold"]
      BY <2>3, <3>1, <3>2
    <3>3. ASSUME NEW m, a = Write("contest", r, m) PROVE e.do = "contest"
      BY <1>5, <3>1, <3>3
    <3>. QED  BY <2>1, <3>2, <3>3
  <2>. QED  BY <2>4
<1>10. CASE DoContest(w)
  <2>1. PICK m : Then(w, <<Save(r, "SUBMITTING"), Write("broadcast", r, m)>>)
    BY <1>2, <1>10 DEF DoContest
  <2>2. Head(z) = Save(r, "SUBMITTING")
    BY <1>3, <2>1, Short
  <2>. QED  BY <1>1, <1>4, <2>2
<1>11. CASE DoBroadcast(w)
  <2>1. \/ Then(w, <<Save(r, "SUBMITTED")>>)
        \/ Then(w, <<Save(r, "SUBMITTED"), Do("prove", r)>>)
        \/ Then(w, <<Save(r, "RECONCILIATION_REQUIRED")>>)
        \/ Then(w, <<Save(r, "SUBMISSION_REJECTED"), Do("release", r)>>)
    BY <1>2, <1>11 DEF DoBroadcast, Taken, Uncertain, Rejected
  <2>2. Head(z) \in {Save(r, "SUBMITTED"), Save(r, "RECONCILIATION_REQUIRED"),
                     Save(r, "SUBMISSION_REJECTED")}
    BY <1>3, <2>1, Short
  <2>. QED  BY <1>1, <1>4, <2>2
<1>12. CASE DoProve(w)
  <2>1. \/ Then(w, <<Do("advance", r), Save(r, "CHAIN_VERIFIED"), Do("receipt", r)>>)
        \/ Then(w, <<Save(r, "RECONCILIATION_REQUIRED")>>)
    BY <1>2, <1>12 DEF DoProve
  <2>2. Head(z) \in {Do("advance", r), Save(r, "RECONCILIATION_REQUIRED")}
    BY <1>3, <2>1, Short
  <2>. QED  BY <1>1, <1>4, <1>5, <2>2
<1>13. CASE DoAdvance(w)
  <2>1. Now(w).do = "advance" /\ z = Tail(q)
    BY <1>2, <1>3, <1>13 DEF DoAdvance, Doing, Now
  <2>. QED  BY <1>1, <1>2, <1>4, <2>1, AdvanceRest
<1>14. CASE DoReceipt(w) \/ DoRemove(w) \/ DoRelease(w)
  <2>1. Now(w).do \in {"receipt", "remove", "release"}
    BY <1>14 DEF DoReceipt, DoRemove, DoRelease, Doing, Now
  <2>2. Rest(w) = <<>>
    BY <1>2, <2>1, SubmitRest
  <2>3. Then(w, <<>>) \/ Then(w, <<Do("remove", r)>> \o <<>>)
    BY <1>2, <1>14, <2>2 DEF DoReceipt, DoRemove, DoRelease
  <2>4. z = <<Do("remove", r)>> \o <<>>
    BY <1>3, <2>3
  <2>5. PICK b : b = Do("remove", r)
    OBVIOUS
  <2>6. <<b>> \o <<>> = <<b>>
    OBVIOUS
  <2>. QED  BY <1>1, <1>5, <2>4, <2>5, <2>6, Short
<1>. QED  BY <1>7, <1>8, <1>9, <1>10, <1>11, <1>12, <1>13, <1>14 DEF Perform

\* Only a broadcast adds to what the node has taken.
LEMMA SentMoved ==
  ASSUME ShapeInv, [Next]_vars, NEW r \in sent', r \notin sent
  PROVE  \E w \in Workers : /\ DoBroadcast(w) /\ Handling(w) /\ task[w].op = "submit"
                            /\ task[w].id = r /\ Head(task[w].todo).do = "broadcast"
<1>1. PICK w \in Workers : DoBroadcast(w)
  <2>1. sent' # sent
    OBVIOUS
  <2>. QED  BY ZenonT(20), <2>1 DEF Next, vars, Accept, AcceptOutside, Bury, Reorg, Start, Verify, Perform, Abort,
              Build, Reject, Finalize, Submit, DoSave, DoReread, DoClaim, DoArm, DoHold, DoContest,
              DoProve, DoAdvance, DoReceipt, DoRelease, DoRemove, DoSettle, DoAdopt,
              DoLeftover, node
<1>2. task[w].todo # <<>> /\ Now(w).do = "broadcast"
  BY <1>1 DEF DoBroadcast, Doing, Now
<1>3. Handling(w) /\ task[w].op = "submit" /\ Now(w).id = task[w].id
  BY <1>2, WhoDoes, Working DEF Verifying
<1>4. sent' = sent \/ sent' = sent \cup {Now(w).id}
  BY <1>1 DEF DoBroadcast, Taken, Uncertain, Rejected
<1>. QED  BY <1>1, <1>2, <1>3, <1>4 DEF Now

\* A submit that is at work has a step to make.
LEMMA QueueBusy ==
  ASSUME NEW r, NEW q \in SubmitQueues(r)
  PROVE  q # <<>>
<1>1. CASE q \in ArmQueues(r)
  <2>1. PICK d \in ArmSteps, m \in Holds : q = <<Write(d, r, m)>>
    BY <1>1 DEF ArmQueues
  <2>. QED  BY <2>1, Short
<1>. QED  BY <1>1, Short DEF SubmitQueues, ProofQueues

\* Initially nothing was sent.
LEMMA SentInit == Init => SentInv
BY DEF Init, SentInv, SentTask, Idle, HandlerOps

\* Every step keeps SentInv.
LEMMA SentNext ==
  ASSUME ShapeInv, WorkInv, SentInv, [Next]_vars
  PROVE  SentInv'
<1>0. TypeInv /\ HandlerInv
  BY DEF ShapeInv, WorkInv
<1>1. ASSUME NEW r \in sent PROVE Dispatched(r)'
  <2>1. r \in Requests /\ Dispatched(r)
    BY <1>0 DEF TypeInv, SentInv
  <2>2. \A w \in Workers :
          Handling(w) /\ task[w].id = r =>
            task[w].op = "submit" /\ task[w].todo # <<Save(r, "STALE")>>
    BY DEF SentInv, SentTask, Handling
  <2>. QED  BY <2>1, <2>2, DispatchedStays
<1>2. ASSUME NEW w \in Workers, Handling(w), task[w].op = "submit",
             Head(task[w].todo).do = "broadcast", NEW r, r = task[w].id
      PROVE  Dispatched(r)' /\ task[w].todo # <<Save(r, "STALE")>>
  <2>2. r \in Requests /\ Dispatched(r)
    BY <1>2 DEF Handling, SentInv, SentTask, HandlerOps
  <2>3. task[w].todo # <<Save(r, "STALE")>>
    BY <1>2, Short DEF Save, Write
  <2>4. \A v \in Workers : Handling(v) /\ task[v].id = r => v = w
    BY <1>0, <1>2 DEF HandlerInv, Handling
  <2>5. Dispatched(r)'
    BY <1>2, <2>2, <2>3, <2>4, DispatchedStays
  <2>. QED  BY <2>3, <2>5
<1>3. ASSUME NEW r \in sent', r \notin sent PROVE Dispatched(r)'
  <2>1. PICK w \in Workers : /\ Handling(w) /\ task[w].op = "submit"
                             /\ task[w].id = r /\ Head(task[w].todo).do = "broadcast"
    BY <1>3, SentMoved
  <2>. QED  BY <1>2, <2>1
<1>4. ASSUME NEW w \in Workers, Handling(w), task[w].id \in sent'
      PROVE  task[w].op = "submit" /\ task[w].todo # <<Save(task[w].id, "STALE")>>
  <2>1. CASE task[w].id \in sent
    BY <1>4, <2>1 DEF SentInv, SentTask, Handling
  <2>2. CASE task[w].id \notin sent
    <3>1. PICK v \in Workers : /\ Handling(v) /\ task[v].op = "submit"
                               /\ task[v].id = task[w].id /\ Head(task[v].todo).do = "broadcast"
      BY <1>4, <2>2, SentMoved
    <3>2. v = w
      BY <1>0, <1>4, <3>1 DEF HandlerInv, Handling
    <3>. QED  BY <1>2, <3>1, <3>2
  <2>. QED  BY <2>1, <2>2
<1>5. ASSUME NEW w \in Workers, task'[w].op \in HandlerOps
      PROVE  /\ task'[w].id \in sent' =>
                  task'[w].op = "submit" /\ task'[w].todo # <<Save(task'[w].id, "STALE")>>
             /\ task'[w].op = "submit" /\ Head(task'[w].todo).do = "broadcast" =>
                  Dispatched(task[w].id)' /\ task'[w].id = task[w].id
  <2>1. CASE task'[w] = task[w]
    <3>1. Handling(w)
      BY <1>5, <2>1 DEF ShapeInv, TaskShape, Handling, Idle, HandlerOps
    <3>. QED  BY <1>2, <1>4, <2>1, <3>1
  <2>2. CASE Start(w)
    <3>1. PICK r \in Requests : Build(w, r) \/ Reject(w, r) \/ Finalize(w, r) \/ Submit(w, r)
      BY <2>2 DEF Start
    <3>2. sent' = sent /\ rec[r] \notin After
      BY <3>1 DEF Build, Reject, Finalize, Submit, node, After, Begun
    <3>3. r \notin sent'
      BY <3>2 DEF SentInv, Dispatched
    <3>4. task'[w].id = r
      BY <1>0, <3>1 DEF Build, Reject, Finalize, Submit, Begin, TypeInv
    <3>5. ASSUME task'[w].op = "submit" PROVE Head(task'[w].todo).do # "broadcast"
      <4>1. Submit(w, r)
        BY <1>0, <3>1, <3>5 DEF Build, Reject, Finalize, Begin, TypeInv
      <4>2. PICK e : e.do \in {"save", "arm"} /\ Begin(w, "submit", r, <<e>>)
        BY <4>1 DEF Submit, Save, Write
      <4>3. task'[w].todo = <<e>>
        BY <1>0, <4>2 DEF Begin, TypeInv
      <4>. QED  BY <4>2, <4>3, Short
    <3>. QED  BY <3>3, <3>4, <3>5
  <2>3. CASE Perform(w)
    <3>1. task'[w].op = task[w].op /\ task'[w].id = task[w].id /\ task'[w] # Idle
      BY <1>0, <1>5, <2>3, PerformKept DEF TaskKept, Idle, HandlerOps
    <3>2. task[w].todo # <<>> /\ Handling(w)
      BY <1>5, <2>3, <3>1, PerformBusy, Working DEF Verifying, HandlerOps
    <3>3. PICK r, e : r = task[w].id /\ e = Head(task'[w].todo)
      OBVIOUS
    <3>4. task[w].op = "submit" =>
            /\ task'[w].todo # <<Save(r, "STALE")>>
            /\ e.do = "broadcast" => Dispatched(r)'
      <4> SUFFICES ASSUME task[w].op = "submit"
                   PROVE  /\ task'[w].todo # <<Save(r, "STALE")>>
                          /\ e.do = "broadcast" => Dispatched(r)'
        OBVIOUS
      <4>1. task'[w].todo # <<>>
        <5>1. ShapeInv'
          BY ShapeNext
        <5>2. TaskShape(w)'
          BY <5>1 DEF ShapeInv
        <5>3. task'[w].todo \in SubmitQueues(task'[w].id)
          BY <3>1, <5>2 DEF TaskShape, HandlerQueues
        <5>. QED  BY <5>3, QueueBusy
      <4>2. /\ e.do = "save" => e.as # "STALE"
            /\ e.do = "broadcast" => DoSave(w) /\ Now(w).as \in After \ {"STALE"}
        BY <2>3, <3>3, <4>1, SubmitNext
      <4>3. task'[w].todo # <<Save(r, "STALE")>>
        BY <3>3, <4>2, Short DEF Save, Write
      <4>4. ASSUME e.do = "broadcast" PROVE Dispatched(r)'
        <5>1. rec' = [rec EXCEPT ![r] = Now(w).as]
          BY <3>2, <3>3, <4>2, <4>4, Working DEF DoSave, Verifying, Handling, HandlerOps
        <5>2. r \in Requests
          BY <3>2, <3>3 DEF Handling
        <5>3. rec'[r] \in After \ {"STALE"}
          BY <4>2, <4>4, <5>1, <5>2, Found
        <5>. QED  BY <5>3 DEF Dispatched
      <4>. QED  BY <4>3, <4>4
    <3>5. task[w].id \in sent' => task[w].op = "submit"
      BY <1>4, <3>2
    <3>. QED  BY <3>1, <3>3, <3>4, <3>5 DEF Dispatched, LostDeep, DeepSpender, Spends1, Spent, Deep
  <2>4. CASE Verify(w) \/ Abort(w)
    BY <1>0, <1>5, <2>4 DEF Verify, Abort, Idle, HandlerOps, TypeInv
  <2>. QED  BY <1>0, <2>1, <2>2, <2>3, <2>4, TaskMoved
<1>6. \A w \in Workers : SentTask(w)'
  BY <1>5 DEF SentTask, Dispatched, LostDeep, DeepSpender, Spends1, Spent, Deep
<1>. QED  BY <1>1, <1>3, <1>6 DEF SentInv

\* A request that was sent is recorded as stale only when another one spends
\* its outpoint at the settlement depth, whatever crashes and is undone: its
\* submit is past the check that would say so, and a Verify says it of a loser
\* only while a deep winner stands.
THEOREM SentNeverStale ==
  ASSUME OneHandler = TRUE
  PROVE  Spec => []SentStaleWhenLost
<1>1. ShapeInv /\ WorkInv /\ SentInv /\ [Next]_vars => SentInv'
  BY SentNext
<1>2. SentInv => SentStaleWhenLost
  BY DEF SentInv, Dispatched, SentStaleWhenLost, LostDeep, DeepSpender
<1>. QED  BY <1>1, <1>2, SentInit, ShapeAlways, WorkAlways, PTL DEF Spec

-----------------------------------------------------------------------------
\* A pause and a delegate's request that competes with it.

\* A handler that only closes its request.
Verdict(q) ==
  \A i \in 1..Len(q) :
    q[i].do = "reread" \/ (q[i].do = "save" /\ q[i].as \in {"CLOSED", "STALE"})

\* A request that is not in flight, and that no handler at work for it will
\* put there.
NotGoing(r) ==
  /\ rec[r] \notin InFlight
  /\ \A w \in Workers :
       task[w].op \in {"finalize", "submit"} /\ task[w].id = r => Verdict(task[w].todo)

\* No request of a delegate competes with the pause.
Unopposed(p) == \A q \in Spends : out[q] = out[p] => NotGoing(q)

\* A submit that may write the manifest without a Verify.
Proves(q) ==
  \E i \in 1..Len(q) :
    q[i].do \in {"prove", "advance"} \/ (q[i].do = "broadcast" /\ q[i].as = "uncontested")

PauseAt(p, q) ==
  /\ Head(q).do \in ArmSteps \/ Proves(q) => rec[p] \in InFlight \/ SpentDeep(out[p])
  /\ Proves(q) => Unopposed(p) \/ SpentDeep(out[p])

PauseTask(w) ==
  task[w].op = "submit" /\ task[w].id \in Pauses => PauseAt(task[w].id, task[w].todo)

\* Of a vault that is recorded as paused a deep transaction spends what the
\* pause is built on, or no delegate competes for it.
PauseInv ==
  /\ \A r \in Requests : out[r] # r
  /\ manifest.live \in Requests => rec[manifest.live] # "none"
  /\ \A p \in Pauses : manifest.live = p => SpentDeep(out[p]) \/ Unopposed(p)
  /\ \A w \in Workers : PauseTask(w)

\* Queues that decide and queues that prove, by their first step and the rest.
LEMMA VerdictProves ==
  ASSUME NEW q \in Seq(Step), q # <<>>
  PROVE  /\ Verdict(q) => Verdict(Tail(q))
         /\ Verdict(q) => \/ Head(q).do = "reread"
                          \/ Head(q).do = "save" /\ Head(q).as \in {"CLOSED", "STALE"}
         /\ Proves(Tail(q)) => Proves(q)
         /\ Head(q).do \in {"prove", "advance"} => Proves(q)
         /\ Head(q).do = "broadcast" /\ Head(q).as = "uncontested" => Proves(q)
<1>1. /\ Len(q) \in Nat /\ Len(Tail(q)) = Len(q) - 1 /\ Head(q) = q[1] /\ 1 \in 1..Len(q)
      /\ \A j \in 1..Len(Tail(q)) : j + 1 \in 1..Len(q) /\ Tail(q)[j] = q[j + 1]
  OBVIOUS
<1>. QED  BY <1>1 DEF Verdict, Proves

\* Queues of one step and of two.
LEMMA ShortProves ==
  /\ Verdict(<<>>) /\ ~Proves(<<>>)
  /\ \A a : Verdict(<<a>>) <=>
       a.do = "reread" \/ (a.do = "save" /\ a.as \in {"CLOSED", "STALE"})
  /\ \A a : Proves(<<a>>) <=>
       a.do \in {"prove", "advance"} \/ (a.do = "broadcast" /\ a.as = "uncontested")
  /\ \A a, b : Verdict(<<a>>) /\ Verdict(<<b>>) => Verdict(<<a, b>>)
  /\ \A a, b : Proves(<<a, b>>) => Proves(<<a>>) \/ Proves(<<b>>)
<1>1. Verdict(<<>>) /\ ~Proves(<<>>)
  BY DEF Verdict, Proves
<1>2. ASSUME NEW a
      PROVE  /\ Verdict(<<a>>) <=>
                  a.do = "reread" \/ (a.do = "save" /\ a.as \in {"CLOSED", "STALE"})
             /\ Proves(<<a>>) <=>
                  a.do \in {"prove", "advance"} \/ (a.do = "broadcast" /\ a.as = "uncontested")
  <2>1. Len(<<a>>) = 1 /\ <<a>>[1] = a
    OBVIOUS
  <2>2. 1 \in 1..Len(<<a>>) /\ \A i \in 1..Len(<<a>>) : <<a>>[i] = a
    BY <2>1
  <2>. QED  BY <2>2 DEF Verdict, Proves
<1>3. ASSUME NEW a, NEW b
      PROVE  /\ Verdict(<<a>>) /\ Verdict(<<b>>) => Verdict(<<a, b>>)
             /\ Proves(<<a, b>>) => Proves(<<a>>) \/ Proves(<<b>>)
  <2>1. PICK q : q = <<a, b>>
    OBVIOUS
  <2>2. \A i \in 1..Len(q) : q[i] = a \/ q[i] = b
    BY <2>1
  <2> DEFINE Decides(e) == e.do = "reread" \/ (e.do = "save" /\ e.as \in {"CLOSED", "STALE"})
  <2> DEFINE Shows(e) ==
        e.do \in {"prove", "advance"} \/ (e.do = "broadcast" /\ e.as = "uncontested")
  <2>3. Decides(a) /\ Decides(b) => Verdict(q)
    BY <2>2 DEF Verdict
  <2>4. Proves(q) => Shows(a) \/ Shows(b)
    BY <2>2 DEF Proves
  <2>. QED  BY <1>2, <2>1, <2>3, <2>4
<1>. QED  BY <1>1, <1>2, <1>3

\* A submit that may write the manifest has saved that it is in flight.
LEMMA ProvesSaves ==
  ASSUME NEW r, NEW q \in SubmitQueues(r), Head(q).do = "save", Proves(Tail(q))
  PROVE  Head(q).as \in {"SUBMITTING", "SUBMITTED"}
<1>1. \A l : Save(r, l).do = "save" /\ Save(r, l).as = l
  BY DEF Save, Write
<1>2. \A e, m : Write(e, r, m).do = e /\ Write(e, r, m).as = m
  BY DEF Write
<1>3. \A d : Do(d, r).do = d
  BY DEF Do, Write
<1>4. ASSUME NEW a, NEW b, q = <<a>> \/ q = <<a, b>>,
             q = <<a, b>> /\ Proves(<<b>>) =>
               a.do # "save" \/ a.as \in {"SUBMITTING", "SUBMITTED"}
      PROVE  Head(q).as \in {"SUBMITTING", "SUBMITTED"}
  <2>1. CASE q = <<a>>
    BY <2>1, Short, ShortProves
  <2>2. CASE q = <<a, b>>
    <3>1. Head(q) = a /\ Tail(q) = <<b>>
      BY <2>2, Short
    <3>. QED  BY <1>4, <2>2, <3>1
  <2>. QED  BY <1>4, <2>1, <2>2
<1>5. /\ ~Proves(<<Do("release", r)>>) /\ ~Proves(<<Do("receipt", r)>>)
      /\ ~Proves(<<Write("broadcast", r, "contested")>>)
  BY <1>2, <1>3, ShortProves
<1>6. CASE q \in ProofQueues(r)
  <2>1. CASE q = <<Do("advance", r), Save(r, "CHAIN_VERIFIED"), Do("receipt", r)>>
    BY <1>3, <2>1, Short
  <2>. QED  BY <1>1, <1>3, <1>4, <1>5, <1>6, <2>1 DEF ProofQueues
<1>7. CASE q \in ArmQueues(r)
  <2>1. PICK e \in ArmSteps, m \in Holds : q = <<Write(e, r, m)>>
    BY <1>7 DEF ArmQueues
  <2>2. PICK a : a = Write(e, r, m)
    OBVIOUS
  <2>3. Head(q) = a /\ a.do \in ArmSteps
    BY <1>2, <2>1, <2>2, Short
  <2>. QED  BY <2>3 DEF ArmSteps
<1>8. CASE q \notin ProofQueues(r) /\ q \notin ArmQueues(r)
  BY <1>1, <1>2, <1>3, <1>4, <1>5, <1>8 DEF SubmitQueues
<1>. QED  BY <1>6, <1>7, <1>8

\* What a submit is at after a write of its record is no write of the manifest
\* and no fresh start.
LEMMA AfterSave ==
  ASSUME NEW r, NEW q \in SubmitQueues(r), Head(q).do = "save", Tail(q) # <<>>
  PROVE  Head(Tail(q)).do \notin ArmSteps
BY SubmitRest DEF ArmSteps

\* A request that is not going stays so until its finalize begins.
LEMMA NotGoingStays ==
  ASSUME ShapeInv, WorkInv, [Next]_vars, NEW q \in Requests, NotGoing(q),
         \A w \in Workers : ~(Finalize(w, q) /\ manifest.live = out[q])
  PROVE  NotGoing(q)'
<1>0. TypeInv
  BY DEF ShapeInv
<1>1. rec[q] \notin InFlight
  BY DEF NotGoing
<1>2. rec'[q] \notin InFlight
  <2>1. SUFFICES ASSUME rec'[q] # rec[q] PROVE rec'[q] \notin InFlight
    BY <1>1
  <2>2. {"CHAIN_VERIFIED", "STALE", "CLOSED", "BUILT"} \cap InFlight = {}
    BY DEF InFlight
  <2>3. CASE \E w \in Workers : /\ DoSave(w) /\ Handling(w) /\ task[w].id = q
                                /\ rec' = [rec EXCEPT ![q] = Now(w).as]
    <3>1. PICK w \in Workers : /\ DoSave(w) /\ Handling(w) /\ task[w].id = q
                               /\ rec' = [rec EXCEPT ![q] = Now(w).as]
      BY <2>3
    <3>2. task[w].todo # <<>> /\ Now(w).do = "save" /\ rec'[q] = Now(w).as
      BY <3>1, Found DEF DoSave, Doing, Now
    <3>3. CASE task[w].op \in {"finalize", "submit"}
      <4>1. Verdict(task[w].todo) /\ task[w].todo \in Seq(Step)
        BY <3>1, <3>2, <3>3, Working DEF NotGoing
      <4>2. Now(w).as \in {"CLOSED", "STALE"}
        BY <3>2, <4>1, VerdictProves DEF Now
      <4>. QED  BY <2>2, <3>2, <4>2
    <3>4. CASE task[w].op \notin {"finalize", "submit"}
      <4>0. PICK op, r : op = task[w].op /\ r = task[w].id
        OBVIOUS
      <4>1. /\ op = "build" => Now(w).as = "BUILT"
            /\ op = "reject" => Now(w).as = "CLOSED"
        BY <3>1, <3>2, <4>0, HandlerSave
      <4>. QED  BY <2>2, <3>1, <3>2, <3>4, <4>0, <4>1 DEF Handling, HandlerOps
    <3>. QED  BY <3>3, <3>4
  <2>. QED  BY <2>1, <2>2, <2>3, RecordWritten
<1>3. ASSUME NEW w \in Workers, task'[w].op \in {"finalize", "submit"}, task'[w].id = q,
             task'[w] # task[w]
      PROVE  Verdict(task'[w].todo)
  <2>1. CASE Abort(w) \/ Verify(w)
    BY <1>0, <1>3, <2>1 DEF Abort, Verify, TypeInv, Idle
  <2>2. CASE Start(w)
    <3>1. PICK r \in Requests : Build(w, r) \/ Reject(w, r) \/ Finalize(w, r) \/ Submit(w, r)
      BY <2>2 DEF Start
    <3>2. task'[w].id = r
      BY <1>0, <3>1 DEF Build, Reject, Finalize, Submit, Begin, TypeInv
    <3>3. ~Build(w, r) /\ ~Reject(w, r)
      BY <1>0, <1>3 DEF Build, Reject, Begin, TypeInv
    <3>4. ~Submit(w, r)
      BY <1>1, <1>3, <3>2 DEF Submit, InFlight
    <3>5. Begin(w, "finalize", r, Close(r, "STALE"))
      BY <1>3, <3>1, <3>2, <3>3, <3>4 DEF Finalize
    <3>6. task'[w].todo = Close(r, "STALE")
      BY <1>0, <3>5 DEF Begin, TypeInv
    <3>7. Do("reread", r).do = "reread" /\ Save(r, "STALE").do = "save" /\ Save(r, "STALE").as = "STALE"
      BY DEF Do, Save, Write
    <3>8. PICK a, b : a = Do("reread", r) /\ b = Save(r, "STALE")
      OBVIOUS
    <3>9. Verdict(<<a, b>>)
      BY <3>7, <3>8, ShortProves
    <3>. QED  BY <3>6, <3>8, <3>9 DEF Close
  <2>3. CASE Perform(w)
    <3>1. task'[w].op = task[w].op /\ task'[w].id = task[w].id
      BY <1>0, <1>3, <2>3, PerformKept DEF TaskKept, Idle
    <3>2. Verdict(task[w].todo)
      BY <1>3, <3>1 DEF NotGoing
    <3>3. task[w].todo # <<>>
      BY <2>3, PerformBusy
    <3>4. task[w].todo \in Seq(Step) /\ Rest(w) \in Seq(Step)
      BY <3>3, Working
    <3>5. Verdict(Rest(w)) /\ Now(w).do \in {"save", "reread"}
      BY <3>2, <3>3, <3>4, VerdictProves DEF Rest, Now
    <3>6. Then(w, Rest(w)) \/ Then(w, <<>>)
      BY <2>3, <3>5 DEF Perform, DoSave, DoReread, DoClaim, DoArm, DoHold, DoContest, DoBroadcast, DoProve, DoAdvance,
        DoReceipt, DoRelease, DoRemove, DoSettle, DoAdopt, DoLeftover, Doing, Now
    <3>7. CASE Then(w, <<>>)
      <4>1. <<>> \in Seq(Step)
        OBVIOUS
      <4>2. task'[w] = Idle
        BY <1>0, <3>7, <4>1, ThenTask
      <4>. QED  BY <1>3, <4>2 DEF Idle
    <3>8. CASE Then(w, Rest(w))
      <4>1. task'[w] = IF Rest(w) = <<>> THEN Idle
                       ELSE [op |-> task[w].op, id |-> task[w].id, todo |-> Rest(w)]
        BY <1>0, <3>4, <3>8, ThenTask
      <4>. QED  BY <1>3, <3>5, <4>1 DEF Idle
    <3>. QED  BY <3>6, <3>7, <3>8
  <2>. QED  BY <1>0, <1>3, <2>1, <2>2, <2>3, TaskMoved
<1>4. \A w \in Workers :
        task'[w].op \in {"finalize", "submit"} /\ task'[w].id = q => Verdict(task'[w].todo)
  BY <1>3 DEF NotGoing
<1>. QED  BY <1>2, <1>4 DEF NotGoing, Verdict

\* A pause that is unopposed stays so until a competing finalize begins: a
\* request that is built now has no handler but its build.
LEMMA UnopposedStays ==
  ASSUME ShapeInv, WorkInv, [Next]_vars, NEW p \in Requests, rec[p] # "none", Unopposed(p),
         \A w \in Workers, q \in Spends :
           out[q] = out[p] => ~(Finalize(w, q) /\ manifest.live = out[q])
  PROVE  Unopposed(p)'
<1>1. out'[p] = out[p]
  BY RecordKept
<1>2. ASSUME NEW q \in Spends, out'[q] = out[p] PROVE NotGoing(q)'
  <2>1. q \in Requests
    BY DEF Requests
  <2>2. CASE out'[q] = out[q]
    BY <1>2, <2>1, <2>2, NotGoingStays DEF Unopposed
  <2>3. CASE out'[q] # out[q]
    <3>1. PICK w \in Workers : Build(w, q)
      BY <2>1, <2>3, OutMoved
    <3>2. /\ rec[q] = "none" /\ rec' = rec /\ \A v \in Workers : task[v].id # q
          /\ task' = [task EXCEPT ![w] = [op |-> "build", id |-> q, todo |-> <<Save(q, "BUILT")>>]]
      BY <3>1 DEF Build, Begin
    <3>3. task'[w].op = "build" /\ \A v \in Workers \ {w} : task'[v].id # q
      BY <3>2 DEF ShapeInv, TypeInv
    <3>. QED  BY <3>2, <3>3 DEF NotGoing, InFlight
  <2>. QED  BY <2>2, <2>3
<1>. QED  BY <1>1, <1>2 DEF Unopposed

\* While the pause is in flight, what competes with it on the recorded
\* outpoint is not finalized.
LEMMA PauseBlocks ==
  ASSUME ShapeInv, NEW p \in Pauses, rec[p] \in InFlight, NEW q \in Spends, out[q] = out[p],
         NEW w \in Workers, Finalize(w, q)
  PROVE  manifest.live # out[q]
<1>1. p \in Requests /\ q \notin BreakGlass /\ p # q
  BY SettlementAssumption DEF Requests, BreakGlass
<1>2. Pending(p)
  BY DEF Pending
<1>3. ~Blocked(q)
  BY DEF Finalize, Admissible
<1>. QED  BY <1>1, <1>2, <1>3 DEF Blocked, PendingOn

\* A task that is not moved: its pause is still in flight and unopposed.
LEMMA PauseKept ==
  ASSUME ShapeInv, WorkInv, PauseInv, [Next]_vars,
         NEW w \in Workers, task'[w] = task[w]
  PROVE  PauseTask(w)'
<1> SUFFICES ASSUME task[w].op = "submit", task[w].id \in Pauses
             PROVE  PauseAt(task[w].id, task[w].todo)'
  BY DEF PauseTask
<1>1. PICK p, q : p = task[w].id /\ q = task[w].todo
  OBVIOUS
<1>2. p \in Pauses /\ p \in Requests /\ PauseAt(p, q)
  BY <1>1 DEF PauseInv, PauseTask, Requests
<1>3. rec[p] # "none" /\ q # <<>> /\ q \in Seq(Step)
  <2>1. TaskShape(w) /\ task[w] # Idle
    BY DEF ShapeInv, Idle
  <2>2. q \in SubmitQueues(p) /\ rec[p] # "none"
    BY <1>1, <2>1 DEF TaskShape, HandlerQueues, HandlerOps
  <2>3. Len(q) # 0 /\ q \in Seq(Step)
    <3>1. q \in Seq(Step)
      BY <1>1 DEF ShapeInv, TypeInv
    <3>2. q # <<>>
      BY <2>2, QueueBusy
    <3>. QED  BY <3>1, <3>2
  <2>. QED  BY <2>2, <2>3
<1>4. out'[p] = out[p] /\ (SpentDeep(out[p]) => SpentDeep(out[p])')
  BY <1>2, <1>3, RecordKept, DeepKept
<1>5. Head(q).do \in ArmSteps \/ Proves(q) => rec'[p] \in InFlight \/ SpentDeep(out[p])'
  <2>1. CASE rec'[p] = rec[p]
    BY <1>2, <1>4, <2>1 DEF PauseAt
  <2>2. CASE rec'[p] # rec[p]
    <3>1. CASE Settled(p)
      BY <1>4, <3>1 DEF Settled
    <3>2. CASE \E v \in Workers : DoSave(v) /\ Handling(v) /\ task[v].id = p
      <4>1. PICK v \in Workers : DoSave(v) /\ Handling(v) /\ task[v].id = p
        BY <3>2
      <4>2. v = w
        BY <1>1, <4>1 DEF WorkInv, HandlerInv, Handling, HandlerOps
      <4>3. task'[w] = Idle \/ task'[w].todo = Tail(q)
        <5>1. Then(w, Rest(w)) /\ Rest(w) \in Seq(Step)
          BY <1>1, <1>3, <4>1, <4>2, Working DEF DoSave
        <5>2. TypeInv /\ Rest(w) = Tail(q)
          BY <1>1 DEF ShapeInv, Rest
        <5>3. task'[w] = IF Rest(w) = <<>> THEN Idle
                         ELSE [op |-> task[w].op, id |-> task[w].id, todo |-> Rest(w)]
          BY <5>1, <5>2, ThenTask
        <5>. QED  BY <5>2, <5>3
      <4>4. Tail(q) # q
        <5>1. Len(q) \in Nat /\ Len(q) # 0
          BY <1>3
        <5>2. PICK z : z = Tail(q)
          OBVIOUS
        <5>3. Len(z) = Len(q) - 1
          BY <1>3, <5>2
        <5>4. z # q
          BY <5>1, <5>3
        <5>. QED  BY <5>2, <5>4
      <4>. QED  BY <1>1, <4>3, <4>4 DEF Idle
    <3>. QED  BY <1>2, <2>2, <3>1, <3>2, RecordWritten
  <2>. QED  BY <2>1, <2>2
<1>6. Proves(q) => Unopposed(p)' \/ SpentDeep(out[p])'
  <2> SUFFICES ASSUME Proves(q), ~SpentDeep(out[p]) PROVE Unopposed(p)'
    BY <1>4
  <2>1. rec[p] \in InFlight /\ Unopposed(p)
    BY <1>2 DEF PauseAt
  <2>. QED  BY <1>2, <1>3, <2>1, PauseBlocks, UnopposedStays
<1>7. PauseAt(p, q)'
  BY <1>4, <1>5, <1>6 DEF PauseAt, Proves
<1>. QED  BY <1>1, <1>7

\* A submit of a pause begins with the pause in flight.
LEMMA PauseStarts ==
  ASSUME ShapeInv, NEW w \in Workers, Start(w)
  PROVE  PauseTask(w)'
<1> SUFFICES ASSUME task'[w].op = "submit", task'[w].id \in Pauses
             PROVE  PauseAt(task[w].id, task[w].todo)'
  BY DEF PauseTask
<1>0. TypeInv
  BY DEF ShapeInv
<1>1. PICK r \in Requests : Build(w, r) \/ Reject(w, r) \/ Finalize(w, r) \/ Submit(w, r)
  BY DEF Start
<1>2. ~Build(w, r) /\ ~Reject(w, r) /\ ~Finalize(w, r)
  BY <1>0 DEF Build, Reject, Finalize, Begin, TypeInv
<1>3. Submit(w, r)
  BY <1>1, <1>2
<1>4. rec[r] \in InFlight /\ rec' = rec
  BY <1>3 DEF Submit, InFlight, store
<1>5. PICK e : e \in {Save(r, "STALE"), Write("arm", r, "own"), Write("arm", r, "missing"),
                      Write("arm", r, "foreign")} /\ Begin(w, "submit", r, <<e>>)
  BY <1>3 DEF Submit
<1>6. task'[w].id = r /\ task'[w].todo = <<e>>
  BY <1>0, <1>5 DEF Begin, TypeInv
<1>7. e.do \in {"save", "arm"}
  BY <1>5 DEF Save, Write
<1>8. ~Proves(<<e>>)
  BY <1>7, ShortProves
<1>9. PICK z : z = task'[w].todo
  OBVIOUS
<1>10. ~Proves(z) /\ rec'[r] \in InFlight
  BY <1>4, <1>6, <1>8, <1>9
<1>11. PauseAt(r, z)'
  BY <1>10 DEF PauseAt, InFlight, Proves
<1>. QED  BY <1>6, <1>9, <1>11

\* A worker that goes on with its task begins no finalize.
LEMMA NoBegin ==
  ASSUME TypeInv, NEW w \in Workers, Perform(w), NEW v \in Workers, NEW r \in Requests,
         Finalize(v, r)
  PROVE  FALSE
<1>1. task[w].todo # <<>>
  BY PerformBusy
<1>2. task[v] = Idle /\ task'[v].op = "finalize"
  BY DEF Finalize, Begin, TypeInv
<1>3. v # w
  BY <1>1, <1>2 DEF Idle
<1>4. task'[v] = task[v]
  BY <1>3, PerformKept DEF TaskKept
<1>. QED  BY <1>2, <1>4 DEF Idle

\* So an unopposed pause stays so.
LEMMA UnopposedGoes ==
  ASSUME ShapeInv, WorkInv, NEW w \in Workers, Perform(w), NEW p \in Requests,
         rec[p] # "none", Unopposed(p)
  PROVE  Unopposed(p)'
<1>1. [Next]_vars
  BY DEF Next
<1>2. \A v \in Workers, q \in Spends : ~Finalize(v, q)
  BY NoBegin DEF ShapeInv, Requests
<1>. QED  BY <1>1, <1>2, UnopposedStays

\* What a submit of a pause knows when it goes on without a write of its record.
LEMMA PauseCarries ==
  ASSUME ShapeInv, WorkInv, NEW w \in Workers, Perform(w), NEW p \in Pauses,
         rec[p] # "none", NEW q, PauseAt(p, q),
         NEW z, Proves(z) => Proves(q), rec' = rec,
         Head(z).do \in ArmSteps => Head(q).do \in ArmSteps
  PROVE  PauseAt(p, z)'
<1>1. [Next]_vars /\ p \in Requests
  BY DEF Next, Requests
<1>2. out'[p] = out[p] /\ (SpentDeep(out[p]) => SpentDeep(out[p])')
  BY <1>1, RecordKept, DeepKept
<1>3. Proves(z) => Unopposed(p)' \/ SpentDeep(out[p])'
  BY <1>1, <1>2, UnopposedGoes DEF PauseAt
<1>4. Head(z).do \in ArmSteps \/ Proves(z) => rec'[p] \in InFlight \/ SpentDeep(out[p])'
  BY <1>2 DEF PauseAt
<1>. QED  BY <1>2, <1>3, <1>4 DEF PauseAt, Proves, InFlight

\* A submit that finds its pause uncontested finds no request of a delegate
\* on its outpoint.
LEMMA UncontestedAlone ==
  ASSUME ShapeInv, NEW p \in Pauses, NEW f, ~Contested(p, f)
  PROVE  Unopposed(p)
<1> SUFFICES ASSUME NEW q \in Spends, out[q] = out[p] PROVE NotGoing(q)
  BY DEF Unopposed
<1>1. q \in Requests \ {p}
  BY SettlementAssumption DEF Requests, BreakGlass
<1>2. rec[q] = "none"
  BY <1>1 DEF Contested
<1>3. ASSUME NEW w \in Workers, task[w].op \in {"finalize", "submit"}, task[w].id = q
      PROVE  FALSE
  <2>1. TaskShape(w)
    BY DEF ShapeInv
  <2>. QED  BY <1>2, <1>3, <2>1 DEF TaskShape, Idle, HandlerOps
<1>. QED  BY <1>2, <1>3 DEF NotGoing, InFlight

\* What a submit of a pause is at, and what it knows.
LEMMA PauseAtWork ==
  ASSUME ShapeInv, PauseInv, NEW w \in Workers, task[w].todo # <<>>,
         task[w].op = "submit", NEW p, p = task[w].id, p \in Pauses, NEW q, q = task[w].todo
  PROVE  /\ Handling(w) /\ p \in Requests /\ rec[p] # "none"
         /\ q \in SubmitQueues(p) /\ SubmitHead(q, p) /\ PauseAt(p, q)
         /\ q \in Seq(Step) /\ q # <<>> /\ Head(q) = Now(w) /\ Tail(q) = Rest(w)
         /\ Now(w).id = p
<1>1. Handling(w) /\ Now(w).id = task[w].id /\ q \in Seq(Step)
  BY Working DEF Verifying
<1>2. p \in Requests /\ rec[p] # "none" /\ q \in SubmitQueues(p)
  BY <1>1 DEF Handling, HandlerQueues
<1>3. SubmitHead(q, p)
  BY <1>2, SubmitHeads
<1>4. PauseAt(p, q)
  BY DEF PauseInv, PauseTask
<1>. QED  BY <1>1, <1>2, <1>3, <1>4 DEF Now, Rest

\* After a write of the record it may write the manifest only in flight.
LEMMA PauseSave ==
  ASSUME ShapeInv, WorkInv, PauseInv, NEW w \in Workers, DoSave(w),
         task[w].op = "submit", NEW p, p = task[w].id, p \in Pauses,
         NEW z, z = Rest(w), z # <<>>
  PROVE  PauseAt(p, z)'
<1>1. task[w].todo # <<>> /\ Now(w).do = "save"
  BY DEF DoSave, Doing, Now
<1>2. PICK q : q = task[w].todo
  OBVIOUS
<1>3. /\ p \in Requests /\ rec[p] # "none" /\ q \in SubmitQueues(p) /\ PauseAt(p, q)
      /\ q \in Seq(Step) /\ q # <<>> /\ Head(q) = Now(w) /\ z = Tail(q) /\ Now(w).id = p
  BY <1>1, <1>2, PauseAtWork
<1>4. [Next]_vars /\ Perform(w)
  BY DEF Next, Perform
<1>5. out'[p] = out[p] /\ (SpentDeep(out[p]) => SpentDeep(out[p])')
  BY <1>3, <1>4, RecordKept, DeepKept
<1>6. Proves(z) => Proves(q)
  BY <1>2, <1>3, VerdictProves
<1>7. Head(z).do \notin ArmSteps
  BY <1>1, <1>2, <1>3, AfterSave
<1>8. Proves(z) => rec'[p] \in InFlight
  <2>1. rec'[p] = Now(w).as
    BY <1>3, Found DEF DoSave
  <2>2. Proves(z) => Now(w).as \in {"SUBMITTING", "SUBMITTED"}
    BY <1>1, <1>2, <1>3, ProvesSaves
  <2>. QED  BY <2>1, <2>2 DEF InFlight
<1>9. Proves(z) => Unopposed(p)' \/ SpentDeep(out[p])'
  BY <1>3, <1>4, <1>5, <1>6, UnopposedGoes DEF PauseAt
<1>10. PauseAt(p, z)'
  BY <1>5, <1>7, <1>8, <1>9 DEF PauseAt, Proves, InFlight
<1>. QED  BY <1>10

\* It looks at the chain and at its claim.
LEMMA PauseArm ==
  ASSUME ShapeInv, WorkInv, PauseInv, NEW w \in Workers, DoArm(w) \/ DoHold(w),
         task[w].op = "submit", NEW p, p = task[w].id, p \in Pauses,
         NEW z, z # <<>>, z \in Seq(Step), Then(w, z)
  PROVE  PauseAt(p, z)'
<1>1. task[w].todo # <<>> /\ Now(w).do \in ArmSteps /\ rec' = rec /\ TypeInv
  BY DEF DoArm, DoHold, Doing, Now, ShapeInv, store, ArmSteps
<1>2. PICK q : q = task[w].todo
  OBVIOUS
<1>3. /\ p \in Requests /\ rec[p] # "none" /\ PauseAt(p, q) /\ Head(q) = Now(w) /\ Now(w).id = p
  BY <1>1, <1>2, PauseAtWork
<1>4. Perform(w)
  BY DEF Perform
<1>5. \A y : Then(w, y) => y = z
  BY <1>1 DEF Then, TypeInv, Idle
<1>6. PICK a : z = <<a>> /\ a.do \in {"hold", "contest"}
  <2>1. CASE DoArm(w)
    <3>1. Now(w) \in Step
      BY <1>1, Working
    <3>2. PICK a : a = [Now(w) EXCEPT !.do = "hold"]
      OBVIOUS
    <3>3. a.do = "hold"
      BY <3>1, <3>2 DEF Step
    <3>4. Then(w, <<a>>) \/ Then(w, <<>>)
      BY <2>1, <3>2 DEF DoArm
    <3>. QED  BY <1>5, <3>3, <3>4
  <2>2. CASE DoHold(w)
    <3>1. PICK h \in Holds : Then(w, <<Write("contest", p, h)>>) \/ Then(w, <<>>)
      BY <1>3, <2>2 DEF DoHold, Holds
    <3>2. Write("contest", p, h).do = "contest"
      BY DEF Write
    <3>. QED  BY <1>5, <3>1, <3>2
  <2>. QED  BY <2>1, <2>2
<1>7. ~Proves(z)
  BY <1>6, ShortProves
<1>. QED  BY <1>1, <1>3, <1>4, <1>7, PauseCarries

\* It decides whether the pause is contested.
LEMMA PauseContest ==
  ASSUME ShapeInv, WorkInv, PauseInv, NEW w \in Workers, DoContest(w),
         task[w].op = "submit", NEW p, p = task[w].id, p \in Pauses,
         NEW z, z # <<>>, z \in Seq(Step), Then(w, z)
  PROVE  PauseAt(p, z)'
<1>1. task[w].todo # <<>> /\ Now(w).do = "contest" /\ rec' = rec /\ TypeInv
  BY DEF DoContest, Doing, Now, ShapeInv, store
<1>2. PICK q : q = task[w].todo
  OBVIOUS
<1>3. /\ p \in Requests /\ rec[p] # "none" /\ PauseAt(p, q) /\ Head(q) = Now(w) /\ Now(w).id = p
  BY <1>1, <1>2, PauseAtWork
<1>4. [Next]_vars /\ Perform(w)
  BY DEF Next, Perform
<1>5. out'[p] = out[p] /\ (SpentDeep(out[p]) => SpentDeep(out[p])')
  BY <1>3, <1>4, RecordKept, DeepKept
<1>6. PICK f, k : /\ k = (IF Contested(p, f) THEN "contested" ELSE "uncontested")
                  /\ Then(w, <<Save(p, "SUBMITTING"), Write("broadcast", p, k)>>)
  BY <1>3 DEF DoContest
<1>7. PICK a, b : a = Save(p, "SUBMITTING") /\ b = Write("broadcast", p, k)
  OBVIOUS
<1>8. a.do = "save" /\ b.do = "broadcast" /\ b.as = k
  BY <1>7 DEF Save, Write
<1>9. z = <<a, b>>
  <2>1. <<a, b>> # <<>>
    BY Short
  <2>2. task'[w].todo = <<a, b>> /\ task'[w].todo = z
    BY <1>1, <1>6, <1>7, <2>1 DEF Then, TypeInv
  <2>. QED  BY <2>2
<1>10. Head(z).do \notin ArmSteps
  BY <1>8, <1>9, Short DEF ArmSteps
<1>11. Proves(z) => ~Contested(p, f)
  BY <1>6, <1>8, <1>9, ShortProves
<1>12. Proves(z) => Unopposed(p)'
  BY <1>3, <1>4, <1>11, UncontestedAlone, UnopposedGoes
<1>13. rec'[p] \in InFlight \/ SpentDeep(out[p])'
  BY <1>1, <1>3, <1>5 DEF PauseAt, ArmSteps
<1>. QED  BY <1>5, <1>10, <1>12, <1>13 DEF PauseAt, Proves, InFlight

\* An answer of the node proves nothing of a contested pause.
LEMMA PauseBroadcast ==
  ASSUME ShapeInv, WorkInv, PauseInv, NEW w \in Workers, DoBroadcast(w),
         task[w].op = "submit", NEW p, p = task[w].id, p \in Pauses,
         NEW z, z # <<>>, z \in Seq(Step), Then(w, z)
  PROVE  PauseAt(p, z)'
<1>1. task[w].todo # <<>> /\ Now(w).do = "broadcast" /\ rec' = rec /\ TypeInv
  BY DEF DoBroadcast, Doing, Now, ShapeInv
<1>2. PICK q : q = task[w].todo
  OBVIOUS
<1>3. /\ p \in Requests /\ rec[p] # "none" /\ PauseAt(p, q) /\ Head(q) = Now(w) /\ Now(w).id = p
      /\ q \in Seq(Step) /\ q # <<>> /\ SubmitHead(q, p)
  BY <1>1, <1>2, PauseAtWork
<1>4. Perform(w)
  BY DEF Perform
<1>5. \/ Then(w, <<Save(p, "SUBMITTED")>>)
      \/ Now(w).as # "contested" /\ Then(w, <<Save(p, "SUBMITTED"), Do("prove", p)>>)
      \/ Then(w, <<Save(p, "RECONCILIATION_REQUIRED")>>)
      \/ Then(w, <<Save(p, "SUBMISSION_REJECTED"), Do("release", p)>>)
  <2>1. Taken(w, p) \/ Uncertain(w, p) \/ Rejected(w, p)
    BY <1>3 DEF DoBroadcast
  <2>. QED  BY <2>1, Zenon DEF Taken, Uncertain, Rejected
<1>6. PICK t : /\ Then(w, t)
               /\ \/ t = <<Save(p, "SUBMITTED")>>
                  \/ Now(w).as # "contested" /\ t = <<Save(p, "SUBMITTED"), Do("prove", p)>>
                  \/ t = <<Save(p, "RECONCILIATION_REQUIRED")>>
                  \/ t = <<Save(p, "SUBMISSION_REJECTED"), Do("release", p)>>
  BY <1>5
<1>7. z = t
  <2>1. t # <<>>
    BY <1>6, Short
  <2>2. task'[w].todo = t /\ task'[w].todo = z
    BY <1>1, <1>6, <2>1 DEF Then, TypeInv
  <2>. QED  BY <2>2
<1>8. \A l : Save(p, l).do = "save"
  BY DEF Save, Write
<1>9. Do("release", p).do = "release"
  BY DEF Do, Write
<1>10. Head(z).do = "save"
  BY <1>6, <1>7, <1>8, Short
<1>11. Proves(z) => Proves(q)
  <2>1. CASE Now(w).as # "contested"
    <3>1. Now(w).as = "uncontested"
      BY <1>1, <1>3, <2>1 DEF SubmitHead, After, Begun, ArmSteps, Labels, SignedOrRejected, InFlight, Do, Write
    <3>. QED  BY <1>1, <1>3, <3>1, VerdictProves
  <2>2. CASE Now(w).as = "contested"
    <3>1. ~Proves(t)
      BY <1>6, <1>8, <1>9, <2>2, ShortProves
    <3>. QED  BY <1>7, <3>1
  <2>. QED  BY <2>1, <2>2
<1>. QED  BY <1>1, <1>3, <1>4, <1>10, <1>11, PauseCarries DEF ArmSteps

\* It looks for its successor, and goes on or gives up.
LEMMA PauseProve ==
  ASSUME ShapeInv, WorkInv, PauseInv, NEW w \in Workers, DoProve(w),
         task[w].op = "submit", NEW p, p = task[w].id, p \in Pauses,
         NEW z, z # <<>>, z \in Seq(Step), Then(w, z)
  PROVE  PauseAt(p, z)'
<1>1. task[w].todo # <<>> /\ Now(w).do = "prove" /\ rec' = rec /\ TypeInv
  BY DEF DoProve, Doing, Now, ShapeInv, store, node
<1>2. PICK q : q = task[w].todo
  OBVIOUS
<1>3. /\ p \in Requests /\ rec[p] # "none" /\ PauseAt(p, q) /\ Head(q) = Now(w) /\ Now(w).id = p
      /\ q \in Seq(Step) /\ q # <<>>
  BY <1>1, <1>2, PauseAtWork
<1>4. Perform(w) /\ Proves(q)
  BY <1>1, <1>3, VerdictProves DEF Perform
<1>5. \/ Then(w, <<Do("advance", p), Save(p, "CHAIN_VERIFIED"), Do("receipt", p)>>)
      \/ Then(w, <<Save(p, "RECONCILIATION_REQUIRED")>>)
  BY <1>3 DEF DoProve
<1>6. \/ z = <<Do("advance", p), Save(p, "CHAIN_VERIFIED"), Do("receipt", p)>>
      \/ z = <<Save(p, "RECONCILIATION_REQUIRED")>>
  <2>1. \A t : Then(w, t) /\ t # <<>> => t = z
    BY <1>1 DEF Then, TypeInv
  <2>. QED  BY <1>5, <2>1, Short
<1>7. Head(z) = Do("advance", p) \/ Head(z) = Save(p, "RECONCILIATION_REQUIRED")
  BY <1>6, Short
<1>8. Head(z).do \in {"advance", "save"}
  BY <1>7 DEF Do, Save, Write
<1>. QED  BY <1>1, <1>3, <1>4, <1>8, PauseCarries DEF ArmSteps

\* After the manifest it writes its record, and a receipt.
LEMMA PauseAdvance ==
  ASSUME ShapeInv, WorkInv, PauseInv, NEW w \in Workers, DoAdvance(w),
         task[w].op = "submit", NEW p, p = task[w].id, p \in Pauses,
         NEW z, z = Rest(w), z # <<>>
  PROVE  PauseAt(p, z)'
<1>1. task[w].todo # <<>> /\ Now(w).do = "advance" /\ rec' = rec
  BY DEF DoAdvance, Doing, Now
<1>2. PICK q : q = task[w].todo
  OBVIOUS
<1>3. /\ p \in Requests /\ rec[p] # "none" /\ PauseAt(p, q) /\ Head(q) = Now(w)
      /\ q \in Seq(Step) /\ q # <<>> /\ z = Tail(q) /\ q \in SubmitQueues(p)
  BY <1>1, <1>2, PauseAtWork
<1>4. Perform(w)
  BY DEF Perform
<1>5. Head(z).do = "save"
  BY <1>1, <1>3, SubmitRest
<1>6. Proves(z) => Proves(q)
  BY <1>3, VerdictProves
<1>. QED  BY <1>1, <1>3, <1>4, <1>5, <1>6, PauseCarries DEF ArmSteps

\* Every step of a submit of a pause.
LEMMA PauseActs ==
  ASSUME ShapeInv, WorkInv, PauseInv, NEW w \in Workers, Perform(w)
  PROVE  PauseTask(w)'
<1> SUFFICES ASSUME task'[w].op = "submit", task'[w].id \in Pauses
             PROVE  PauseAt(task[w].id, task[w].todo)'
  BY DEF PauseTask
<1>0. TypeInv /\ ShapeInv'
  BY ShapeNext DEF ShapeInv, Next
<1>1. task[w].op = "submit" /\ task'[w].id = task[w].id
  BY <1>0, PerformKept DEF TaskKept, Idle
<1>2. task[w].todo # <<>>
  BY PerformBusy
<1>3. PICK p, z : p = task[w].id /\ z = task'[w].todo
  OBVIOUS
<1>4. p \in Pauses /\ z \in Seq(Step)
  BY <1>0, <1>1, <1>3 DEF ShapeInv, TypeInv
<1>5. ASSUME NEW q, Then(w, q) PROVE q # <<>> /\ q = z
  BY <1>0, <1>3, <1>5 DEF Then, TypeInv, Idle
<1>6. Handling(w) /\ ~Verifying(w)
  BY <1>1, <1>2, Working DEF Verifying
<1>7. ~DoReread(w) /\ ~DoClaim(w) /\ ~DoSettle(w) /\ ~DoAdopt(w) /\ ~DoLeftover(w)
  BY <1>1, <1>2, <1>6, WhoDoes DEF DoReread, DoClaim, DoSettle, DoAdopt, DoLeftover, Doing, Now
<1>8. ~DoReceipt(w) /\ ~DoRemove(w)
  <2>1. DoReceipt(w) \/ DoRemove(w) =>
          Now(w).do \in {"receipt", "remove"} /\ Then(w, Rest(w))
    BY DEF DoReceipt, DoRemove, Doing, Now
  <2>. QED  BY <1>2, <1>5, <1>6, <2>1, SubmitEnds
<1>9. PauseAt(p, z)'
  <2>1. CASE DoSave(w)
    <3>1. Rest(w) # <<>> /\ z = Rest(w)
      BY <1>5, <2>1 DEF DoSave
    <3>. QED  BY <1>1, <1>3, <1>4, <2>1, <3>1, PauseSave
  <2>2. CASE DoArm(w) \/ DoHold(w)
    <3>1. \E q : Then(w, q)
      BY <2>2, Zenon DEF DoArm, DoHold
    <3>2. z # <<>> /\ Then(w, z)
      BY <1>5, <3>1
    <3>. QED  BY <1>1, <1>3, <1>4, <2>2, <3>2, PauseArm
  <2>6. CASE DoContest(w)
    <3>1. \E q : Then(w, q)
      BY <2>6, Zenon DEF DoContest
    <3>2. z # <<>> /\ Then(w, z)
      BY <1>5, <3>1
    <3>. QED  BY <1>1, <1>3, <1>4, <2>6, <3>2, PauseContest
  <2>3. CASE DoBroadcast(w)
    <3>1. \E q : Then(w, q)
      BY <2>3, Zenon DEF DoBroadcast, Taken, Uncertain, Rejected
    <3>2. z # <<>> /\ Then(w, z)
      BY <1>5, <3>1
    <3>. QED  BY <1>1, <1>3, <1>4, <2>3, <3>2, PauseBroadcast
  <2>4. CASE DoProve(w)
    <3>1. \E q : Then(w, q)
      BY <2>4, Zenon DEF DoProve
    <3>2. z # <<>> /\ Then(w, z)
      BY <1>5, <3>1
    <3>. QED  BY <1>1, <1>3, <1>4, <2>4, <3>2, PauseProve
  <2>5. CASE DoAdvance(w)
    <3>1. Rest(w) # <<>> /\ z = Rest(w)
      BY <1>5, <2>5 DEF DoAdvance
    <3>. QED  BY <1>1, <1>3, <1>4, <2>5, <3>1, PauseAdvance
  <2>7. CASE DoRelease(w)
    <3>1. Now(w).do = "release" /\ rec' = rec
      BY <2>7 DEF DoRelease, Doing, Now, store
    <3>2. Rest(w) = <<>> /\ Now(w).id = p
      BY <1>2, <1>3, <1>6, <3>1, SubmitEnds
    <3>3. Then(w, <<>>) \/ Then(w, <<Do("remove", p)>> \o <<>>)
      BY <2>7, <3>2 DEF DoRelease
    <3>4. PICK b : b = Do("remove", p)
      OBVIOUS
    <3>5. <<b>> \o <<>> = <<b>> /\ b.do = "remove"
      BY <3>4 DEF Do, Write
    <3>6. z = <<b>>
      BY <1>5, <3>3, <3>4, <3>5
    <3>7. ~Proves(z) /\ Head(z).do \notin ArmSteps
      BY <3>5, <3>6, ShortProves, Short DEF ArmSteps
    <3>8. PICK q : q = task[w].todo
      OBVIOUS
    <3>9. PauseAt(p, q) /\ p \in Requests /\ rec[p] # "none"
      BY <1>1, <1>2, <1>3, <1>4, <3>8, PauseAtWork
    <3>. QED  BY <1>4, <3>1, <3>7, <3>9, PauseCarries
  <2>. QED  BY <1>7, <1>8, <2>1, <2>2, <2>3, <2>4, <2>5, <2>6, <2>7 DEF Perform
<1>. QED  BY <1>1, <1>3, <1>9

\* The manifest moves when it is advanced or a pause is adopted.
LEMMA LiveMoved ==
  ASSUME ShapeInv, [Next]_vars, manifest'.live # manifest.live
  PROVE  \E w \in Workers : DoAdvance(w) \/ DoAdopt(w)
<1>1. manifest' # manifest
  OBVIOUS
<1>. QED  BY ZenonT(20), <1>1 DEF Next, vars, Accept, AcceptOutside, Bury, Reorg, Start, Verify, Perform, Abort,
            Build, Reject, Finalize, Submit, DoSave, DoReread, DoClaim, DoArm, DoHold, DoContest, DoBroadcast,
            DoProve, DoReceipt, DoRelease, DoRemove, DoSettle, DoLeftover, store

\* What it is advanced to is recorded, by a submit of it or because it is deep.
LEMMA Advanced ==
  ASSUME ShapeInv, NEW w \in Workers, DoAdvance(w)
  PROVE  /\ task[w].todo # <<>> /\ Now(w).do = "advance" /\ rec' = rec
         /\ Now(w).id \in Requests /\ rec[Now(w).id] # "none"
         /\ manifest'.live = IF Now(w).id \in Recovers THEN Closed ELSE Now(w).id
         /\ (task[w].op = "submit" /\ Now(w).id = task[w].id) \/ Deep(Now(w).id)
<1>1. /\ task[w].todo # <<>> /\ Now(w).do = "advance" /\ rec' = rec
      /\ manifest'.live = IF Now(w).id \in Recovers THEN Closed ELSE Now(w).id
  BY DEF DoAdvance, Doing, Now
<1>2. Now(w).id \in Requests
  BY <1>1, WhoDoes
<1>3. CASE Verifying(w) /\ VerifyStep(Now(w))
  <2>1. Deep(Now(w).id)
    BY <1>1, <1>3 DEF VerifyStep
  <2>2. rec[Now(w).id] # "none"
    BY <1>2, <2>1, DeepSpends DEF ShapeInv, Recorded
  <2>. QED  BY <1>1, <1>2, <2>1, <2>2
<1>4. CASE Handling(w) /\ Now(w).id = task[w].id
  <2>1. PICK q, r : q = task[w].todo /\ r = task[w].id
    OBVIOUS
  <2>2. Head(q).do = "advance"
    BY <1>1, <2>1 DEF Now
  <2>3. \A l : Save(r, l).do = "save"
    BY DEF Save, Write
  <2>4. task[w].op \notin {"build", "reject"}
    BY <1>4, <2>1, <2>2, <2>3, Short DEF Handling, HandlerQueues
  <2>5. task[w].op # "finalize"
    <3> SUFFICES ASSUME task[w].op = "finalize" PROVE FALSE
      OBVIOUS
    <3>1. q \in FinalizeQueues(r)
      BY <1>4, <2>1 DEF Handling, HandlerQueues
    <3>. QED  BY <1>4, <2>1, <2>2, <3>1, FinalizeRest DEF Handling
  <2>. QED  BY <1>1, <1>2, <1>4, <2>4, <2>5 DEF Handling, HandlerOps
<1>. QED  BY <1>1, <1>3, <1>4, Working

\* A pause is recorded as live when what it spends is spent at depth, or when
\* it is unopposed.
LEMMA PauseRecorded ==
  ASSUME ShapeInv, WorkInv, PauseInv, NEW w \in Workers, DoAdvance(w),
         NEW p \in Pauses, manifest'.live = p
  PROVE  SpentDeep(out[p])' \/ Unopposed(p)'
<1>1. p \in Requests /\ p # Closed
  BY Names DEF Requests
<1>2. p = Now(w).id /\ rec[p] # "none"
  BY <1>1, Advanced
<1>3. [Next]_vars /\ Perform(w)
  BY DEF Next, Perform
<1>4. out'[p] = out[p] /\ (SpentDeep(out[p]) => SpentDeep(out[p])')
  BY <1>1, <1>2, <1>3, RecordKept, DeepKept
<1>5. CASE Deep(p)
  BY <1>1, <1>4, <1>5, DeepSpends DEF ShapeInv
<1>6. CASE ~Deep(p)
  <2>1. task[w].todo # <<>> /\ Now(w).do = "advance" /\ task[w].op = "submit" /\ p = task[w].id
    BY <1>2, <1>6, Advanced
  <2>2. PICK q : q = task[w].todo
    OBVIOUS
  <2>3. PauseAt(p, q) /\ Head(q) = Now(w) /\ q \in Seq(Step) /\ q # <<>>
    BY <2>1, <2>2, PauseAtWork
  <2>4. Proves(q)
    BY <2>1, <2>3, VerdictProves
  <2>5. Unopposed(p) \/ SpentDeep(out[p])
    BY <2>3, <2>4 DEF PauseAt
  <2>. QED  BY <1>1, <1>2, <1>3, <1>4, <2>5, UnopposedGoes
<1>. QED  BY <1>5, <1>6

\* Initially nothing is built, recorded or worked on.
LEMMA PauseInit == Init => PauseInv
<1> SUFFICES ASSUME Init PROVE PauseInv
  OBVIOUS
<1>1. manifest.live = Genesis /\ Genesis \notin Requests
  BY Names DEF Init
<1>2. \A r \in Requests : out[r] = None /\ r # None
  BY Names DEF Init
<1>3. \A w \in Workers : PauseTask(w)
  BY DEF Init, PauseTask, Idle
<1>4. \A p \in Pauses : manifest.live # p
  BY <1>1 DEF Requests
<1>. QED  BY <1>1, <1>2, <1>3, <1>4 DEF PauseInv

\* Every step keeps PauseInv.
LEMMA PauseNext ==
  ASSUME ShapeInv, WorkInv, PauseInv, [Next]_vars
  PROVE  PauseInv'
<1>1. ASSUME NEW r \in Requests PROVE out'[r] # r
  <2>1. CASE out'[r] = out[r]
    BY <2>1 DEF PauseInv
  <2>2. CASE out'[r] # out[r]
    <3>1. PICK w \in Workers : Build(w, r)
      BY <2>2, OutMoved
    <3>2. rec[r] = "none" /\ out'[r] = manifest.live
      BY <3>1, Found DEF Build
    <3>. QED  BY <3>2 DEF PauseInv
  <2>. QED  BY <2>1, <2>2
<1>2. ASSUME manifest'.live \in Requests PROVE rec'[manifest'.live] # "none"
  <2>1. CASE manifest'.live = manifest.live
    BY <1>2, <2>1, RecordKept DEF PauseInv
  <2>2. ASSUME NEW w \in Workers, DoAdvance(w) PROVE rec'[manifest'.live] # "none"
    <3>1. manifest'.live = Now(w).id
      BY <1>2, <2>2, Advanced, Names
    <3>. QED  BY <2>2, <3>1, Advanced
  <2>3. ASSUME NEW w \in Workers, DoAdopt(w) PROVE FALSE
    BY <1>2, <2>3, Names DEF DoAdopt
  <2>. QED  BY <2>1, <2>2, <2>3, LiveMoved
<1>3. ASSUME NEW p \in Pauses, manifest'.live = p PROVE SpentDeep(out[p])' \/ Unopposed(p)'
  <2>0. p \in Requests
    BY DEF Requests
  <2>1. CASE manifest.live = p
    <3>1. rec[p] # "none" /\ out[p] # p
      BY <2>0, <2>1 DEF PauseInv
    <3>2. CASE SpentDeep(out[p])
      BY <2>0, <3>1, <3>2, RecordKept, DeepKept
    <3>3. CASE Unopposed(p)
      BY <2>0, <2>1, <3>1, <3>3, UnopposedStays
    <3>. QED  BY <2>1, <3>2, <3>3 DEF PauseInv
  <2>2. CASE manifest.live # p
    <3>1. PICK w \in Workers : DoAdvance(w) \/ DoAdopt(w)
      BY <1>3, <2>2, LiveMoved
    <3>2. ~DoAdopt(w)
      BY <1>3, <2>0, Names DEF DoAdopt
    <3>. QED  BY <1>3, <3>1, <3>2, PauseRecorded
  <2>. QED  BY <2>1, <2>2
<1>4. ASSUME NEW w \in Workers PROVE PauseTask(w)'
  <2>1. CASE task'[w] = task[w]
    BY <2>1, PauseKept
  <2>2. CASE Start(w) \/ Perform(w)
    BY <2>2, PauseStarts, PauseActs
  <2>3. CASE Verify(w) \/ Abort(w)
    <3>1. task'[w].op # "submit"
      BY <2>3 DEF Verify, Abort, Idle, ShapeInv, TypeInv
    <3>. QED  BY <3>1 DEF PauseTask
  <2>. QED  BY <2>1, <2>2, <2>3, TaskMoved DEF ShapeInv
<1>. QED  BY <1>1, <1>2, <1>3, <1>4 DEF PauseInv

\* While a delegate's request in flight competes for the outpoint a recorded
\* pause spent, a deep transaction spends it: the pause was uncontested when it
\* was armed, and no competing request is finalized while the pause is in
\* flight or recorded; otherwise a Verify recorded it, of a pause that is deep.
THEOREM PauseWaits ==
  ASSUME OneHandler = TRUE
  PROVE  Spec => []ContestedPauseWaits
<1>1. ShapeInv /\ WorkInv /\ PauseInv /\ [Next]_vars => PauseInv'
  BY PauseNext
<1>2. PauseInv => ContestedPauseWaits
  BY DEF PauseInv, ContestedPauseWaits, Unopposed, NotGoing
<1>. QED  BY <1>1, <1>2, PauseInit, ShapeAlways, WorkAlways, PTL DEF Spec
===================
