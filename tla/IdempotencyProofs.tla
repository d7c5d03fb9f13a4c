-------------------------- MODULE IdempotencyProofs --------------------------
(***************************************************************************)
(* Proofs about the claims protocol of Idempotency, for any calls and keys *)
(* and any number of faults: a delivered response is durable, and the      *)
(* protocol implements OncePerKey.                                         *)
(***************************************************************************)
EXTENDS Idempotency, TLAPS

Writes == [key: Keys, expected: Record \cup {None}, next: Record]

Awaits == {"absent", "idle", "claim", "run", "mark", "unresolved", "prepare", "prepared?",
           "finalize", "complete?", "deliver", "look", "answered", "dead"}

IdemTypes ==
  /\ claims \in [Keys -> Record \cup {None}]
  /\ at \in [Calls -> Awaits]
  /\ held \in [Calls -> Record \cup {None}]
  /\ returned \in [Calls -> Outcomes \cup {None}]
  /\ flying \subseteq Writes
  /\ ran \subseteq Calls
  /\ answer \in [Calls -> Outcomes \cup Refusals \cup {None}]

\* A record of key k says the truth about its owner: a response it retains is
\* what the handler of the owner returned.
Truthful(r, k, calls, responses) ==
  /\ KeyOf[r.owner] = k
  /\ r.body = BodyOf[r.owner]
  /\ r.state \in {"PREPARED", "COMPLETE"} =>
       /\ r.owner \in calls
       /\ r.response \in Outcomes
       /\ responses[r.owner] = r.response

Recorded == \A k \in Keys : claims[k] # None => Truthful(claims[k], k, ran, returned)

\* No write, not even one that lands late, replaces a complete record.
Replaceable(r) == r # None => r.state # "COMPLETE"

Flown == \A w \in flying : Truthful(w.next, w.key, ran, returned) /\ Replaceable(w.expected)

RanOnce == /\ \A c \in ran : claims[KeyOf[c]] # None
           /\ \A c, d \in ran : KeyOf[c] = KeyOf[d] => c = d

\* An outcome that may be given to call c.
Durable(c, o, records) == /\ records[KeyOf[c]] # None
                          /\ records[KeyOf[c]].state = "COMPLETE"
                          /\ records[KeyOf[c]].body = BodyOf[c]
                          /\ records[KeyOf[c]].response = o

\* What a call knows at each of its awaits.
CallInv(c) ==
  /\ c \notin ran => returned[c] = None
  /\ at[c] \in {"absent", "idle", "claim"} => c \notin ran
  /\ at[c] \in {"run", "mark", "prepare", "prepared?"} =>
       c \in ran /\ held[c] = ClaimOf(c)
  /\ at[c] = "run" => returned[c] = None
  /\ at[c] \in {"prepare", "prepared?"} => returned[c] # None
  /\ at[c] \in {"finalize", "complete?"} =>
       /\ held[c] # None
       /\ held[c].state = "PREPARED"
       /\ held[c].body = BodyOf[c]
       /\ Truthful(held[c], KeyOf[c], ran, returned)
  /\ at[c] = "deliver" => held[c] # None /\ Durable(c, held[c].response, claims)
  /\ at[c] # "answered" => answer[c] = None
  /\ answer[c] \in Outcomes => Durable(c, answer[c], claims)

IdemInv == /\ IdemTypes
           /\ Recorded
           /\ Flown
           /\ RanOnce
           /\ \A c \in Calls : CallInv(c)

-----------------------------------------------------------------------------
\* Records.
LEMMA RecordFacts ==
  ASSUME NEW c \in Calls
  PROVE  /\ ClaimOf(c) \in Record
         /\ ClaimOf(c) # None
         /\ ClaimOf(c).state = "IN_PROGRESS"
         /\ ClaimOf(c).owner = c
         /\ ClaimOf(c).body = BodyOf[c]
BY NoneAssumption DEF ClaimOf, Record

\* What each rewrite of a record keeps and sets.
LEMMA NextRecord ==
  ASSUME NEW r \in Record, NEW o \in Outcomes
  PROVE  /\ Unknown(r) \in Record /\ Prepared(r, o) \in Record /\ Completed(r) \in Record
         /\ Unknown(r).owner = r.owner /\ Unknown(r).body = r.body
         /\ Unknown(r).state = "UNKNOWN"
         /\ Prepared(r, o).owner = r.owner /\ Prepared(r, o).body = r.body
         /\ Prepared(r, o).state = "PREPARED" /\ Prepared(r, o).response = o
         /\ Completed(r).owner = r.owner /\ Completed(r).body = r.body
         /\ Completed(r).state = "COMPLETE" /\ Completed(r).response = r.response
BY DEF Unknown, Prepared, Completed, Record

-----------------------------------------------------------------------------
\* What every step does to the records: at most one key gets a new record, a
\* truthful one, in the place of none or of one that was not complete; calls
\* that ran have run, and what they returned stays.
Puts(k, n) == /\ Replaceable(claims[k])
              /\ claims' = [claims EXCEPT ![k] = n]

ClaimsStep == \/ claims' = claims
              \/ \E k \in Keys, n \in Record : Truthful(n, k, ran', returned') /\ Puts(k, n)

Grows == /\ ran \subseteq ran'
         /\ \A c \in Calls : returned[c] # None => returned'[c] = returned[c]

\* A truthful record stays truthful as calls run and return.
LEMMA TruthKept ==
  ASSUME IdemInv, Grows, NEW r \in Record, NEW k \in Keys,
         Truthful(r, k, ran, returned)
  PROVE  Truthful(r, k, ran', returned')
<1>1. r.owner \in Calls /\ None \notin Outcomes
  BY IdemAssumption DEF Record
<1>. QED  BY <1>1 DEF Truthful, Grows

\* A complete record is never replaced.
LEMMA CompleteKept ==
  ASSUME IdemInv, ClaimsStep, NEW k \in Keys, claims[k] # None
  PROVE  /\ claims'[k] # None
         /\ claims[k].state = "COMPLETE" => claims'[k] = claims[k]
BY NoneAssumption DEF IdemInv, IdemTypes, ClaimsStep, Puts, Replaceable

\* The stored records stay truthful under such a step.
LEMMA RecordedKept ==
  ASSUME IdemInv, Grows, ClaimsStep PROVE Recorded'
<1>. SUFFICES ASSUME NEW k \in Keys, claims'[k] # None
              PROVE  Truthful(claims'[k], k, ran', returned')
  BY DEF Recorded
<1>1. CASE claims'[k] = claims[k]
  <2>1. claims[k] \in Record /\ Truthful(claims[k], k, ran, returned)
    BY <1>1 DEF IdemInv, IdemTypes, Recorded
  <2>. QED  BY <1>1, <2>1, TruthKept
<1>2. CASE claims'[k] # claims[k]
  <2>1. PICK n \in Record : /\ Truthful(n, k, ran', returned')
                            /\ claims' = [claims EXCEPT ![k] = n]
    BY <1>2 DEF ClaimsStep, Puts, IdemInv, IdemTypes
  <2>2. claims'[k] = n
    BY <2>1 DEF IdemInv, IdemTypes
  <2>. QED  BY <2>1, <2>2
<1>. QED  BY <1>1, <1>2

\* A call the step does not move knows what it knew.
LEMMA OthersKept ==
  ASSUME IdemInv, Grows, ClaimsStep, NEW d \in Calls,
         at'[d] = at[d], held'[d] = held[d], answer'[d] = answer[d],
         returned'[d] = returned[d], d \in ran' => d \in ran
  PROVE  CallInv(d)'
<1>1. CallInv(d) /\ KeyOf[d] \in Keys /\ held[d] \in Record \cup {None}
  BY IdemAssumption DEF IdemInv, IdemTypes
<1>2. \A o : Durable(d, o, claims) => Durable(d, o, claims')
  BY <1>1, CompleteKept DEF Durable
<1>3. held[d] # None /\ Truthful(held[d], KeyOf[d], ran, returned)
        => Truthful(held[d], KeyOf[d], ran', returned')
  BY <1>1, TruthKept
<1>4. d \in ran => d \in ran'
  BY DEF Grows
<1>5. answer[d] \in Outcomes => Durable(d, answer[d], claims')
  BY <1>1, <1>2 DEF CallInv
<1>6. at[d] = "deliver" => held[d] # None /\ Durable(d, held[d].response, claims')
  BY <1>1, <1>2 DEF CallInv
<1>. QED  BY <1>1, <1>3, <1>4, <1>5, <1>6 DEF CallInv

\* No call runs a handler whose key is already claimed.
LEMMA RanOnceKept ==
  ASSUME IdemInv, ClaimsStep, ran' = ran PROVE RanOnce'
BY CompleteKept, IdemAssumption DEF IdemInv, IdemTypes, RanOnce

\* A step of call c keeps the invariant if it keeps the records, and what c
\* knows.
LEMMA StepKept ==
  ASSUME IdemInv, NEW c \in Calls, Grows, ClaimsStep, IdemTypes', Flown', RanOnce',
         ran' \subseteq ran \cup {c}, CallInv(c)',
         \A d \in Calls : d # c => /\ at'[d] = at[d] /\ held'[d] = held[d]
                                  /\ answer'[d] = answer[d]
                                  /\ returned'[d] = returned[d]
  PROVE  IdemInv'
<1>1. Recorded'
  BY RecordedKept
<1>2. ASSUME NEW d \in Calls, d # c PROVE CallInv(d)'
  BY <1>2, OthersKept
<1>. QED  BY <1>1, <1>2 DEF IdemInv

\* The same for a step that moves c and touches no record.
LEMMA QuietStepKept ==
  ASSUME IdemInv, NEW c \in Calls, claims' = claims, flying' = flying, ran' = ran,
         IdemTypes', CallInv(c)',
         returned[c] # None => returned'[c] = returned[c],
         \A d \in Calls : d # c => /\ at'[d] = at[d] /\ held'[d] = held[d]
                                  /\ answer'[d] = answer[d]
                                  /\ returned'[d] = returned[d]
  PROVE  IdemInv'
<1>1. Grows /\ ClaimsStep
  BY DEF Grows, ClaimsStep
<1>2. RanOnce'
  BY <1>1, RanOnceKept
<1>3. Flown'
  <2>1. \A w \in flying : Truthful(w.next, w.key, ran', returned')
    BY <1>1, TruthKept DEF IdemInv, IdemTypes, Flown, Writes
  <2>. QED  BY <2>1 DEF IdemInv, Flown
<1>. QED  BY <1>1, <1>2, <1>3, StepKept

\* A write that throws: applied, not applied, or left in flight.
LEMMA ThrowsKept ==
  ASSUME IdemInv, NEW w \in Writes, Throws(w), ran' = ran, returned' = returned,
         Truthful(w.next, w.key, ran, returned), Replaceable(w.expected)
  PROVE  /\ Grows /\ ClaimsStep /\ Flown' /\ RanOnce'
         /\ claims' \in [Keys -> Record \cup {None}]
         /\ flying' \subseteq Writes
<1>1. w.key \in Keys /\ w.next \in Record
  BY DEF Writes
<1>2. Grows
  BY DEF Grows
<1>3. ClaimsStep /\ claims' \in [Keys -> Record \cup {None}]
  BY <1>1 DEF Throws, Matches, Put, ClaimsStep, Puts, IdemInv, IdemTypes
<1>4. flying' \subseteq flying \cup {w}
  BY DEF Throws
<1>5. Flown' /\ flying' \subseteq Writes
  BY <1>4 DEF IdemInv, IdemTypes, Flown
<1>6. RanOnce'
  BY <1>3, RanOnceKept
<1>. QED  BY <1>2, <1>3, <1>5, <1>6

\* A compare-and-set of a held record that is not complete keeps the invariant.
LEMMA AdvanceKept ==
  ASSUME IdemInv, NEW c \in Calls, NEW n \in Record,
         NEW then \in Awaits, NEW readback \in Awaits,
         held[c] \in Record, Replaceable(held[c]), Truthful(n, KeyOf[c], ran, returned),
         Advance(c, n, then, readback),
         claims'[KeyOf[c]] = n /\ at'[c] = then /\ held'[c] = n => CallInv(c)',
         at'[c] = readback /\ held'[c] = held[c] => CallInv(c)'
  PROVE  IdemInv'
<1>. DEFINE w == [key |-> KeyOf[c], expected |-> held[c], next |-> n]
<1>1. /\ KeyOf[c] \in Keys /\ w \in Writes
      /\ w.key = KeyOf[c] /\ w.expected = held[c] /\ w.next = n
  BY IdemAssumption DEF Writes
<1>2. returned' = returned /\ ran' = ran /\ answer' = answer
  BY DEF Advance
<1>3. /\ at \in [Calls -> Awaits] /\ held \in [Calls -> Record \cup {None}]
      /\ claims \in [Keys -> Record \cup {None}]
  BY DEF IdemInv, IdemTypes
<1>4. CASE /\ Matches(w.key, w.expected) /\ Put(w)
           /\ Goto(c, then) /\ Hold(c, n) /\ UNCHANGED <<flying, faults>>
  <2>1. /\ claims' = [claims EXCEPT ![KeyOf[c]] = n] /\ Replaceable(claims[KeyOf[c]])
        /\ at' = [at EXCEPT ![c] = then] /\ held' = [held EXCEPT ![c] = n]
        /\ flying' = flying
    BY <1>1, <1>4 DEF Matches, Put, Goto, Hold
  <2>. HIDE DEF w
  <2>2. Grows /\ ClaimsStep
    BY <1>1, <1>2, <2>1 DEF Grows, ClaimsStep, Puts
  <2>3. Flown' /\ RanOnce'
    BY <1>2, <2>1, <2>2, RanOnceKept DEF IdemInv, Flown
  <2>4. IdemTypes'
    BY <1>1, <1>2, <1>3, <2>1 DEF IdemInv, IdemTypes
  <2>5. claims'[KeyOf[c]] = n /\ at'[c] = then /\ held'[c] = n
    BY <1>1, <1>3, <2>1
  <2>. QED  BY <1>2, <1>3, <2>1, <2>2, <2>3, <2>4, <2>5, StepKept
<1>5. CASE /\ ~Matches(w.key, w.expected) /\ Goto(c, readback)
           /\ UNCHANGED <<claims, held, flying, faults>>
  <2>1. /\ at' = [at EXCEPT ![c] = readback]
        /\ claims' = claims /\ held' = held /\ flying' = flying
    BY <1>5 DEF Goto
  <2>. HIDE DEF w
  <2>2. IdemTypes'
    BY <1>2, <1>3, <2>1 DEF IdemInv, IdemTypes
  <2>. QED  BY <1>2, <1>3, <2>1, <2>2, QuietStepKept
<1>6. CASE Throws(w) /\ Goto(c, readback) /\ UNCHANGED held
  <2>1. at' = [at EXCEPT ![c] = readback] /\ held' = held /\ Throws(w)
    BY <1>6 DEF Goto
  <2>. HIDE DEF w
  <2>2. /\ Grows /\ ClaimsStep /\ Flown' /\ RanOnce'
        /\ claims' \in [Keys -> Record \cup {None}]
        /\ flying' \subseteq Writes
    BY <1>1, <1>2, <2>1, ThrowsKept
  <2>3. IdemTypes'
    BY <1>2, <1>3, <2>1, <2>2 DEF IdemInv, IdemTypes
  <2>. QED  BY <1>2, <1>3, <2>1, <2>2, <2>3, StepKept
<1>. QED  BY <1>4, <1>5, <1>6 DEF Advance

\* A call is answered with a refusal, or with a durable outcome.
LEMMA TellKept ==
  ASSUME IdemInv, NEW c \in Calls, NEW a \in Outcomes \cup Refusals, Tell(c, a),
         a \in Outcomes => Durable(c, a, claims)
  PROVE  IdemInv'
<1>1. /\ answer' = [answer EXCEPT ![c] = a] /\ at' = [at EXCEPT ![c] = "answered"]
      /\ claims' = claims /\ held' = held /\ returned' = returned
      /\ flying' = flying /\ ran' = ran
  BY DEF Tell, Goto
<1>2. /\ at \in [Calls -> Awaits]
      /\ answer \in [Calls -> Outcomes \cup Refusals \cup {None}]
  BY DEF IdemInv, IdemTypes
<1>3. IdemTypes'
  BY <1>1, <1>2 DEF IdemInv, IdemTypes, Awaits
<1>4. CallInv(c)'
  <2>1. CallInv(c) /\ at'[c] = "answered" /\ answer'[c] = a
    BY <1>1, <1>2 DEF IdemInv
  <2>. QED  BY <1>1, <2>1 DEF CallInv
<1>. QED  BY <1>1, <1>2, <1>3, <1>4, QuietStepKept

-----------------------------------------------------------------------------
\* One lemma per action.
LEMMA LandKept == ASSUME IdemInv, Land PROVE IdemInv'
<1>1. PICK w \in flying :
        /\ flying' = flying \ {w}
        /\ IF Matches(w.key, w.expected) THEN Put(w) ELSE UNCHANGED claims
        /\ UNCHANGED <<at, held, returned, ran, answer, faults>>
  BY DEF Land
<1>2. /\ w \in Writes /\ w.key \in Keys /\ w.next \in Record
      /\ Truthful(w.next, w.key, ran, returned) /\ Replaceable(w.expected)
  BY DEF IdemInv, IdemTypes, Flown, Writes
<1>3. Grows
  BY <1>1 DEF Grows
<1>4. ClaimsStep
  BY <1>1, <1>2 DEF ClaimsStep, Puts, Matches, Put
<1>5. IdemTypes'
  BY <1>1, <1>2 DEF IdemInv, IdemTypes, Put
<1>6. Flown' /\ RanOnce'
  BY <1>1, <1>4, RanOnceKept DEF IdemInv, Flown
<1>7. \A d \in Calls : CallInv(d)'
  BY <1>1, <1>3, <1>4, OthersKept
<1>. QED  BY <1>3, <1>4, <1>5, <1>6, <1>7, RecordedKept DEF IdemInv

\* One lemma per operation: it keeps the invariant.
LEMMA ArriveKept == ASSUME IdemInv, NEW c \in Calls, Arrive(c) PROVE IdemInv'
<1>1. /\ at[c] = "idle"
      /\ at' = [at EXCEPT ![c] = IF c \in Recoveries THEN "look" ELSE "claim"]
      /\ claims' = claims /\ held' = held /\ returned' = returned
      /\ flying' = flying /\ ran' = ran /\ answer' = answer
  BY DEF Arrive, Goto
<1>2. IdemTypes'
  BY <1>1 DEF IdemInv, IdemTypes, Awaits
<1>3. CallInv(c)'
  BY <1>1 DEF IdemInv, IdemTypes, CallInv
<1>. QED  BY <1>1, <1>2, <1>3, QuietStepKept DEF IdemInv, IdemTypes

\* A call claims its key, or finds it claimed.
LEMMA ClaimKept == ASSUME IdemInv, NEW c \in Calls, Claim(c) PROVE IdemInv'
<1>. DEFINE w == [key |-> KeyOf[c], expected |-> None, next |-> ClaimOf(c)]
<1>1. /\ KeyOf[c] \in Keys /\ w \in Writes
      /\ w.key = KeyOf[c] /\ w.expected = None /\ w.next = ClaimOf(c)
  BY IdemAssumption, RecordFacts DEF Writes
<1>2. Truthful(w.next, w.key, ran, returned) /\ Replaceable(w.expected)
  BY <1>1, RecordFacts DEF Truthful, Replaceable
<1>3. at[c] = "claim" /\ CallInv(c)
  BY DEF Claim, IdemInv
<1>4. c \notin ran /\ returned[c] = None /\ answer[c] = None
  BY <1>3 DEF CallInv
<1>5. CASE /\ Free(w.key) /\ Put(w) /\ Goto(c, "run") /\ Hold(c, w.next)
           /\ ran' = ran \cup {c}
           /\ UNCHANGED <<returned, flying, answer, faults>>
  <2>1. /\ claims' = [claims EXCEPT ![KeyOf[c]] = ClaimOf(c)]
        /\ claims[KeyOf[c]] = None
        /\ at' = [at EXCEPT ![c] = "run"]
        /\ held' = [held EXCEPT ![c] = ClaimOf(c)]
        /\ ran' = ran \cup {c}
        /\ returned' = returned /\ flying' = flying /\ answer' = answer
    BY <1>1, <1>5 DEF Free, Put, Goto, Hold
  <2>. HIDE DEF w
  <2>2. Grows
    BY <2>1 DEF Grows
  <2>3. ClaimsStep
    <3>1. Truthful(ClaimOf(c), KeyOf[c], ran', returned')
      BY RecordFacts DEF Truthful
    <3>. QED  BY <1>1, <2>1, <3>1, RecordFacts DEF ClaimsStep, Puts, Replaceable
  <2>4. IdemTypes'
    BY <2>1, RecordFacts DEF IdemInv, IdemTypes, Awaits
  <2>5. Flown'
    <3>1. \A u \in flying : Truthful(u.next, u.key, ran', returned')
      BY <2>2, TruthKept DEF IdemInv, IdemTypes, Flown, Writes
    <3>. QED  BY <2>1, <3>1 DEF IdemInv, Flown
  <2>6. RanOnce'
    <3>1. \A d \in ran : KeyOf[d] # KeyOf[c]
      BY <2>1 DEF IdemInv, RanOnce
    <3>2. \A d \in ran' : claims'[KeyOf[d]] # None
      BY <1>1, <2>1, <3>1, RecordFacts DEF IdemInv, IdemTypes, RanOnce
    <3>. QED  BY <2>1, <3>1, <3>2 DEF IdemInv, RanOnce
  <2>7. CallInv(c)'
    <3>1. at'[c] = "run" /\ held'[c] = ClaimOf(c) /\ c \in ran'
      BY <2>1 DEF IdemInv, IdemTypes
    <3>. QED  BY <1>4, <2>1, <3>1, IdemAssumption DEF CallInv
  <2>. QED  BY <2>1, <2>2, <2>3, <2>4, <2>5, <2>6, <2>7, StepKept DEF IdemInv, IdemTypes
<1>6. CASE /\ Goto(c, "look")
           /\ UNCHANGED <<claims, held, returned, flying, ran, answer, faults>>
  <2>1. at' = [at EXCEPT ![c] = "look"] /\ at'[c] = "look"
    BY <1>6 DEF Goto, IdemInv, IdemTypes
  <2>. HIDE DEF w
  <2>2. IdemTypes'
    BY <1>6, <2>1 DEF IdemInv, IdemTypes, Awaits
  <2>3. CallInv(c)'
    BY <1>3, <1>4, <1>6, <2>1, IdemAssumption DEF CallInv
  <2>. QED  BY <1>6, <2>1, <2>2, <2>3, QuietStepKept DEF IdemInv, IdemTypes
<1>7. CASE /\ Throws(w)
           /\ answer' = [answer EXCEPT ![c] = "UNRESOLVED"] /\ Goto(c, "answered")
           /\ UNCHANGED <<held, returned, ran>>
  <2>1. /\ at' = [at EXCEPT ![c] = "answered"] /\ at'[c] = "answered"
        /\ answer' = [answer EXCEPT ![c] = "UNRESOLVED"] /\ answer'[c] = "UNRESOLVED"
        /\ held' = held /\ returned' = returned /\ ran' = ran /\ Throws(w)
    BY <1>7 DEF Goto, IdemInv, IdemTypes
  <2>. HIDE DEF w
  <2>2. /\ Grows /\ ClaimsStep /\ Flown' /\ RanOnce'
        /\ claims' \in [Keys -> Record \cup {None}]
        /\ flying' \subseteq Writes
    BY <1>1, <1>2, <2>1, ThrowsKept
  <2>3. IdemTypes'
    BY <2>1, <2>2 DEF IdemInv, IdemTypes, Refusals, Awaits
  <2>4. CallInv(c)'
    BY <1>4, <2>1, RefusalAssumption DEF CallInv, Refusals
  <2>. QED  BY <2>1, <2>2, <2>3, <2>4, StepKept DEF IdemInv, IdemTypes
<1>. QED  BY <1>5, <1>6, <1>7 DEF Claim

\* The handler returns an outcome.
LEMMA ReturnsKept ==
  ASSUME IdemInv, NEW c \in Calls, NEW o \in Outcomes, Returns(c, o) PROVE IdemInv'
<1>1. /\ at[c] = "run" /\ at' = [at EXCEPT ![c] = "prepare"]
      /\ returned' = [returned EXCEPT ![c] = o]
      /\ claims' = claims /\ held' = held /\ flying' = flying /\ ran' = ran
      /\ answer' = answer
  BY DEF Returns, Goto
<1>2. /\ at \in [Calls -> Awaits] /\ returned \in [Calls -> Outcomes \cup {None}]
      /\ CallInv(c)
  BY DEF IdemInv, IdemTypes
<1>3. IdemTypes'
  BY <1>1, <1>2 DEF IdemInv, IdemTypes, Awaits
<1>4. CallInv(c)'
  BY <1>1, <1>2, IdemAssumption DEF CallInv
<1>. QED  BY <1>1, <1>2, <1>3, <1>4, QuietStepKept DEF CallInv

\* The handler throws.
LEMMA FailsKept == ASSUME IdemInv, NEW c \in Calls, Fails(c) PROVE IdemInv'
<1>1. /\ at[c] = "run" /\ at' = [at EXCEPT ![c] = "mark"]
      /\ claims' = claims /\ held' = held /\ flying' = flying /\ ran' = ran
      /\ answer' = answer /\ returned' = returned
  BY DEF Fails, Goto
<1>2. at \in [Calls -> Awaits] /\ CallInv(c)
  BY DEF IdemInv, IdemTypes
<1>3. IdemTypes'
  BY <1>1, <1>2 DEF IdemInv, IdemTypes, Awaits
<1>4. CallInv(c)'
  BY <1>1, <1>2 DEF CallInv
<1>. QED  BY <1>1, <1>2, <1>3, <1>4, QuietStepKept

\* The process of a call dies; its writes may still land.
LEMMA DieKept == ASSUME IdemInv, NEW c \in Calls, Die(c) PROVE IdemInv'
<1>1. /\ at[c] \notin {"absent", "idle", "answered", "dead"}
      /\ at' = [at EXCEPT ![c] = "dead"]
      /\ claims' = claims /\ held' = held /\ flying' = flying /\ ran' = ran
      /\ answer' = answer /\ returned' = returned
  BY DEF Die, Goto
<1>2. at \in [Calls -> Awaits] /\ CallInv(c)
  BY DEF IdemInv, IdemTypes
<1>3. IdemTypes'
  BY <1>1, <1>2 DEF IdemInv, IdemTypes, Awaits
<1>4. CallInv(c)'
  BY <1>1, <1>2 DEF CallInv
<1>. QED  BY <1>1, <1>2, <1>3, <1>4, QuietStepKept

\* The answers without an outcome are not outcomes.
LEMMA RefusalsAreNone == "UNRESOLVED" \notin Outcomes /\ "IN_PROGRESS" \notin Outcomes
                         /\ "CONFLICT" \notin Outcomes /\ "INSPECTED" \notin Outcomes
BY RefusalAssumption DEF Refusals

\* The outcome of a handler that failed is marked unknown.
LEMMA MarkKept == ASSUME IdemInv, NEW c \in Calls, Mark(c) PROVE IdemInv'
<1>1. /\ at[c] = "mark"
      /\ Advance(c, Unknown(held[c]), "unresolved", "unresolved")
  BY DEF Mark
<1>2. CallInv(c) /\ held[c] = ClaimOf(c)
  BY <1>1 DEF IdemInv, CallInv
<1>3. /\ held[c] \in Record /\ Replaceable(held[c]) /\ Unknown(held[c]) \in Record
      /\ Truthful(Unknown(held[c]), KeyOf[c], ran, returned)
  <2>1. /\ held[c] \in Record /\ held[c].state = "IN_PROGRESS"
        /\ held[c].owner = c /\ held[c].body = BodyOf[c]
    BY <1>2, RecordFacts
  <2>2. /\ Unknown(held[c]) \in Record /\ Unknown(held[c]).owner = c
        /\ Unknown(held[c]).body = BodyOf[c] /\ Unknown(held[c]).state = "UNKNOWN"
    BY <2>1 DEF Unknown, Record
  <2>. QED  BY <2>1, <2>2 DEF Truthful, Replaceable
<1>4. answer' = answer /\ ran' = ran /\ returned' = returned
  BY <1>1 DEF Advance
<1>5. answer[c] = None
  BY <1>1, <1>2 DEF CallInv
<1>6. at'[c] = "unresolved" => CallInv(c)'
  BY <1>1, <1>2, <1>4, <1>5, IdemAssumption DEF CallInv
<1>. QED  BY <1>1, <1>3, <1>6, AdvanceKept DEF Awaits

\* The record of a call whose handler returned.
LEMMA PreparedFacts ==
  ASSUME IdemInv, NEW c \in Calls, at[c] \in {"prepare", "prepared?"}
  PROVE  /\ held[c] \in Record /\ Replaceable(held[c])
         /\ Prepared(held[c], returned[c]) \in Record
         /\ Prepared(held[c], returned[c]) # None
         /\ Prepared(held[c], returned[c]).state = "PREPARED"
         /\ Prepared(held[c], returned[c]).body = BodyOf[c]
         /\ Truthful(Prepared(held[c], returned[c]), KeyOf[c], ran, returned)
<1>1. /\ c \in ran /\ held[c] = ClaimOf(c) /\ returned[c] \in Outcomes
  BY DEF IdemInv, IdemTypes, CallInv
<1>2. /\ held[c] \in Record /\ held[c].state = "IN_PROGRESS"
      /\ held[c].owner = c /\ held[c].body = BodyOf[c]
  BY <1>1, RecordFacts
<1>. DEFINE p == Prepared(held[c], returned[c])
<1>3. /\ p \in Record /\ p.owner = c /\ p.body = BodyOf[c]
      /\ p.state = "PREPARED" /\ p.response = returned[c]
  BY <1>1, <1>2 DEF Prepared, Record
<1>. HIDE DEF p
<1>4. p # None /\ Truthful(p, KeyOf[c], ran, returned) /\ Replaceable(held[c])
  BY <1>1, <1>2, <1>3, NoneAssumption DEF Truthful, Replaceable
<1>. QED  BY <1>2, <1>3, <1>4 DEF p

\* The outcome is prepared.
LEMMA PrepareKept == ASSUME IdemInv, NEW c \in Calls, Prepare(c) PROVE IdemInv'
<1>. DEFINE p == Prepared(held[c], returned[c])
<1>1. at[c] = "prepare" /\ Advance(c, p, "finalize", "prepared?")
  BY DEF Prepare
<1>2. /\ held[c] \in Record /\ Replaceable(held[c]) /\ p \in Record /\ p # None
      /\ p.state = "PREPARED" /\ p.body = BodyOf[c]
      /\ Truthful(p, KeyOf[c], ran, returned)
  BY <1>1, PreparedFacts
<1>3. answer' = answer /\ ran' = ran /\ returned' = returned
  BY <1>1 DEF Advance
<1>4. CallInv(c) /\ answer[c] = None
  BY <1>1 DEF IdemInv, CallInv
<1>. HIDE DEF p
<1>5. at'[c] = "finalize" /\ held'[c] = p => CallInv(c)'
  BY <1>1, <1>2, <1>3, <1>4, IdemAssumption DEF CallInv
<1>6. at'[c] = "prepared?" /\ held'[c] = held[c] => CallInv(c)'
  BY <1>1, <1>3, <1>4, IdemAssumption DEF CallInv
<1>. QED  BY <1>1, <1>2, <1>5, <1>6, AdvanceKept DEF Awaits

\* The read-back of a write that was not acknowledged.
LEMMA ReadBackKept ==
  ASSUME IdemInv, NEW c \in Calls, NEW n \in Record, NEW then \in Awaits,
         ReadBack(c, n, then), at[c] \notin {"run", "absent", "idle", "claim"},
         /\ claims' = claims /\ answer' = answer /\ ran' = ran /\ returned' = returned
         /\ claims[KeyOf[c]] = n /\ at'[c] = then /\ held'[c] = n
         => CallInv(c)'
  PROVE  IdemInv'
<1>0. at \in [Calls -> Awaits] /\ held \in [Calls -> Record \cup {None}]
  BY DEF IdemInv, IdemTypes
<1>1. CASE /\ claims[KeyOf[c]] = n /\ Goto(c, then) /\ Hold(c, n)
           /\ UNCHANGED <<claims, returned, flying, ran, answer, faults>>
  <2>1. /\ at' = [at EXCEPT ![c] = then] /\ held' = [held EXCEPT ![c] = n]
        /\ claims' = claims /\ returned' = returned /\ flying' = flying
        /\ ran' = ran /\ answer' = answer
    BY <1>1 DEF Goto, Hold
  <2>2. IdemTypes'
    BY <1>0, <2>1 DEF IdemInv, IdemTypes
  <2>3. CallInv(c)'
    BY <1>0, <1>1, <2>1
  <2>. QED  BY <1>0, <2>1, <2>2, <2>3, QuietStepKept
<1>2. CASE Tell(c, "UNRESOLVED")
  BY <1>2, RefusalsAreNone, TellKept DEF Refusals
<1>. QED  BY <1>1, <1>2 DEF ReadBack

\* The prepared record is read back.
LEMMA CheckPreparedKept ==
  ASSUME IdemInv, NEW c \in Calls, CheckPrepared(c) PROVE IdemInv'
<1>. DEFINE p == Prepared(held[c], returned[c])
<1>1. at[c] = "prepared?" /\ ReadBack(c, p, "finalize")
  BY DEF CheckPrepared
<1>2. /\ p \in Record /\ p # None /\ p.state = "PREPARED" /\ p.body = BodyOf[c]
      /\ Truthful(p, KeyOf[c], ran, returned)
  BY <1>1, PreparedFacts
<1>4. CallInv(c) /\ answer[c] = None
  BY <1>1 DEF IdemInv, CallInv
<1>. HIDE DEF p
<1>5. /\ answer' = answer /\ ran' = ran /\ returned' = returned
      /\ at'[c] = "finalize" /\ held'[c] = p
      => CallInv(c)'
  BY <1>1, <1>2, <1>4, IdemAssumption DEF CallInv
<1>. QED  BY <1>1, <1>2, <1>5, ReadBackKept DEF Awaits

\* The record of a call that completes it.
LEMMA CompletedFacts ==
  ASSUME IdemInv, NEW c \in Calls, at[c] \in {"finalize", "complete?"}
  PROVE  /\ held[c] \in Record /\ Replaceable(held[c])
         /\ Completed(held[c]) \in Record
         /\ Completed(held[c]) # None
         /\ Completed(held[c]).state = "COMPLETE"
         /\ Completed(held[c]).body = BodyOf[c]
         /\ Truthful(Completed(held[c]), KeyOf[c], ran, returned)
<1>1. /\ held[c] \in Record /\ held[c].state = "PREPARED"
      /\ held[c].body = BodyOf[c] /\ Truthful(held[c], KeyOf[c], ran, returned)
  BY DEF IdemInv, IdemTypes, CallInv
<1>. DEFINE p == Completed(held[c])
<1>2. /\ p \in Record /\ p.owner = held[c].owner /\ p.body = held[c].body
      /\ p.state = "COMPLETE" /\ p.response = held[c].response
  BY <1>1 DEF Completed, Record
<1>. HIDE DEF p
<1>3. p # None /\ Truthful(p, KeyOf[c], ran, returned) /\ Replaceable(held[c])
  BY <1>1, <1>2, NoneAssumption DEF Truthful, Replaceable
<1>. QED  BY <1>1, <1>2, <1>3 DEF p

\* The prepared outcome is completed.
LEMMA FinalizeKept == ASSUME IdemInv, NEW c \in Calls, Finalize(c) PROVE IdemInv'
<1>. DEFINE p == Completed(held[c])
<1>1. at[c] = "finalize" /\ Advance(c, p, "deliver", "complete?")
  BY DEF Finalize
<1>2. /\ held[c] \in Record /\ Replaceable(held[c]) /\ p \in Record /\ p # None
      /\ p.state = "COMPLETE" /\ p.body = BodyOf[c]
      /\ Truthful(p, KeyOf[c], ran, returned)
  BY <1>1, CompletedFacts
<1>3. answer' = answer /\ ran' = ran /\ returned' = returned
  BY <1>1 DEF Advance
<1>4. CallInv(c) /\ answer[c] = None
  BY <1>1 DEF IdemInv, CallInv
<1>. HIDE DEF p
<1>5. claims'[KeyOf[c]] = p /\ at'[c] = "deliver" /\ held'[c] = p => CallInv(c)'
  BY <1>1, <1>2, <1>3, <1>4, IdemAssumption DEF CallInv, Durable
<1>6. at'[c] = "complete?" /\ held'[c] = held[c] => CallInv(c)'
  BY <1>1, <1>3, <1>4, IdemAssumption DEF CallInv
<1>. QED  BY <1>1, <1>2, <1>5, <1>6, AdvanceKept DEF Awaits

\* The completed record is read back.
LEMMA CheckCompleteKept ==
  ASSUME IdemInv, NEW c \in Calls, CheckComplete(c) PROVE IdemInv'
<1>. DEFINE p == Completed(held[c])
<1>1. at[c] = "complete?" /\ ReadBack(c, p, "deliver")
  BY DEF CheckComplete
<1>2. /\ p \in Record /\ p # None /\ p.state = "COMPLETE" /\ p.body = BodyOf[c]
      /\ Truthful(p, KeyOf[c], ran, returned)
  BY <1>1, CompletedFacts
<1>4. CallInv(c) /\ answer[c] = None
  BY <1>1 DEF IdemInv, CallInv
<1>. HIDE DEF p
<1>5. /\ claims' = claims /\ answer' = answer /\ ran' = ran /\ returned' = returned
      /\ claims[KeyOf[c]] = p /\ at'[c] = "deliver" /\ held'[c] = p
      => CallInv(c)'
  BY <1>1, <1>2, <1>4, IdemAssumption DEF CallInv, Durable
<1>. QED  BY <1>1, <1>2, <1>5, ReadBackKept DEF Awaits

\* The outcome is answered, after it was read back.
LEMMA DeliverKept == ASSUME IdemInv, NEW c \in Calls, Deliver(c) PROVE IdemInv'
<1>1. at[c] = "deliver" /\ CallInv(c)
  BY DEF Deliver, IdemInv
<1>2. Durable(c, held[c].response, claims)
  BY <1>1 DEF CallInv
<1>3. held[c].response \in Outcomes
  <2>1. claims[KeyOf[c]] # None /\ claims[KeyOf[c]].state = "COMPLETE"
    BY <1>2 DEF Durable
  <2>2. Truthful(claims[KeyOf[c]], KeyOf[c], ran, returned)
    BY <2>1, IdemAssumption DEF IdemInv, Recorded
  <2>. QED  BY <1>2, <2>1, <2>2 DEF Truthful, Durable
<1>4. Tell(c, "INSPECTED") \/ Tell(c, held[c].response)
  BY DEF Deliver
<1>. QED  BY <1>2, <1>3, <1>4, RefusalsAreNone, TellKept DEF Refusals

\* A call that did not get the key looks at its record.
LEMMA LookKept == ASSUME IdemInv, NEW c \in Calls, Look(c) PROVE IdemInv'
<1>. DEFINE r == claims[KeyOf[c]]
<1>1. at[c] = "look" /\ CallInv(c) /\ KeyOf[c] \in Keys
  BY IdemAssumption DEF Look, IdemInv
<1>2. \A a \in Refusals : Tell(c, a) => IdemInv'
  BY RefusalAssumption, TellKept
<1>3. CASE r # None /\ r.body = BodyOf[c] /\ r.state = "COMPLETE" /\ Tell(c, r.response)
  <2>1. Durable(c, r.response, claims)
    BY <1>3 DEF Durable
  <2>2. r.response \in Outcomes
    BY <1>1, <1>3 DEF IdemInv, Recorded, Truthful
  <2>. QED  BY <1>3, <2>1, <2>2, TellKept
<1>4. CASE /\ r # None /\ r.body = BodyOf[c] /\ r.state = "PREPARED"
           /\ Goto(c, "finalize") /\ Hold(c, r)
           /\ UNCHANGED <<claims, returned, flying, ran, answer, faults>>
  <2>0. /\ at \in [Calls -> Awaits] /\ held \in [Calls -> Record \cup {None}]
        /\ r \in Record /\ Truthful(r, KeyOf[c], ran, returned)
    BY <1>1, <1>4 DEF IdemInv, IdemTypes, Recorded
  <2>1. /\ at' = [at EXCEPT ![c] = "finalize"] /\ held' = [held EXCEPT ![c] = r]
        /\ claims' = claims /\ returned' = returned /\ flying' = flying
        /\ ran' = ran /\ answer' = answer
    BY <1>4 DEF Goto, Hold
  <2>. HIDE DEF r
  <2>2. IdemTypes'
    BY <2>0, <2>1 DEF IdemInv, IdemTypes, Awaits
  <2>3. CallInv(c)'
    <3>1. at'[c] = "finalize" /\ held'[c] = r
      BY <2>0, <2>1
    <3>. QED  BY <1>1, <1>4, <2>0, <2>1, <3>1, IdemAssumption DEF CallInv
  <2>. QED  BY <2>0, <2>1, <2>2, <2>3, QuietStepKept
<1>. QED  BY <1>2, <1>3, <1>4, Zenon DEF Look, SameRequest, Refusals

\* A call answers that the outcome is unknown.
LEMMA UnresolvedKept == ASSUME IdemInv, NEW c \in Calls, Unresolved(c) PROVE IdemInv'
BY RefusalsAreNone, TellKept DEF Unresolved, Refusals

-----------------------------------------------------------------------------
\* Initially no key is claimed and nothing is in flight.
LEMMA IdemInvInit == IdemInit => IdemInv
<1>. SUFFICES ASSUME IdemInit PROVE IdemInv
  OBVIOUS
<1>1. PICK g \in Groups : at = [c \in Calls |-> IF c \in g THEN "idle" ELSE "absent"]
  BY DEF IdemInit
<1>2. IdemTypes
  BY <1>1 DEF IdemInit, IdemTypes, Awaits
<1>3. Recorded /\ Flown /\ RanOnce
  BY DEF IdemInit, Recorded, Flown, RanOnce
<1>4. ASSUME NEW c \in Calls PROVE CallInv(c)
  BY <1>1, IdemAssumption DEF IdemInit, CallInv
<1>. QED  BY <1>2, <1>3, <1>4 DEF IdemInv

\* The invariant is inductive.
LEMMA IdemInvNext == IdemInv /\ [IdemNext]_idemVars => IdemInv'
<1>. SUFFICES ASSUME IdemInv, [IdemNext]_idemVars PROVE IdemInv'
  OBVIOUS
<1>1. CASE Land
  BY <1>1, LandKept
<1>2. ASSUME NEW c \in Calls, Around(c) PROVE IdemInv'
  BY <1>2, ArriveKept, ClaimKept, MarkKept, UnresolvedKept, PrepareKept,
     CheckPreparedKept, FinalizeKept, CheckCompleteKept, DeliverKept, LookKept
     DEF Around
<1>3. ASSUME NEW c \in Calls, Handler(c) \/ Die(c) PROVE IdemInv'
  BY <1>3, FailsKept, ReturnsKept, DieKept DEF Handler
<1>4. CASE UNCHANGED idemVars
  <2>1. IdemTypes' /\ Recorded' /\ Flown' /\ RanOnce'
    BY <1>4 DEF idemVars, IdemInv, IdemTypes, Recorded, Flown, RanOnce
  <2>2. ASSUME NEW c \in Calls PROVE CallInv(c)'
    <3>1. CallInv(c)
      BY DEF IdemInv
    <3>. QED  BY <1>4, <3>1 DEF idemVars, CallInv
  <2>. QED  BY <2>1, <2>2 DEF IdemInv
<1>. QED  BY <1>1, <1>2, <1>3, <1>4 DEF IdemNext

\* A call that ran has run.
LEMMA RanStays == [IdemNext]_idemVars => ran \subseteq ran'
<1>. SUFFICES ASSUME [IdemNext]_idemVars PROVE ran \subseteq ran'
  OBVIOUS
<1>1. ASSUME NEW c \in Calls, NEW a, Tell(c, a) PROVE ran' = ran
  BY <1>1 DEF Tell
<1>2. ASSUME NEW c \in Calls, NEW n, NEW t, NEW u, Advance(c, n, t, u) PROVE ran' = ran
  BY <1>2 DEF Advance
<1>3. ASSUME NEW c \in Calls, Around(c) PROVE ran \subseteq ran'
  BY <1>1, <1>2, <1>3 DEF Around, Arrive, Claim, Mark, Unresolved, Prepare, CheckPrepared,
     ReadBack, Finalize, CheckComplete, Deliver, Look
<1>4. ASSUME NEW c \in Calls, Handler(c) \/ Die(c) PROVE ran' = ran
  BY <1>4 DEF Handler, Returns, Fails, Die
<1>. QED  BY <1>3, <1>4 DEF IdemNext, Land, idemVars

\* Whatever is lost, late or dead: a response that a caller has is the one that
\* every later call of the same request finds.
THEOREM DeliveredStays == IdemSpec => []DeliveredIsDurable
<1>1. IdemInv => DeliveredIsDurable
  BY DEF IdemInv, CallInv, Durable, DeliveredIsDurable
<1>. QED  BY <1>1, IdemInvInit, IdemInvNext, PTL DEF IdemSpec

-----------------------------------------------------------------------------
\* The refinement: each step of the protocol performs, decides, answers or
\* refuses, or is none of the abstract specification's business.
LEMMA ResultIsReturned ==
  ASSUME IdemInv, NEW c \in ran
  PROVE  /\ RanFor[KeyOf[c]] = {c}
         /\ ResultOf[KeyOf[c]] = returned[c]
<1>1. c \in Calls /\ KeyOf[c] \in Keys
  BY IdemAssumption DEF IdemInv, IdemTypes
<1>2. RanFor[KeyOf[c]] = {c}
  BY <1>1 DEF RanFor, IdemInv, RanOnce
<1>3. CASE returned[c] = None
  <2>1. Over(KeyOf[c]) = {}
    BY <1>3 DEF Over, IdemInv, RanOnce
  <2>. QED  BY <1>1, <1>2, <1>3, <2>1 DEF ResultOf
<1>4. CASE returned[c] # None
  <2>1. Over(KeyOf[c]) = {c}
    BY <1>4 DEF Over, IdemInv, RanOnce
  <2>. QED  BY <1>1, <1>2, <2>1 DEF ResultOf
<1>. QED  BY <1>3, <1>4

\* An unclaimed key has not been run.
LEMMA KeyNotRun ==
  ASSUME IdemInv, NEW k \in Keys, \A c \in ran : KeyOf[c] # k
  PROVE  RanFor[k] = {} /\ ResultOf[k] = None
BY DEF RanFor, ResultOf, Over

\* What a call that is answered with an outcome may be told.
LEMMA DurableIsResult ==
  ASSUME IdemInv, NEW c \in Calls, NEW o \in Outcomes, Durable(c, o, claims)
  PROVE  /\ ResultOf[KeyOf[c]] = o
         /\ \A d \in RanFor[KeyOf[c]] : BodyOf[d] = BodyOf[c]
<1>. DEFINE r == claims[KeyOf[c]]
<1>1. /\ KeyOf[c] \in Keys /\ r # None /\ r.state = "COMPLETE"
      /\ r.body = BodyOf[c] /\ r.response = o
  BY IdemAssumption DEF Durable
<1>2. Truthful(r, KeyOf[c], ran, returned)
  BY <1>1 DEF IdemInv, Recorded
<1>3. /\ r.owner \in ran /\ KeyOf[r.owner] = KeyOf[c]
      /\ BodyOf[r.owner] = BodyOf[c] /\ returned[r.owner] = o
  BY <1>1, <1>2 DEF Truthful
<1>. HIDE DEF r
<1>4. RanFor[KeyOf[r.owner]] = {r.owner} /\ ResultOf[KeyOf[r.owner]] = returned[r.owner]
  BY <1>3, ResultIsReturned
<1>. QED  BY <1>3, <1>4

\* The mapping moves with its variables only.
LEMMA MapFrame ==
  ASSUME ran' = ran, returned' = returned PROVE RanFor' = RanFor /\ ResultOf' = ResultOf
BY DEF RanFor, ResultOf, Over

AbstractStep == Promise!Next \/ UNCHANGED Promise!vars

\* An answer is a refusal, or the result of the key: Refuse or Answer.
LEMMA TellRefines ==
  ASSUME IdemInv, NEW c \in Calls, NEW a \in Outcomes \cup Refusals, Tell(c, a),
         at[c] # "answered", a \in Outcomes => Durable(c, a, claims)
  PROVE  AbstractStep
<1>1. /\ answer' = [answer EXCEPT ![c] = a] /\ answer[c] = None
      /\ RanFor' = RanFor /\ ResultOf' = ResultOf
  BY MapFrame DEF Tell, IdemInv, CallInv
<1>2. CASE a \in Refusals
  <2>1. Promise!Refuse(c, a)
    BY <1>1 DEF Promise!Refuse
  <2>. QED  BY <1>2, <2>1 DEF AbstractStep, Promise!Next
<1>3. CASE a \in Outcomes
  <2>1. /\ ResultOf[KeyOf[c]] = a /\ a # None
        /\ \A d \in RanFor[KeyOf[c]] : BodyOf[d] = BodyOf[c]
    BY <1>3, DurableIsResult, IdemAssumption
  <2>2. Promise!Answer(c)
    BY <1>1, <2>1 DEF Promise!Answer
  <2>. QED  BY <2>2 DEF AbstractStep, Promise!Next
<1>. QED  BY <1>2, <1>3

\* The create that wins the key performs it.
LEMMA ClaimRefines == ASSUME IdemInv, NEW c \in Calls, Claim(c) PROVE AbstractStep
<1>1. /\ at[c] = "claim" /\ CallInv(c) /\ KeyOf[c] \in Keys
      /\ c \notin ran /\ returned[c] = None /\ answer[c] = None
  BY IdemAssumption DEF Claim, IdemInv, CallInv
<1>2. CASE /\ Free(KeyOf[c]) /\ ran' = ran \cup {c}
           /\ UNCHANGED <<returned, flying, answer, faults>>
  <2>1. \A d \in ran : KeyOf[d] # KeyOf[c]
    BY <1>2 DEF Free, IdemInv, RanOnce
  <2>2. RanFor[KeyOf[c]] = {}
    BY <1>1, <2>1, KeyNotRun
  <2>3. RanFor' = [RanFor EXCEPT ![KeyOf[c]] = {c}]
    BY <1>1, <1>2, <2>1 DEF RanFor
  <2>4. ResultOf' = ResultOf
    <3>1. \A k \in Keys : Over(k)' = Over(k)
      BY <1>1, <1>2 DEF Over
    <3>2. ASSUME NEW k \in Keys PROVE ResultOf'[k] = ResultOf[k]
      <4>1. CASE Over(k) = {}
        BY <3>1, <4>1 DEF ResultOf
      <4>2. CASE Over(k) # {}
        <5>1. PICK d \in Over(k) : Over(k) = {d}
          BY <4>2 DEF Over, IdemInv, RanOnce
        <5>2. ResultOf[k] = returned[d]
          BY <5>1 DEF ResultOf
        <5>3. Over(k)' = {d}
          BY <3>1, <5>1
        <5>. QED  BY <1>2, <5>2, <5>3 DEF ResultOf
      <4>. QED  BY <4>1, <4>2
    <3>3. /\ ResultOf = [k \in Keys |-> ResultOf[k]]
          /\ ResultOf' = [k \in Keys |-> ResultOf'[k]]
      BY DEF ResultOf
    <3>. QED  BY <3>2, <3>3
  <2>5. Promise!Perform(c)
    BY <1>2, <2>2, <2>3, <2>4 DEF Promise!Perform
  <2>. QED  BY <2>5 DEF AbstractStep, Promise!Next
<1>3. CASE UNCHANGED <<returned, ran, answer>>
  BY <1>3, MapFrame DEF AbstractStep, Promise!vars
<1>4. CASE answer' = [answer EXCEPT ![c] = "UNRESOLVED"] /\ UNCHANGED <<returned, ran>>
  <2>1. Promise!Refuse(c, "UNRESOLVED")
    BY <1>1, <1>4, MapFrame DEF Promise!Refuse
  <2>. QED  BY <2>1 DEF AbstractStep, Promise!Next, Refusals
<1>. QED  BY <1>2, <1>3, <1>4 DEF Claim

\* The return of the handler decides the outcome of its key.
LEMMA ReturnsRefines ==
  ASSUME IdemInv, NEW c \in Calls, NEW o \in Outcomes, Returns(c, o) PROVE AbstractStep
<1>1. /\ at[c] = "run" /\ c \in ran /\ returned[c] = None /\ KeyOf[c] \in Keys
      /\ returned' = [returned EXCEPT ![c] = o] /\ ran' = ran /\ answer' = answer
      /\ returned \in [Calls -> Outcomes \cup {None}] /\ o # None
  BY IdemAssumption DEF Returns, IdemInv, IdemTypes, CallInv
<1>2. RanFor[KeyOf[c]] = {c} /\ ResultOf[KeyOf[c]] = None
  BY <1>1, ResultIsReturned
<1>3. RanFor' = RanFor
  BY <1>1 DEF RanFor
<1>4. Over(KeyOf[c])' = {c} /\ returned'[c] = o
  BY <1>1 DEF Over, IdemInv, RanOnce
<1>5. ASSUME NEW k \in Keys, k # KeyOf[c]
      PROVE  Over(k)' = Over(k) /\ \A d \in Over(k) : returned'[d] = returned[d]
  BY <1>1, <1>5 DEF Over, IdemInv, IdemTypes
<1>6. ResultOf' = [ResultOf EXCEPT ![KeyOf[c]] = o]
  <2>1. ResultOf'[KeyOf[c]] = o
    BY <1>1, <1>4 DEF ResultOf
  <2>2. ASSUME NEW k \in Keys, k # KeyOf[c] PROVE ResultOf'[k] = ResultOf[k]
    BY <1>5, <2>2 DEF ResultOf
  <2>3. /\ ResultOf = [k \in Keys |-> ResultOf[k]]
        /\ ResultOf' = [k \in Keys |-> ResultOf'[k]]
    BY DEF ResultOf
  <2>. QED  BY <2>1, <2>2, <2>3
<1>7. Promise!Decide(KeyOf[c], o)
  BY <1>1, <1>2, <1>3, <1>6 DEF Promise!Decide
<1>. QED  BY <1>1, <1>7 DEF AbstractStep, Promise!Next

\* What a call may be told where it is told something.
LEMMA ReadBackRefines ==
  ASSUME IdemInv, NEW c \in Calls, NEW n, NEW then, ReadBack(c, n, then),
         at[c] # "answered"
  PROVE  AbstractStep
<1>1. CASE UNCHANGED <<claims, returned, flying, ran, answer, faults>>
  BY <1>1, MapFrame DEF AbstractStep, Promise!vars
<1>2. CASE Tell(c, "UNRESOLVED")
  BY <1>2, RefusalsAreNone, TellRefines DEF Refusals
<1>. QED  BY <1>1, <1>2 DEF ReadBack

\* To deliver is to answer the outcome of the key.
LEMMA DeliverRefines == ASSUME IdemInv, NEW c \in Calls, Deliver(c) PROVE AbstractStep
<1>1. at[c] = "deliver" /\ CallInv(c)
  BY DEF Deliver, IdemInv
<1>2. Durable(c, held[c].response, claims)
  BY <1>1 DEF CallInv
<1>3. held[c].response \in Outcomes
  <2>1. claims[KeyOf[c]] # None /\ claims[KeyOf[c]].state = "COMPLETE"
    BY <1>2 DEF Durable
  <2>2. Truthful(claims[KeyOf[c]], KeyOf[c], ran, returned)
    BY <2>1, IdemAssumption DEF IdemInv, Recorded
  <2>. QED  BY <1>2, <2>1, <2>2 DEF Truthful, Durable
<1>4. Tell(c, "INSPECTED") \/ Tell(c, held[c].response)
  BY DEF Deliver
<1>. QED  BY <1>1, <1>2, <1>3, <1>4, RefusalsAreNone, TellRefines DEF Refusals

\* To look is to answer a replay, to refuse, or to stutter.
LEMMA LookRefines == ASSUME IdemInv, NEW c \in Calls, Look(c) PROVE AbstractStep
<1>. DEFINE r == claims[KeyOf[c]]
<1>1. at[c] = "look" /\ KeyOf[c] \in Keys
  BY IdemAssumption DEF Look
<1>2. \A a \in Refusals : Tell(c, a) => AbstractStep
  BY <1>1, RefusalAssumption, TellRefines
<1>3. CASE r # None /\ r.body = BodyOf[c] /\ r.state = "COMPLETE" /\ Tell(c, r.response)
  <2>1. Durable(c, r.response, claims)
    BY <1>3 DEF Durable
  <2>2. r.response \in Outcomes
    BY <1>1, <1>3 DEF IdemInv, Recorded, Truthful
  <2>. QED  BY <1>1, <1>3, <2>1, <2>2, TellRefines
<1>4. CASE UNCHANGED <<claims, returned, flying, ran, answer, faults>>
  BY <1>4, MapFrame DEF AbstractStep, Promise!vars
<1>. QED  BY <1>2, <1>3, <1>4, Zenon DEF Look, SameRequest, Refusals

\* Every step implements one of OncePerKey, or none.
LEMMA IdemStepRefines == IdemInv /\ [IdemNext]_idemVars => AbstractStep
<1>. SUFFICES ASSUME IdemInv, [IdemNext]_idemVars PROVE AbstractStep
  OBVIOUS
<1>1. CASE UNCHANGED <<ran, returned, answer>>
  BY <1>1, MapFrame DEF AbstractStep, Promise!vars
<1>2. CASE Land \/ UNCHANGED idemVars
  BY <1>1, <1>2 DEF Land, idemVars
<1>3. ASSUME NEW c \in Calls, Arrive(c) \/ Fails(c) \/ Die(c) PROVE AbstractStep
  BY <1>1, <1>3 DEF Arrive, Fails, Die
<1>4. ASSUME NEW c \in Calls, Mark(c) \/ Prepare(c) \/ Finalize(c) PROVE AbstractStep
  BY <1>1, <1>4 DEF Mark, Prepare, Finalize, Advance
<1>5. ASSUME NEW c \in Calls, CheckPrepared(c) \/ CheckComplete(c) PROVE AbstractStep
  BY <1>5, ReadBackRefines DEF CheckPrepared, CheckComplete
<1>6. ASSUME NEW c \in Calls, Unresolved(c) PROVE AbstractStep
  BY <1>6, RefusalsAreNone, TellRefines DEF Unresolved, Refusals
<1>7. ASSUME NEW c \in Calls, NEW o \in Outcomes, Returns(c, o) PROVE AbstractStep
  BY <1>7, ReturnsRefines
<1>. QED  BY <1>2, <1>3, <1>4, <1>5, <1>6, <1>7, ClaimRefines, DeliverRefines, LookRefines
          DEF IdemNext, Around, Handler

\* Initial states map to initial states.
LEMMA IdemInitRefines == IdemInit => Promise!Init
<1>. SUFFICES ASSUME IdemInit PROVE Promise!Init
  OBVIOUS
<1>1. ran = {} /\ answer = [c \in Calls |-> None]
  BY DEF IdemInit
<1>2. RanFor = [k \in Keys |-> {}] /\ ResultOf = [k \in Keys |-> None]
  BY <1>1 DEF RanFor, ResultOf, Over
<1>. QED  BY <1>1, <1>2 DEF Promise!Init

\* A handler runs at most once per key, and outcomes are given only to calls of
\* the request that ran: the protocol implements OncePerKey.
THEOREM KeepsPromise == IdemSpec => OncePerKeySpec
<1>1. IdemInv /\ [IdemNext]_idemVars
        => [seen' # seen /\ (Promise!Next \/ UNCHANGED Promise!vars)]_seen
  BY IdemStepRefines DEF AbstractStep
<1>. QED  BY <1>1, IdemInvInit, IdemInvNext, IdemInitRefines, PTL
          DEF IdemSpec, OncePerKeySpec
=============================================================================
