----------------------- MODULE BudgetReservationProofs -----------------------
(***************************************************************************)
(* What the reservations of BudgetReservation guarantee for any set of     *)
(* concurrent builds, any budget and any amounts.                          *)
(*                                                                         *)
(* Two builds may reclaim one stale lock, and a build may be admitted on a *)
(* manifest that has been overtaken: the violation runs show what becomes  *)
(* of the promises then.  The theorems assume neither away.  They say what *)
(* is kept all the same: until a build dies and leaves a lock to go stale  *)
(* (QuietInv), and of the requests that still have a reservation, which    *)
(* only the sweep of an overtaken build takes from them (ReservedInv).     *)
(***************************************************************************)
EXTENDS BudgetReservation, FiniteSetTheorems, TLAPS

-----------------------------------------------------------------------------
\* Sums over finite sets of requests.

\* The sum of the amounts of a set of builds, as NoOverCommit writes it.
Total(b, S) == MapThenSumSet(LAMBDA r : b[r].pay, S)

PickOf(S) == CHOOSE x \in S : TRUE

SumsSubsets(b, S, g) ==
  g = [s \in SUBSET S |->
         IF s = {} THEN 0 ELSE b[PickOf(s)].pay + g[s \ {PickOf(s)}]]

Unfolded(b, S) ==
  Total(b, S) = IF S = {} THEN 0
                ELSE b[PickOf(S)].pay + Total(b, S \ {PickOf(S)})

\* A nonempty set of subsets of a finite set has a minimal element.
LEMMA MinimalSubset ==
  ASSUME NEW U, IsFiniteSet(U), NEW T \in SUBSET SUBSET U, T # {}
  PROVE  \E s \in T : \A t \in SUBSET s : t # s => t \notin T
<1>1. T \subseteq FiniteSubsetsOf(U)
  <2>1. \A t \in SUBSET U : IsFiniteSet(t)
    BY FS_Subset
  <2> QED BY <2>1 DEF FiniteSubsetsOf
<1>2. PICK s \in T : \A t \in T : ~(<<t, s>> \in StrictSubsetOrdering(U))
  BY <1>1, FS_StrictSubsetOrderingWellFounded, WFMin, Zenon
<1>3. ASSUME NEW t \in SUBSET s, t # s PROVE t \notin T
  BY <1>2, <1>3 DEF StrictSubsetOrdering
<1> QED BY <1>3

\* What the sum is defined as.
LEMMA TotalDef ==
  ASSUME NEW b, NEW S
  PROVE  Total(b, S) = (CHOOSE g : SumsSubsets(b, S, g))[S]
BY Zenon DEF Total, SumsSubsets, PickOf, MapThenSumSet, MapThenFoldSet
\* The function the sum is taken from exists, is unique, and its value at a
\* subset is the sum of the subset: the sum of a set is its picked element's
\* amount and the sum of the rest.
LEMMA TotalUnfolds ==
  ASSUME NEW b, NEW U, IsFiniteSet(U)
  PROVE  \A S \in SUBSET U : Unfolded(b, S)
<1> DEFINE Bad == {S \in SUBSET U : ~Unfolded(b, S)}
<1> SUFFICES ASSUME Bad # {} PROVE FALSE
  OBVIOUS
<1>0. Bad \in SUBSET SUBSET U
  OBVIOUS
<1>1. PICK S \in Bad : \A T \in SUBSET S : T # S => T \notin Bad
  <2> HIDE DEF Bad
  <2> QED BY <1>0, MinimalSubset
<1>2. \A T \in SUBSET S : T # S => Unfolded(b, T)
  BY <1>1
<1> DEFINE Below(T) == IF T = {} THEN 0
                       ELSE b[PickOf(T)].pay + Total(b, T \ {PickOf(T)})
           g == [T \in SUBSET S |-> Below(T)]
<1>3. \A T \in SUBSET S : T # {} => PickOf(T) \in T
  BY DEF PickOf
<1>4. \A T \in SUBSET S : T # {} =>
        /\ T \ {PickOf(T)} \in SUBSET S
        /\ T \ {PickOf(T)} # S
  BY <1>3
<1>5. \A T \in SUBSET S : T # S => g[T] = Total(b, T)
  BY <1>2 DEF Unfolded
<1> HIDE DEF g
<1>6. g = [T \in SUBSET S |->
             IF T = {} THEN 0 ELSE b[PickOf(T)].pay + g[T \ {PickOf(T)}]]
  <2>1. \A T \in SUBSET S : Below(T) =
          IF T = {} THEN 0 ELSE b[PickOf(T)].pay + g[T \ {PickOf(T)}]
    BY <1>4, <1>5
  <2> QED BY <2>1 DEF g
<1>7. SumsSubsets(b, S, g)
  BY <1>6 DEF SumsSubsets
<1>8. ASSUME NEW h, SumsSubsets(b, S, h) PROVE h = g
  <2> DEFINE Off == {T \in SUBSET S : h[T] # g[T]}
  <2>1. IsFiniteSet(S)
    BY <1>1, FS_Subset
  <2>2. Off = {}
    <3> SUFFICES ASSUME Off # {} PROVE FALSE
      OBVIOUS
    <3>0. Off \in SUBSET SUBSET S
      OBVIOUS
    <3>1. PICK T \in Off : \A V \in SUBSET T : V # T => V \notin Off
      <4> HIDE DEF Off
      <4> QED BY <2>1, <3>0, MinimalSubset
    <3>2. T \in SUBSET S /\ h[T] # g[T]
      BY <3>1
    <3>3. h[T] = IF T = {} THEN 0
                 ELSE b[PickOf(T)].pay + h[T \ {PickOf(T)}]
      BY <1>8, <3>2 DEF SumsSubsets
    <3>4. g[T] = IF T = {} THEN 0
                 ELSE b[PickOf(T)].pay + g[T \ {PickOf(T)}]
      BY <1>7, <3>2 DEF SumsSubsets
    <3>5. T # {}
      BY <3>2, <3>3, <3>4
    <3>6. h[T \ {PickOf(T)}] = g[T \ {PickOf(T)}]
      BY <1>3, <3>1, <3>2, <3>5
    <3> QED BY <3>2, <3>3, <3>4, <3>6
  <2>3. h = [T \in SUBSET S |-> h[T]]
    <3>1. h = [T \in SUBSET S |->
             IF T = {} THEN 0 ELSE b[PickOf(T)].pay + h[T \ {PickOf(T)}]]
      BY <1>8 DEF SumsSubsets
    <3> QED BY <3>1, Zenon
  <2>4. g = [T \in SUBSET S |-> g[T]]
    BY <1>6, Zenon
  <2>5. \A T \in SUBSET S : h[T] = g[T]
    BY <2>2
  <2> QED BY <2>3, <2>4, <2>5
<1>9. (CHOOSE h : SumsSubsets(b, S, h)) = g
  BY <1>7, <1>8, Zenon
<1>10. Total(b, S) = g[S]
  BY <1>9, TotalDef
<1>11. g[S] = Below(S)
  BY DEF g
<1> QED BY <1>1, <1>10, <1>11 DEF Unfolded
\* The sum of the empty set.
LEMMA TotalEmpty ==
  ASSUME NEW b
  PROVE  Total(b, {}) = 0
BY TotalUnfolds, FS_EmptySet DEF Unfolded

\* The amounts of a build assignment b over the set U of requests.
PaysOn(b, U) == \A r \in U : b[r].pay \in Nat

\* A sum of amounts is an amount.
LEMMA TotalType ==
  ASSUME NEW b, NEW U, IsFiniteSet(U), PaysOn(b, U)
  PROVE  \A S \in SUBSET U : Total(b, S) \in Nat
<1> DEFINE Bad == {S \in SUBSET U : Total(b, S) \notin Nat}
<1> SUFFICES ASSUME Bad # {} PROVE FALSE
  OBVIOUS
<1>0. Bad \in SUBSET SUBSET U
  OBVIOUS
<1>1. PICK S \in Bad : \A T \in SUBSET S : T # S => T \notin Bad
  <2> HIDE DEF Bad
  <2> QED BY <1>0, MinimalSubset
<1>2. Unfolded(b, S)
  BY <1>1, TotalUnfolds
<1>3. S # {}
  <2>1. Total(b, S) \notin Nat
    BY <1>1
  <2>2. Total(b, {}) \in Nat
    BY TotalEmpty
  <2> QED BY <2>1, <2>2
<1>4. PickOf(S) \in S
  BY <1>3 DEF PickOf
<1>5. Total(b, S \ {PickOf(S)}) \in Nat
  BY <1>1, <1>4
<1>6. Total(b, S) = b[PickOf(S)].pay + Total(b, S \ {PickOf(S)})
  BY <1>2, <1>3 DEF Unfolded
<1>7. b[PickOf(S)].pay \in Nat
  BY <1>1, <1>4 DEF PaysOn
<1> QED BY <1>1, <1>5, <1>6, <1>7

\* Whichever element is taken out first: the order of the additions does not
\* matter.
LEMMA TotalTakeOut ==
  ASSUME NEW b, NEW U, IsFiniteSet(U), PaysOn(b, U)
  PROVE  \A S \in SUBSET U : \A y \in S :
           Total(b, S) = b[y].pay + Total(b, S \ {y})
<1> DEFINE Splits(S) == \A y \in S : Total(b, S) = b[y].pay + Total(b, S \ {y})
           Bad == {S \in SUBSET U : ~Splits(S)}
<1> SUFFICES ASSUME Bad # {} PROVE FALSE
  OBVIOUS
<1>0. Bad \in SUBSET SUBSET U
  OBVIOUS
<1>1. PICK S \in Bad : \A T \in SUBSET S : T # S => T \notin Bad
  <2> HIDE DEF Bad
  <2> QED BY <1>0, MinimalSubset
<1>2. PICK y \in S : Total(b, S) # b[y].pay + Total(b, S \ {y})
  BY <1>1
<1> DEFINE x == PickOf(S)
<1>3. x \in S
  BY <1>2 DEF PickOf
<1>4. Total(b, S) = b[x].pay + Total(b, S \ {x})
  BY <1>1, <1>2, TotalUnfolds DEF Unfolded
<1> HIDE DEF x
<1>5. x # y
  BY <1>2, <1>4
<1>6. /\ Total(b, S \ {x}) = b[y].pay + Total(b, (S \ {x}) \ {y})
      /\ Total(b, S \ {y}) = b[x].pay + Total(b, (S \ {y}) \ {x})
  <2>1. \A T \in SUBSET S : T # S => Splits(T)
    BY <1>1
  <2>2. /\ S \ {x} \in SUBSET S /\ S \ {x} # S /\ y \in S \ {x}
        /\ S \ {y} \in SUBSET S /\ S \ {y} # S /\ x \in S \ {y}
    BY <1>2, <1>3, <1>5
  <2> QED BY <2>1, <2>2
<1>7. (S \ {x}) \ {y} = (S \ {y}) \ {x}
  OBVIOUS
<1> DEFINE rest == Total(b, (S \ {y}) \ {x})
<1>8. b[x].pay \in Nat /\ b[y].pay \in Nat /\ rest \in Nat
  <2>1. (S \ {y}) \ {x} \in SUBSET U
    BY <1>1
  <2>2. x \in U /\ y \in U
    BY <1>1, <1>2, <1>3
  <2>3. \A T \in SUBSET U : Total(b, T) \in Nat
    BY TotalType
  <2>4. rest \in Nat
    BY <2>1, <2>3
  <2> QED BY <2>2, <2>4 DEF PaysOn
<1>9. /\ Total(b, S \ {x}) = b[y].pay + rest
      /\ Total(b, S \ {y}) = b[x].pay + rest
  BY <1>6, <1>7
<1> HIDE DEF rest
<1>10. Total(b, S) = b[y].pay + Total(b, S \ {y})
  BY <1>4, <1>8, <1>9
<1> QED BY <1>2, <1>10

\* Leaving requests out never makes the sum larger.
LEMMA TotalMonotone ==
  ASSUME NEW b, NEW U, IsFiniteSet(U), PaysOn(b, U)
  PROVE  \A S \in SUBSET U : \A T \in SUBSET S : Total(b, T) <= Total(b, S)
<1> DEFINE Bad == {S \in SUBSET U : ~(\A T \in SUBSET S : Total(b, T) <= Total(b, S))}
<1> SUFFICES ASSUME Bad # {} PROVE FALSE
  OBVIOUS
<1>0. Bad \in SUBSET SUBSET U
  OBVIOUS
<1>1. PICK S \in Bad : \A T \in SUBSET S : T # S => T \notin Bad
  <2> HIDE DEF Bad
  <2> QED BY <1>0, MinimalSubset
<1>2. PICK T \in SUBSET S : ~(Total(b, T) <= Total(b, S))
  BY <1>1
<1>3. Total(b, S) \in Nat
  BY <1>1, TotalType
<1>4. PICK y \in S : y \notin T
  BY <1>2, <1>3
<1>5. Total(b, S) = b[y].pay + Total(b, S \ {y})
  BY <1>1, TotalTakeOut
<1>6. Total(b, T) <= Total(b, S \ {y})
  <2>1. S \ {y} \in SUBSET S /\ S \ {y} # S /\ T \in SUBSET (S \ {y})
    BY <1>4
  <2>2. S \ {y} \in SUBSET U /\ S \ {y} \notin Bad
    BY <1>1, <2>1
  <2> QED BY <2>1, <2>2
<1>7. b[y].pay \in Nat /\ Total(b, S \ {y}) \in Nat /\ Total(b, T) \in Nat
  <2>1. S \ {y} \in SUBSET U /\ T \in SUBSET U /\ y \in U
    BY <1>1, <1>4
  <2> QED BY <2>1, TotalType DEF PaysOn
<1> QED BY <1>2, <1>3, <1>5, <1>6, <1>7

\* The sum looks only at the amounts of the members.
LEMMA TotalSame ==
  ASSUME NEW b, NEW c, NEW U, IsFiniteSet(U),
         \A r \in U : b[r].pay = c[r].pay
  PROVE  \A S \in SUBSET U : Total(b, S) = Total(c, S)
<1> DEFINE Bad == {S \in SUBSET U : Total(b, S) # Total(c, S)}
<1> SUFFICES ASSUME Bad # {} PROVE FALSE
  OBVIOUS
<1>0. Bad \in SUBSET SUBSET U
  OBVIOUS
<1>1. PICK S \in Bad : \A T \in SUBSET S : T # S => T \notin Bad
  <2> HIDE DEF Bad
  <2> QED BY <1>0, MinimalSubset
<1>2. S \in SUBSET U /\ Total(b, S) # Total(c, S)
  BY <1>1
<1>3. Unfolded(b, S) /\ Unfolded(c, S)
  BY <1>2, TotalUnfolds
<1>4. S # {}
  BY <1>2, TotalEmpty
<1>5. PickOf(S) \in S
  BY <1>4 DEF PickOf
<1>6. Total(b, S \ {PickOf(S)}) = Total(c, S \ {PickOf(S)})
  BY <1>1, <1>2, <1>5
<1>7. b[PickOf(S)].pay = c[PickOf(S)].pay
  BY <1>2, <1>5
<1> QED BY <1>2, <1>3, <1>4, <1>6, <1>7 DEF Unfolded
-----------------------------------------------------------------------------
\* The inductive invariant.

\* Between taking the admission lock and releasing it.
Holding == {"scan", "sweep", "admitted", "unlock", "unlockRefused"}

\* Admitted, and neither failed, dead nor confirmed.
Standing == {"admitted", "unlock", "save", "open", "consume"}

\* A build that has been frozen is a build.
FrozenOK == \A r \in Requests : pc[r] # "idle" => build[r] \in Build

TypeInv == TypeOK /\ FrozenOK

\* The build in the admission section has the lock, and no lock is stale.
LockInv ==
  /\ \A r \in Requests :
       /\ pc[r] \in Holding => lock = [holder |-> r, stale |-> FALSE]
       /\ pc[r] # "reclaim"
  /\ lock # NoLock => ~lock.stale

\* What the chain has booked for a period window.
Base(w) == IF w = manifest.window THEN manifest.spent ELSE 0

\* The state of the durable record follows the process.
SavedInv ==
  \A r \in Requests :
    /\ saved[r] = "DEAD" => pc[r] \in {"free", "done"}
    /\ saved[r] \in {"BUILT", "PREFLIGHT_VERIFIED"} <=> pc[r] \in {"open", "consume"}

\* A frozen build fits into the budget alone, is never ahead of the manifest,
\* and on the live outpoint was computed from what is booked now.
BuildInv ==
  /\ manifest.spent <= Budget
  /\ \A r \in Requests : pc[r] # "idle" =>
       /\ build[r].outpoint <= manifest.outpoint
       /\ build[r].spent + build[r].pay <= Budget
       /\ Current(r) => build[r].spent = Base(build[r].window)

\* A reservation record, stored or listed by a sweep, repeats its request's build,
\* and has aged only when that request's process crashed.
Matches(q, rec) ==
  /\ pc[q] # "idle"
  /\ rec.outpoint = build[q].outpoint
  /\ rec.window = build[q].window
  /\ rec.pay = build[q].pay
  /\ rec.old => pc[q] = "crashed"

ResvInv == \A q \in Requests : resv[q] # NoResv => Matches(q, resv[q])

TodoInv == \A r \in Requests : \A item \in todo[r] : Matches(item.id, item.rec)

\* The standing requests of a window on the live outpoint that have a
\* reservation.
Holders(w) ==
  {q \in Requests : /\ pc[q] \in Standing /\ Current(q)
                    /\ build[q].window = w /\ resv[q] # NoResv}

TodoIds(r) == {item.id : item \in todo[r]}

\* An admission on the live outpoint has counted every holder it no longer has
\* to look at.
CountedInv ==
  \A r \in Requests : pc[r] = "sweep" /\ Current(r) =>
    Total(build, Holders(build[r].window) \ TodoIds(r)) <= sum[r]

\* The holders of every window fit into the budget.
FitInv == \A w \in Nat : Base(w) + Total(build, Holders(w)) <= Budget

\* What holds of every behaviour.
ReservedInv == SavedInv /\ BuildInv /\ ResvInv /\ TodoInv

\* What holds until a build dies.
QuietInv == LockInv /\ CountedInv /\ FitInv

\* Every step keeps the types.
LEMMA TypeStep ==
  ASSUME TypeInv,
         [Next]_vars
  PROVE  TypeInv'
<1>1. ASSUME NEW r \in Requests,
              \E pay \in Pays, k \in {0, 1} : LoadAndBuild(r, pay, k)
       PROVE  TypeInv'
  <2>1. PICK pay \in Pays, k \in {0, 1} : LoadAndBuild(r, pay, k)
    BY <1>1
  <2> DEFINE frozen == [outpoint |-> manifest.outpoint,
                        window |-> manifest.window + k,
                        spent |-> IF k = 0 THEN manifest.spent ELSE 0,
                        pay |-> pay]
  <2>2. frozen \in Build
    BY DEF TypeInv, TypeOK, Manifest, Build
  <2>3. build' = [build EXCEPT ![r] = frozen]
    BY <2>1 DEF LoadAndBuild
  <2> HIDE DEF frozen
  <2>4. build' \in [Requests -> Build \cup {NoBuild}] /\ FrozenOK'
    BY <2>1, <2>2, <2>3 DEF LoadAndBuild, Goto, TypeInv, TypeOK, FrozenOK
  <2> QED BY <2>1, <2>4 DEF LoadAndBuild, Goto, TypeInv, TypeOK, PCs,
     Admitting
<1>2. ASSUME NEW r \in Requests, Lock(r) PROVE TypeInv'
  BY <1>2 DEF Lock, Goto, TypeInv, TypeOK, FrozenOK, PCs, Admitting
<1>3. ASSUME NEW r \in Requests, SeeStaleLock(r) PROVE TypeInv'
  BY <1>3 DEF SeeStaleLock, Goto, TypeInv, TypeOK, FrozenOK, PCs, Admitting
<1>4. ASSUME NEW r \in Requests, GiveUp(r) PROVE TypeInv'
  BY <1>4 DEF GiveUp, Goto, TypeInv, TypeOK, FrozenOK, PCs, Admitting
<1>5. ASSUME NEW r \in Requests, Reclaim(r) PROVE TypeInv'
  BY <1>5 DEF Reclaim, Goto, TypeInv, TypeOK, FrozenOK, PCs, Admitting
<1>6. ASSUME NEW r \in Requests, Scan(r) PROVE TypeInv'
  BY <1>6 DEF Scan, Goto, TypeInv, TypeOK, FrozenOK, PCs, Admitting
<1>7. ASSUME NEW r \in Requests, Sweep(r) PROVE TypeInv'
  <2>1. PICK item \in todo[r] :
          /\ todo' = [todo EXCEPT ![r] = @ \ {item}]
          /\ \/ /\ resv' = [resv EXCEPT ![item.id] = NoResv]
                /\ UNCHANGED sum
             \/ /\ sum' = [sum EXCEPT ![r] =
                     IF item.rec.window = build[r].window
                     THEN @ + item.rec.pay ELSE @]
                /\ UNCHANGED resv
    BY <1>7 DEF Sweep
  <2>2. item \in [id: Requests, rec: Reservation]
    BY <2>1 DEF TypeInv, TypeOK
  <2>3. item.id \in Requests /\ item.rec.pay \in Nat
    BY <2>2, ReservationAssumption DEF Reservation
  <2>4. todo' \in [Requests -> SUBSET [id: Requests, rec: Reservation]]
    BY <2>1 DEF TypeInv, TypeOK
  <2>5. resv' \in [Requests -> Reservation \cup {NoResv}]
    BY <2>1, <2>3 DEF TypeInv, TypeOK
  <2>6. sum' \in [Requests -> Nat]
    BY <2>1, <2>3 DEF TypeInv, TypeOK
  <2> QED BY <1>7, <2>4, <2>5, <2>6 DEF Sweep, TypeInv, TypeOK, FrozenOK
<1>8. ASSUME NEW r \in Requests, Admit(r) PROVE TypeInv'
  <2> DEFINE record == [outpoint |-> build[r].outpoint,
                        window |-> build[r].window, pay |-> build[r].pay,
                        status |-> "ACTIVE", old |-> FALSE]
  <2>1. build[r] \in Build
    BY <1>8 DEF Admit, Goto, TypeInv, FrozenOK
  <2>2. record \in Reservation
    BY <2>1 DEF Build, Reservation
  <2>3. resv' = [resv EXCEPT ![r] = record]
    BY <1>8 DEF Admit
  <2> HIDE DEF record
  <2>4. resv' \in [Requests -> Reservation \cup {NoResv}]
    BY <2>2, <2>3 DEF TypeInv, TypeOK
  <2> QED BY <1>8, <2>4 DEF Admit, Goto, TypeInv, TypeOK, FrozenOK, PCs,
     Admitting
<1>9. ASSUME NEW r \in Requests, Refuse(r) PROVE TypeInv'
  BY <1>9 DEF Refuse, Goto, TypeInv, TypeOK, FrozenOK, PCs, Admitting
<1>10. ASSUME NEW r \in Requests, ReadOwnLock(r) PROVE TypeInv'
  BY <1>10 DEF ReadOwnLock, Goto, TypeInv, TypeOK, FrozenOK, PCs, Admitting
<1>11. ASSUME NEW r \in Requests, Unlock(r) PROVE TypeInv'
  BY <1>11 DEF Unlock, Goto, TypeInv, TypeOK, FrozenOK, PCs, Admitting
<1>12. ASSUME NEW r \in Requests, UnlockRefused(r) PROVE TypeInv'
  BY <1>12 DEF UnlockRefused, Goto, TypeInv, TypeOK, FrozenOK, PCs, Admitting
<1>13. ASSUME NEW r \in Requests, Save(r) PROVE TypeInv'
  BY <1>13 DEF Save, Goto, TypeInv, TypeOK, FrozenOK, PCs, Admitting
<1>14. ASSUME NEW r \in Requests, SaveFails(r) PROVE TypeInv'
  BY <1>14 DEF SaveFails, Goto, TypeInv, TypeOK, FrozenOK, PCs, Admitting
<1>15. ASSUME NEW r \in Requests, Finalize(r) PROVE TypeInv'
  BY <1>15 DEF Finalize, Goto, TypeInv, TypeOK, FrozenOK, PCs, Admitting
<1>16. ASSUME NEW r \in Requests, Consume(r) PROVE TypeInv'
  <2>1. resv' \in [Requests -> Reservation \cup {NoResv}]
    <3>1. CASE resv[r] = NoResv
      BY <1>16, <3>1 DEF Consume, TypeInv, TypeOK
    <3>2. CASE resv[r] # NoResv
      <4> DEFINE record == [resv[r] EXCEPT !.status = "CONSUMED"]
      <4>1. resv[r] \in Reservation
        BY <3>2 DEF TypeInv, TypeOK
      <4>2. record \in Reservation
        BY <4>1 DEF Reservation
      <4>3. resv' = [resv EXCEPT ![r] = record]
        BY <1>16, <3>2 DEF Consume
      <4> HIDE DEF record
      <4> QED BY <4>2, <4>3 DEF TypeInv, TypeOK
    <3> QED BY <3>1, <3>2
  <2> QED BY <1>16, <2>1 DEF Consume, Goto, TypeInv, TypeOK, FrozenOK,
     PCs, Admitting
<1>17. ASSUME NEW r \in Requests, Die(r) PROVE TypeInv'
  BY <1>17 DEF Die, Goto, TypeInv, TypeOK, FrozenOK, PCs, Admitting
<1>18. ASSUME NEW r \in Requests, Free(r) PROVE TypeInv'
  BY <1>18 DEF Free, Goto, TypeInv, TypeOK, FrozenOK, PCs, Admitting
<1>19. ASSUME NEW r \in Requests, Confirm(r) PROVE TypeInv'
  <2>1. build[r] \in Build
    BY <1>19 DEF Confirm, Goto, TypeInv, FrozenOK
  <2>2. build[r].window \in Nat /\ build[r].spent + build[r].pay \in Nat
    <3>1. build[r].pay \in Pays /\ build[r].window \in Nat /\ build[r].spent \in Nat
      BY <2>1 DEF Build
    <3>2. build[r].pay \in Nat
      BY <3>1, ReservationAssumption
    <3> QED BY <3>1, <3>2
  <2> DEFINE spent == build[r].spent + build[r].pay
             window == build[r].window
  <2>4. /\ manifest' = [outpoint |-> manifest.outpoint + 1, window |-> window,
                         spent |-> spent]
        /\ manifest.outpoint + 1 \in Nat
    BY <1>19 DEF Confirm, TypeInv, TypeOK, Manifest
  <2> HIDE DEF spent, window
  <2>3. manifest' \in Manifest
    <3>1. window \in Nat /\ spent \in Nat
      BY <2>2 DEF window, spent
    <3> QED BY <2>4, <3>1 DEF Manifest
  <2> QED BY <1>19, <2>3 DEF Confirm, Goto, TypeInv, TypeOK, FrozenOK,
     PCs, Admitting
<1>20. ASSUME NEW r \in Requests, Crash(r) PROVE TypeInv'
  BY <1>20 DEF Crash, Goto, TypeInv, TypeOK, FrozenOK, PCs, Admitting
<1>21. ASSUME NEW r \in Requests, ReservationAges(r) PROVE TypeInv'
  <2> DEFINE record == [resv[r] EXCEPT !.old = TRUE]
  <2>1. resv[r] \in Reservation
    BY <1>21 DEF ReservationAges, TypeInv, TypeOK
  <2>2. record \in Reservation
    BY <2>1 DEF Reservation
  <2>3. resv' = [resv EXCEPT ![r] = record]
    BY <1>21 DEF ReservationAges
  <2> HIDE DEF record
  <2>4. resv' \in [Requests -> Reservation \cup {NoResv}]
    BY <2>2, <2>3 DEF TypeInv, TypeOK
  <2> QED BY <1>21, <2>4 DEF ReservationAges, TypeInv, TypeOK, FrozenOK
<1>22. ASSUME AdvanceOther PROVE TypeInv'
  <2>1. manifest' \in Manifest
    BY <1>22 DEF AdvanceOther, TypeInv, TypeOK, Manifest
  <2> QED BY <1>22, <2>1 DEF AdvanceOther, TypeInv, TypeOK, FrozenOK
<1>23. ASSUME LockAges PROVE TypeInv'
  BY <1>23 DEF LockAges, Goto, TypeInv, TypeOK, FrozenOK, PCs, Admitting
<1>24. ASSUME UNCHANGED vars PROVE TypeInv'
  BY <1>24 DEF vars, Goto, TypeInv, TypeOK, FrozenOK, PCs, Admitting
<1> QED
  BY <1>1, <1>2, <1>3, <1>4, <1>5, <1>6, <1>7, <1>8, <1>9, <1>10, <1>11,
     <1>12, <1>13, <1>14, <1>15, <1>16, <1>17, <1>18, <1>19, <1>20, <1>21,
     <1>22, <1>23, <1>24, Zenon DEF Next, Step

\* A build that has died stays dead.
LEMMA DiedStays ==
  ASSUME TypeInv, Died, [Next]_vars
  PROVE  Died'
<1>1. PICK d \in Requests : pc[d] = "crashed"
  BY DEF Died
<1> SUFFICES pc'[d] = "crashed"
  BY DEF Died
<1>2. ASSUME NEW r \in Requests, Step(r)
      PROVE  pc'[d] = "crashed"
  <2>1. CASE \E pay \in Pays, k \in {0, 1} : LoadAndBuild(r, pay, k)
    BY <1>1, <2>1 DEF LoadAndBuild, Goto, TypeInv, TypeOK
  <2>2. CASE Lock(r) \/ SeeStaleLock(r) \/ GiveUp(r) \/ Reclaim(r)
    BY <1>1, <2>2 DEF Lock, SeeStaleLock, GiveUp, Reclaim, Goto, TypeInv, TypeOK
  <2>3. CASE Scan(r) \/ Sweep(r) \/ Admit(r) \/ Refuse(r)
    BY <1>1, <2>3 DEF Scan, Sweep, Admit, Refuse, Goto, TypeInv, TypeOK
  <2>4. CASE ReadOwnLock(r) \/ Unlock(r) \/ UnlockRefused(r)
    BY <1>1, <2>4 DEF ReadOwnLock, Unlock, UnlockRefused, Goto, TypeInv, TypeOK
  <2>5. CASE Save(r) \/ SaveFails(r) \/ Finalize(r) \/ Consume(r)
    BY <1>1, <2>5 DEF Save, SaveFails, Finalize, Consume, Goto, TypeInv, TypeOK
  <2>6. CASE Die(r) \/ Free(r) \/ Confirm(r)
    BY <1>1, <2>6 DEF Die, Free, Confirm, Goto, TypeInv, TypeOK
  <2>7. CASE Crash(r) \/ ReservationAges(r)
    BY <1>1, <2>7 DEF Crash, ReservationAges, TypeInv, TypeOK
  <2>. QED  BY <1>2, <2>1, <2>2, <2>3, <2>4, <2>5, <2>6, <2>7, Zenon DEF Step
<1>3. CASE AdvanceOther \/ LockAges \/ UNCHANGED vars
  BY <1>1, <1>3 DEF AdvanceOther, LockAges, vars
<1>. QED  BY <1>2, <1>3, Zenon DEF Next

\* As long as no build has died every step keeps the admission section
\* exclusive: nothing makes a lock stale, so nobody removes another's.
LEMMA LockStep ==
  ASSUME TypeInv, LockInv, ~Died,
         [Next]_vars
  PROVE  LockInv'
<1>1. ASSUME NEW r \in Requests,
              \E pay \in Pays, k \in {0, 1} : LoadAndBuild(r, pay, k)
       PROVE  LockInv'
  BY <1>1 DEF LoadAndBuild, TypeInv, TypeOK, LockInv, Goto, Holding
<1>2. ASSUME NEW r \in Requests, Lock(r) PROVE LockInv'
  <2>1. ASSUME NEW q \in Requests PROVE pc[q] \notin Holding /\ pc[q] # "reclaim"
    <3>1. lock # [holder |-> q, stale |-> FALSE]
      <4>1. [holder |-> q, stale |-> FALSE] \in [holder: Requests, stale: BOOLEAN]
        OBVIOUS
      <4> QED BY <1>2, <4>1, RecordAssumption DEF Lock
    <3> QED BY <1>2, <3>1 DEF Lock, LockInv
  <2>2. \A q \in Requests : pc'[q] = IF q = r THEN "scan" ELSE pc[q]
    BY <1>2 DEF Lock, Goto, TypeInv, TypeOK
  <2>3. lock' = [holder |-> r, stale |-> FALSE]
    BY <1>2 DEF Lock
  <2>4. ~lock'.stale
    BY <2>3
  <2> QED BY <2>1, <2>2, <2>3, <2>4 DEF LockInv
<1>3. ASSUME NEW r \in Requests, SeeStaleLock(r) PROVE LockInv'
  BY <1>3 DEF SeeStaleLock, TypeInv, TypeOK, LockInv, Goto, Holding
<1>4. ASSUME NEW r \in Requests, GiveUp(r) PROVE LockInv'
  BY <1>4 DEF GiveUp, TypeInv, TypeOK, LockInv, Goto, Holding
<1>5. ASSUME NEW r \in Requests, Reclaim(r) PROVE LockInv'
  BY <1>5 DEF Reclaim, TypeInv, TypeOK, LockInv, Goto, Holding
<1>6. ASSUME NEW r \in Requests, Scan(r) PROVE LockInv'
  BY <1>6 DEF Scan, TypeInv, TypeOK, LockInv, Goto, Holding
<1>7. ASSUME NEW r \in Requests, Sweep(r) PROVE LockInv'
  BY <1>7 DEF Sweep, TypeInv, TypeOK, LockInv, Goto, Holding
<1>8. ASSUME NEW r \in Requests, Admit(r) PROVE LockInv'
  BY <1>8 DEF Admit, TypeInv, TypeOK, LockInv, Goto, Holding
<1>9. ASSUME NEW r \in Requests, Refuse(r) PROVE LockInv'
  BY <1>9 DEF Refuse, TypeInv, TypeOK, LockInv, Goto, Holding
<1>10. ASSUME NEW r \in Requests, ReadOwnLock(r) PROVE LockInv'
  BY <1>10 DEF ReadOwnLock, TypeInv, TypeOK, LockInv, Goto, Holding
<1>11. ASSUME NEW r \in Requests, Unlock(r) PROVE LockInv'
  BY <1>11 DEF Unlock, TypeInv, TypeOK, LockInv, Goto, Holding
<1>12. ASSUME NEW r \in Requests, UnlockRefused(r) PROVE LockInv'
  BY <1>12 DEF UnlockRefused, TypeInv, TypeOK, LockInv, Goto, Holding
<1>13. ASSUME NEW r \in Requests, Save(r) PROVE LockInv'
  BY <1>13 DEF Save, TypeInv, TypeOK, LockInv, Goto, Holding
<1>14. ASSUME NEW r \in Requests, SaveFails(r) PROVE LockInv'
  BY <1>14 DEF SaveFails, TypeInv, TypeOK, LockInv, Goto, Holding
<1>15. ASSUME NEW r \in Requests, Finalize(r) PROVE LockInv'
  BY <1>15 DEF Finalize, TypeInv, TypeOK, LockInv, Goto, Holding
<1>16. ASSUME NEW r \in Requests, Consume(r) PROVE LockInv'
  BY <1>16 DEF Consume, TypeInv, TypeOK, LockInv, Goto, Holding
<1>17. ASSUME NEW r \in Requests, Die(r) PROVE LockInv'
  BY <1>17 DEF Die, TypeInv, TypeOK, LockInv, Goto, Holding
<1>18. ASSUME NEW r \in Requests, Free(r) PROVE LockInv'
  BY <1>18 DEF Free, TypeInv, TypeOK, LockInv, Goto, Holding
<1>19. ASSUME NEW r \in Requests, Confirm(r) PROVE LockInv'
  BY <1>19 DEF Confirm, TypeInv, TypeOK, LockInv, Goto, Holding
<1>20. ASSUME NEW r \in Requests, Crash(r) PROVE LockInv'
  BY <1>20 DEF Crash, TypeInv, TypeOK, LockInv, Goto, Holding
<1>21. ASSUME NEW r \in Requests, ReservationAges(r) PROVE LockInv'
  BY <1>21 DEF ReservationAges, TypeInv, TypeOK, LockInv, Goto, Holding
<1>22. ASSUME AdvanceOther PROVE LockInv'
  BY <1>22 DEF AdvanceOther, TypeInv, TypeOK, LockInv, Goto, Holding
<1>23. ASSUME LockAges PROVE LockInv'
  <2>1. lock.holder \in Requests
    BY <1>23 DEF LockAges, TypeInv, TypeOK
  <2> QED BY <1>23, <2>1 DEF LockAges, Died
<1>24. ASSUME UNCHANGED vars PROVE LockInv'
  BY <1>24 DEF vars, TypeInv, TypeOK, LockInv, Goto, Holding
<1> QED
  BY <1>1, <1>2, <1>3, <1>4, <1>5, <1>6, <1>7, <1>8, <1>9, <1>10, <1>11,
     <1>12, <1>13, <1>14, <1>15, <1>16, <1>17, <1>18, <1>19, <1>20, <1>21,
     <1>22, <1>23, <1>24, Zenon DEF Next, Step

\* The durable record keeps following the process.
LEMMA SavedStep ==
  ASSUME TypeInv, SavedInv,
         [Next]_vars
  PROVE  SavedInv'
<1>1. ASSUME NEW r \in Requests,
              \E pay \in Pays, k \in {0, 1} : LoadAndBuild(r, pay, k)
       PROVE  SavedInv'
  BY <1>1 DEF LoadAndBuild, TypeInv, TypeOK, SavedInv, Goto
<1>2. ASSUME NEW r \in Requests, Lock(r) PROVE SavedInv'
  BY <1>2 DEF Lock, TypeInv, TypeOK, SavedInv, Goto
<1>3. ASSUME NEW r \in Requests, SeeStaleLock(r) PROVE SavedInv'
  BY <1>3 DEF SeeStaleLock, TypeInv, TypeOK, SavedInv, Goto
<1>4. ASSUME NEW r \in Requests, GiveUp(r) PROVE SavedInv'
  BY <1>4 DEF GiveUp, TypeInv, TypeOK, SavedInv, Goto
<1>5. ASSUME NEW r \in Requests, Reclaim(r) PROVE SavedInv'
  BY <1>5 DEF Reclaim, TypeInv, TypeOK, SavedInv, Goto
<1>6. ASSUME NEW r \in Requests, Scan(r) PROVE SavedInv'
  BY <1>6 DEF Scan, TypeInv, TypeOK, SavedInv, Goto
<1>7. ASSUME NEW r \in Requests, Sweep(r) PROVE SavedInv'
  BY <1>7 DEF Sweep, TypeInv, TypeOK, SavedInv, Goto
<1>8. ASSUME NEW r \in Requests, Admit(r) PROVE SavedInv'
  BY <1>8 DEF Admit, TypeInv, TypeOK, SavedInv, Goto
<1>9. ASSUME NEW r \in Requests, Refuse(r) PROVE SavedInv'
  BY <1>9 DEF Refuse, TypeInv, TypeOK, SavedInv, Goto
<1>10. ASSUME NEW r \in Requests, ReadOwnLock(r) PROVE SavedInv'
  BY <1>10 DEF ReadOwnLock, TypeInv, TypeOK, SavedInv, Goto
<1>11. ASSUME NEW r \in Requests, Unlock(r) PROVE SavedInv'
  BY <1>11 DEF Unlock, TypeInv, TypeOK, SavedInv, Goto
<1>12. ASSUME NEW r \in Requests, UnlockRefused(r) PROVE SavedInv'
  BY <1>12 DEF UnlockRefused, TypeInv, TypeOK, SavedInv, Goto
<1>13. ASSUME NEW r \in Requests, Save(r) PROVE SavedInv'
  BY <1>13 DEF Save, TypeInv, TypeOK, SavedInv, Goto
<1>14. ASSUME NEW r \in Requests, SaveFails(r) PROVE SavedInv'
  BY <1>14 DEF SaveFails, TypeInv, TypeOK, SavedInv, Goto
<1>15. ASSUME NEW r \in Requests, Finalize(r) PROVE SavedInv'
  BY <1>15 DEF Finalize, TypeInv, TypeOK, SavedInv, Goto
<1>16. ASSUME NEW r \in Requests, Consume(r) PROVE SavedInv'
  BY <1>16 DEF Consume, TypeInv, TypeOK, SavedInv, Goto
<1>17. ASSUME NEW r \in Requests, Die(r) PROVE SavedInv'
  BY <1>17 DEF Die, TypeInv, TypeOK, SavedInv, Goto
<1>18. ASSUME NEW r \in Requests, Free(r) PROVE SavedInv'
  BY <1>18 DEF Free, TypeInv, TypeOK, SavedInv, Goto
<1>19. ASSUME NEW r \in Requests, Confirm(r) PROVE SavedInv'
  BY <1>19 DEF Confirm, TypeInv, TypeOK, SavedInv, Goto
<1>20. ASSUME NEW r \in Requests, Crash(r) PROVE SavedInv'
  BY <1>20 DEF Crash, TypeInv, TypeOK, SavedInv, Goto
<1>21. ASSUME NEW r \in Requests, ReservationAges(r) PROVE SavedInv'
  BY <1>21 DEF ReservationAges, TypeInv, TypeOK, SavedInv, Goto
<1>22. ASSUME AdvanceOther PROVE SavedInv'
  BY <1>22 DEF AdvanceOther, TypeInv, TypeOK, SavedInv, Goto
<1>23. ASSUME LockAges PROVE SavedInv'
  BY <1>23 DEF LockAges, TypeInv, TypeOK, SavedInv, Goto
<1>24. ASSUME UNCHANGED vars PROVE SavedInv'
  BY <1>24 DEF vars, TypeInv, TypeOK, SavedInv, Goto
<1> QED
  BY <1>1, <1>2, <1>3, <1>4, <1>5, <1>6, <1>7, <1>8, <1>9, <1>10, <1>11,
     <1>12, <1>13, <1>14, <1>15, <1>16, <1>17, <1>18, <1>19, <1>20, <1>21,
     <1>22, <1>23, <1>24, Zenon DEF Next, Step
\* Once the vault has moved to its next outpoint no frozen build is current.
LEMMA NoneCurrentAfter ==
  ASSUME TypeInv, BuildInv,
         manifest'.outpoint = manifest.outpoint + 1, build' = build
  PROVE  \A q \in Requests : pc[q] # "idle" => ~Current(q)'
<1> SUFFICES ASSUME NEW q \in Requests, pc[q] # "idle" PROVE ~Current(q)'
  OBVIOUS
<1>1. build[q].outpoint <= manifest.outpoint
  BY DEF BuildInv
<1>2. build[q].outpoint \in Nat /\ manifest.outpoint \in Nat
  BY DEF TypeInv, TypeOK, FrozenOK, Build, Manifest
<1> QED BY <1>1, <1>2 DEF Current

\* Frozen builds stay within the budget and what is booked.
LEMMA BuildStep ==
  ASSUME TypeInv, BuildInv,
         [Next]_vars
  PROVE  BuildInv'
<1>1. ASSUME NEW r \in Requests,
              \E pay \in Pays, k \in {0, 1} : LoadAndBuild(r, pay, k)
       PROVE  BuildInv'
  <2>1. PICK pay \in Pays, k \in {0, 1} : LoadAndBuild(r, pay, k)
    BY <1>1
  <2> DEFINE before == IF k = 0 THEN manifest.spent ELSE 0
             window == manifest.window + k
             frozen == [outpoint |-> manifest.outpoint, window |-> window,
                        spent |-> before, pay |-> pay]
  <2>2. before + pay <= Budget /\ before = Base(window)
    BY <2>1 DEF LoadAndBuild, Base, TypeInv, TypeOK, Manifest
  <2>3. manifest.outpoint <= manifest.outpoint
    BY DEF TypeInv, TypeOK, Manifest
  <2>4. /\ build' = [build EXCEPT ![r] = frozen]
        /\ pc' = [pc EXCEPT ![r] = "lock"]
        /\ manifest' = manifest
    BY <2>1 DEF LoadAndBuild, Goto
  <2> HIDE DEF before, window
  <2>5. \A q \in Requests : q # r => build'[q] = build[q] /\ pc'[q] = pc[q]
    BY <2>4 DEF TypeInv, TypeOK
  <2>6. build'[r] = frozen
    BY <2>4 DEF TypeInv, TypeOK
  <2> QED BY <2>2, <2>3, <2>4, <2>5, <2>6 DEF BuildInv, Current, Base
<1>2. ASSUME NEW r \in Requests, Lock(r) PROVE BuildInv'
  BY <1>2 DEF Lock, TypeInv, TypeOK, BuildInv, Goto, Current, Base, Admitting
<1>3. ASSUME NEW r \in Requests, SeeStaleLock(r) PROVE BuildInv'
  BY <1>3 DEF SeeStaleLock, TypeInv, TypeOK, BuildInv, Goto, Current,
     Base, Admitting
<1>4. ASSUME NEW r \in Requests, GiveUp(r) PROVE BuildInv'
  BY <1>4 DEF GiveUp, TypeInv, TypeOK, BuildInv, Goto, Current, Base,
     Admitting
<1>5. ASSUME NEW r \in Requests, Reclaim(r) PROVE BuildInv'
  BY <1>5 DEF Reclaim, TypeInv, TypeOK, BuildInv, Goto, Current, Base,
     Admitting
<1>6. ASSUME NEW r \in Requests, Scan(r) PROVE BuildInv'
  BY <1>6 DEF Scan, TypeInv, TypeOK, BuildInv, Goto, Current, Base, Admitting
<1>7. ASSUME NEW r \in Requests, Sweep(r) PROVE BuildInv'
  BY <1>7 DEF Sweep, TypeInv, TypeOK, BuildInv, Goto, Current, Base, Admitting
<1>8. ASSUME NEW r \in Requests, Admit(r) PROVE BuildInv'
  BY <1>8 DEF Admit, TypeInv, TypeOK, BuildInv, Goto, Current, Base, Admitting
<1>9. ASSUME NEW r \in Requests, Refuse(r) PROVE BuildInv'
  BY <1>9 DEF Refuse, TypeInv, TypeOK, BuildInv, Goto, Current, Base,
     Admitting
<1>10. ASSUME NEW r \in Requests, ReadOwnLock(r) PROVE BuildInv'
  BY <1>10 DEF ReadOwnLock, TypeInv, TypeOK, BuildInv, Goto, Current,
     Base, Admitting
<1>11. ASSUME NEW r \in Requests, Unlock(r) PROVE BuildInv'
  BY <1>11 DEF Unlock, TypeInv, TypeOK, BuildInv, Goto, Current, Base,
     Admitting
<1>12. ASSUME NEW r \in Requests, UnlockRefused(r) PROVE BuildInv'
  BY <1>12 DEF UnlockRefused, TypeInv, TypeOK, BuildInv, Goto, Current,
     Base, Admitting
<1>13. ASSUME NEW r \in Requests, Save(r) PROVE BuildInv'
  BY <1>13 DEF Save, TypeInv, TypeOK, BuildInv, Goto, Current, Base, Admitting
<1>14. ASSUME NEW r \in Requests, SaveFails(r) PROVE BuildInv'
  BY <1>14 DEF SaveFails, TypeInv, TypeOK, BuildInv, Goto, Current, Base,
     Admitting
<1>15. ASSUME NEW r \in Requests, Finalize(r) PROVE BuildInv'
  BY <1>15 DEF Finalize, TypeInv, TypeOK, BuildInv, Goto, Current, Base,
     Admitting
<1>16. ASSUME NEW r \in Requests, Consume(r) PROVE BuildInv'
  BY <1>16 DEF Consume, TypeInv, TypeOK, BuildInv, Goto, Current, Base,
     Admitting
<1>17. ASSUME NEW r \in Requests, Die(r) PROVE BuildInv'
  BY <1>17 DEF Die, TypeInv, TypeOK, BuildInv, Goto, Current, Base, Admitting
<1>18. ASSUME NEW r \in Requests, Free(r) PROVE BuildInv'
  BY <1>18 DEF Free, TypeInv, TypeOK, BuildInv, Goto, Current, Base, Admitting
<1>19. ASSUME NEW r \in Requests, Confirm(r) PROVE BuildInv'
  <2>1. \A q \in Requests : pc'[q] # "idle" => ~Current(q)'
    <3>1. manifest'.outpoint = manifest.outpoint + 1 /\ build' = build
      BY <1>19 DEF Confirm, TypeInv, TypeOK, Manifest
    <3>2. \A q \in Requests : pc'[q] # "idle" => pc[q] # "idle"
      BY <1>19 DEF Confirm, Goto, TypeInv, TypeOK
    <3> QED BY <3>1, <3>2, NoneCurrentAfter
  <2>2. \A q \in Requests : pc'[q] # "idle" =>
          /\ build'[q].outpoint <= manifest'.outpoint
          /\ build'[q].spent + build'[q].pay <= Budget
    <3> SUFFICES ASSUME NEW q \in Requests, pc'[q] # "idle"
                 PROVE  /\ build'[q].outpoint <= manifest'.outpoint
                        /\ build'[q].spent + build'[q].pay <= Budget
      OBVIOUS
    <3>1. /\ manifest'.outpoint = manifest.outpoint + 1
          /\ build' = build /\ pc[q] # "idle"
      BY <1>19 DEF Confirm, Goto, TypeInv, TypeOK, Manifest
    <3>2. /\ build[q].outpoint <= manifest.outpoint
          /\ build[q].spent + build[q].pay <= Budget
      BY <3>1 DEF BuildInv
    <3>3. build[q].outpoint \in Nat /\ manifest.outpoint \in Nat
      BY <3>1 DEF TypeInv, TypeOK, FrozenOK, Build, Manifest
    <3> QED BY <3>1, <3>2, <3>3
  <2>3. manifest'.spent <= Budget
    BY <1>19 DEF Confirm, Goto, TypeInv, TypeOK, BuildInv, Manifest
  <2> QED BY <2>1, <2>2, <2>3 DEF BuildInv
<1>20. ASSUME NEW r \in Requests, Crash(r) PROVE BuildInv'
  BY <1>20 DEF Crash, TypeInv, TypeOK, BuildInv, Goto, Current, Base,
     Admitting
<1>21. ASSUME NEW r \in Requests, ReservationAges(r) PROVE BuildInv'
  BY <1>21 DEF ReservationAges, TypeInv, TypeOK, BuildInv, Goto, Current,
     Base, Admitting
<1>22. ASSUME AdvanceOther PROVE BuildInv'
  <2>1. \A q \in Requests : pc'[q] # "idle" => ~Current(q)'
    <3>1. manifest'.outpoint = manifest.outpoint + 1 /\ build' = build
      BY <1>22 DEF AdvanceOther, TypeInv, TypeOK, Manifest
    <3>2. \A q \in Requests : pc'[q] # "idle" => pc[q] # "idle"
      BY <1>22 DEF AdvanceOther, Goto, TypeInv, TypeOK
    <3> QED BY <3>1, <3>2, NoneCurrentAfter
  <2>2. \A q \in Requests : pc'[q] # "idle" =>
          /\ build'[q].outpoint <= manifest'.outpoint
          /\ build'[q].spent + build'[q].pay <= Budget
    <3> SUFFICES ASSUME NEW q \in Requests, pc'[q] # "idle"
                 PROVE  /\ build'[q].outpoint <= manifest'.outpoint
                        /\ build'[q].spent + build'[q].pay <= Budget
      OBVIOUS
    <3>1. /\ manifest'.outpoint = manifest.outpoint + 1
          /\ build' = build /\ pc[q] # "idle"
      BY <1>22 DEF AdvanceOther, Goto, TypeInv, TypeOK, Manifest
    <3>2. /\ build[q].outpoint <= manifest.outpoint
          /\ build[q].spent + build[q].pay <= Budget
      BY <3>1 DEF BuildInv
    <3>3. build[q].outpoint \in Nat /\ manifest.outpoint \in Nat
      BY <3>1 DEF TypeInv, TypeOK, FrozenOK, Build, Manifest
    <3> QED BY <3>1, <3>2, <3>3
  <2>3. manifest'.spent <= Budget
    BY <1>22 DEF AdvanceOther, Goto, TypeInv, TypeOK, BuildInv, Manifest
  <2> QED BY <2>1, <2>2, <2>3 DEF BuildInv
<1>23. ASSUME LockAges PROVE BuildInv'
  BY <1>23 DEF LockAges, TypeInv, TypeOK, BuildInv, Goto, Current, Base,
     Admitting
<1>24. ASSUME UNCHANGED vars PROVE BuildInv'
  BY <1>24 DEF vars, TypeInv, TypeOK, BuildInv, Goto, Current, Base, Admitting
<1> QED
  BY <1>1, <1>2, <1>3, <1>4, <1>5, <1>6, <1>7, <1>8, <1>9, <1>10, <1>11,
     <1>12, <1>13, <1>14, <1>15, <1>16, <1>17, <1>18, <1>19, <1>20, <1>21,
     <1>22, <1>23, <1>24, Zenon DEF Next, Step

\* Reservation records keep repeating their builds.
LEMMA ResvStep ==
  ASSUME TypeInv, ResvInv,
         [Next]_vars
  PROVE  ResvInv'
<1>1. ASSUME NEW r \in Requests,
              \E pay \in Pays, k \in {0, 1} : LoadAndBuild(r, pay, k)
       PROVE  ResvInv'
  BY <1>1 DEF LoadAndBuild, TypeInv, TypeOK, ResvInv, Matches, Goto
<1>2. ASSUME NEW r \in Requests, Lock(r) PROVE ResvInv'
  BY <1>2 DEF Lock, TypeInv, TypeOK, ResvInv, Matches, Goto
<1>3. ASSUME NEW r \in Requests, SeeStaleLock(r) PROVE ResvInv'
  BY <1>3 DEF SeeStaleLock, TypeInv, TypeOK, ResvInv, Matches, Goto
<1>4. ASSUME NEW r \in Requests, GiveUp(r) PROVE ResvInv'
  BY <1>4 DEF GiveUp, TypeInv, TypeOK, ResvInv, Matches, Goto
<1>5. ASSUME NEW r \in Requests, Reclaim(r) PROVE ResvInv'
  BY <1>5 DEF Reclaim, TypeInv, TypeOK, ResvInv, Matches, Goto
<1>6. ASSUME NEW r \in Requests, Scan(r) PROVE ResvInv'
  BY <1>6 DEF Scan, TypeInv, TypeOK, ResvInv, Matches, Goto
<1>7. ASSUME NEW r \in Requests, Sweep(r) PROVE ResvInv'
  BY <1>7 DEF Sweep, TypeInv, TypeOK, ResvInv, Matches, Goto
<1>8. ASSUME NEW r \in Requests, Admit(r) PROVE ResvInv'
  BY <1>8 DEF Admit, TypeInv, TypeOK, ResvInv, Matches, Goto
<1>9. ASSUME NEW r \in Requests, Refuse(r) PROVE ResvInv'
  BY <1>9 DEF Refuse, TypeInv, TypeOK, ResvInv, Matches, Goto
<1>10. ASSUME NEW r \in Requests, ReadOwnLock(r) PROVE ResvInv'
  BY <1>10 DEF ReadOwnLock, TypeInv, TypeOK, ResvInv, Matches, Goto
<1>11. ASSUME NEW r \in Requests, Unlock(r) PROVE ResvInv'
  BY <1>11 DEF Unlock, TypeInv, TypeOK, ResvInv, Matches, Goto
<1>12. ASSUME NEW r \in Requests, UnlockRefused(r) PROVE ResvInv'
  BY <1>12 DEF UnlockRefused, TypeInv, TypeOK, ResvInv, Matches, Goto
<1>13. ASSUME NEW r \in Requests, Save(r) PROVE ResvInv'
  BY <1>13 DEF Save, TypeInv, TypeOK, ResvInv, Matches, Goto
<1>14. ASSUME NEW r \in Requests, SaveFails(r) PROVE ResvInv'
  BY <1>14 DEF SaveFails, TypeInv, TypeOK, ResvInv, Matches, Goto
<1>15. ASSUME NEW r \in Requests, Finalize(r) PROVE ResvInv'
  BY <1>15 DEF Finalize, TypeInv, TypeOK, ResvInv, Matches, Goto
<1>16. ASSUME NEW r \in Requests, Consume(r) PROVE ResvInv'
  BY <1>16 DEF Consume, TypeInv, TypeOK, ResvInv, Matches, Goto
<1>17. ASSUME NEW r \in Requests, Die(r) PROVE ResvInv'
  BY <1>17 DEF Die, TypeInv, TypeOK, ResvInv, Matches, Goto
<1>18. ASSUME NEW r \in Requests, Free(r) PROVE ResvInv'
  BY <1>18 DEF Free, TypeInv, TypeOK, ResvInv, Matches, Goto
<1>19. ASSUME NEW r \in Requests, Confirm(r) PROVE ResvInv'
  BY <1>19 DEF Confirm, TypeInv, TypeOK, ResvInv, Matches, Goto
<1>20. ASSUME NEW r \in Requests, Crash(r) PROVE ResvInv'
  BY <1>20 DEF Crash, TypeInv, TypeOK, ResvInv, Matches, Goto
<1>21. ASSUME NEW r \in Requests, ReservationAges(r) PROVE ResvInv'
  BY <1>21 DEF ReservationAges, TypeInv, TypeOK, ResvInv, Matches, Goto
<1>22. ASSUME AdvanceOther PROVE ResvInv'
  BY <1>22 DEF AdvanceOther, TypeInv, TypeOK, ResvInv, Matches, Goto
<1>23. ASSUME LockAges PROVE ResvInv'
  BY <1>23 DEF LockAges, TypeInv, TypeOK, ResvInv, Matches, Goto
<1>24. ASSUME UNCHANGED vars PROVE ResvInv'
  BY <1>24 DEF vars, TypeInv, TypeOK, ResvInv, Matches, Goto
<1> QED
  BY <1>1, <1>2, <1>3, <1>4, <1>5, <1>6, <1>7, <1>8, <1>9, <1>10, <1>11,
     <1>12, <1>13, <1>14, <1>15, <1>16, <1>17, <1>18, <1>19, <1>20, <1>21,
     <1>22, <1>23, <1>24, Zenon DEF Next, Step

\* The records a sweep has listed keep repeating their builds.
LEMMA TodoStep ==
  ASSUME TypeInv, ResvInv, TodoInv,
         [Next]_vars
  PROVE  TodoInv'
<1>1. ASSUME NEW r \in Requests,
              \E pay \in Pays, k \in {0, 1} : LoadAndBuild(r, pay, k)
       PROVE  TodoInv'
  BY <1>1 DEF LoadAndBuild, TypeInv, TypeOK, TodoInv, Matches, Goto
<1>2. ASSUME NEW r \in Requests, Lock(r) PROVE TodoInv'
  BY <1>2 DEF Lock, TypeInv, TypeOK, TodoInv, Matches, Goto
<1>3. ASSUME NEW r \in Requests, SeeStaleLock(r) PROVE TodoInv'
  BY <1>3 DEF SeeStaleLock, TypeInv, TypeOK, TodoInv, Matches, Goto
<1>4. ASSUME NEW r \in Requests, GiveUp(r) PROVE TodoInv'
  BY <1>4 DEF GiveUp, TypeInv, TypeOK, TodoInv, Matches, Goto
<1>5. ASSUME NEW r \in Requests, Reclaim(r) PROVE TodoInv'
  BY <1>5 DEF Reclaim, TypeInv, TypeOK, TodoInv, Matches, Goto
<1>6. ASSUME NEW r \in Requests, Scan(r) PROVE TodoInv'
  <2>1. /\ pc' = [pc EXCEPT ![r] = "sweep"] /\ pc[r] = "scan"
        /\ build' = build
        /\ todo' = [todo EXCEPT ![r] =
             {[id |-> q, rec |-> resv[q]] : q \in {p \in Requests : resv[p] # NoResv}}]
    BY <1>6 DEF Scan, Goto
  <2>2. ASSUME NEW s \in Requests, NEW item \in todo'[s]
        PROVE  Matches(item.id, item.rec)
    <3>1. CASE s # r
      BY <2>1, <2>2, <3>1 DEF TypeInv, TypeOK, TodoInv
    <3>2. CASE s = r
      <4>1. PICK q \in Requests : resv[q] # NoResv /\ item = [id |-> q, rec |-> resv[q]]
        BY <2>1, <2>2, <3>2 DEF TypeInv, TypeOK
      <4>2. Matches(q, resv[q])
        BY <4>1 DEF ResvInv
      <4> QED BY <4>1, <4>2
    <3> QED BY <3>1, <3>2
  <2>3. ASSUME NEW s \in Requests, NEW item \in todo'[s]
        PROVE  Matches(item.id, item.rec)'
    <3>1. Matches(item.id, item.rec)
      BY <2>2
    <3>2. item.id \in Requests
      <4>1. CASE s # r
        BY <2>1, <4>1 DEF TypeInv, TypeOK
      <4>2. CASE s = r
        BY <2>1, <4>2 DEF TypeInv, TypeOK
      <4> QED BY <4>1, <4>2
    <3> QED BY <2>1, <3>1, <3>2 DEF Matches, TypeInv, TypeOK
  <2> QED BY <2>3 DEF TodoInv
<1>7. ASSUME NEW r \in Requests, Sweep(r) PROVE TodoInv'
  BY <1>7 DEF Sweep, TypeInv, TypeOK, TodoInv, Matches, Goto
<1>8. ASSUME NEW r \in Requests, Admit(r) PROVE TodoInv'
  BY <1>8 DEF Admit, TypeInv, TypeOK, TodoInv, Matches, Goto
<1>9. ASSUME NEW r \in Requests, Refuse(r) PROVE TodoInv'
  BY <1>9 DEF Refuse, TypeInv, TypeOK, TodoInv, Matches, Goto
<1>10. ASSUME NEW r \in Requests, ReadOwnLock(r) PROVE TodoInv'
  BY <1>10 DEF ReadOwnLock, TypeInv, TypeOK, TodoInv, Matches, Goto
<1>11. ASSUME NEW r \in Requests, Unlock(r) PROVE TodoInv'
  BY <1>11 DEF Unlock, TypeInv, TypeOK, TodoInv, Matches, Goto
<1>12. ASSUME NEW r \in Requests, UnlockRefused(r) PROVE TodoInv'
  BY <1>12 DEF UnlockRefused, TypeInv, TypeOK, TodoInv, Matches, Goto
<1>13. ASSUME NEW r \in Requests, Save(r) PROVE TodoInv'
  BY <1>13 DEF Save, TypeInv, TypeOK, TodoInv, Matches, Goto
<1>14. ASSUME NEW r \in Requests, SaveFails(r) PROVE TodoInv'
  BY <1>14 DEF SaveFails, TypeInv, TypeOK, TodoInv, Matches, Goto
<1>15. ASSUME NEW r \in Requests, Finalize(r) PROVE TodoInv'
  BY <1>15 DEF Finalize, TypeInv, TypeOK, TodoInv, Matches, Goto
<1>16. ASSUME NEW r \in Requests, Consume(r) PROVE TodoInv'
  BY <1>16 DEF Consume, TypeInv, TypeOK, TodoInv, Matches, Goto
<1>17. ASSUME NEW r \in Requests, Die(r) PROVE TodoInv'
  BY <1>17 DEF Die, TypeInv, TypeOK, TodoInv, Matches, Goto
<1>18. ASSUME NEW r \in Requests, Free(r) PROVE TodoInv'
  BY <1>18 DEF Free, TypeInv, TypeOK, TodoInv, Matches, Goto
<1>19. ASSUME NEW r \in Requests, Confirm(r) PROVE TodoInv'
  BY <1>19 DEF Confirm, TypeInv, TypeOK, TodoInv, Matches, Goto
<1>20. ASSUME NEW r \in Requests, Crash(r) PROVE TodoInv'
  BY <1>20 DEF Crash, TypeInv, TypeOK, TodoInv, Matches, Goto
<1>21. ASSUME NEW r \in Requests, ReservationAges(r) PROVE TodoInv'
  BY <1>21 DEF ReservationAges, TypeInv, TypeOK, TodoInv, Matches, Goto
<1>22. ASSUME AdvanceOther PROVE TodoInv'
  BY <1>22 DEF AdvanceOther, TypeInv, TypeOK, TodoInv, Matches, Goto
<1>23. ASSUME LockAges PROVE TodoInv'
  BY <1>23 DEF LockAges, TypeInv, TypeOK, TodoInv, Matches, Goto
<1>24. ASSUME UNCHANGED vars PROVE TodoInv'
  BY <1>24 DEF vars, TypeInv, TypeOK, TodoInv, Matches, Goto
<1> QED
  BY <1>1, <1>2, <1>3, <1>4, <1>5, <1>6, <1>7, <1>8, <1>9, <1>10, <1>11,
     <1>12, <1>13, <1>14, <1>15, <1>16, <1>17, <1>18, <1>19, <1>20, <1>21,
     <1>22, <1>23, <1>24, Zenon DEF Next, Step

\* Consuming a reservation, or its getting old, leaves it there.
LEMMA ConsumeKeeps ==
  ASSUME TypeInv, NEW r \in Requests, Consume(r)
  PROVE  \A q \in Requests : resv'[q] # NoResv <=> resv[q] # NoResv
<1>1. CASE resv[r] = NoResv
  BY <1>1 DEF Consume
<1>2. CASE resv[r] # NoResv
  <2> DEFINE record == [resv[r] EXCEPT !.status = "CONSUMED"]
  <2>1. resv[r] \in Reservation
    BY <1>2 DEF TypeInv, TypeOK
  <2>2. record \in Reservation
    BY <2>1 DEF Reservation
  <2>3. resv' = [resv EXCEPT ![r] = record]
    BY <1>2 DEF Consume
  <2> HIDE DEF record
  <2> QED BY <1>2, <2>2, <2>3, RecordAssumption DEF TypeInv, TypeOK
<1> QED BY <1>1, <1>2

LEMMA AgesKeeps ==
  ASSUME TypeInv, NEW r \in Requests, ReservationAges(r)
  PROVE  \A q \in Requests : resv'[q] # NoResv <=> resv[q] # NoResv
<1> DEFINE record == [resv[r] EXCEPT !.old = TRUE]
<1>1. resv[r] \in Reservation /\ resv[r] # NoResv
  BY DEF ReservationAges, TypeInv, TypeOK
<1>2. record \in Reservation
  BY <1>1 DEF Reservation
<1>3. resv' = [resv EXCEPT ![r] = record]
  BY DEF ReservationAges
<1> HIDE DEF record
<1> QED BY <1>1, <1>2, <1>3, RecordAssumption DEF TypeInv, TypeOK

\* What a sweep on the live outpoint removes does not belong to a standing
\* request there: it is of another outpoint, or its request is dead, or its build
\* crashed before the request was durable.
LEMMA SweptNotStanding ==
  ASSUME TypeInv, SavedInv, TodoInv, NEW r \in Requests,
         Current(r), NEW item \in todo[r],
         Sweepable(r, item.id, item.rec)
  PROVE  ~(pc[item.id] \in Standing /\ Current(item.id))
<1>1. item.id \in Requests /\ Matches(item.id, item.rec)
  BY DEF TypeInv, TypeOK, TodoInv
<1>3. CASE item.rec.outpoint # build[r].outpoint
  BY <1>1, <1>3 DEF Matches, Current
<1>4. CASE saved[item.id] = "DEAD"
  BY <1>1, <1>4 DEF SavedInv, Standing
<1>5. CASE item.rec.old
  BY <1>1, <1>5 DEF Matches, Standing
<1> QED BY <1>3, <1>4, <1>5 DEF Sweepable

\* An open request of the live outpoint loses its reservation to no step but
\* the sweep of a build that is not on the live outpoint.
LEMMA LostStep ==
  ASSUME TypeInv, ReservedInv, [Next]_vars, NEW q \in Requests,
         saved[q] \in {"BUILT", "PREFLIGHT_VERIFIED"}, Current(q),
         resv[q] # NoResv, resv'[q] = NoResv
  PROVE  \E r \in Requests : pc[r] = "sweep" /\ ~Current(r)
<1>1. pc[q] \in {"open", "consume"}
  BY DEF ReservedInv, SavedInv
<1>2. ASSUME NEW r \in Requests, Step(r), ~Sweep(r) PROVE FALSE
  <2>1. CASE \E pay \in Pays, k \in {0, 1} : LoadAndBuild(r, pay, k)
    BY <2>1 DEF LoadAndBuild
  <2>2. CASE Lock(r) \/ SeeStaleLock(r) \/ GiveUp(r) \/ Reclaim(r)
    BY <2>2 DEF Lock, SeeStaleLock, GiveUp, Reclaim
  <2>3. CASE Scan(r) \/ Refuse(r) \/ ReadOwnLock(r) \/ Unlock(r) \/ UnlockRefused(r)
    BY <2>3 DEF Scan, Refuse, ReadOwnLock, Unlock, UnlockRefused
  <2>4. CASE Save(r) \/ Finalize(r) \/ Die(r) \/ Confirm(r) \/ Crash(r)
    BY <2>4 DEF Save, Finalize, Die, Confirm, Crash
  <2>5. CASE Admit(r) \/ SaveFails(r) \/ Free(r)
    BY <1>1, <2>5 DEF Admit, SaveFails, Free, Goto, TypeInv, TypeOK
  <2>6. CASE Consume(r)
    BY <2>6, ConsumeKeeps
  <2>7. CASE ReservationAges(r)
    BY <2>7, AgesKeeps
  <2>. QED  BY <1>2, <2>1, <2>2, <2>3, <2>4, <2>5, <2>6, <2>7, Zenon DEF Step
<1>3. ASSUME NEW r \in Requests, Sweep(r) PROVE pc[r] = "sweep" /\ ~Current(r)
  <2>1. PICK item \in todo[r] :
          \/ Sweepable(r, item.id, item.rec) /\ resv' = [resv EXCEPT ![item.id] = NoResv]
          \/ UNCHANGED resv
    BY <1>3 DEF Sweep
  <2>2. item.id = q /\ Sweepable(r, item.id, item.rec)
    BY <2>1 DEF TypeInv, TypeOK
  <2>3. Current(r) => ~(pc[item.id] \in Standing /\ Current(item.id))
    BY <2>1, <2>2, SweptNotStanding DEF ReservedInv
  <2>4. pc[q] \in Standing
    BY <1>1 DEF Standing
  <2>. QED  BY <1>3, <2>2, <2>3, <2>4 DEF Sweep
<1>4. CASE AdvanceOther \/ LockAges \/ UNCHANGED vars
  BY <1>4 DEF AdvanceOther, LockAges, vars
<1>. QED  BY <1>2, <1>3, <1>4, Zenon DEF Next
-----------------------------------------------------------------------------
\* The budget of a window.

\* Finitely many builds have amounts to sum.
LEMMA BuildsHaveTotals ==
  ASSUME NEW b, NEW H, H \subseteq Requests, \A q \in H : b[q] \in Build
  PROVE  /\ IsFiniteSet(H)
         /\ PaysOn(b, H)
         /\ \A X \in SUBSET H : Total(b, X) \in Nat
<1>1. IsFiniteSet(H)
  BY RecordAssumption, FS_Subset
<1>2. PaysOn(b, H)
  <2> SUFFICES ASSUME NEW q \in H PROVE b[q].pay \in Nat
    BY DEF PaysOn
  <2>1. b[q].pay \in Pays
    BY DEF Build
  <2> QED BY <2>1, ReservationAssumption
<1>3. \A X \in SUBSET H : Total(b, X) \in Nat
  BY <1>1, <1>2, TotalType
<1> QED BY <1>1, <1>2, <1>3

\* The holders of a window are requests with a frozen build.
LEMMA HoldersAreBuilds ==
  ASSUME TypeInv, NEW w
  PROVE  Holders(w) \subseteq Requests /\ \A q \in Holders(w) : build[q] \in Build
BY DEF Holders, Standing, TypeInv, FrozenOK

\* A step that admits nobody and leaves the manifest alone.
Quiet ==
  /\ manifest' = manifest
  /\ \A q \in Requests :
       pc'[q] \in Standing /\ resv'[q] # NoResv =>
         pc[q] \in Standing /\ resv[q] # NoResv /\ build'[q] = build[q]

\* Such a step promises nothing new of any window, whatever is left out.
LEMMA QuietTotal ==
  ASSUME TypeInv, Quiet, NEW w, NEW X
  PROVE  /\ Total(build', Holders(w)' \ X) <= Total(build, Holders(w) \ X)
         /\ Base(w)' = Base(w)
<1> DEFINE A == Holders(w)' \ X
           B == Holders(w) \ X
<1>1. A \subseteq B /\ B \subseteq Holders(w) /\ \A q \in A : build'[q] = build[q]
  BY DEF Quiet, Holders, Current
<1>2. IsFiniteSet(Holders(w)) /\ PaysOn(build, Holders(w))
  BY HoldersAreBuilds, BuildsHaveTotals
<1> HIDE DEF A, B
<1>3. Total(build, A) <= Total(build, B)
  BY <1>1, <1>2, TotalMonotone
<1>4. Total(build', A) = Total(build, A)
  <2>1. IsFiniteSet(A)
    BY <1>1, <1>2, FS_Subset
  <2>2. \A q \in A : build'[q].pay = build[q].pay
    BY <1>1
  <2> QED BY <2>1, <2>2, TotalSame
<1>5. Base(w)' = Base(w)
  BY DEF Quiet, Base
<1> QED BY <1>3, <1>4, <1>5 DEF A, B

\* Admissions and transitions of the vault apart, every step of a build is quiet.
LEMMA BuildStepsQuiet ==
  ASSUME TypeInv, NEW r \in Requests, Step(r), ~Admit(r), ~Confirm(r)
  PROVE  Quiet
<1>1. CASE \E pay \in Pays, k \in {0, 1} : LoadAndBuild(r, pay, k)
  BY <1>1 DEF LoadAndBuild, Goto, Quiet, Standing, TypeInv, TypeOK
<1>2. CASE Lock(r) \/ SeeStaleLock(r) \/ GiveUp(r) \/ Reclaim(r)
  BY <1>2 DEF Lock, SeeStaleLock, GiveUp, Reclaim, Goto, Quiet, Standing,
              TypeInv, TypeOK
<1>3. CASE Scan(r) \/ Refuse(r)
  BY <1>3 DEF Scan, Refuse, Goto, Quiet, Standing, TypeInv, TypeOK
<1>4. CASE ReadOwnLock(r) \/ Unlock(r) \/ UnlockRefused(r)
  BY <1>4 DEF ReadOwnLock, Unlock, UnlockRefused, Goto, Quiet, Standing,
              TypeInv, TypeOK
<1>5. CASE Save(r) \/ SaveFails(r) \/ Finalize(r)
  BY <1>5 DEF Save, SaveFails, Finalize, Goto, Quiet, Standing, TypeInv, TypeOK
<1>6. CASE Die(r) \/ Free(r) \/ Crash(r)
  BY <1>6 DEF Die, Free, Crash, Goto, Quiet, Standing, TypeInv, TypeOK
<1>7. CASE Consume(r)
  BY <1>7, ConsumeKeeps DEF Consume, Goto, Quiet, Standing, TypeInv, TypeOK
<1>8. CASE ReservationAges(r)
  BY <1>8, AgesKeeps DEF ReservationAges, Quiet
<1>9. CASE Sweep(r)
  <2>1. PICK item \in todo[r] :
          resv' = [resv EXCEPT ![item.id] = NoResv] \/ UNCHANGED resv
    BY <1>9 DEF Sweep
  <2>2. \A q \in Requests : resv'[q] # NoResv => resv[q] # NoResv
    BY <2>1 DEF TypeInv, TypeOK
  <2> QED BY <1>9, <2>2 DEF Sweep, Quiet
<1> QED BY <1>1, <1>2, <1>3, <1>4, <1>5, <1>6, <1>7, <1>8, <1>9, Zenon DEF Step

\* After a transition of the vault nothing is promised on the new outpoint.
LEMMA AdvanceEmpties ==
  ASSUME TypeInv, BuildInv, NEW w,
         \/ AdvanceOther
         \/ \E r \in Requests : Confirm(r)
  PROVE  Holders(w)' = {} /\ Base(w)' \in Nat /\ Base(w)' <= Budget
<1>1. /\ manifest'.outpoint = manifest.outpoint + 1 /\ build' = build
      /\ \A q \in Requests : pc'[q] # "idle" => pc[q] # "idle"
  <2>1. CASE AdvanceOther
    BY <2>1 DEF AdvanceOther, TypeInv, TypeOK, Manifest
  <2>2. CASE \E r \in Requests : Confirm(r)
    BY <2>2 DEF Confirm, Goto, TypeInv, TypeOK, Manifest
  <2> QED BY <2>1, <2>2
<1>2. \A q \in Requests : pc'[q] # "idle" => ~Current(q)'
  BY <1>1, NoneCurrentAfter
<1>3. Holders(w)' = {}
  BY <1>2 DEF Holders, Standing
<1>4. manifest'.spent \in Nat /\ manifest'.spent <= Budget
  <2>1. CASE AdvanceOther
    BY <2>1 DEF AdvanceOther, TypeInv, TypeOK, Manifest, BuildInv
  <2>2. CASE \E r \in Requests : Confirm(r)
    <3>1. PICK r \in Requests : Confirm(r)
      BY <2>2
    <3>2. build[r] \in Build /\ build[r].spent + build[r].pay <= Budget
      BY <3>1 DEF Confirm, Goto, TypeInv, FrozenOK, BuildInv
    <3>3. build[r].pay \in Pays /\ build[r].spent \in Nat
      BY <3>2 DEF Build
    <3>4. build[r].pay \in Nat
      BY <3>3, ReservationAssumption
    <3>5. manifest'.spent = build[r].spent + build[r].pay
      BY <3>1 DEF Confirm
    <3> QED BY <3>2, <3>3, <3>4, <3>5
  <2> QED BY <2>1, <2>2
<1>5. Budget \in Nat
  BY ReservationAssumption
<1> QED BY <1>3, <1>4, <1>5 DEF Base

\* The standing requests of every window keep fitting into the budget: an
\* admission has counted all of them, a transition starts from none.
LEMMA FitStep ==
  ASSUME TypeInv, BuildInv, CountedInv, FitInv, [Next]_vars
  PROVE  FitInv'
<1> SUFFICES ASSUME NEW w \in Nat
             PROVE  Base(w)' + Total(build', Holders(w)') <= Budget
  BY DEF FitInv
<1>1. /\ Base(w) + Total(build, Holders(w)) <= Budget
      /\ Base(w) \in Nat /\ Budget \in Nat /\ Total(build, Holders(w)) \in Nat
  <2>1. Total(build, Holders(w)) \in Nat
    BY HoldersAreBuilds, BuildsHaveTotals
  <2>2. Base(w) \in Nat /\ Budget \in Nat
    BY ReservationAssumption DEF Base, TypeInv, TypeOK, Manifest
  <2> QED BY <2>1, <2>2 DEF FitInv
<1>2. Total(build', Holders(w)') \in Nat
  <2>1. TypeInv'
    BY TypeStep
  <2>2. Holders(w)' \subseteq Requests /\ \A q \in Holders(w)' : build'[q] \in Build
    BY <2>1 DEF Holders, Standing, TypeInv, FrozenOK
  <2> QED BY <2>2, BuildsHaveTotals
<1>3. CASE Quiet
  <2>1. /\ Total(build', Holders(w)' \ {}) <= Total(build, Holders(w) \ {})
        /\ Base(w)' = Base(w)
    BY <1>3, QuietTotal
  <2>2. Holders(w)' \ {} = Holders(w)' /\ Holders(w) \ {} = Holders(w)
    OBVIOUS
  <2>3. Total(build', Holders(w)') <= Total(build, Holders(w))
    BY <2>1, <2>2
  <2> QED BY <1>1, <1>2, <2>1, <2>3
<1>4. CASE AdvanceOther \/ \E r \in Requests : Confirm(r)
  <2>1. Holders(w)' = {} /\ Base(w)' \in Nat /\ Base(w)' <= Budget
    BY <1>4, AdvanceEmpties
  <2>2. Total(build', {}) = 0
    BY TotalEmpty
  <2> QED BY <2>1, <2>2
<1>5. ASSUME NEW r \in Requests, Admit(r)
      PROVE  Base(w)' + Total(build', Holders(w)') <= Budget
  <2>1. /\ pc[r] = "sweep" /\ todo[r] = {} /\ Fits(r)
        /\ pc' = [pc EXCEPT ![r] = "admitted"]
        /\ build' = build /\ manifest' = manifest
    BY <1>5 DEF Admit, Goto
  <2>2. /\ build[r] \in Build
        /\ Current(r) => build[r].spent = Base(build[r].window)
    BY <2>1 DEF TypeInv, FrozenOK, BuildInv
  <2>3. Base(w)' = Base(w)
    BY <2>1 DEF Base
  <2>4. resv'[r] # NoResv /\ \A q \in Requests : q # r => resv'[q] = resv[q]
    <3> DEFINE record == [outpoint |-> build[r].outpoint,
                          window |-> build[r].window, pay |-> build[r].pay,
                          status |-> "ACTIVE", old |-> FALSE]
    <3>1. record \in Reservation
      BY <2>2 DEF Build, Reservation
    <3>2. resv' = [resv EXCEPT ![r] = record]
      BY <1>5 DEF Admit
    <3> HIDE DEF record
    <3> QED BY <3>1, <3>2, RecordAssumption DEF TypeInv, TypeOK
  <2>5. CASE w # build[r].window \/ ~Current(r)
    <3>1. Holders(w)' = Holders(w)
      BY <2>1, <2>5, <2>4 DEF Holders, Current, TypeInv, TypeOK
    <3> QED BY <1>1, <2>1, <2>3, <3>1
  <2>6. CASE w = build[r].window /\ Current(r)
    <3>1. Holders(w)' = Holders(w) \cup {r} /\ r \notin Holders(w)
      BY <2>1, <2>6, <2>4 DEF Holders, Current, Standing, TypeInv, TypeOK
    <3> DEFINE H == Holders(w) \cup {r}
    <3>2. H \subseteq Requests /\ \A q \in H : build[q] \in Build
      BY <2>2, HoldersAreBuilds
    <3>3. H \ {r} = Holders(w) /\ r \in H /\ H \in SUBSET H
      BY <3>1
    <3> HIDE DEF H
    <3>4. Total(build, H) = build[r].pay + Total(build, H \ {r})
      BY <3>2, <3>3, BuildsHaveTotals, TotalTakeOut
    <3>5. Total(build, Holders(w)) <= sum[r]
      <4>1. Holders(w) \ TodoIds(r) = Holders(w)
        BY <2>1 DEF TodoIds
      <4> QED BY <2>1, <2>6, <4>1 DEF CountedInv
    <3>6. build[r].pay \in Nat /\ build[r].spent \in Nat /\ sum[r] \in Nat
      <4>1. build[r].pay \in Pays /\ build[r].spent \in Nat
        BY <2>2 DEF Build
      <4> QED BY <4>1, ReservationAssumption DEF TypeInv, TypeOK
    <3>7. Total(build', Holders(w)') = build[r].pay + Total(build, Holders(w))
      BY <2>1, <3>1, <3>3, <3>4 DEF H
    <3>8. build[r].spent + build[r].pay + sum[r] <= Budget
      BY <2>1 DEF Fits
    <3> QED BY <1>1, <2>2, <2>3, <2>6, <3>5, <3>6, <3>7, <3>8
  <2> QED BY <2>5, <2>6
<1>6. CASE LockAges \/ UNCHANGED vars
  <2>1. Quiet
    BY <1>6 DEF LockAges, vars, Quiet
  <2> QED BY <1>3, <2>1
<1>7. ASSUME NEW r \in Requests, Step(r), ~Admit(r), ~Confirm(r)
      PROVE  Base(w)' + Total(build', Holders(w)') <= Budget
  BY <1>3, <1>7, BuildStepsQuiet
<1> QED BY <1>4, <1>5, <1>6, <1>7, Zenon DEF Next

\* No other step touches what an admission in progress has counted.
LEMMA SweepUndisturbed ==
  ASSUME TypeInv, NEW r \in Requests, Step(r), NEW s \in Requests,
         pc'[s] = "sweep", ~Scan(s), ~Sweep(s)
  PROVE  /\ pc[s] = "sweep" /\ build'[s] = build[s]
         /\ todo'[s] = todo[s] /\ sum'[s] = sum[s]
<1>1. CASE \E pay \in Pays, k \in {0, 1} : LoadAndBuild(r, pay, k)
  BY <1>1 DEF LoadAndBuild, Goto, TypeInv, TypeOK
<1>2. CASE Lock(r) \/ SeeStaleLock(r) \/ GiveUp(r) \/ Reclaim(r)
  BY <1>2 DEF Lock, SeeStaleLock, GiveUp, Reclaim, Goto, TypeInv, TypeOK
<1>3. CASE Scan(r) \/ Sweep(r)
  <2>1. r # s
    BY <1>3
  <2> QED BY <1>3, <2>1 DEF Scan, Sweep, Goto, TypeInv, TypeOK
<1>4. CASE Admit(r) \/ Refuse(r)
  BY <1>4 DEF Admit, Refuse, Goto, TypeInv, TypeOK
<1>5. CASE ReadOwnLock(r) \/ Unlock(r) \/ UnlockRefused(r)
  BY <1>5 DEF ReadOwnLock, Unlock, UnlockRefused, Goto, TypeInv, TypeOK
<1>6. CASE Save(r) \/ SaveFails(r) \/ Finalize(r) \/ Consume(r)
  BY <1>6 DEF Save, SaveFails, Finalize, Consume, Goto, TypeInv, TypeOK
<1>7. CASE Die(r) \/ Free(r) \/ Confirm(r)
  BY <1>7 DEF Die, Free, Confirm, Goto, TypeInv, TypeOK
<1>8. CASE Crash(r) \/ ReservationAges(r)
  BY <1>8 DEF Crash, ReservationAges, Goto, TypeInv, TypeOK
<1> QED BY <1>1, <1>2, <1>3, <1>4, <1>5, <1>6, <1>7, <1>8, Zenon DEF Step

\* Looking at one more record: it is of no holder of the window, or its amount
\* is added to the sum.
LEMMA SweepCounts ==
  ASSUME TypeInv, SavedInv, BuildInv, TodoInv, CountedInv,
         NEW r \in Requests, Current(r), Sweep(r), NEW w, w = build[r].window
  PROVE  Total(build, Holders(w) \ TodoIds(r)') <= sum'[r]
<1>1. PICK item \in todo[r] :
        /\ todo' = [todo EXCEPT ![r] = @ \ {item}]
        /\ \/ /\ Sweepable(r, item.id, item.rec)
              /\ UNCHANGED sum
           \/ /\ ~Sweepable(r, item.id, item.rec)
              /\ sum' = [sum EXCEPT ![r] =
                   IF item.rec.window = build[r].window
                   THEN @ + item.rec.pay ELSE @]
  BY DEF Sweep
<1> DEFINE id == item.id
           A == Holders(w) \ TodoIds(r)'
           B == Holders(w) \ TodoIds(r)
<1>2. pc[r] = "sweep"
  BY DEF Sweep
<1>3. TodoIds(r) \subseteq TodoIds(r)' \cup {id}
  BY <1>1 DEF TodoIds, TypeInv, TypeOK
<1>4. Total(build, B) <= sum[r] /\ sum[r] \in Nat
  BY <1>2 DEF CountedInv, TypeInv, TypeOK
<1>5. id \in Requests /\ Matches(id, item.rec)
  BY <1>1 DEF TypeInv, TypeOK, TodoInv
<1>6. Holders(w) \subseteq Requests /\ \A q \in Holders(w) : build[q] \in Build
  BY HoldersAreBuilds
<1>7. \A X \in SUBSET Holders(w) : \A Y \in SUBSET X :
        /\ Total(build, Y) <= Total(build, X)
        /\ Total(build, X) \in Nat /\ Total(build, Y) \in Nat
  <2>1. IsFiniteSet(Holders(w)) /\ PaysOn(build, Holders(w))
    BY <1>6, BuildsHaveTotals
  <2> QED BY <2>1, TotalMonotone, TotalType
<1>8. A \subseteq B \cup {id}
  BY <1>3
<1>9. CASE id \notin A
  <2>1. A \in SUBSET B /\ B \in SUBSET Holders(w)
    BY <1>8, <1>9
  <2> HIDE DEF A, B
  <2>2. Total(build, A) <= sum[r] /\ Total(build, A) \in Nat
    BY <1>4, <1>7, <2>1
  <2>3. sum'[r] \in Nat /\ sum[r] <= sum'[r]
    <3>1. item.rec.pay \in Nat
      <4>1. item.rec \in Reservation
        BY <1>1 DEF TypeInv, TypeOK
      <4>2. item.rec.pay \in Pays
        BY <4>1 DEF Reservation
      <4> QED BY <4>2, ReservationAssumption
    <3> QED BY <1>1, <1>4, <3>1 DEF TypeInv, TypeOK
  <2>4. Total(build, A) <= sum'[r]
    BY <1>4, <2>2, <2>3
  <2> QED BY <2>4 DEF A
<1>10. CASE id \in A
  <2>1. pc[id] \in Standing /\ Current(id) /\ build[id].window = w
    BY <1>10 DEF Holders
  <2>2. ~Sweepable(r, id, item.rec)
    BY <1>1, <2>1, SweptNotStanding
  <2>3. item.rec.window = build[r].window /\ item.rec.pay = build[id].pay
    BY <1>5, <2>1 DEF Matches
  <2>4. sum'[r] = sum[r] + build[id].pay
    BY <1>1, <2>2, <2>3 DEF TypeInv, TypeOK
  <2>5. A \in SUBSET Holders(w) /\ A \ {id} \in SUBSET B /\ B \in SUBSET Holders(w)
    BY <1>8
  <2>6. Total(build, A) = build[id].pay + Total(build, A \ {id})
    <3>1. IsFiniteSet(Holders(w)) /\ PaysOn(build, Holders(w))
      BY <1>6, BuildsHaveTotals
    <3> HIDE DEF A
    <3> QED BY <1>10, <2>5, <3>1, TotalTakeOut
  <2>7. build[id].pay \in Nat
    <3>1. build[id] \in Build
      BY <1>6, <1>10
    <3>2. build[id].pay \in Pays
      BY <3>1 DEF Build
    <3> QED BY <3>2, ReservationAssumption
  <2> HIDE DEF A, B, id
  <2>8. Total(build, A \ {id}) <= Total(build, B)
        /\ Total(build, A \ {id}) \in Nat /\ Total(build, B) \in Nat
    BY <1>7, <2>5
  <2>9. Total(build, A) <= sum'[r]
    BY <1>4, <2>4, <2>6, <2>7, <2>8
  <2> QED BY <2>9 DEF A
<1> QED BY <1>9, <1>10

\* An admission keeps having counted every holder it will not look at again.
LEMMA CountedStep ==
  ASSUME TypeInv, LockInv, SavedInv, BuildInv, TodoInv, CountedInv, [Next]_vars
  PROVE  CountedInv'
<1>1. \A s \in Requests : pc'[s] = "sweep" => build'[s].window \in Nat
  BY TypeStep DEF TypeInv, FrozenOK, Build
<1> SUFFICES ASSUME NEW s \in Requests, pc'[s] = "sweep", Current(s)', NEW w \in Nat,
                    w = build'[s].window
             PROVE  Total(build', Holders(w)' \ TodoIds(s)') <= sum'[s]
  BY <1>1 DEF CountedInv, Holders, Current
<1>2. ASSUME Quiet, pc[s] = "sweep", build'[s] = build[s], todo'[s] = todo[s],
             sum'[s] = sum[s]
      PROVE  Total(build', Holders(w)' \ TodoIds(s)') <= sum'[s]
  <2>1. TodoIds(s)' = TodoIds(s)
    BY <1>2 DEF TodoIds
  <2>2. Total(build', Holders(w)' \ TodoIds(s)) <= Total(build, Holders(w) \ TodoIds(s))
    BY <1>2, QuietTotal
  <2>3. Total(build, Holders(w) \ TodoIds(s)) <= sum[s]
    BY <1>2 DEF CountedInv, Quiet, Current
  <2>4. /\ Total(build', Holders(w)' \ TodoIds(s)) \in Nat
        /\ Total(build, Holders(w) \ TodoIds(s)) \in Nat
    <3>1. Holders(w) \ TodoIds(s) \subseteq Holders(w)
      OBVIOUS
    <3>2. Holders(w)' \ TodoIds(s) \subseteq Holders(w)'
      OBVIOUS
    <3>3. Holders(w)' \subseteq Requests /\ \A q \in Holders(w)' : build'[q] \in Build
      BY TypeStep DEF Holders, Standing, TypeInv, FrozenOK
    <3> QED BY <3>1, <3>2, <3>3, HoldersAreBuilds, BuildsHaveTotals
  <2>5. sum[s] \in Nat
    BY DEF TypeInv, TypeOK
  <2> QED BY <1>2, <2>1, <2>2, <2>3, <2>4, <2>5
<1>3. CASE Scan(s)
  <2>1. /\ todo'[s] = {[id |-> q, rec |-> resv[q]] :
                         q \in {p \in Requests : resv[p] # NoResv}}
        /\ sum'[s] = 0
        /\ resv' = resv /\ build' = build /\ manifest' = manifest
    BY <1>3 DEF Scan, TypeInv, TypeOK
  <2>2. \A q \in Holders(w)' : q \in Requests /\ resv[q] # NoResv
    BY <2>1 DEF Holders
  <2>3. \A q \in Holders(w)' : q \in TodoIds(s)'
    <3> SUFFICES ASSUME NEW q \in Holders(w)' PROVE q \in TodoIds(s)'
      OBVIOUS
    <3>1. [id |-> q, rec |-> resv[q]] \in todo'[s]
      BY <2>1, <2>2
    <3>2. [id |-> q, rec |-> resv[q]].id = q
      OBVIOUS
    <3> QED BY <3>1, <3>2 DEF TodoIds
  <2>4. Holders(w)' \ TodoIds(s)' = {}
    BY <2>3
  <2>5. Total(build', {}) = 0
    BY TotalEmpty
  <2>6. Total(build', Holders(w)' \ TodoIds(s)') = 0
    BY <2>4, <2>5, Zenon
  <2>7. sum'[s] = 0
    BY <2>1
  <2> QED BY <2>6, <2>7
<1>4. CASE Sweep(s)
  <2>1. build' = build /\ manifest' = manifest /\ pc' = pc
    BY <1>4 DEF Sweep
  <2>2. Total(build, Holders(w) \ TodoIds(s)') <= sum'[s]
    BY <1>4, <2>1, SweepCounts DEF Current
  <2>3. Holders(w)' \ TodoIds(s)' \subseteq Holders(w) \ TodoIds(s)'
    <3>1. PICK item \in todo[s] :
            resv' = [resv EXCEPT ![item.id] = NoResv] \/ UNCHANGED resv
      BY <1>4 DEF Sweep
    <3>2. \A q \in Requests : resv'[q] # NoResv => resv[q] # NoResv
      BY <3>1 DEF TypeInv, TypeOK
    <3> QED BY <2>1, <3>2 DEF Holders, Current
  <2>4. Holders(w) \subseteq Requests /\ \A q \in Holders(w) : build[q] \in Build
    BY HoldersAreBuilds
  <2>5. PICK A, B : A = Holders(w)' \ TodoIds(s)' /\ B = Holders(w) \ TodoIds(s)'
    OBVIOUS
  <2>6. A \in SUBSET B /\ B \in SUBSET Holders(w)
    BY <2>3, <2>5, Zenon
  <2>7. Total(build, A) <= Total(build, B)
        /\ Total(build, A) \in Nat /\ Total(build, B) \in Nat
    <3>1. IsFiniteSet(Holders(w)) /\ PaysOn(build, Holders(w))
      BY <2>4, BuildsHaveTotals
    <3> QED BY <2>6, <3>1, TotalMonotone, TotalType
  <2>8. sum'[s] \in Nat
    BY TypeStep DEF TypeInv, TypeOK
  <2>9. Total(build, B) <= sum'[s]
    BY <2>2, <2>5
  <2>10. Total(build, A) <= sum'[s]
    BY <2>7, <2>8, <2>9
  <2> QED BY <2>1, <2>10, <2>5
<1>5. ASSUME NEW r \in Requests, Admit(r), ~Scan(s), ~Sweep(s) PROVE FALSE
  <2>1. pc[s] = "sweep" /\ pc[r] = "sweep" /\ pc'[r] = "admitted"
    BY <1>5, SweepUndisturbed DEF Step, Admit, Goto, TypeInv, TypeOK
  <2>2. lock = [holder |-> s, stale |-> FALSE] /\ lock = [holder |-> r, stale |-> FALSE]
    BY <2>1 DEF LockInv, Holding
  <2>3. s = r
    BY <2>2
  <2> QED BY <2>1, <2>3
<1>6. CASE AdvanceOther \/ \E r \in Requests : Confirm(r)
  <2>1. /\ manifest'.outpoint = manifest.outpoint + 1 /\ build' = build
        /\ pc[s] # "idle"
    BY <1>6 DEF AdvanceOther, Confirm, Goto, TypeInv, TypeOK, Manifest
  <2> QED BY <2>1, NoneCurrentAfter
<1>7. CASE LockAges \/ UNCHANGED vars
  BY <1>2, <1>7 DEF LockAges, vars, Quiet
<1>8. ASSUME NEW r \in Requests, Step(r), ~Scan(s), ~Sweep(s), ~Admit(r), ~Confirm(r)
      PROVE  Total(build', Holders(w)' \ TodoIds(s)') <= sum'[s]
  BY <1>2, <1>8, BuildStepsQuiet, SweepUndisturbed
<1> QED BY <1>3, <1>4, <1>5, <1>6, <1>7, <1>8, Zenon DEF Next

-----------------------------------------------------------------------------
\* The theorems.

\* Initially there are no builds and nothing is reserved.
LEMMA InitInv == Init => TypeInv /\ ReservedInv /\ QuietInv
<1> SUFFICES ASSUME Init PROVE TypeInv /\ ReservedInv /\ QuietInv
  OBVIOUS
<1>1. TypeInv
  BY ReservationAssumption DEF Init, TypeInv, TypeOK, FrozenOK, PCs, Manifest
<1>2. LockInv /\ SavedInv /\ ResvInv /\ TodoInv /\ CountedInv
  BY DEF Init, LockInv, Holding, SavedInv, ResvInv, TodoInv, CountedInv
<1>3. BuildInv
  BY ReservationAssumption DEF Init, BuildInv
<1>4. FitInv
  <2> SUFFICES ASSUME NEW w \in Nat
               PROVE  Base(w) + Total(build, Holders(w)) <= Budget
    BY DEF FitInv
  <2>1. Holders(w) = {}
    BY DEF Init, Holders, Standing
  <2>2. Base(w) = 0
    BY DEF Init, Base
  <2> QED BY <2>1, <2>2, TotalEmpty, ReservationAssumption
<1> QED BY <1>1, <1>2, <1>3, <1>4 DEF QuietInv, ReservedInv

\* The fields of every record keep their types, and a process that has left
\* its first state has frozen a build, with all the faults the model allows.
THEOREM Typed == Spec => []TypeInv
BY InitInv, TypeStep, PTL DEF Spec

\* What the reservations, the sweeps and the durable records keep to each other.
LEMMA Reserved == Spec => []ReservedInv
<1>1. Init => ReservedInv
  BY InitInv
<1>2. TypeInv /\ ReservedInv /\ [Next]_vars => ReservedInv'
  BY SavedStep, BuildStep, ResvStep, TodoStep DEF ReservedInv
<1> QED BY Typed, <1>1, <1>2, PTL DEF Spec

\* What holds until a build dies.
LEMMA UntilDeath == Spec => [](Died \/ QuietInv)
<1>1. Init => QuietInv
  BY InitInv
<1>2. TypeInv /\ ReservedInv /\ (Died \/ QuietInv) /\ [Next]_vars => (Died \/ QuietInv)'
  <2> SUFFICES ASSUME TypeInv, ReservedInv, ~Died, QuietInv, [Next]_vars PROVE QuietInv'
    BY DiedStays
  <2>1. LockInv'
    BY LockStep DEF QuietInv
  <2>2. CountedInv'
    BY CountedStep DEF QuietInv, ReservedInv
  <2>3. FitInv'
    BY FitStep DEF QuietInv, ReservedInv
  <2> QED BY <2>1, <2>2, <2>3 DEF QuietInv
<1> QED BY Typed, Reserved, <1>1, <1>2, PTL DEF Spec

\* Admissions of one vault never overlap until a build dies: acquireAdmissionLock
\* takes a lock from another build only when it finds it stale.
THEOREM AdmissionIsSerialized == Spec => []SerializedUntilDeath
<1>1. Died \/ QuietInv => SerializedUntilDeath
  BY DEF QuietInv, LockInv, SerializedUntilDeath, AdmissionSerialized, Holding
<1> QED BY UntilDeath, <1>1, PTL

\* An open request on the live outpoint keeps its reservation through every
\* sweep but that of a build the manifest has overtaken, whatever crashes, failed
\* saves and lost locks.
THEOREM OpenKeepsReservation == Spec => LostOnlyToOvertaken
<1>1. TypeInv /\ ReservedInv /\ [Next]_vars =>
        \A r \in Requests :
          /\ saved[r] \in {"BUILT", "PREFLIGHT_VERIFIED"} /\ Current(r)
          /\ resv[r] # NoResv /\ resv'[r] = NoResv
          => \E q \in Requests : pc[q] = "sweep" /\ ~Current(q)
  BY LostStep
<1> QED BY Typed, Reserved, <1>1, PTL DEF Spec, LostOnlyToOvertaken

\* Until a build dies the open requests of a window that have a reservation never
\* promise more than the period budget, for any number of builds, any budget and
\* any amounts, and whenever the manifest advances.
THEOREM NeverOverCommitted == Spec => []ReservedFits
<1>1. TypeInv /\ ReservedInv /\ (Died \/ QuietInv) => ReservedFits
  <2> SUFFICES ASSUME TypeInv, ReservedInv, QuietInv, ~Died PROVE ReservedFits
    BY DEF ReservedFits
  <2>0. \A r \in Requests : build[r] # NoBuild => build[r].window \in Nat
    BY DEF TypeInv, TypeOK, Build
  <2> SUFFICES ASSUME NEW w \in Nat
               PROVE  Base(w) + Total(build, Held(w)) <= Budget
    BY <2>0 DEF ReservedFits, Base, Total
  <2>1. Held(w) \in SUBSET Holders(w)
    BY DEF Held, Promised, Holders, Standing, ReservedInv, SavedInv
  <2>2. IsFiniteSet(Holders(w)) /\ PaysOn(build, Holders(w))
    BY HoldersAreBuilds, BuildsHaveTotals
  <2>3. Total(build, Held(w)) <= Total(build, Holders(w))
    BY <2>1, <2>2, TotalMonotone
  <2>4. Total(build, Held(w)) \in Nat /\ Total(build, Holders(w)) \in Nat
    BY <2>1, <2>2, TotalType
  <2>5. Base(w) + Total(build, Holders(w)) <= Budget
    BY DEF QuietInv, FitInv
  <2>6. Base(w) \in Nat /\ Budget \in Nat
    BY ReservationAssumption DEF Base, TypeInv, TypeOK, Manifest
  <2> QED BY <2>3, <2>4, <2>5, <2>6
<1> QED BY Typed, Reserved, UntilDeath, <1>1, PTL
=============================================================================
