-------------------------- MODULE FacilitatorClaims --------------------------
(***************************************************************************)
(* settle of the x402 facilitator (integrations/x402-facilitator): it looks *)
(* up whether the requirement or the payment was settled before, looks at   *)
(* the chain, and creates the claim that is its answer's evidence.  A       *)
(* payment output is used once, a requirement is settled once.              *)
(*                                                                         *)
(* The claim store is a directory of create-exclusive files, where a crash  *)
(* may come between the reservation of the output and the claim, or a       *)
(* table with two unique constraints that several facilitators share.       *)
(* Every await, and in the directory every write of a file, is an action.   *)
(***************************************************************************)
EXTENDS Naturals

CONSTANTS
  Settles,      \* calls of settle
  Requirements, \* requirement digests
  Outputs,      \* payment outputs: network, transaction and index
  ReqOf,        \* the requirement of a call
  OutOf,        \* the payment of a call
  SameDestination, \* pairs of requirements with one destination and amount
                   \* whose windows overlap
  Unset,
  MaxCuts       \* bound: calls that are cut short

ASSUME FacilitatorAssumption ==
  /\ ReqOf \in [Settles -> Requirements]
  /\ OutOf \in [Settles -> Outputs]
  /\ SameDestination \subseteq Requirements \X Requirements
  /\ Unset \notin Requirements \cup Outputs
  /\ MaxCuts \in Nat

VARIABLES
  store,    \* "files" or "table"
  pointer,  \* the requirement an output is reserved for, or Unset
  settled,  \* the claim of a requirement, or NoSettlement
  index,    \* requirements in the destination index
  place,    \* the await a call is at
  mineToo,  \* calls that made the reservation themselves
  reply,    \* the evidence a call answered with, "refused", or ""
  cuts      \* bound: calls cut short so far

facilitatorVars == <<store, pointer, settled, index, place, mineToo, reply, cuts>>

\* A claim holds its evidence; by is the call that observed it.
Settlement(s) == [out |-> OutOf[s], by |-> s]
NoSettlement == [out |-> Unset, by |-> Unset]

FacilitatorInit ==
  /\ store \in {"files", "table"}
  /\ pointer = [o \in Outputs |-> Unset]
  /\ settled = [r \in Requirements |-> NoSettlement]
  /\ index = {} /\ mineToo = {} /\ cuts = 0
  /\ place = [s \in Settles |-> "digest"]
  /\ reply = [s \in Settles |-> NoSettlement]

To(s, l) == place' = [place EXCEPT ![s] = l]
Refuse(s) == To(s, "refused") /\ UNCHANGED reply
Answer(s, claim) == To(s, "settled") /\ reply' = [reply EXCEPT ![s] = claim]
Mine(s) == settled[ReqOf[s]]

-----------------------------------------------------------------------------
\* _replayState: the identical pair is answered with the stored evidence.
ReadByDigest(s) ==
  /\ place[s] = "digest"
  /\ \/ Mine(s) = NoSettlement /\ To(s, "output") /\ UNCHANGED reply
     \/ Mine(s).out = OutOf[s] /\ Answer(s, Mine(s))
     \/ Mine(s) # NoSettlement /\ Mine(s).out # OutOf[s] /\ Refuse(s)
  /\ UNCHANGED <<store, pointer, settled, index, mineToo, cuts>>

ReadByOutpoint(s) ==
  /\ place[s] = "output"
  /\ IF pointer[OutOf[s]] \in {Unset, ReqOf[s]}
     THEN To(s, "destination") /\ UNCHANGED reply ELSE Refuse(s)
  /\ UNCHANGED <<store, pointer, settled, index, mineToo, cuts>>

FindDestinationConflicts(s) ==
  /\ place[s] = "destination"
  /\ IF \E r \in index \ {ReqOf[s]} : <<r, ReqOf[s]>> \in SameDestination
     THEN Refuse(s) ELSE To(s, "chain") /\ UNCHANGED reply
  /\ UNCHANGED <<store, pointer, settled, index, mineToo, cuts>>

\* _verifyOnChain: anything but CHAIN_VERIFIED is refused.
VerifyOnChain(s) ==
  /\ place[s] = "chain"
  /\ \/ To(s, IF store = "files" THEN "reserve" ELSE "insert") /\ UNCHANGED reply
     \/ Refuse(s)
  /\ UNCHANGED <<store, pointer, settled, index, mineToo, cuts>>

-----------------------------------------------------------------------------
\* createClaim of JsonClaimStore.  A pointer that could not be created may be
\* gone when it is read: that is refused, too.
Reserve(s) ==
  /\ place[s] = "reserve"
  /\ \/ /\ pointer[OutOf[s]] = Unset
        /\ pointer' = [pointer EXCEPT ![OutOf[s]] = ReqOf[s]]
        /\ mineToo' = mineToo \cup {s}
        /\ To(s, "claim") /\ UNCHANGED reply
     \/ /\ pointer[OutOf[s]] = ReqOf[s]
        /\ To(s, "claim") /\ UNCHANGED <<pointer, mineToo, reply>>
     \/ /\ pointer[OutOf[s]] # Unset
        /\ Refuse(s) /\ UNCHANGED <<pointer, mineToo>>
  /\ UNCHANGED <<store, settled, index, cuts>>

\* Fault: a reservation is removed whoever made it.
ReleaseAny(s) == TRUE

\* Only its own reservation is removed.
Releases(s) == s \in mineToo

CreateClaim(s) ==
  /\ place[s] = "claim"
  /\ \/ /\ Mine(s) = NoSettlement
        /\ settled' = [settled EXCEPT ![ReqOf[s]] = Settlement(s)]
        /\ To(s, "index") /\ UNCHANGED reply
     \/ /\ Mine(s).out = OutOf[s]
        /\ Answer(s, Mine(s)) /\ UNCHANGED settled
     \/ /\ Mine(s) # NoSettlement /\ Mine(s).out # OutOf[s]
        /\ IF Releases(s) THEN To(s, "release") /\ UNCHANGED reply ELSE Refuse(s)
        /\ UNCHANGED settled
  /\ UNCHANGED <<store, pointer, index, mineToo, cuts>>

\* rmSync of the pointer file, whatever is in it by now.
Release(s) ==
  /\ place[s] = "release"
  /\ pointer' = [pointer EXCEPT ![OutOf[s]] = Unset]
  /\ Refuse(s)
  /\ UNCHANGED <<store, settled, index, mineToo, cuts>>

WriteIndex(s) ==
  /\ place[s] = "index"
  /\ index' = index \cup {ReqOf[s]}
  /\ Answer(s, Settlement(s))
  /\ UNCHANGED <<store, pointer, settled, mineToo, cuts>>

-----------------------------------------------------------------------------
\* createClaim of PgClaimStore: one insert under two unique constraints, and
\* the reads that find out why it did nothing.
InsertClaim(s) ==
  /\ place[s] = "insert"
  /\ \/ /\ Mine(s) = NoSettlement /\ pointer[OutOf[s]] = Unset
        /\ settled' = [settled EXCEPT ![ReqOf[s]] = Settlement(s)]
        /\ pointer' = [pointer EXCEPT ![OutOf[s]] = ReqOf[s]]
        /\ index' = index \cup {ReqOf[s]}
        /\ Answer(s, Settlement(s))
     \/ /\ Mine(s) # NoSettlement \/ pointer[OutOf[s]] # Unset
        /\ To(s, "why") /\ UNCHANGED <<settled, pointer, index, reply>>
  /\ UNCHANGED <<store, mineToo, cuts>>

FindReason(s) ==
  /\ place[s] = "why"
  /\ IF Mine(s).out = OutOf[s] THEN Answer(s, Mine(s)) ELSE Refuse(s)
  /\ UNCHANGED <<store, pointer, settled, index, mineToo, cuts>>

\* The process dies, or an error that is no refusal ends the call.
CutShort(s) ==
  /\ cuts < MaxCuts /\ cuts' = cuts + 1
  /\ place[s] \notin {"digest", "settled", "refused", "cut"}
  /\ To(s, "cut")
  /\ UNCHANGED <<store, pointer, settled, index, mineToo, reply>>

FacilitatorNext ==
  \E s \in Settles :
    \/ ReadByDigest(s) \/ ReadByOutpoint(s) \/ FindDestinationConflicts(s)
    \/ VerifyOnChain(s) \/ Reserve(s) \/ CreateClaim(s) \/ Release(s) \/ WriteIndex(s)
    \/ InsertClaim(s) \/ FindReason(s) \/ CutShort(s)

FacilitatorSpec == FacilitatorInit /\ [][FacilitatorNext]_facilitatorVars

-----------------------------------------------------------------------------
\* A payment settles one requirement and a requirement is settled by one
\* payment: every success that was answered, first or replayed, is the durable
\* claim of its requirement, and no two claims share an output.
SingleUse ==
  /\ \A s \in Settles : reply[s] # NoSettlement =>
       reply[s] = Mine(s) /\ reply[s].out = OutOf[s]
  /\ \A q, r \in Requirements :
       settled[q].out = settled[r].out /\ settled[q] # NoSettlement => q = r
=============================================================================
