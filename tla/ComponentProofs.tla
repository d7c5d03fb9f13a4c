-------------------------- MODULE ComponentProofs --------------------------
(***************************************************************************)
(* Proofs about the components that share no state with one another: the   *)
(* claims of the facilitator, the audit chain, the organizational root,    *)
(* the delivery of events to webhooks, the Merkle tree of agent policies.  *)
(***************************************************************************)
EXTENDS FacilitatorClaims, AuditChain, OrgRootV7, WebhookDelivery,
        AgentMerkleV4, FiniteSetTheorems, WellFoundedInduction, TLAPS

-----------------------------------------------------------------------------
\* The facilitator's claims.

\* A call that reserved the output itself and may still remove the reservation.
Holds(s) == s \in mineToo /\ place[s] \in {"claim", "release"}

FacilitatorTypes ==
  /\ pointer \in [Outputs -> Requirements \cup {Unset}]
  /\ DOMAIN settled = Requirements
  /\ \A r \in Requirements :
       settled[r] # NoSettlement =>
         \E s \in Settles : ReqOf[s] = r /\ settled[r] = Settlement(s)
  /\ DOMAIN place = Settles /\ DOMAIN reply = Settles

\* The reservation of a settled payment names the requirement it settled.
PointerInv ==
  \A r \in Requirements :
    settled[r] # NoSettlement => pointer[settled[r].out] = r

\* Of the calls that want one output, one holds its reservation, and the
\* reservation is still there.
HolderInv ==
  /\ \A s \in mineToo \cap Settles :
       place[s] \in {"claim", "release", "index", "settled", "refused", "cut"}
  /\ \A s \in Settles : Holds(s) => pointer[OutOf[s]] = ReqOf[s]
  /\ \A q, s \in Settles : Holds(q) /\ Holds(s) /\ OutOf[q] = OutOf[s] => q = s

\* A call that goes on to the claim finds its output reserved for it, or its
\* requirement settled; one that is about to remove its reservation made it and
\* found the requirement settled by another payment; one that is about to write
\* the index has written the claim.
PlaceInv ==
  \A s \in Settles :
    /\ place[s] = "claim" => pointer[OutOf[s]] = ReqOf[s] \/ Mine(s) # NoSettlement
    /\ place[s] = "release" =>
         s \in mineToo /\ Mine(s) # NoSettlement /\ Mine(s).out # OutOf[s]
    /\ place[s] = "index" => Mine(s) = Settlement(s)

\* Every answer is the durable claim.
ReplyInv ==
  \A s \in Settles : reply[s] # NoSettlement =>
    reply[s] = Mine(s) /\ reply[s].out = OutOf[s]

FacilitatorInv == FacilitatorTypes /\ PointerInv /\ HolderInv /\ PlaceInv /\ ReplyInv

\* A claim is not the absence of one.
LEMMA SettlementIsOne ==
  ASSUME NEW s \in Settles
  PROVE  /\ Settlement(s) # NoSettlement
         /\ Settlement(s).out = OutOf[s] /\ OutOf[s] \in Outputs
         /\ ReqOf[s] \in Requirements /\ NoSettlement.out \notin Outputs
BY FacilitatorAssumption DEF Settlement, NoSettlement
\* Looking the claim up by its digest keeps the invariant: what is replayed is the
\* claim.
LEMMA ReadByDigestKeeps ==
  ASSUME FacilitatorInv, NEW s \in Settles, ReadByDigest(s)
  PROVE  FacilitatorInv'
<1>1. FacilitatorTypes'
  BY SettlementIsOne, FacilitatorAssumption DEF ReadByDigest, To, Refuse,
     Answer, FacilitatorInv, FacilitatorTypes, Mine
<1>2. PointerInv'
  BY SettlementIsOne, FacilitatorAssumption DEF ReadByDigest, To, Refuse,
     Answer, FacilitatorInv, PointerInv, FacilitatorTypes, Mine
<1>3. HolderInv'
  BY SettlementIsOne, FacilitatorAssumption DEF ReadByDigest, To, Refuse,
     Answer, FacilitatorInv, HolderInv, FacilitatorTypes, Holds, Mine
<1>4. PlaceInv'
  BY SettlementIsOne, FacilitatorAssumption DEF ReadByDigest, To, Refuse,
     Answer, FacilitatorInv, PlaceInv, FacilitatorTypes, Mine
<1>5. ReplyInv'
  BY SettlementIsOne, FacilitatorAssumption DEF ReadByDigest, To, Refuse,
     Answer, FacilitatorInv, ReplyInv, FacilitatorTypes, Mine, Settlement
<1> QED BY <1>1, <1>2, <1>3, <1>4, <1>5 DEF FacilitatorInv

\* Looking the output up decides nothing.
LEMMA ReadByOutpointKeeps ==
  ASSUME FacilitatorInv, NEW s \in Settles, ReadByOutpoint(s)
  PROVE  FacilitatorInv'
<1>1. FacilitatorTypes'
  BY SettlementIsOne, FacilitatorAssumption DEF ReadByOutpoint, To,
     Refuse, Answer, FacilitatorInv, FacilitatorTypes, Mine
<1>2. PointerInv'
  BY SettlementIsOne, FacilitatorAssumption DEF ReadByOutpoint, To,
     Refuse, Answer, FacilitatorInv, PointerInv, FacilitatorTypes, Mine
<1>3. HolderInv'
  BY SettlementIsOne, FacilitatorAssumption DEF ReadByOutpoint, To,
     Refuse, Answer, FacilitatorInv, HolderInv, FacilitatorTypes, Holds,
     Mine
<1>4. PlaceInv'
  BY SettlementIsOne, FacilitatorAssumption DEF ReadByOutpoint, To,
     Refuse, Answer, FacilitatorInv, PlaceInv, FacilitatorTypes, Mine
<1>5. ReplyInv'
  BY SettlementIsOne, FacilitatorAssumption DEF ReadByOutpoint, To,
     Refuse, Answer, FacilitatorInv, ReplyInv, FacilitatorTypes, Mine,
     Settlement
<1> QED BY <1>1, <1>2, <1>3, <1>4, <1>5 DEF FacilitatorInv

\* Nor does the search of the destination index.
LEMMA FindDestinationConflictsKeeps ==
  ASSUME FacilitatorInv, NEW s \in Settles, FindDestinationConflicts(s)
  PROVE  FacilitatorInv'
<1>0. \E l \in {"refused", "chain"} : place' = [place EXCEPT ![s] = l]
  BY DEF FindDestinationConflicts, Refuse, To
<1>1. FacilitatorTypes'
  BY <1>0 DEF FindDestinationConflicts, Refuse, FacilitatorInv,
     FacilitatorTypes, Mine
<1>2. PointerInv'
  BY SettlementIsOne, FacilitatorAssumption DEF FindDestinationConflicts,
     To, Refuse, Answer, FacilitatorInv, PointerInv, FacilitatorTypes,
     Mine
<1>3. HolderInv'
  BY SettlementIsOne, FacilitatorAssumption DEF FindDestinationConflicts,
     To, Refuse, Answer, FacilitatorInv, HolderInv, FacilitatorTypes,
     Holds, Mine
<1>4. PlaceInv'
  BY <1>0 DEF FindDestinationConflicts, Refuse, FacilitatorInv, PlaceInv,
     FacilitatorTypes, Mine
<1>5. ReplyInv'
  BY SettlementIsOne, FacilitatorAssumption DEF FindDestinationConflicts,
     To, Refuse, Answer, FacilitatorInv, ReplyInv, FacilitatorTypes, Mine,
     Settlement
<1> QED BY <1>1, <1>2, <1>3, <1>4, <1>5 DEF FacilitatorInv

\* Nor does the look at the chain.
LEMMA VerifyOnChainKeeps ==
  ASSUME FacilitatorInv, NEW s \in Settles, VerifyOnChain(s)
  PROVE  FacilitatorInv'
<1>1. FacilitatorTypes'
  BY SettlementIsOne, FacilitatorAssumption DEF VerifyOnChain, To, Refuse,
     Answer, FacilitatorInv, FacilitatorTypes, Mine
<1>2. PointerInv'
  BY SettlementIsOne, FacilitatorAssumption DEF VerifyOnChain, To, Refuse,
     Answer, FacilitatorInv, PointerInv, FacilitatorTypes, Mine
<1>3. HolderInv'
  BY SettlementIsOne, FacilitatorAssumption DEF VerifyOnChain, To, Refuse,
     Answer, FacilitatorInv, HolderInv, FacilitatorTypes, Holds, Mine
<1>4. PlaceInv'
  BY SettlementIsOne, FacilitatorAssumption DEF VerifyOnChain, To, Refuse,
     Answer, FacilitatorInv, PlaceInv, FacilitatorTypes, Mine
<1>5. ReplyInv'
  BY SettlementIsOne, FacilitatorAssumption DEF VerifyOnChain, To, Refuse,
     Answer, FacilitatorInv, ReplyInv, FacilitatorTypes, Mine, Settlement
<1> QED BY <1>1, <1>2, <1>3, <1>4, <1>5 DEF FacilitatorInv

\* Reserving a free output makes the call its only holder; finding it reserved
\* for the same requirement does not.
LEMMA ReserveKeeps ==
  ASSUME FacilitatorInv, NEW s \in Settles, Reserve(s)
  PROVE  FacilitatorInv'
<1>1. FacilitatorTypes'
  BY SettlementIsOne, FacilitatorAssumption DEF Reserve, To, Refuse,
     Answer, FacilitatorInv, FacilitatorTypes, Mine
<1>2. PointerInv'
  BY SettlementIsOne, FacilitatorAssumption DEF Reserve, To, Refuse,
     Answer, FacilitatorInv, PointerInv, FacilitatorTypes, Mine
<1>3. HolderInv'
  <2>1. /\ \A q \in Settles : q # s => (Holds(q)' <=> Holds(q))
        /\ s \notin mineToo
    BY DEF Reserve, To, Refuse, Holds, FacilitatorInv, FacilitatorTypes,
       HolderInv
  <2>2. CASE /\ pointer[OutOf[s]] = Unset /\ mineToo' = mineToo \cup {s}
             /\ pointer' = [pointer EXCEPT ![OutOf[s]] = ReqOf[s]]
             /\ place' = [place EXCEPT ![s] = "claim"]
    <3>1. \A q \in Settles : q # s /\ Holds(q) => OutOf[q] # OutOf[s]
      BY <2>2, SettlementIsOne, FacilitatorAssumption DEF
         FacilitatorInv, HolderInv
    <3>2. pointer'[OutOf[s]] = ReqOf[s]
      BY <2>2, SettlementIsOne DEF FacilitatorInv, FacilitatorTypes
    <3>3. \A q \in Settles : q # s /\ Holds(q) => pointer'[OutOf[q]] = pointer[OutOf[q]]
      BY <2>2, <3>1, SettlementIsOne DEF FacilitatorInv, FacilitatorTypes
    <3>4. \A q \in mineToo' \cap Settles :
            place'[q] \in {"claim", "release", "index", "settled", "refused", "cut"}
      BY <2>2 DEF FacilitatorInv, FacilitatorTypes, HolderInv
    <3> QED BY <2>1, <3>1, <3>2, <3>3, <3>4 DEF FacilitatorInv, HolderInv
  <2>3. CASE UNCHANGED <<pointer, mineToo>>
    <3>1. ~Holds(s)'
      BY <2>1, <2>3 DEF Holds
    <3>2. \A q \in Settles : q # s => place'[q] = place[q]
      BY DEF Reserve, To, Refuse, FacilitatorInv, FacilitatorTypes
    <3> QED BY <2>1, <2>3, <3>1, <3>2 DEF FacilitatorInv, HolderInv
  <2> QED BY <2>2, <2>3 DEF Reserve, Refuse, To
<1>4. PlaceInv'
  BY SettlementIsOne, FacilitatorAssumption DEF Reserve, To, Refuse,
     Answer, FacilitatorInv, PlaceInv, FacilitatorTypes, Mine
<1>5. ReplyInv'
  BY SettlementIsOne, FacilitatorAssumption DEF Reserve, To, Refuse,
     Answer, FacilitatorInv, ReplyInv, FacilitatorTypes, Mine, Settlement
<1> QED BY <1>1, <1>2, <1>3, <1>4, <1>5 DEF FacilitatorInv

\* A claim is created where there is none, for an output that is still reserved.
LEMMA CreateClaimKeeps ==
  ASSUME FacilitatorInv, NEW s \in Settles, CreateClaim(s)
  PROVE  FacilitatorInv'
<1>1. FacilitatorTypes'
  BY SettlementIsOne, FacilitatorAssumption DEF CreateClaim, To, Refuse,
     Answer, FacilitatorInv, FacilitatorTypes, Releases, Mine
<1>2. PointerInv'
  <2>1. CASE /\ Mine(s) = NoSettlement
             /\ settled' = [settled EXCEPT ![ReqOf[s]] = Settlement(s)]
    <3>1. pointer[OutOf[s]] = ReqOf[s] /\ pointer' = pointer
      BY <2>1 DEF CreateClaim, FacilitatorInv, PlaceInv
    <3>2. settled'[ReqOf[s]].out = OutOf[s]
      BY <2>1, SettlementIsOne DEF FacilitatorInv, FacilitatorTypes
    <3>3. \A r \in Requirements : r # ReqOf[s] => settled'[r] = settled[r]
      BY <2>1 DEF FacilitatorInv, FacilitatorTypes
    <3> QED BY <3>1, <3>2, <3>3 DEF FacilitatorInv, PointerInv
  <2>2. CASE UNCHANGED settled
    BY <2>2 DEF CreateClaim, FacilitatorInv, PointerInv
  <2> QED BY <2>1, <2>2 DEF CreateClaim
<1>3. HolderInv'
  BY SettlementIsOne, FacilitatorAssumption DEF CreateClaim, To, Refuse,
     Answer, FacilitatorInv, HolderInv, FacilitatorTypes, Holds, Releases,
     Mine
<1>4. PlaceInv'
  BY SettlementIsOne, FacilitatorAssumption DEF CreateClaim, To, Refuse,
     Answer, FacilitatorInv, PlaceInv, FacilitatorTypes, Mine, Releases
<1>5. ReplyInv'
  BY SettlementIsOne, FacilitatorAssumption DEF CreateClaim, To, Refuse,
     Answer, FacilitatorInv, ReplyInv, FacilitatorTypes, Mine, Settlement,
     Releases
<1> QED BY <1>1, <1>2, <1>3, <1>4, <1>5 DEF FacilitatorInv

\* Removing a reservation takes it from no claim: the requirement it names is
\* settled by another payment.
LEMMA ReleaseKeeps ==
  ASSUME FacilitatorInv, NEW s \in Settles, Release(s)
  PROVE  FacilitatorInv'
<1>0. /\ Holds(s) /\ Mine(s) # NoSettlement /\ Mine(s).out # OutOf[s]
      /\ pointer[OutOf[s]] = ReqOf[s] /\ OutOf[s] \in Outputs
  BY SettlementIsOne DEF Release, Holds, FacilitatorInv, PlaceInv, HolderInv
<1>a. /\ pointer' = [pointer EXCEPT ![OutOf[s]] = Unset]
      /\ place' = [place EXCEPT ![s] = "refused"]
      /\ settled' = settled /\ mineToo' = mineToo /\ reply' = reply
  BY DEF Release, Refuse, To
<1>1. FacilitatorTypes'
  BY SettlementIsOne, FacilitatorAssumption DEF Release, To, Refuse,
     Answer, FacilitatorInv, FacilitatorTypes, Mine
<1>2. PointerInv'
  <2>1. \A r \in Requirements : settled[r] # NoSettlement => settled[r].out # OutOf[s]
    BY <1>0 DEF FacilitatorInv, PointerInv, Mine
  <2> QED BY <1>a, <2>1 DEF FacilitatorInv, FacilitatorTypes, PointerInv
<1>3. HolderInv'
  <2>1. \A q \in Settles : Holds(q)' => q # s /\ Holds(q) /\ OutOf[q] # OutOf[s]
    BY <1>0, <1>a DEF Holds, FacilitatorInv, FacilitatorTypes, HolderInv
  <2>2. \A q \in Settles : Holds(q)' => pointer'[OutOf[q]] = ReqOf[q]
    BY <1>a, <2>1, SettlementIsOne DEF FacilitatorInv, FacilitatorTypes,
       HolderInv
  <2>3. \A q \in mineToo' \cap Settles :
          place'[q] \in {"claim", "release", "index", "settled", "refused", "cut"}
    BY <1>a DEF FacilitatorInv, FacilitatorTypes, HolderInv
  <2> QED BY <2>1, <2>2, <2>3 DEF FacilitatorInv, HolderInv
<1>4. PlaceInv'
  <2> SUFFICES ASSUME NEW q \in Settles, q # s
               PROVE  /\ place[q] = "claim" =>
                           pointer'[OutOf[q]] = ReqOf[q] \/ Mine(q) # NoSettlement
                      /\ place[q] = "release" =>
                           q \in mineToo /\ Mine(q) # NoSettlement /\ Mine(q).out # OutOf[q]
                      /\ place[q] = "index" => Mine(q) = Settlement(q)
    BY <1>a DEF PlaceInv, Mine, FacilitatorInv, FacilitatorTypes
  <2>1. CASE OutOf[q] # OutOf[s]
    BY <1>a, <2>1, SettlementIsOne DEF FacilitatorInv, FacilitatorTypes,
       PlaceInv
  <2>2. CASE OutOf[q] = OutOf[s]
    BY <1>0, <2>2 DEF FacilitatorInv, PlaceInv, Mine
  <2> QED BY <2>1, <2>2
<1>5. ReplyInv'
  BY SettlementIsOne, FacilitatorAssumption DEF Release, To, Refuse,
     Answer, FacilitatorInv, ReplyInv, FacilitatorTypes, Mine, Settlement
<1> QED BY <1>1, <1>2, <1>3, <1>4, <1>5 DEF FacilitatorInv

\* Writing the index ends with the call's own claim as the answer.
LEMMA WriteIndexKeeps ==
  ASSUME FacilitatorInv, NEW s \in Settles, WriteIndex(s)
  PROVE  FacilitatorInv'
<1>1. FacilitatorTypes'
  BY SettlementIsOne, FacilitatorAssumption DEF WriteIndex, To, Refuse,
     Answer, FacilitatorInv, FacilitatorTypes, Mine
<1>2. PointerInv'
  BY SettlementIsOne, FacilitatorAssumption DEF WriteIndex, To, Refuse,
     Answer, FacilitatorInv, PointerInv, FacilitatorTypes, Mine
<1>3. HolderInv'
  BY SettlementIsOne, FacilitatorAssumption DEF WriteIndex, To, Refuse,
     Answer, FacilitatorInv, HolderInv, FacilitatorTypes, Holds, Mine
<1>4. PlaceInv'
  BY SettlementIsOne, FacilitatorAssumption DEF WriteIndex, To, Refuse,
     Answer, FacilitatorInv, PlaceInv, FacilitatorTypes, Mine
<1>5. ReplyInv'
  <2>1. Mine(s) = Settlement(s) /\ reply' = [reply EXCEPT ![s] = Settlement(s)]
    BY DEF WriteIndex, Answer, FacilitatorInv, PlaceInv
  <2> HIDE DEF Settlement
  <2>2. \A q \in Settles : reply'[q] = IF q = s THEN Settlement(s) ELSE reply[q]
    BY <2>1 DEF FacilitatorInv, FacilitatorTypes
  <2>3. settled' = settled
    BY DEF WriteIndex
  <2> QED BY <2>1, <2>2, <2>3, SettlementIsOne DEF FacilitatorInv,
     ReplyInv, Mine
<1> QED BY <1>1, <1>2, <1>3, <1>4, <1>5 DEF FacilitatorInv

\* An insert takes a free output and an unsettled requirement at once.
LEMMA InsertClaimKeeps ==
  ASSUME FacilitatorInv, NEW s \in Settles, InsertClaim(s)
  PROVE  FacilitatorInv'
<1>1. FacilitatorTypes'
  BY SettlementIsOne, FacilitatorAssumption DEF InsertClaim, To, Refuse,
     Answer, FacilitatorInv, FacilitatorTypes, Mine
<1>2. PointerInv'
  BY SettlementIsOne, FacilitatorAssumption DEF InsertClaim, To, Refuse,
     Answer, FacilitatorInv, PointerInv, FacilitatorTypes, Mine
<1>3. HolderInv'
  BY SettlementIsOne, FacilitatorAssumption DEF InsertClaim, To, Refuse,
     Answer, FacilitatorInv, HolderInv, FacilitatorTypes, Holds, Mine
<1>4. PlaceInv'
  BY SettlementIsOne, FacilitatorAssumption DEF InsertClaim, To, Refuse,
     Answer, FacilitatorInv, PlaceInv, FacilitatorTypes, Mine
<1>5. ReplyInv'
  BY SettlementIsOne, FacilitatorAssumption DEF InsertClaim, To, Refuse,
     Answer, FacilitatorInv, ReplyInv, FacilitatorTypes, Mine, Settlement
<1> QED BY <1>1, <1>2, <1>3, <1>4, <1>5 DEF FacilitatorInv

\* What the reads after a refused insert answer is the claim.
LEMMA FindReasonKeeps ==
  ASSUME FacilitatorInv, NEW s \in Settles, FindReason(s)
  PROVE  FacilitatorInv'
<1>1. FacilitatorTypes'
  BY SettlementIsOne, FacilitatorAssumption DEF FindReason, To, Refuse,
     Answer, FacilitatorInv, FacilitatorTypes, Mine
<1>2. PointerInv'
  BY SettlementIsOne, FacilitatorAssumption DEF FindReason, To, Refuse,
     Answer, FacilitatorInv, PointerInv, FacilitatorTypes, Mine
<1>3. HolderInv'
  BY SettlementIsOne, FacilitatorAssumption DEF FindReason, To, Refuse,
     Answer, FacilitatorInv, HolderInv, FacilitatorTypes, Holds, Mine
<1>4. PlaceInv'
  BY SettlementIsOne, FacilitatorAssumption DEF FindReason, To, Refuse,
     Answer, FacilitatorInv, PlaceInv, FacilitatorTypes, Mine
<1>5. ReplyInv'
  BY SettlementIsOne, FacilitatorAssumption DEF FindReason, To, Refuse,
     Answer, FacilitatorInv, ReplyInv, FacilitatorTypes, Mine, Settlement
<1> QED BY <1>1, <1>2, <1>3, <1>4, <1>5 DEF FacilitatorInv

\* A call that dies leaves its reservation and its claim as they are.
LEMMA CutShortKeeps ==
  ASSUME FacilitatorInv, NEW s \in Settles, CutShort(s)
  PROVE  FacilitatorInv'
<1>1. FacilitatorTypes'
  BY SettlementIsOne, FacilitatorAssumption DEF CutShort, To,
     FacilitatorInv, FacilitatorTypes, Mine
<1>2. PointerInv'
  BY SettlementIsOne, FacilitatorAssumption DEF CutShort, To,
     FacilitatorInv, PointerInv, FacilitatorTypes, Mine
<1>3. HolderInv'
  BY SettlementIsOne, FacilitatorAssumption DEF CutShort, To,
     FacilitatorInv, HolderInv, FacilitatorTypes, Holds, Mine
<1>4. PlaceInv'
  BY SettlementIsOne, FacilitatorAssumption DEF CutShort, To,
     FacilitatorInv, PlaceInv, FacilitatorTypes, Mine
<1>5. ReplyInv'
  BY SettlementIsOne, FacilitatorAssumption DEF CutShort, To,
     FacilitatorInv, ReplyInv, FacilitatorTypes, Mine, Settlement
<1> QED BY <1>1, <1>2, <1>3, <1>4, <1>5 DEF FacilitatorInv

\* A payment settles one requirement and a requirement is settled by one
\* payment, for any set of concurrent calls, in the directory and in the table,
\* whatever calls are cut short.
THEOREM OneUse == FacilitatorSpec => []SingleUse
<1>1. FacilitatorInit => FacilitatorInv
  BY FacilitatorAssumption DEF FacilitatorInit, FacilitatorInv,
     FacilitatorTypes,
     PointerInv, HolderInv, Holds, PlaceInv, ReplyInv
<1>2. FacilitatorInv /\ [FacilitatorNext]_facilitatorVars => FacilitatorInv'
  <2> SUFFICES ASSUME FacilitatorInv, [FacilitatorNext]_facilitatorVars
               PROVE  FacilitatorInv'
    OBVIOUS
  <2>1. CASE UNCHANGED facilitatorVars
    BY <2>1 DEF facilitatorVars, FacilitatorInv, FacilitatorTypes, PointerInv,
       HolderInv, Holds, PlaceInv, ReplyInv, Mine
  <2>2. CASE FacilitatorNext
    BY <2>2, ReadByDigestKeeps, ReadByOutpointKeeps,
       FindDestinationConflictsKeeps,
       VerifyOnChainKeeps, ReserveKeeps, CreateClaimKeeps, ReleaseKeeps,
       WriteIndexKeeps, InsertClaimKeeps, FindReasonKeeps, CutShortKeeps, Zenon
       DEF FacilitatorNext
  <2> QED BY <2>1, <2>2
<1>3. FacilitatorInv => SingleUse
  <2> SUFFICES ASSUME FacilitatorInv PROVE SingleUse
    OBVIOUS
  <2>1. ASSUME NEW q \in Requirements, NEW r \in Requirements,
               settled[q].out = settled[r].out, settled[q] # NoSettlement
        PROVE  q = r
    <3>1. settled[q].out \in Outputs
      BY <2>1, SettlementIsOne DEF FacilitatorInv, FacilitatorTypes
    <3>2. settled[r] # NoSettlement
      BY <2>1, <3>1, FacilitatorAssumption DEF NoSettlement
    <3> QED BY <2>1, <3>2 DEF FacilitatorInv, PointerInv
  <2> QED BY <2>1 DEF SingleUse, FacilitatorInv, ReplyInv
<1> QED BY <1>1, <1>2, <1>3, PTL DEF FacilitatorSpec

-----------------------------------------------------------------------------
\* The organizational root.

RootInv ==
  /\ org.head \in Heads
  /\ vault \in [Vaults -> [live: BOOLEAN, paused: BOOLEAN, terms: Terms7, value: 0..MaxValue]]

\* In a well-formed owner set a slot approves for one key: the approvals that
\* the covenant counts by slot are as many distinct owners.
LEMMA SlotsAreOwners ==
  ASSUME org.head \in Heads, WellFormed(org.head), NEW keys
  PROVE  /\ Approvals(keys) = Cardinality(Owners(org.head) \cap keys)
         /\ Approvals(keys) \in Nat
<1> DEFINE owners == org.head.owners
           D == DOMAIN owners
           I == {i \in D : owners[i] \in keys}
           K == Owners(org.head) \cap keys
<1>1. owners \in Seq(Range(owners))
  BY RootAssumption
<1>2. D = 1..Len(owners) /\ Len(owners) \in Nat
  BY <1>1
<1>3. IsFiniteSet(D) /\ Cardinality(D) = Len(owners)
  BY <1>2, FS_Interval
<1>4. owners \in Surjection(D, Range(owners))
  BY <1>1 DEF Surjection, Range
<1>5. IsFiniteSet(Range(owners)) /\ Cardinality(Range(owners)) = Cardinality(D)
  BY <1>3, <1>4, FS_Surjection DEF WellFormed, Owners
<1>6. owners \in Injection(D, Range(owners))
  BY <1>3, <1>4, <1>5, FS_SurjSameCardinalityImpliesInj
<1> DEFINE f == [i \in I |-> owners[i]]
<1>7. f \in Bijection(I, K)
  <2>1. f \in [I -> K]
    BY <1>1 DEF Owners, Range
  <2>2. \A a, b \in I : f[a] = f[b] => a = b
    BY <1>6 DEF Injection, IsInjective
  <2>3. \A k \in K : \E i \in I : f[i] = k
    BY DEF Owners, Range
  <2> HIDE DEF f, I, K
  <2> QED BY <2>1, <2>2, <2>3 DEF Bijection, Injection, Surjection, IsInjective
<1>8. IsFiniteSet(I)
  BY <1>3, FS_Subset
<1>9. Cardinality(K) = Cardinality(I)
  BY <1>7, <1>8, FS_Bijection DEF ExistsBijection
<1>10. Cardinality(I) \in Nat
  BY <1>8, FS_CardinalityType
<1> QED BY <1>9, <1>10 DEF Approvals

\* What a transaction that spends the root may do to a vault, an owner operation
\* or a pause, it does under the quorum that the operation asks for.
LEMMA RootSpendRuled ==
  ASSUME RootInv, NEW keys, NEW next, SpendRoot(keys, next), NEW v \in Vaults
  PROVE  RuledByQuorum(v)
<1>1. /\ WellFormed(org.head) /\ org' = next /\ signers' = keys
      /\ RootAction(keys, next) \/ RootSuccession(keys, next)
      /\ vault'[v] \in Effects(vault[v], next)
  BY DEF SpendRoot
<1>2. /\ Approvals(keys) = Cardinality(Owners(org.head) \cap keys)
      /\ Approvals(keys) \in Nat
  BY <1>1, SlotsAreOwners DEF RootInv
<1>3. CASE Pinned(next, FALSE)
  <2>1. Approvals(keys) >= org.head.ownerM
    BY <1>1, <1>3 DEF RootAction, RootSuccession, Pinned, RootOf, Authorize, Rotate,
       Freeze, Unfreeze, OwnerRecover, LandsFrozen
  <2> QED BY <1>1, <1>2, <2>1 DEF RuledByQuorum
<1>4. CASE Pinned(next, TRUE) /\ vault'[v] = [vault[v] EXCEPT !.paused = TRUE]
  <2>1. \/ Approvals(keys) >= org.head.emergencyK
        \/ idle >= RecoveryDelay /\ Approvals(keys) >= org.head.recoveryM
    BY <1>1, <1>4 DEF RootAction, RootSuccession, Pinned, RootOf, Authorize, Rotate,
       Freeze, Unfreeze, OwnerRecover, LandsFrozen
  <2> QED BY <1>1, <1>2, <1>4, <2>1 DEF RuledByQuorum
<1>5. CASE vault'[v] = vault[v]
  BY <1>5 DEF RuledByQuorum
<1> QED BY <1>1, <1>3, <1>4, <1>5 DEF Effects, EmergencyPause

\* A vault stays a vault.
LEMMA EffectsTyped ==
  ASSUME RootInv, NEW next, NEW v \in Vaults, NEW s \in Effects(vault[v], next)
  PROVE  s \in [live: BOOLEAN, paused: BOOLEAN, terms: Terms7, value: 0..MaxValue]
<1>1. /\ vault[v] \in [live: BOOLEAN, paused: BOOLEAN, terms: Terms7, value: 0..MaxValue]
      /\ MaxValue \in Nat
  BY RootAssumption DEF RootInv
<1>2. \A n \in (vault[v].value + 1)..MaxValue : n \in 0..MaxValue
  BY <1>1
<1>3. 0 \in 0..MaxValue
  BY <1>1
<1> QED BY <1>1, <1>2, <1>3 DEF Effects, OwnerControl, Recovered, EmergencyPause

\* Every step leaves the root with one of the owner sets and every vault ruled.
LEMMA RootStep ==
  ASSUME RootInv, [RootNext]_rootVars
  PROVE  RootInv' /\ [\A v \in Vaults : RuledByQuorum(v)]_rootVars
<1>1. ASSUME NEW keys \in SUBSET Keys, NEW h \in Heads, NEW frozen \in BOOLEAN,
             SpendRoot(keys, RootOf(h, frozen))
      PROVE  RootInv' /\ \A v \in Vaults : RuledByQuorum(v)
  <2>1. \A v \in Vaults : RuledByQuorum(v)
    BY <1>1, RootSpendRuled
  <2>2. /\ org'.head = h
        /\ vault' \in [Vaults -> UNION {Effects(vault[v], RootOf(h, frozen)) : v \in Vaults}]
        /\ \A v \in Vaults : vault'[v] \in Effects(vault[v], RootOf(h, frozen))
    BY <1>1 DEF SpendRoot, RootOf
  <2>3. \A v \in Vaults :
          vault'[v] \in [live: BOOLEAN, paused: BOOLEAN, terms: Terms7, value: 0..MaxValue]
    BY <2>2, EffectsTyped
  <2>4. RootInv'
    BY <2>2, <2>3 DEF RootInv
  <2> QED BY <2>1, <2>4
<1>2. ASSUME NEW a \in Vaults, AgentSpends(a)
      PROVE  RootInv' /\ \A v \in Vaults : RuledByQuorum(v)
  <2>1. PICK n \in 0..(vault[a].value - 1) : vault' = [vault EXCEPT ![a].value = n]
    BY <1>2 DEF AgentSpends
  <2>2. /\ vault[a].value \in 0..MaxValue /\ MaxValue \in Nat
        /\ org' = org
    BY <1>2, RootAssumption DEF RootInv, AgentSpends
  <2>3. n \in 0..MaxValue /\ n \in 0..vault[a].value
    BY <2>1, <2>2
  <2> DEFINE spent == [vault[a] EXCEPT !.value = n]
  <2>4. vault' = [vault EXCEPT ![a] = spent]
    BY <2>1
  <2>5. spent \in [live: BOOLEAN, paused: BOOLEAN, terms: Terms7, value: 0..MaxValue]
    BY <2>3 DEF RootInv
  <2>6. \A v \in Vaults : vault'[v] = vault[v] \/ (v = a /\ vault'[v] = spent)
    BY <2>4 DEF RootInv
  <2>7. RootInv'
    <3> HIDE DEF spent
    <3> QED BY <2>2, <2>4, <2>5 DEF RootInv
  <2> QED BY <2>2, <2>3, <2>6, <2>7 DEF RuledByQuorum
<1>3. CASE Age \/ UNCHANGED rootVars
  BY <1>3 DEF Age, rootVars, RootInv, RuledByQuorum
<1> QED BY <1>1, <1>2, <1>3, Zenon DEF RootNext

\* A vault without an owner key of its own does what owners do only under a
\* full quorum of distinct present owners, or is paused under the lighter
\* quorums; for any owner sets, any number of vaults and any delays.
THEOREM QuorumRules == RootSpec => QuorumRulesVaults
<1>1. RootInit => RootInv
  BY RootAssumption DEF RootInit, RootInv, RootOf
<1> QED BY <1>1, RootStep, PTL DEF RootSpec, QuorumRulesVaults

-----------------------------------------------------------------------------
\* The audit chain.

Inside == {"head", "append", "plain", "anchor"}

\* One writer at a time is between taking the mutex and giving it back, and the
\* process holds a head when a writer appends to it.
MutexInv ==
  /\ mutex \in Writers \cup {Genesis} /\ DOMAIN stage = Writers
  /\ brink \in {"whole", "torn", "bare"}
  /\ \A w \in Writers : /\ stage[w] \in Inside => mutex = w
                        /\ stage[w] \in {"append", "anchor"} => known

Records == [by: Writers, seq: Nat, prev: Writers \cup {Genesis}]

\* The newest record as a head.
EndOf(records) ==
  HeadAt(Len(records), IF records = <<>> THEN Genesis ELSE records[Len(records)].by)

\* As long as nothing was lost: the records are a chain, neither the anchor nor
\* a verification is ahead of them, and the process holds their end.
HonestInv ==
  lost = {} =>
    /\ trail \in Seq(Records)
    /\ Intact(trail)
    /\ anchor.seq \in 0..Len(trail)
    /\ seen.seq \in 0..Len(trail)
    /\ known => head = EndOf(trail)
    /\ verdict # "BROKEN"

\* In a chain the record with the greatest number is the last one.
LEMMA NewestIsEnd ==
  ASSUME trail \in Seq(Records), Intact(trail)
  PROVE  Newest = EndOf(trail)
<1>1. CASE trail = <<>>
  BY <1>1 DEF Newest, EndOf, NoHead
<1>2. CASE trail # <<>>
  <2>1. Len(trail) \in Nat \ {0} /\ DOMAIN trail = 1..Len(trail)
    BY <1>2
  <2> DEFINE P(i) == \A j \in DOMAIN trail : trail[j].seq <= trail[i].seq
  <2>2. \A i \in DOMAIN trail : trail[i].seq = i
    BY DEF Intact
  <2>3. \A i \in DOMAIN trail : P(i) <=> i = Len(trail)
    BY <2>1, <2>2
  <2> HIDE DEF P
  <2>4. Len(trail) \in DOMAIN trail
    BY <2>1
  <2>5. (CHOOSE i \in DOMAIN trail : P(i)) = Len(trail)
    BY <2>3, <2>4
  <2>6. trail[Len(trail)].seq = Len(trail)
    BY <2>2, <2>4
  <2> DEFINE i == CHOOSE i \in DOMAIN trail : P(i)
  <2>7. Newest = HeadAt(trail[i].seq, trail[i].by)
    BY <1>2, Zenon DEF Newest, P
  <2>8. EndOf(trail) = HeadAt(Len(trail), trail[Len(trail)].by)
    BY <1>2 DEF EndOf
  <2> QED BY <2>5, <2>6, <2>7, <2>8
<1> QED BY <1>1, <1>2

\* A record that is appended to the end of a chain makes a longer chain.
LEMMA LinkExtends ==
  ASSUME trail \in Seq(Records), Intact(trail), head = EndOf(trail), NEW w \in Writers
  PROVE  /\ trail \o <<Link(w)>> \in Seq(Records)
         /\ Intact(trail \o <<Link(w)>>)
         /\ Len(trail \o <<Link(w)>>) = Len(trail) + 1
         /\ AtEnd(w) = EndOf(trail \o <<Link(w)>>)
<1> DEFINE longer == trail \o <<Link(w)>>
<1>1. Len(trail) \in Nat /\ head.seq = Len(trail)
  BY DEF EndOf, HeadAt
<1>2. head.hash \in Writers \cup {Genesis}
  <2>1. CASE trail = <<>>
    BY <2>1 DEF EndOf, HeadAt
  <2>2. CASE trail # <<>>
    <3>1. trail[Len(trail)] \in Records
      BY <1>1, <2>2
    <3>2. trail[Len(trail)].by \in Writers
      BY <3>1 DEF Records
    <3> QED BY <2>2, <3>2 DEF EndOf, HeadAt
  <2> QED BY <2>1, <2>2
<1>3. Link(w) \in Records
  BY <1>1, <1>2 DEF Link, Records
<1>4. /\ Link(w).seq = Len(trail) + 1 /\ Link(w).by = w
      /\ Link(w).prev = IF trail = <<>> THEN Genesis ELSE trail[Len(trail)].by
  BY <1>1 DEF Link, EndOf, HeadAt
<1> HIDE DEF Link
<1>5. /\ longer \in Seq(Records) /\ Len(longer) = Len(trail) + 1
      /\ \A i \in 1..Len(trail) : longer[i] = trail[i]
      /\ longer[Len(trail) + 1] = Link(w)
  BY <1>1, <1>3
<1>6. DOMAIN longer = 1..(Len(trail) + 1) /\ DOMAIN trail = 1..Len(trail)
  BY <1>5
<1> HIDE DEF longer
<1>7. Intact(longer)
  <2> SUFFICES ASSUME NEW i \in 1..(Len(trail) + 1)
               PROVE  /\ longer[i].seq = i
                      /\ longer[i].prev = IF i = 1 THEN Genesis ELSE longer[i - 1].by
    BY <1>6 DEF Intact
  <2>1. CASE i \in 1..Len(trail)
    <3>1. longer[i] = trail[i] /\ (i # 1 => longer[i - 1] = trail[i - 1])
      BY <1>1, <1>5, <2>1
    <3> QED BY <1>6, <2>1, <3>1 DEF Intact
  <2>2. CASE i = Len(trail) + 1
    <3>1. i # 1 => trail # <<>> /\ longer[i - 1] = trail[Len(trail)]
      BY <1>1, <1>5, <2>2
    <3>2. i = 1 => trail = <<>>
      BY <1>1, <2>2
    <3> QED BY <1>4, <1>5, <2>2, <3>1, <3>2
  <2> QED BY <1>1, <2>1, <2>2
<1>8. AtEnd(w) = EndOf(longer)
  <2>1. longer # <<>>
    BY <1>1, <1>5
  <2> QED BY <1>1, <1>4, <1>5, <2>1 DEF AtEnd, EndOf, HeadAt
<1> QED BY <1>5, <1>7, <1>8 DEF longer

\* A line that loses nothing ends a file whose last line was ended.
LEMMA LineKeeps ==
  ASSUME NEW w, NEW record, Line(w, record), lost' = {}, lost = {},
         brink \in {"whole", "torn", "bare"}
  PROVE  brink = "whole" /\ trail' = trail \o record
BY DEF Line

\* Every step keeps one writer inside the mutex.
LEMMA MutexStep ==
  ASSUME MutexInv, [AuditNext]_auditVars
  PROVE  MutexInv'
<1>1. ASSUME NEW w \in Writers,
             \/ Enter(w) \/ FindHead(w) \/ AppendRecord(w) \/ AppendPlain(w)
             \/ AppendThrows(w) \/ WriteAnchor(w)
      PROVE  MutexInv'
  BY <1>1, AuditAssumption DEF MutexInv, Inside, Stage, Enter, FindHead, AppendRecord,
     AppendPlain, AppendThrows, WriteAnchor
<1>2. CASE Collapse
  BY <1>2 DEF Collapse, MutexInv, Inside
<1>3. CASE ReadHead \/ ReadRows \/ UNCHANGED auditVars
  BY <1>3 DEF ReadHead, ReadRows, auditVars, MutexInv
<1> QED BY <1>1, <1>2, <1>3 DEF AuditNext

\* What a process takes for the head is the end of the records.
LEMMA HeadIsEnd ==
  ASSUME HonestInv, lost = {}
  PROVE  CurrentHead = EndOf(trail)
<1>1. CASE known
  BY <1>1 DEF HonestInv, CurrentHead
<1>2. CASE ~known
  <2>1. Newest = EndOf(trail)
    BY NewestIsEnd DEF HonestInv
  <2>2. Newest.seq = Len(trail)
    BY <2>1 DEF EndOf, HeadAt
  <2>3. Len(trail) >= anchor.seq
    BY DEF HonestInv
  <2> QED BY <1>2, <2>1, <2>2, <2>3 DEF CurrentHead
<1> QED BY <1>1, <1>2

\* A chain that gets one record longer stays one, and no head is ahead of it.
LEMMA HonestGrows ==
  ASSUME HonestInv, lost = {}, known, NEW w \in Writers,
         trail' = trail \o <<Link(w)>>, anchor' = anchor, seen' = seen,
         verdict' = verdict, known' => head' = AtEnd(w)
  PROVE  HonestInv'
<1>1. trail \in Seq(Records) /\ Intact(trail) /\ head = EndOf(trail)
  BY DEF HonestInv
<1>2. /\ trail' \in Seq(Records) /\ Intact(trail')
      /\ Len(trail') = Len(trail) + 1 /\ AtEnd(w) = EndOf(trail')
  BY <1>1, LinkExtends
<1>3. Len(trail) \in Nat
  BY <1>1
<1>4. anchor'.seq \in 0..Len(trail') /\ seen'.seq \in 0..Len(trail')
  BY <1>2, <1>3 DEF HonestInv
<1> QED BY <1>2, <1>4 DEF HonestInv

\* Every step of an honest log that loses nothing keeps the chain.
LEMMA HonestStep ==
  ASSUME MutexInv, HonestInv, [AuditNext]_auditVars
  PROVE  HonestInv'
<1> SUFFICES ASSUME lost' = {} PROVE HonestInv'
  BY DEF HonestInv
<1>1. lost = {}
  <2>1. \A w, record : Line(w, record) => lost \subseteq lost'
    BY DEF Line, MutexInv
  <2>2. lost \subseteq lost'
    <3>1. ASSUME NEW w \in Writers, AppendRecord(w) \/ AppendPlain(w)
          PROVE  lost \subseteq lost'
      BY <2>1, <3>1 DEF AppendRecord, AppendPlain
    <3>2. ASSUME NEW w \in Writers,
                 Enter(w) \/ FindHead(w) \/ AppendThrows(w) \/ WriteAnchor(w)
          PROVE  lost \subseteq lost'
      BY <3>2 DEF Enter, FindHead, AppendThrows, WriteAnchor
    <3>3. CASE Collapse
      BY <2>1, <3>3 DEF Collapse
    <3>4. CASE ReadHead \/ ReadRows \/ UNCHANGED auditVars
      BY <3>4 DEF ReadHead, ReadRows, auditVars
    <3> QED BY <3>1, <3>2, <3>3, <3>4, Zenon DEF AuditNext
  <2> QED BY <2>2
<1>2. /\ trail \in Seq(Records) /\ Intact(trail) /\ Len(trail) \in Nat
      /\ anchor.seq \in 0..Len(trail) /\ seen.seq \in 0..Len(trail)
      /\ brink \in {"whole", "torn", "bare"} /\ verdict # "BROKEN"
  BY <1>1 DEF HonestInv, MutexInv
<1>3. ASSUME NEW w \in Writers, Enter(w) PROVE HonestInv'
  BY <1>1, <1>3 DEF Enter, HonestInv, Verifier
<1>4. ASSUME NEW w \in Writers, FindHead(w) PROVE HonestInv'
  BY <1>1, <1>2, <1>4, HeadIsEnd DEF FindHead, HonestInv, Verifier
<1>5. ASSUME NEW w \in Writers, AppendRecord(w) PROVE HonestInv'
  <2>1. trail' = trail \o <<Link(w)>>
    BY <1>1, <1>2, <1>5, LineKeeps DEF AppendRecord
  <2>2. known
    BY <1>5 DEF AppendRecord, MutexInv
  <2> QED BY <1>1, <1>5, <2>1, <2>2, HonestGrows DEF AppendRecord, Verifier
<1>6. ASSUME NEW w \in Writers, AppendPlain(w) PROVE HonestInv'
  <2>1. trail' = trail \o <<>>
    BY <1>1, <1>2, <1>6, LineKeeps DEF AppendPlain
  <2>2. trail' = trail
    BY <1>2, <2>1
  <2> QED BY <1>1, <1>6, <2>2 DEF AppendPlain, HonestInv, Verifier
<1>7. ASSUME NEW w \in Writers, AppendThrows(w) PROVE HonestInv'
  <2>1. trail' = trail
    BY <1>7 DEF AppendThrows
  <2> QED BY <1>1, <1>7, <2>1 DEF AppendThrows, HonestInv, Verifier
<1>8. ASSUME NEW w \in Writers, WriteAnchor(w) PROVE HonestInv'
  <2>1. known /\ head = EndOf(trail)
    BY <1>1, <1>8 DEF WriteAnchor, MutexInv, HonestInv
  <2>2. anchor'.seq \in 0..Len(trail)
    BY <1>2, <1>8, <2>1 DEF WriteAnchor, EndOf, HeadAt
  <2> QED BY <1>1, <1>8, <2>2 DEF WriteAnchor, HonestInv, Verifier
<1>9. CASE Collapse
  <2>1. CASE UNCHANGED <<trail, brink, lost>>
    BY <1>1, <1>9, <2>1 DEF Collapse, HonestInv, Verifier
  <2>2. CASE /\ mutex # Genesis /\ stage[mutex] = "append"
             /\ Line(mutex, <<>>) /\ brink' = "torn"
    <3>1. trail' = trail \o <<>>
      BY <1>1, <1>2, <2>2, LineKeeps
    <3>2. trail' = trail
      BY <1>2, <3>1
    <3> QED BY <1>1, <1>9, <2>2, <3>2 DEF Collapse, HonestInv, Verifier
  <2>3. CASE /\ mutex # Genesis /\ stage[mutex] = "append"
             /\ brink = "whole" /\ Line(mutex, <<Link(mutex)>>) /\ brink' = "bare"
    <3>1. mutex \in Writers /\ known
      BY <2>3 DEF MutexInv
    <3>2. trail' = trail \o <<Link(mutex)>>
      BY <1>1, <1>2, <2>3, LineKeeps
    <3> QED BY <1>1, <1>9, <2>3, <3>1, <3>2, HonestGrows DEF Collapse, Verifier
  <2> QED BY <1>9, <2>1, <2>2, <2>3 DEF Collapse
<1>10. CASE ReadHead
  BY <1>1, <1>2, <1>10 DEF ReadHead, HonestInv
<1>11. CASE ReadRows
  <2>1. verdict' = "VALID"
    BY <1>2, <1>11 DEF ReadRows, Judge
  <2>2. seen'.seq = 0
    BY <1>11 DEF ReadRows, NoHead, HeadAt
  <2> QED BY <1>1, <1>2, <1>11, <2>1, <2>2 DEF ReadRows, HonestInv
<1>12. CASE UNCHANGED auditVars
  BY <1>1, <1>12 DEF auditVars, HonestInv
<1> QED BY <1>3, <1>4, <1>5, <1>6, <1>7, <1>8, <1>9, <1>10, <1>11, <1>12, Zenon
    DEF AuditNext

\* Crashes, anchors that could not be written and verifications in the middle
\* of an append never make an honest log look tampered with, for any number of
\* writers and of failures: only a record that an append lost, or stored without
\* saying so, does.
THEOREM HonestLogVerifies == AuditSpec => []BrokenOnlyAfterLoss
<1>1. AuditInit => MutexInv /\ HonestInv
  <2> SUFFICES ASSUME AuditInit PROVE MutexInv /\ HonestInv
    OBVIOUS
  <2>1. MutexInv
    BY DEF AuditInit, MutexInv, Inside
  <2>2. trail = <<>> /\ trail \in Seq(Records) /\ Len(trail) = 0
    <3>1. trail = <<>>
      BY DEF AuditInit
    <3>2. <<>> \in Seq(Records) /\ Len(<<>>) = 0
      OBVIOUS
    <3> QED BY <3>1, <3>2
  <2>3. DOMAIN trail = 1..0
    BY <2>2
  <2>4. Intact(trail)
    BY <2>3 DEF Intact
  <2>5. 0 \in 0..Len(trail)
    BY <2>2
  <2> QED BY <2>1, <2>2, <2>4, <2>5 DEF AuditInit, HonestInv, NoHead, HeadAt
<1>2. HonestInv => BrokenOnlyAfterLoss
  BY DEF HonestInv, BrokenOnlyAfterLoss
<1> QED BY <1>1, <1>2, MutexStep, HonestStep, PTL DEF AuditSpec

-----------------------------------------------------------------------------
\* The outbox and its worker.

\* A nonempty set of naturals has a least element, and a greatest one when it
\* has a bound.
LEMMA LeastNat ==
  ASSUME NEW S \in SUBSET Nat, S # {}
  PROVE  \E m \in S : \A k \in S : m <= k
<1>1. IsWellFoundedOn(OpToRel(<, Nat), Nat)
  BY NatLessThanWellFounded
<1>2. PICK m \in S : \A k \in S : ~(<<k, m>> \in OpToRel(<, Nat))
  BY <1>1, WFMin, Zenon
<1>3. \A k \in S : ~(k < m)
  BY <1>2 DEF OpToRel
<1> QED BY <1>3

\* What Max returns of a bounded set.
LEMMA MaxNat ==
  ASSUME NEW S \in SUBSET Nat, S # {}, NEW b \in Nat, \A k \in S : k <= b
  PROVE  Max(S) \in S /\ \A k \in S : k <= Max(S)
<1>1. PICK m \in {n \in Nat : \A k \in S : k <= n} :
        \A n \in Nat : (\A k \in S : k <= n) => m <= n
  BY LeastNat
<1>2. m \in S
  <2>1. SUFFICES ASSUME m \notin S PROVE FALSE
    OBVIOUS
  <2>2. \A k \in S : k < m
    BY <1>1, <2>1
  <2>3. PICK k \in S : TRUE
    OBVIOUS
  <2>4. m > 0 /\ \A n \in S : n <= m - 1
    BY <1>1, <2>2, <2>3
  <2> QED BY <1>1, <2>4
<1>3. \E x \in S : \A y \in S : x >= y
  BY <1>1, <1>2
<1> QED BY <1>3 DEF Max

\* A row of the stream.
RowType == [seq: Nat \ {0}, event: Events]

Retries == [row: RowType \cup {NoRow}, attempts: Nat, due: BOOLEAN]
Positions == [cursor: Nat, retry: Retries]

\* Readable rows and rows in flight have different numbers, up to the next one.
StreamInv ==
  /\ backend \in {"json", "postgres"}
  /\ rows \subseteq RowType /\ IsFiniteSet(rows) /\ flight \subseteq RowType
  /\ nextSeq \in Nat \ {0}
  /\ backend = "json" => flight = {}
  /\ \A q, r \in rows \cup flight : q.seq = r.seq => q = r
  /\ \A r \in rows \cup flight :
       /\ r.seq <= nextSeq
       /\ at # "down" \/ backend = "postgres" => r.seq < nextSeq

Pass == {"next", "attempt", "save", "park", "letter"}

WorkerTypes ==
  /\ at \in {"asleep", "tick", "down"} \cup Pass
  /\ subscribed \subseteq Endpoints /\ todo \subseteq subscribed
  /\ since \in [Endpoints -> Nat] /\ reach \in [Endpoints -> Nat]
  /\ state \in [Endpoints -> Positions] /\ mem \in Positions
  /\ last \in [Endpoints -> RowType \cup {NoRow}]
  /\ cand \in RowType \cup {NoRow}
  /\ at \in Pass => mine \in subscribed
  /\ at \in {"attempt", "letter"} => cand \in RowType
  /\ \A ep \in Endpoints \ subscribed : state[ep].retry = NoRetry /\ last[ep] = NoRow

\* What is due up to n has been received or is a dead letter.
Behind(ep, n) == \A q \in Due(ep) : q.seq <= n => Settled(ep, q.event)

\* Between n and row c nothing else is due.
Gap(ep, n, c) == \A q \in Due(ep) : n < q.seq /\ q.seq <= c.seq => q = c

\* A row that may be sent next, from position n: in order, or late.
Candidate(ep, n, c) ==
  /\ c \in RowType /\ n <= c.seq /\ c.seq <= reach[ep]
  /\ Gap(ep, n, c)
  /\ c.seq >= last[ep].seq \/ <<ep, c.event>> \in late

\* A position from which delivery may go on.
Sound(ep, s) ==
  /\ since[ep] <= s.cursor /\ s.cursor <= reach[ep]
  /\ Behind(ep, s.cursor)
  /\ Gap(ep, s.cursor, last[ep])
  /\ s.retry # NoRetry => Candidate(ep, s.cursor, s.retry.row)

EndpointInv(ep) ==
  /\ last[ep].seq <= reach[ep]
  /\ Sound(ep, state[ep])

\* What the worker holds of the endpoint of its pass, at each await.
PassInv ==
  /\ at \in {"next", "attempt"} =>
       /\ (mem.retry = NoRetry <=> state[mine].retry = NoRetry)
       /\ mem.retry.row = state[mine].retry.row
  /\ at = "next" => mem.cursor = state[mine].cursor
  /\ at = "attempt" =>
       /\ Sound(mine, mem)
       /\ Candidate(mine, state[mine].cursor, cand)
       /\ state[mine].cursor <= mem.cursor /\ mem.cursor <= cand.seq
       /\ mem.retry # NoRetry => mem.retry.row = cand
  /\ at \in {"save", "park"} => Sound(mine, mem)
  /\ at = "save" => mem.retry = NoRetry
  /\ at = "letter" =>
       /\ since[mine] <= mem.cursor /\ mem.cursor <= reach[mine]
       /\ \A q \in Due(mine) : q.seq <= mem.cursor /\ q.event # cand.event =>
                                 Settled(mine, q.event)
       /\ Gap(mine, mem.cursor, last[mine])
       /\ mem.retry = NoRetry

DeliveryInv ==
  /\ StreamInv /\ WorkerTypes
  /\ \A ep \in subscribed : EndpointInv(ep)
  /\ PassInv

-----------------------------------------------------------------------------
\* Initially there are no rows and nobody has subscribed.
LEMMA DeliveryInit == WebhookInit => DeliveryInv
<1>1. IsFiniteSet({})
  BY FS_EmptySet
<1> SUFFICES ASSUME WebhookInit PROVE DeliveryInv
  OBVIOUS
<1>2. Fresh(0) \in Positions /\ Fresh(0).retry = NoRetry
  BY DEF Fresh, Positions, Retries, NoRetry
<1>3. StreamInv
  BY <1>1 DEF WebhookInit, StreamInv
<1>4. WorkerTypes
  BY <1>2 DEF WebhookInit, WorkerTypes, Pass
<1>5. PassInv /\ \A ep \in subscribed : EndpointInv(ep)
  BY DEF WebhookInit, PassInv
<1> QED BY <1>3, <1>4, <1>5 DEF DeliveryInv

\* The readable rows of a file up to its last whole line.
LEMMA EndedRows == Ended \subseteq rows
BY DEF Ended

\* The newest number.
LEMMA LatestNat ==
  ASSUME StreamInv
  PROVE  Latest \in Nat /\ \A r \in rows : r.seq <= Latest
<1>1. Numbers(rows) \cup {0} \in SUBSET Nat
  BY DEF StreamInv, RowType, Numbers
<1>2. \A k \in Numbers(rows) \cup {0} : k <= nextSeq
  BY DEF StreamInv, RowType, Numbers
<1>3. \A r \in rows : r.seq \in Numbers(rows)
  BY DEF Numbers
<1> QED BY <1>1, <1>2, <1>3, MaxNat DEF Latest, StreamInv

\* The rows of a stream stay numbered.
LEMMA StreamStep ==
  ASSUME DeliveryInv, [WebhookNext]_webhookVars
  PROVE  StreamInv'
<1> USE DEF DeliveryInv
<1>1. ASSUME NEW e \in Events, AppendLine(e) PROVE StreamInv'
  <2>1. rows' \subseteq rows \cup {Row(nextSeq, e)}
    BY <1>1, EndedRows DEF AppendLine, Readable
  <2>2. IsFiniteSet(rows')
    BY <2>1, FS_AddElement, FS_Subset DEF StreamInv
  <2>3. Row(nextSeq, e) \in RowType /\ Row(nextSeq, e).seq = nextSeq
    BY DEF Row, RowType, StreamInv
  <2>4. flight = {} /\ flight' = {} /\ nextSeq' = nextSeq + 1 /\ backend' = backend
    BY <1>1 DEF AppendLine, StreamInv
  <2>5. \A r \in rows : r.seq < nextSeq
    BY <1>1 DEF AppendLine, New, StreamInv
  <2> HIDE DEF DeliveryInv
  <2> QED BY <2>1, <2>2, <2>3, <2>4, <2>5 DEF DeliveryInv, StreamInv, RowType
<1>2. ASSUME NEW e \in Events, Insert(e) PROVE StreamInv'
  <2>1. Row(nextSeq, e) \in RowType /\ Row(nextSeq, e).seq = nextSeq
    BY DEF Row, RowType, StreamInv
  <2>2. flight' = flight \cup {Row(nextSeq, e)} /\ rows' = rows /\ nextSeq' = nextSeq + 1
        /\ backend = "postgres" /\ backend' = backend
    BY <1>2 DEF Insert
  <2> QED BY <2>1, <2>2 DEF StreamInv, RowType
<1>3. ASSUME NEW r \in flight, Commit(r) PROVE StreamInv'
  <2>1. rows' = rows \cup {r} /\ flight' = flight \ {r} /\ nextSeq' = nextSeq
        /\ backend' = backend /\ at' = at
    BY <1>3 DEF Commit, Readable, workerVars
  <2>2. IsFiniteSet(rows')
    BY <2>1, FS_AddElement DEF StreamInv
  <2> QED BY <2>1, <2>2 DEF StreamInv
<1>4. CASE Crash
  <2>1. at # "down" /\ at' = "down" /\ backend' = backend /\ flight' = flight
        /\ nextSeq' = nextSeq
    BY <1>4 DEF Crash, Leave, CrashInLine
  <2>2. \/ rows' \subseteq rows
        \/ backend = "json" /\ \E e \in Events : rows' = rows \cup {Row(nextSeq, e)}
    BY <1>4, EndedRows DEF Crash, CrashInLine, Readable
  <2>3. CASE rows' \subseteq rows
    BY <2>1, <2>3, FS_Subset DEF StreamInv, RowType
  <2>4. ASSUME backend = "json", NEW e \in Events, rows' = rows \cup {Row(nextSeq, e)}
        PROVE  StreamInv'
    <3>1. Row(nextSeq, e) \in RowType /\ Row(nextSeq, e).seq = nextSeq
      BY DEF Row, RowType, StreamInv
    <3>2. IsFiniteSet(rows')
      BY <2>4, FS_AddElement DEF StreamInv
    <3> QED BY <2>1, <2>4, <3>1, <3>2 DEF StreamInv, RowType
  <2> QED BY <2>2, <2>3, <2>4
<1>5. CASE Restart
  BY <1>5, LatestNat DEF Restart, StreamInv, RowType
<1>6. CASE /\ UNCHANGED streamVars
           /\ (at' = "down" <=> at = "down")
  BY <1>6 DEF streamVars, StreamInv
<1>7. CASE StartTick \/ EndTick \/ (\E ep \in Endpoints : Pick(ep)) \/ Retry \/ Scan
           \/ Attempt \/ WriteDeadLetter \/ Save \/ StoreThrows
           \/ (\E ep \in Endpoints : Subscribe(ep) \/ Elapse(ep))
           \/ UNCHANGED webhookVars
  <2>1. UNCHANGED streamVars
    BY <1>7 DEF StartTick, EndTick, Pick, Retry, Scan, Attempt, WriteDeadLetter, Save,
       StoreThrows, Subscribe, Elapse, webhookVars
  <2>2. at' = "down" <=> at = "down"
    BY <1>7 DEF StartTick, EndTick, Pick, Retry, Scan, Attempt, WriteDeadLetter, Save,
       StoreThrows, Subscribe, Elapse, webhookVars, workerVars, Leave, GiveUp
  <2> QED BY <1>6, <2>1, <2>2
<1> QED BY <1>1, <1>2, <1>3, <1>4, <1>5, <1>7 DEF WebhookNext, WorkerStep

-----------------------------------------------------------------------------
\* What no step takes from an endpoint: what it received, its dead letters, what
\* came too late for it, how far the worker has looked; and no row becomes due
\* to it behind that point.
Kept(ep) ==
  /\ ep \in subscribed' /\ since'[ep] = since[ep] /\ reach[ep] <= reach'[ep]
  /\ got \subseteq got' /\ letters \subseteq letters' /\ late \subseteq late'
  /\ reach[ep] \in Nat /\ reach'[ep] \in Nat
  /\ \A q \in Due(ep)' : q.seq \in Nat
  /\ \A q \in Due(ep)' : q \in Due(ep) \/ q.seq > reach[ep]

\* What is settled stays so.
LEMMA BehindKept ==
  ASSUME NEW ep, Kept(ep), NEW n \in Nat, n <= reach[ep], Behind(ep, n)
  PROVE  Behind(ep, n)'
<1> SUFFICES ASSUME NEW q \in Due(ep)', q.seq <= n PROVE Settled(ep, q.event)'
  BY DEF Behind
<1>1. q \in Due(ep)
  BY DEF Kept
<1> QED BY <1>1 DEF Behind, Settled, Kept

\* A gap stays one, below what the worker has looked at.
LEMMA GapKept ==
  ASSUME NEW ep, Kept(ep), NEW n \in Nat, NEW c, c.seq \in Nat, c.seq <= reach[ep],
         Gap(ep, n, c)
  PROVE  Gap(ep, n, c)'
<1> SUFFICES ASSUME NEW q \in Due(ep)', n < q.seq, q.seq <= c.seq PROVE q = c
  BY DEF Gap
<1>1. q \in Due(ep)
  BY DEF Kept
<1> QED BY <1>1 DEF Gap

\* And a candidate, while nothing else is received.
LEMMA CandidateKept ==
  ASSUME NEW ep, Kept(ep), NEW n \in Nat, NEW c, Candidate(ep, n, c), last'[ep] = last[ep]
  PROVE  Candidate(ep, n, c)'
<1>1. c.seq \in Nat /\ c.seq <= reach[ep] /\ Gap(ep, n, c)
  BY DEF Candidate, RowType
<1>2. Gap(ep, n, c)'
  BY <1>1, GapKept
<1>3. c.seq <= reach'[ep]
  BY <1>1 DEF Kept
<1> QED BY <1>2, <1>3 DEF Candidate, Kept

\* And a sound position.
LEMMA SoundKept ==
  ASSUME NEW ep, Kept(ep), NEW s \in Positions, Sound(ep, s), last'[ep] = last[ep],
         last[ep].seq \in Nat, last[ep].seq <= reach[ep], since[ep] \in Nat
  PROVE  Sound(ep, s)'
<1>1. s.cursor \in Nat /\ s.cursor <= reach[ep] /\ s.cursor <= reach'[ep]
  BY DEF Sound, Positions, Kept
<1>2. Behind(ep, s.cursor)'
  BY <1>1, BehindKept DEF Sound
<1>3. PICK l : l = last[ep]
  OBVIOUS
<1>4. Gap(ep, s.cursor, l)'
  BY <1>1, <1>3, GapKept DEF Sound
<1>5. s.retry # NoRetry => Candidate(ep, s.cursor, s.retry.row)'
  BY <1>1, CandidateKept DEF Sound
<1> QED BY <1>1, <1>2, <1>3, <1>4, <1>5 DEF Sound, Kept

\* The rows a scan lists: all up to any of them, and bounded.
LEMMA BatchRows ==
  ASSUME StreamInv, NEW n \in Nat
  PROVE  /\ Batch(n) \subseteq rows
         /\ \A r \in Batch(n) : n < r.seq
         /\ \A r \in Batch(n), q \in rows : n < q.seq /\ q.seq <= r.seq => q \in Batch(n)
<1>1. IsFiniteSet(After(n)) /\ After(n) \subseteq rows
  BY FS_Subset DEF StreamInv, After
<1>2. ASSUME NEW r \in Batch(n), NEW q \in rows, n < q.seq, q.seq <= r.seq
      PROVE  q \in Batch(n)
  <2>1. {p \in After(n) : p.seq < q.seq} \subseteq {p \in After(n) : p.seq < r.seq}
    BY <1>1, <1>2 DEF StreamInv, RowType, Batch
  <2>2. IsFiniteSet({p \in After(n) : p.seq < r.seq})
    BY <1>1, FS_Subset
  <2>3. Cardinality({p \in After(n) : p.seq < q.seq})
          <= Cardinality({p \in After(n) : p.seq < r.seq})
    BY <2>1, <2>2, FS_Subset
  <2>4. /\ Cardinality({p \in After(n) : p.seq < q.seq}) \in Nat
        /\ Cardinality({p \in After(n) : p.seq < r.seq}) \in Nat
    BY <2>1, <2>2, FS_Subset, FS_CardinalityType
  <2>5. Cardinality({p \in After(n) : p.seq < q.seq}) < ScanBatch
    BY <1>2, <2>3, <2>4, WebhookAssumption DEF Batch
  <2>6. q \in After(n)
    BY <1>2 DEF After
  <2> QED BY <2>5, <2>6 DEF Batch
<1>3. Batch(n) \subseteq rows /\ \A r \in Batch(n) : n < r.seq
  BY DEF Batch, After
<1> QED BY <1>2, <1>3

\* The first of a set of rows.
LEMMA FirstRow ==
  ASSUME StreamInv, NEW R \in SUBSET rows, R # {}
  PROVE  First(R) \in R /\ \A q \in R : First(R).seq <= q.seq
<1>1. Numbers(R) \in SUBSET Nat /\ Numbers(R) # {}
  BY DEF StreamInv, RowType, Numbers
<1>2. PICK m \in Numbers(R) : \A k \in Numbers(R) : m <= k
  BY <1>1, LeastNat
<1>3. \E r \in R : \A q \in R : r.seq <= q.seq
  BY <1>2 DEF Numbers
<1> QED BY <1>3 DEF First

\* The last number of a set of rows, or another one.
LEMMA LastNumber ==
  ASSUME StreamInv, NEW R \in SUBSET rows, NEW n \in Nat
  PROVE  /\ Max(Numbers(R) \cup {n}) \in Nat /\ n <= Max(Numbers(R) \cup {n})
         /\ \A r \in R : r.seq <= Max(Numbers(R) \cup {n})
         /\ \/ Max(Numbers(R) \cup {n}) = n
            \/ \E r \in R : r.seq = Max(Numbers(R) \cup {n})
<1>1. PICK S : S = Numbers(R) \cup {n}
  OBVIOUS
<1>2. S \in SUBSET Nat /\ S # {} /\ n \in S /\ \A r \in R : r.seq \in S
  BY <1>1 DEF StreamInv, RowType, Numbers
<1>3. PICK b \in Nat : b >= n /\ b >= nextSeq
  BY DEF StreamInv
<1>4. \A k \in S : k <= b
  BY <1>1, <1>2, <1>3 DEF StreamInv, RowType, Numbers
<1>5. Max(S) \in S /\ \A k \in S : k <= Max(S)
  BY <1>2, <1>4, MaxNat
<1> QED BY <1>1, <1>2, <1>5 DEF Numbers

\* The greater of two numbers.
LEMMA Larger ==
  ASSUME NEW a \in Nat, NEW b \in Nat
  PROVE  Max({a, b}) \in Nat /\ a <= Max({a, b}) /\ b <= Max({a, b})
<1>1. PICK c \in Nat : a <= c /\ b <= c
  OBVIOUS
<1>2. Max({a, b}) \in {a, b} /\ \A k \in {a, b} : k <= Max({a, b})
  BY <1>1, MaxNat
<1> QED BY <1>2

\* Every step keeps all of this of an endpoint that has subscribed.
LEMMA AllKept ==
  ASSUME DeliveryInv, [WebhookNext]_webhookVars, NEW ep \in subscribed
  PROVE  Kept(ep)
<1>0. StreamInv'
  BY StreamStep
<1>1. reach[ep] \in Nat /\ ep \in Endpoints
  BY DEF DeliveryInv, WorkerTypes
<1>2. \A q \in Due(ep)' : q.seq \in Nat
  BY <1>0 DEF Due, StreamInv, RowType
<1>3. CASE /\ UNCHANGED <<subscribed, since, reach, got, letters>>
           /\ late \subseteq late'
           /\ \A r \in rows' \ rows : r.seq <= reach[ep] => <<ep, r.event>> \in late'
  <2> SUFFICES ASSUME NEW q \in Due(ep)', ~(q.seq > reach[ep]) PROVE q \in Due(ep)
    BY <1>1, <1>2, <1>3 DEF Kept
  <2> QED BY <1>1, <1>2, <1>3 DEF Due
<1>4. CASE /\ UNCHANGED <<rows, late>>
           /\ got \subseteq got' /\ letters \subseteq letters'
           /\ subscribed \subseteq subscribed' /\ since'[ep] = since[ep]
           /\ reach'[ep] \in Nat /\ reach[ep] <= reach'[ep]
  BY <1>1, <1>2, <1>4 DEF Kept, Due
<1>5. ASSUME NEW R, NEW r, R \subseteq rows, Readable(R, r)
      PROVE  /\ late \subseteq late'
             /\ \A q \in rows' \ rows : q.seq <= reach[ep] => <<ep, q.event>> \in late'
  BY <1>5 DEF Readable
<1>6. CASE (\E e \in Events : AppendLine(e) \/ Insert(e)) \/ (\E r \in flight : Commit(r))
           \/ Crash
  <2>1. UNCHANGED <<subscribed, since, reach, got, letters>>
    BY <1>6 DEF AppendLine, Insert, Commit, Crash, subVars, receiverVars
  <2>2. \/ \E R \in SUBSET rows, r \in RowType : Readable(R, r)
        \/ rows' \subseteq rows /\ late' = late
    <3>1. \A e \in Events : Row(nextSeq, e) \in RowType
      BY DEF Row, RowType, DeliveryInv, StreamInv
    <3>2. rows \in SUBSET rows /\ flight \subseteq RowType
      BY DEF DeliveryInv, StreamInv
    <3> QED BY <1>6, <3>1, <3>2, EndedRows DEF AppendLine, Insert, Commit, Crash, CrashInLine
  <2> QED BY <1>3, <1>5, <2>1, <2>2
<1>7. ASSUME NEW p \in Endpoints, Subscribe(p) PROVE Kept(ep)
  <2>1. p # ep
    BY <1>7 DEF Subscribe
  <2>2. UNCHANGED <<rows, late, got, letters>> /\ subscribed' = subscribed \cup {p}
        /\ since' = [since EXCEPT ![p] = Latest] /\ reach' = [reach EXCEPT ![p] = Latest]
    BY <1>7 DEF Subscribe, streamVars, receiverVars
  <2> QED BY <1>1, <1>4, <2>1, <2>2 DEF DeliveryInv, WorkerTypes
<1>8. CASE Scan
  <2>1. UNCHANGED <<rows, late, got, letters, subscribed, since>>
    BY <1>8 DEF Scan, streamVars, receiverVars, subVars
  <2>2. \/ UNCHANGED reach
        \/ \E r : reach' = [reach EXCEPT ![mine] = Max({@, r})]
             /\ r \in Nat
    <3>1. StreamInv /\ mem.cursor \in Nat
      BY DEF DeliveryInv, WorkerTypes, Positions
    <3>2. Batch(mem.cursor) \subseteq rows /\ Wanted(mine, Batch(mem.cursor)) \subseteq rows
      BY <3>1, BatchRows DEF Wanted
    <3>3. Max(Numbers(Batch(mem.cursor)) \cup {0}) \in Nat
      BY <3>1, <3>2, LastNumber
    <3>4. Wanted(mine, Batch(mem.cursor)) # {} =>
            First(Wanted(mine, Batch(mem.cursor))).seq \in Nat
      <4>1. PICK R : R = Wanted(mine, Batch(mem.cursor))
        OBVIOUS
      <4>2. R # {} => First(R) \in rows
        BY <3>1, <3>2, <4>1, FirstRow
      <4>3. \A r \in rows : r.seq \in Nat
        BY <3>1 DEF StreamInv, RowType
      <4> QED BY <4>1, <4>2, <4>3
    <3> QED BY <1>8, <3>3, <3>4 DEF Scan
  <2>3. \A r \in Nat : Max({reach[ep], r}) \in Nat /\ reach[ep] <= Max({reach[ep], r})
    BY <1>1, Larger
  <2>4. reach \in [Endpoints -> Nat]
    BY DEF DeliveryInv, WorkerTypes
  <2>5. reach'[ep] \in Nat /\ reach[ep] <= reach'[ep]
    <3>1. CASE reach' = reach
      BY <1>1, <3>1
    <3>2. ASSUME NEW r \in Nat, reach' = [reach EXCEPT ![mine] = Max({@, r})]
          PROVE  reach'[ep] \in Nat /\ reach[ep] <= reach'[ep]
      <4>1. reach'[ep] = IF ep = mine THEN Max({reach[ep], r}) ELSE reach[ep]
        BY <1>1, <2>4, <3>2
      <4> QED BY <1>1, <2>3, <4>1
    <3> QED BY <2>2, <3>1, <3>2
  <2> QED BY <1>4, <2>1, <2>5
<1>9. CASE StartTick \/ EndTick \/ (\E p \in Endpoints : Pick(p)) \/ Retry \/ Attempt
           \/ WriteDeadLetter \/ Save \/ Restart \/ StoreThrows
           \/ (\E p \in Endpoints : Elapse(p)) \/ UNCHANGED webhookVars
  <2>1. UNCHANGED <<rows, late, subscribed, since, reach>>
        /\ got \subseteq got' /\ letters \subseteq letters'
    BY <1>9 DEF StartTick, EndTick, Pick, Retry, Attempt, WriteDeadLetter, Save,
       StoreThrows, Elapse, Restart, webhookVars, streamVars, subVars, receiverVars, Receive
  <2> QED BY <1>1, <1>4, <2>1
<1> QED BY <1>6, <1>7, <1>8, <1>9 DEF WebhookNext, WorkerStep

\* Every step keeps the types of what the worker and the endpoints hold.
LEMMA WorkerTypesStep ==
  ASSUME DeliveryInv, [WebhookNext]_webhookVars
  PROVE  WorkerTypes'
<1>0. StreamInv /\ WorkerTypes
  BY DEF DeliveryInv
<1>1. Fresh(0) \in Positions /\ \A n \in Nat : Fresh(n) \in Positions
  BY DEF Fresh, Positions, Retries, NoRetry
<1>2. CASE (\E e \in Events : AppendLine(e) \/ Insert(e)) \/ (\E r \in flight : Commit(r))
           \/ UNCHANGED webhookVars
  <2>1. UNCHANGED <<subVars, state, workerVars, receiverVars, reach>>
    BY <1>2 DEF AppendLine, Insert, Commit, webhookVars
  <2> QED BY <1>0, <2>1 DEF WorkerTypes, subVars, workerVars, receiverVars
<1>3. CASE Crash \/ StoreThrows \/ Restart \/ StartTick \/ EndTick
  <2>1. UNCHANGED <<subVars, state, receiverVars, reach>>
    BY <1>3 DEF Crash, StoreThrows, Restart, StartTick, EndTick
  <2>2. /\ at' \in {"asleep", "tick", "down"}
        /\ todo' \subseteq subscribed /\ mem' \in Positions
        /\ cand' \in RowType \cup {NoRow}
    BY <1>0, <1>1, <1>3 DEF Crash, StoreThrows, Restart, StartTick, EndTick, Leave, WorkerTypes
  <2> QED BY <1>0, <2>1, <2>2 DEF WorkerTypes, subVars, receiverVars, Pass
<1>4. ASSUME NEW ep \in Endpoints, Pick(ep) PROVE WorkerTypes'
  BY <1>0, <1>4 DEF Pick, WorkerTypes, subVars, receiverVars, Pass
<1>5. CASE Retry
  <2>1. mem.retry.row \in RowType \cup {NoRow}
    BY <1>0 DEF WorkerTypes, Positions, Retries
  <2>2. UNCHANGED <<subVars, state, receiverVars, reach, todo>>
    BY <1>5 DEF Retry
  <2>3. CASE at' = "tick"
    BY <1>0, <1>1, <1>5, <2>2, <2>3 DEF Retry, Leave, WorkerTypes, subVars, receiverVars, Pass
  <2>4. CASE at' = "attempt"
    <3>1. /\ at = "next" /\ mem.retry # NoRetry /\ cand' = mem.retry.row
          /\ mine' = mine /\ mem' = mem
      BY <1>5, <2>4 DEF Retry, Leave
    <3>2. mem.retry.row \in RowType
      BY <1>0, <3>1 DEF DeliveryInv, PassInv, EndpointInv, Sound, Candidate, WorkerTypes, Pass
    <3> QED BY <1>0, <2>2, <2>4, <3>1, <3>2 DEF WorkerTypes, subVars, receiverVars, Pass
  <2> QED BY <1>5, <2>3, <2>4 DEF Retry, Leave
<1>6. CASE Scan
  <2>1. UNCHANGED <<subVars, state, receiverVars, todo>> /\ at = "next"
    BY <1>6 DEF Scan
  <2>2. mem.cursor \in Nat /\ mem.retry \in Retries
    BY <1>0 DEF WorkerTypes, Positions
  <2>3. PICK batch, wanted : batch = Batch(mem.cursor) /\ wanted = Wanted(mine, batch)
    OBVIOUS
  <2>4. batch \subseteq rows /\ wanted \subseteq rows
    BY <1>0, <2>2, <2>3, BatchRows DEF Wanted
  <2>5. wanted # {} => First(wanted) \in RowType
    BY <1>0, <2>4, FirstRow DEF StreamInv
  <2>6. Max(Numbers(batch) \cup {0}) \in Nat
    BY <1>0, <2>4, LastNumber
  <2>7. Passed(batch, First(wanted)) \in Nat
    <3>1. PICK R : R = {q \in batch : q.seq < First(wanted).seq}
      OBVIOUS
    <3>2. Max(Numbers(R) \cup {mem.cursor}) \in Nat
      BY <1>0, <2>2, <2>4, <3>1, LastNumber
    <3>3. Numbers(R) = {q \in Numbers(batch) : q < First(wanted).seq}
      BY <3>1 DEF Numbers
    <3> QED BY <3>2, <3>3 DEF Passed
  <2>8. reach' \in [Endpoints -> Nat]
    <3>1. mine \in Endpoints /\ reach[mine] \in Nat
      BY <1>0, <2>1 DEF WorkerTypes, Pass
    <3>2. \A n \in Nat : Max({reach[mine], n}) \in Nat
      BY <3>1, Larger
    <3>3. \/ reach' = reach
          \/ \E n \in Nat : reach' = [reach EXCEPT ![mine] = Max({reach[mine], n})]
      BY <1>0, <1>6, <2>3, <2>5, <2>6, <3>1 DEF Scan, RowType, WorkerTypes
    <3> QED BY <1>0, <3>1, <3>2, <3>3 DEF WorkerTypes
  <2>9. mem' \in Positions
    BY <1>0, <1>1, <1>6, <2>2, <2>3, <2>6, <2>7 DEF Scan, Leave, Positions, WorkerTypes
  <2>10. /\ at' \in {"tick", "save", "attempt"} /\ cand' \in RowType \cup {NoRow}
         /\ at' = "attempt" => cand' \in RowType
         /\ at' \in Pass => mine' = mine
    BY <1>0, <1>6, <2>3, <2>5 DEF Scan, Leave, WorkerTypes, Pass
  <2> QED BY <1>0, <2>1, <2>8, <2>9, <2>10 DEF WorkerTypes, subVars, receiverVars, Pass
<1>7. CASE Attempt
  <2>1. UNCHANGED <<subVars, state, reach, todo, mine, cand>> /\ at = "attempt"
        /\ at' \in {"save", "letter", "park"}
    BY <1>7 DEF Attempt, GiveUp
  <2>2. last' = last \/ last' = [last EXCEPT ![mine] = cand]
    BY <1>7 DEF Attempt, Receive, receiverVars
  <2>3. /\ mem.cursor \in Nat /\ mem.retry.attempts + 1 \in Nat /\ cand \in RowType
        /\ mine \in subscribed
    BY <1>0, <2>1 DEF WorkerTypes, Positions, Retries, Pass
  <2>4. Done \in Positions
    BY <1>0, <2>3 DEF Done, Positions, Retries, NoRetry, WorkerTypes, RowType
  <2>5. mem' \in Positions
    <3>1. PICK tries : tries = mem.retry.attempts + 1
      OBVIOUS
    <3>2. \/ mem' = Done
          \/ mem' = [mem EXCEPT !.retry = [row |-> cand, attempts |-> tries, due |-> FALSE]]
      BY <1>7, <3>1 DEF Attempt, GiveUp
    <3>3. [row |-> cand, attempts |-> tries, due |-> FALSE] \in Retries
      BY <2>3, <3>1 DEF Retries
    <3> QED BY <1>0, <2>4, <3>2, <3>3 DEF Positions, WorkerTypes
  <2> QED BY <1>0, <2>1, <2>2, <2>3, <2>5 DEF WorkerTypes, subVars, Pass
<1>8. CASE WriteDeadLetter
  BY <1>0, <1>8 DEF WriteDeadLetter, WorkerTypes, subVars, receiverVars, Pass
<1>9. CASE Save
  <2>1. UNCHANGED <<subVars, receiverVars, reach, todo>> /\ at \in {"save", "park"}
        /\ state' = [state EXCEPT ![mine] = mem]
    BY <1>9 DEF Save
  <2>2. \/ at' = "next" /\ mine' = mine /\ mem' = mem /\ cand' = NoRow
        \/ at' = "tick" /\ mem' = Fresh(0) /\ cand' = NoRow
    BY <1>9 DEF Save, Leave
  <2> QED BY <1>0, <1>1, <2>1, <2>2 DEF WorkerTypes, subVars, receiverVars, Pass
<1>10. ASSUME NEW ep \in Endpoints, Subscribe(ep) PROVE WorkerTypes'
  <2>1. Latest \in Nat
    BY <1>0, LatestNat
  <2>2. /\ subscribed' = subscribed \cup {ep}
        /\ since' = [since EXCEPT ![ep] = Latest] /\ reach' = [reach EXCEPT ![ep] = Latest]
        /\ state' = [state EXCEPT ![ep] = Fresh(Latest)]
        /\ UNCHANGED <<workerVars, receiverVars>>
    BY <1>10 DEF Subscribe
  <2> QED BY <1>0, <1>1, <2>1, <2>2 DEF WorkerTypes, workerVars, receiverVars
<1>11. ASSUME NEW ep \in Endpoints, Elapse(ep) PROVE WorkerTypes'
  <2>1. /\ state' = [state EXCEPT ![ep].retry.due = TRUE] /\ state[ep].retry # NoRetry
        /\ UNCHANGED <<subVars, workerVars, receiverVars, reach>>
    BY <1>11 DEF Elapse
  <2>2. [state[ep] EXCEPT !.retry.due = TRUE] \in Positions
    BY <1>0 DEF WorkerTypes, Positions, Retries
  <2>3. state' \in [Endpoints -> Positions]
    BY <1>0, <2>1, <2>2 DEF WorkerTypes
  <2>4. \A p \in Endpoints \ subscribed : state'[p].retry = NoRetry
    BY <1>0, <2>1 DEF WorkerTypes
  <2> QED BY <1>0, <2>1, <2>3, <2>4 DEF WorkerTypes, subVars, workerVars, receiverVars
<1> QED BY <1>2, <1>3, <1>4, <1>5, <1>6, <1>7, <1>8, <1>9, <1>10, <1>11
  DEF WebhookNext, WorkerStep

-----------------------------------------------------------------------------
\* The due rows of an endpoint are rows of the stream.
LEMMA DueRows ==
  ASSUME DeliveryInv, NEW ep
  PROVE  Due(ep) \subseteq rows /\ \A q \in Due(ep) : q.seq \in Nat
BY DEF Due, DeliveryInv, StreamInv, RowType

\* Only the cursor and the row of a retry matter to a sound position.
LEMMA SoundLike ==
  ASSUME NEW ep, NEW s, NEW t, Sound(ep, s), t.cursor = s.cursor,
         t.retry # NoRetry => s.retry # NoRetry /\ t.retry.row = s.retry.row
  PROVE  Sound(ep, t)
BY DEF Sound

\* A step that leaves the position of an endpoint and what it received last.
LEMMA EndpointKept ==
  ASSUME DeliveryInv, [WebhookNext]_webhookVars, NEW ep \in subscribed,
         state'[ep] = state[ep], last'[ep] = last[ep]
  PROVE  EndpointInv(ep)'
<1>1. Kept(ep)
  BY AllKept
<1>2. PICK s : s = state[ep]
  OBVIOUS
<1>3. /\ s \in Positions /\ last[ep].seq \in Nat /\ since[ep] \in Nat /\ Sound(ep, s)
      /\ last[ep].seq <= reach[ep]
  BY <1>2 DEF DeliveryInv, WorkerTypes, EndpointInv, RowType, NoRow, Row
<1>4. Sound(ep, s)'
  BY <1>1, <1>3, SoundKept
<1> QED BY <1>1, <1>2, <1>3, <1>4 DEF EndpointInv, Kept

\* A step that leaves the worker, and the endpoint of its pass but for the end
\* of a backoff.
LEMMA PassKept ==
  ASSUME DeliveryInv, [WebhookNext]_webhookVars, UNCHANGED workerVars,
         at \in Pass =>
           /\ state'[mine].cursor = state[mine].cursor
           /\ state'[mine].retry.row = state[mine].retry.row
           /\ (state'[mine].retry = NoRetry <=> state[mine].retry = NoRetry)
           /\ last'[mine] = last[mine]
  PROVE  PassInv'
<1>1. PICK m, s, c, n : m = mine /\ s = mem /\ c = cand /\ n = state[mine].cursor
  OBVIOUS
<1>2. mine' = m /\ mem' = s /\ cand' = c /\ at' = at
  BY <1>1 DEF workerVars
<1>3. CASE at \notin Pass
  BY <1>2, <1>3 DEF PassInv, Pass
<1>4. CASE at \in Pass
  <2>1. /\ m \in subscribed /\ m \in Endpoints /\ s \in Positions /\ s.cursor \in Nat
        /\ n \in Nat
        /\ last[m].seq \in Nat /\ since[m] \in Nat /\ last[m].seq <= reach[m]
        /\ state'[m].cursor = n
    <3>1. m \in subscribed /\ m \in Endpoints /\ s \in Positions
      BY <1>1, <1>4 DEF DeliveryInv, WorkerTypes
    <3>2. state[m] \in Positions /\ last[m] \in RowType \cup {NoRow} /\ since[m] \in Nat
      BY <3>1 DEF DeliveryInv, WorkerTypes
    <3>3. last[m].seq <= reach[m]
      BY <3>1 DEF DeliveryInv, EndpointInv
    <3>4. last[m].seq \in Nat /\ s.cursor \in Nat /\ n \in Nat
      BY <1>1, <3>1, <3>2 DEF RowType, NoRow, Row, Positions
    <3>5. state'[m].cursor = n
      BY <1>1, <1>4
    <3> QED BY <3>1, <3>2, <3>3, <3>4, <3>5
  <2>2. Kept(m)
    BY <2>1, AllKept
  <2>3. at \in {"attempt", "save", "park"} => Sound(m, s)'
    <3>1. at \in {"attempt", "save", "park"} => Sound(m, s)
      BY <1>1 DEF DeliveryInv, PassInv
    <3>2. last'[m] = last[m]
      BY <1>1, <1>4
    <3> QED BY <2>1, <2>2, <3>1, <3>2, SoundKept
  <2>4. at = "attempt" => Candidate(m, n, c)'
    <3>1. at = "attempt" => Candidate(m, n, c)
      BY <1>1 DEF DeliveryInv, PassInv
    <3>2. last'[m] = last[m]
      BY <1>1, <1>4
    <3> QED BY <2>1, <2>2, <3>1, <3>2, CandidateKept
  <2>5. at = "letter" =>
          /\ since'[m] <= s.cursor /\ s.cursor <= reach'[m]
          /\ \A q \in Due(m)' : q.seq <= s.cursor /\ q.event # c.event =>
                                 Settled(m, q.event)'
          /\ Gap(m, s.cursor, last[m])'
    <3> SUFFICES ASSUME at = "letter" PROVE
          /\ since'[m] <= s.cursor /\ s.cursor <= reach'[m]
          /\ \A q \in Due(m)' : q.seq <= s.cursor /\ q.event # c.event =>
                                 Settled(m, q.event)'
          /\ Gap(m, s.cursor, last[m])'
      OBVIOUS
    <3>1. /\ since[m] <= s.cursor /\ s.cursor <= reach[m]
          /\ \A q \in Due(m) : q.seq <= s.cursor /\ q.event # c.event => Settled(m, q.event)
          /\ Gap(m, s.cursor, last[m])
      BY <1>1 DEF DeliveryInv, PassInv
    <3>2. PICK l : l = last[m]
      OBVIOUS
    <3>3. Gap(m, s.cursor, l)'
      BY <2>1, <2>2, <3>1, <3>2, GapKept
    <3>4. \A q \in Due(m)' : q.seq <= s.cursor => q \in Due(m)
      BY <2>1, <2>2, <3>1 DEF Kept
    <3>5. \A e : Settled(m, e) => Settled(m, e)'
      BY <2>2 DEF Kept, Settled
    <3>6. last'[m] = l
      BY <1>1, <1>4, <3>2
    <3>7. since'[m] <= s.cursor /\ s.cursor <= reach'[m]
      BY <2>1, <2>2, <3>1 DEF Kept
    <3>8. \A q \in Due(m)' : q.seq <= s.cursor /\ q.event # c.event => Settled(m, q.event)'
      BY <3>1, <3>4, <3>5
    <3> QED BY <3>3, <3>6, <3>7, <3>8
  <2>6. PICK w : w = state'[m]
    OBVIOUS
  <2>7. /\ w.cursor = n /\ w.retry.row = state[m].retry.row
        /\ (w.retry = NoRetry <=> state[m].retry = NoRetry)
    BY <1>1, <1>4, <2>6
  <2>8. /\ at \in {"next", "attempt"} =>
             /\ (s.retry = NoRetry <=> w.retry = NoRetry)
             /\ s.retry.row = w.retry.row
        /\ at = "next" => s.cursor = w.cursor
        /\ at = "attempt" => w.cursor <= s.cursor /\ s.cursor <= c.seq
        /\ at = "attempt" /\ s.retry # NoRetry => s.retry.row = c
        /\ at = "save" => s.retry = NoRetry
        /\ at = "letter" => s.retry = NoRetry
    BY <1>1, <2>7 DEF DeliveryInv, PassInv
  <2> QED BY <1>2, <2>3, <2>4, <2>5, <2>6, <2>7, <2>8 DEF PassInv
<1> QED BY <1>3, <1>4

\* What the worker does not touch stays due, or not.
LEMMA DueSame ==
  ASSUME NEW ep, UNCHANGED <<rows, late, subscribed, since>>
  PROVE  Due(ep)' = Due(ep)
BY DEF Due

\* A gap from a position is one from any later position.
LEMMA GapFrom ==
  ASSUME NEW ep, NEW n \in Nat, NEW p \in Nat, n <= p, NEW c, Gap(ep, n, c),
         \A q \in Due(ep) : q.seq \in Nat
  PROVE  Gap(ep, p, c)
BY DEF Gap

\* The endpoint of a pass, as the invariant knows it.
LEMMA PassFacts ==
  ASSUME DeliveryInv, at \in Pass
  PROVE  /\ mine \in subscribed /\ mine \in Endpoints
         /\ state[mine] \in Positions /\ state[mine].cursor \in Nat
         /\ mem \in Positions /\ mem.cursor \in Nat
         /\ since[mine] \in Nat /\ reach[mine] \in Nat /\ last[mine].seq \in Nat
         /\ last[mine] \in RowType \cup {NoRow}
         /\ EndpointInv(mine)
         /\ \A q \in Due(mine) : q.seq \in Nat
<1>1. WorkerTypes /\ mine \in subscribed /\ mine \in Endpoints
  BY DEF DeliveryInv, WorkerTypes
<1>2. state[mine] \in Positions /\ last[mine] \in RowType \cup {NoRow} /\ mem \in Positions
      /\ since[mine] \in Nat /\ reach[mine] \in Nat
  BY <1>1 DEF WorkerTypes
<1>3. state[mine].cursor \in Nat /\ mem.cursor \in Nat /\ last[mine].seq \in Nat
  BY <1>2 DEF Positions, RowType, NoRow, Row
<1> QED BY <1>1, <1>2, <1>3, DueRows DEF DeliveryInv

\* A scan goes to the first row the endpoint asked for, or past a batch that has
\* none.
LEMMA ScanStep ==
  ASSUME DeliveryInv, [WebhookNext]_webhookVars, Scan
  PROVE  PassInv'
<1>1. PICK m, n, c, batch, wanted :
        /\ m = mine /\ n = mem.cursor
        /\ batch = Batch(n) /\ wanted = Wanted(m, batch) /\ c = First(wanted)
  OBVIOUS
<1>2. at = "next" /\ at \in Pass /\ mem.retry = NoRetry
      /\ UNCHANGED <<rows, late, subscribed, since, state, got, letters, last>>
  BY DEF Scan, Pass, streamVars, subVars, receiverVars
<1>3. /\ m \in subscribed /\ m \in Endpoints /\ n \in Nat /\ since[m] \in Nat
      /\ reach[m] \in Nat /\ last[m].seq \in Nat /\ mem \in Positions
      /\ EndpointInv(m) /\ state[m].cursor = n
      /\ state[m].retry = NoRetry /\ state[m].retry.row = mem.retry.row
      /\ \A q \in Due(m) : q.seq \in Nat
  BY <1>1, <1>2, PassFacts DEF DeliveryInv, PassInv
<1>4. since[m] <= n /\ n <= reach[m] /\ Behind(m, n) /\ Gap(m, n, last[m])
  BY <1>3 DEF EndpointInv, Sound
<1>5. /\ batch \subseteq rows /\ wanted \subseteq batch
      /\ \A r \in batch : n < r.seq /\ r.seq \in Nat
      /\ \A r \in batch, q \in rows : n < q.seq /\ q.seq <= r.seq => q \in batch
      /\ StreamInv
  BY <1>1, <1>3, BatchRows DEF Wanted, DeliveryInv, StreamInv, RowType
<1>6. \A q \in Due(m) : q \in rows /\ (q \in batch => q \in wanted)
  BY <1>1 DEF Due, Wanted
<1>7. Due(m)' = Due(m) /\ \A e : Settled(m, e)' = Settled(m, e)
  BY <1>2, DueSame DEF Settled
<1>8. reach'[m] \in Nat
  <2>1. Kept(m)
    BY <1>3, AllKept
  <2> QED BY <2>1 DEF Kept
<1>9. CASE at' = "tick"
  BY <1>9 DEF PassInv
<1>10. CASE at' = "save"
  <2>1. PICK e : e = Max(Numbers(batch) \cup {0})
    OBVIOUS
  <2>2. /\ batch # {} /\ wanted = {} /\ mem' = [mem EXCEPT !.cursor = e]
        /\ reach' = [reach EXCEPT ![m] = Max({reach[m], e})] /\ mine' = m
    BY <1>1, <1>10, <2>1 DEF Scan, Leave
  <2>3. /\ e \in Nat /\ \A r \in batch : r.seq <= e
        /\ e = 0 \/ \E r \in batch : r.seq = e
    BY <1>5, <2>1, LastNumber
  <2>4. n < e /\ \E r \in batch : r.seq = e
    BY <1>3, <1>5, <2>2, <2>3
  <2>5. e <= reach'[m]
    BY <1>3, <2>2, <2>3, Larger DEF DeliveryInv, WorkerTypes
  <2>6. Behind(m, e)'
    <3> SUFFICES ASSUME NEW q \in Due(m), q.seq <= e PROVE Settled(m, q.event)
      BY <1>7 DEF Behind
    <3>1. CASE q.seq <= n
      BY <1>4, <3>1 DEF Behind
    <3>2. CASE n < q.seq
      BY <1>5, <1>6, <2>2, <2>4, <3>2
    <3> QED BY <1>3, <3>1, <3>2
  <2>7. Gap(m, e, last[m])
    BY <1>3, <1>4, <2>3, <2>4, GapFrom
  <2>8. Gap(m, e, last[m])'
    BY <1>2, <1>7, <2>7 DEF Gap
  <2>9. PICK w : w = mem'
    OBVIOUS
  <2>10. w.cursor = e /\ w.retry = NoRetry
    BY <1>2, <1>3, <2>2, <2>9 DEF Positions
  <2>11. Sound(m, w)'
    BY <1>2, <1>3, <1>4, <2>3, <2>4, <2>5, <2>6, <2>8, <2>10 DEF Sound
  <2> QED BY <1>10, <2>2, <2>9, <2>10, <2>11 DEF PassInv
<1>11. CASE at' = "attempt"
  <2>1. PICK p : p = Passed(batch, c)
    OBVIOUS
  <2>2. /\ wanted # {} /\ mem' = [mem EXCEPT !.cursor = p] /\ cand' = c /\ mine' = m
        /\ reach' = [reach EXCEPT ![m] = Max({reach[m], c.seq})]
    BY <1>1, <1>11, <2>1 DEF Scan, Leave
  <2>3. c \in wanted /\ \A q \in wanted : c.seq <= q.seq
    BY <1>1, <1>5, <2>2, FirstRow
  <2>4. c \in RowType /\ c.seq \in Nat /\ n < c.seq /\ c \in batch
    BY <1>5, <2>3 DEF StreamInv, RowType
  <2>5. p \in Nat /\ n <= p /\ p < c.seq
    <3>1. PICK R : R = {q \in batch : q.seq < c.seq}
      OBVIOUS
    <3>2. R \in SUBSET rows
      BY <1>5, <3>1
    <3>3. p = Max(Numbers(R) \cup {n})
      <4>1. Numbers(R) = {q \in Numbers(batch) : q < c.seq}
        BY <3>1 DEF Numbers
      <4> QED BY <1>1, <2>1, <4>1 DEF Passed
    <3>4. p \in Nat /\ n <= p /\ (p = n \/ \E r \in R : r.seq = p)
      BY <1>3, <1>5, <3>2, <3>3, LastNumber
    <3> QED BY <2>4, <3>1, <3>4
  <2>6. c.seq <= reach'[m]
    BY <1>3, <2>2, <2>4, Larger DEF DeliveryInv, WorkerTypes
  <2>7. ASSUME NEW q \in Due(m), n < q.seq, q.seq <= c.seq PROVE q = c
    <3>1. q \in wanted
      BY <1>5, <1>6, <2>4, <2>7
    <3>2. c.seq = q.seq
      BY <1>3, <2>3, <2>4, <2>7, <3>1
    <3> QED BY <1>5, <1>6, <2>4, <3>2 DEF StreamInv
  <2>8. Behind(m, p)'
    <3> SUFFICES ASSUME NEW q \in Due(m), q.seq <= p PROVE Settled(m, q.event)
      BY <1>7 DEF Behind
    <3>1. CASE q.seq <= n
      BY <1>4, <3>1 DEF Behind
    <3>2. CASE n < q.seq
      <4>1. q.seq < c.seq
        BY <1>3, <2>4, <2>5
      <4>2. q = c
        BY <1>3, <2>4, <2>7, <3>2, <4>1
      <4> QED BY <2>4, <4>1, <4>2
    <3> QED BY <1>3, <3>1, <3>2
  <2>9. Gap(m, p, last[m])'
    <3>1. Gap(m, p, last[m])
      BY <1>3, <1>4, <2>5, GapFrom
    <3> QED BY <1>2, <1>7, <3>1 DEF Gap
  <2>10. Gap(m, n, c)'
    BY <1>7, <2>7 DEF Gap
  <2>11. c.seq >= last[m].seq \/ <<m, c.event>> \in late
    <3> SUFFICES ASSUME c.seq < last[m].seq, <<m, c.event>> \notin late PROVE FALSE
      BY <1>3, <2>4
    <3>1. c \in Due(m)
      BY <1>1, <1>3, <1>4, <1>5, <2>3, <2>4 DEF Due, Wanted
    <3>2. c = last[m]
      BY <1>3, <1>4, <2>4, <3>1 DEF Gap
    <3> QED BY <2>4, <3>2
  <2>12. Candidate(m, n, c)'
    BY <1>2, <1>3, <2>4, <2>6, <2>10, <2>11 DEF Candidate
  <2>13. PICK w : w = mem'
    OBVIOUS
  <2>14. w.cursor = p /\ w.retry = NoRetry
    BY <1>2, <1>3, <2>2, <2>13 DEF Positions
  <2>15. Sound(m, w)'
    <3>1. since'[m] <= p /\ p <= reach'[m]
      BY <1>2, <1>3, <1>4, <1>8, <2>4, <2>5, <2>6
    <3> QED BY <2>8, <2>9, <2>14, <3>1 DEF Sound
  <2>16. state'[m].cursor = n /\ state'[m].retry = NoRetry
         /\ state'[m].retry.row = w.retry.row
    BY <1>2, <1>3, <2>14
  <2> QED BY <1>11, <2>2, <2>4, <2>5, <2>12, <2>13, <2>14, <2>15, <2>16 DEF PassInv
<1> QED BY <1>9, <1>10, <1>11 DEF Scan, Leave

\* An attempt is made at the next due row, or one that is late: if it arrives,
\* or is given up, delivery goes on behind it; if not, it stays next.
LEMMA AttemptStep ==
  ASSUME DeliveryInv, [WebhookNext]_webhookVars, Attempt
  PROVE  PassInv' /\ EndpointInv(mine)'
<1>1. PICK m, n, s, c : m = mine /\ n = state[mine].cursor /\ s = mem /\ c = cand
  OBVIOUS
<1>2. at = "attempt" /\ at \in Pass /\ mine' = m /\ cand' = c
      /\ UNCHANGED <<rows, late, subscribed, since, reach, state, letters>>
  BY <1>1 DEF Attempt, Pass, streamVars, subVars
<1>3. /\ m \in subscribed /\ m \in Endpoints /\ n \in Nat /\ s \in Positions
      /\ s.cursor \in Nat /\ since[m] \in Nat /\ reach[m] \in Nat /\ last[m].seq \in Nat
      /\ last \in [Endpoints -> RowType \cup {NoRow}]
      /\ EndpointInv(m)
      /\ \A q \in Due(m) : q.seq \in Nat
  BY <1>1, <1>2, PassFacts DEF DeliveryInv, WorkerTypes
<1>4. /\ Sound(m, s) /\ Candidate(m, n, c) /\ n <= s.cursor /\ s.cursor <= c.seq
      /\ s.retry # NoRetry => s.retry.row = c
      /\ (s.retry = NoRetry <=> state[m].retry = NoRetry)
      /\ s.retry.row = state[m].retry.row
  BY <1>1, <1>2 DEF DeliveryInv, PassInv
<1>5. c \in RowType /\ c.seq \in Nat /\ c.seq <= reach[m]
  BY <1>4 DEF Candidate, RowType
<1>6. /\ since[m] <= s.cursor /\ s.cursor <= reach[m]
      /\ Behind(m, s.cursor) /\ Gap(m, s.cursor, last[m])
  BY <1>4 DEF Sound
<1>7. Gap(m, s.cursor, c)
  BY <1>3, <1>4, GapFrom DEF Candidate
<1>8. /\ Due(m)' = Due(m)
      /\ \A e : Settled(m, e) => Settled(m, e)'
  <2>1. Kept(m)
    BY <1>3, AllKept
  <2> QED BY <1>2, <2>1, DueSame DEF Kept, Settled
<1>9. \A q \in Due(m) : q.seq <= c.seq /\ q.event # c.event => Settled(m, q.event)
  <2> SUFFICES ASSUME NEW q \in Due(m), q.seq <= c.seq, q.event # c.event
               PROVE  Settled(m, q.event)
    OBVIOUS
  <2>1. ~(s.cursor < q.seq)
    BY <1>7 DEF Gap
  <2> QED BY <1>3, <1>6, <2>1 DEF Behind
<1>10. PICK l : l = last'[m]
  OBVIOUS
<1>11. \/ l = c /\ got' = got \cup {<<m, c.event>>}
       \/ l = last[m] /\ got' = got
  BY <1>1, <1>3, <1>5, <1>10 DEF Attempt, Receive, receiverVars
<1>12. l.seq \in Nat /\ l.seq <= reach[m] /\ Gap(m, s.cursor, l) /\ Gap(m, c.seq, l)
       /\ Gap(m, n, l)
  <2>1. CASE l = c
    BY <1>3, <1>4, <1>5, <1>7, <2>1 DEF Gap, Candidate
  <2>2. CASE l = last[m]
    <3>1. Gap(m, c.seq, last[m])
      BY <1>3, <1>4, <1>5, <1>6, GapFrom
    <3> QED BY <1>1, <1>3, <1>6, <2>2, <3>1 DEF EndpointInv, Sound
  <2> QED BY <1>11, <2>1, <2>2
<1>13. c.seq >= l.seq \/ <<m, c.event>> \in late
  BY <1>4, <1>5, <1>11 DEF Candidate
<1>14. \A k : Gap(m, k, l) => Gap(m, k, last[m])'
  BY <1>8, <1>10 DEF Gap
<1>15. \A k \in Nat : Gap(m, k, c) /\ k <= c.seq => Candidate(m, k, c)'
  <2> SUFFICES ASSUME NEW k \in Nat, Gap(m, k, c), k <= c.seq PROVE Candidate(m, k, c)'
    OBVIOUS
  <2>1. Gap(m, k, c)'
    BY <1>8 DEF Gap
  <2> QED BY <1>2, <1>5, <1>10, <1>13, <2>1 DEF Candidate
<1>16. EndpointInv(m)'
  <2>1. CASE l = last[m]
    BY <1>2, <1>3, <1>10, <2>1, EndpointKept
  <2>2. CASE l = c
    <3>1. PICK r : r = state[m]
      OBVIOUS
    <3>2. since[m] <= r.cursor /\ r.cursor <= reach[m] /\ Behind(m, r.cursor) /\ r.cursor = n
      BY <1>1, <1>3, <3>1 DEF EndpointInv, Sound
    <3>3. Behind(m, r.cursor)'
      BY <1>8, <3>2 DEF Behind
    <3>4. Gap(m, r.cursor, last[m])'
      BY <1>12, <1>14, <3>2
    <3>5. r.retry # NoRetry => r.retry.row = c
      BY <1>4, <3>1
    <3>6. Candidate(m, r.cursor, c)'
      <4>1. Gap(m, n, c) /\ n <= c.seq
        BY <1>4 DEF Candidate
      <4> QED BY <1>3, <1>15, <3>2, <4>1
    <3>7. Sound(m, r)'
      BY <1>2, <3>2, <3>3, <3>4, <3>5, <3>6 DEF Sound
    <3>8. state'[m] = r /\ last'[m].seq <= reach'[m]
      BY <1>2, <1>10, <1>12, <3>1
    <3> QED BY <3>7, <3>8 DEF EndpointInv
  <2> QED BY <1>11, <2>1, <2>2
<1>17. PICK w : w = mem'
  OBVIOUS
<1>18. at' \in {"save", "letter"} => w.cursor = c.seq /\ w.retry = NoRetry
  <2>1. at' \in {"save", "letter"} => mem' = Done
    BY DEF Attempt, GiveUp
  <2> QED BY <1>1, <1>3, <1>17, <2>1 DEF Done, Positions
<1>19. since'[m] <= c.seq /\ c.seq <= reach'[m] /\ Gap(m, c.seq, last[m])'
  BY <1>2, <1>3, <1>4, <1>5, <1>6, <1>12, <1>14
<1>20. ASSUME at' = "save" PROVE PassInv'
  <2>1. got' = got \cup {<<m, c.event>>}
    BY <1>1, <1>20 DEF Attempt, Receive, GiveUp
  <2>2. Behind(m, w.cursor)'
    BY <1>8, <1>9, <1>18, <1>20, <2>1 DEF Behind, Settled
  <2>3. Gap(m, w.cursor, last[m])'
    BY <1>18, <1>19, <1>20
  <2>4. Sound(m, w)'
    BY <1>18, <1>19, <1>20, <2>2, <2>3 DEF Sound
  <2> QED BY <1>2, <1>17, <1>18, <1>20, <2>4 DEF PassInv
<1>21. ASSUME at' = "letter" PROVE PassInv'
  <2>1. ASSUME NEW q \in Due(m)', q.seq <= c.seq, q.event # c.event
        PROVE  Settled(m, q.event)'
    <3>1. Settled(m, q.event)
      BY <1>8, <1>9, <2>1
    <3> QED BY <1>8, <3>1
  <2> QED BY <1>2, <1>17, <1>18, <1>19, <1>21, <2>1 DEF PassInv
<1>22. ASSUME at' = "park" PROVE PassInv'
  <2>1. w.cursor = s.cursor /\ w.retry.row = c
    BY <1>1, <1>3, <1>17, <1>22 DEF Attempt, GiveUp, Positions
  <2>2. Behind(m, w.cursor)'
    BY <1>6, <1>8, <2>1 DEF Behind
  <2>3. Gap(m, w.cursor, last[m])'
    BY <1>12, <1>14, <2>1
  <2>4. Candidate(m, w.cursor, c)'
    BY <1>3, <1>4, <1>7, <1>15, <2>1
  <2>5. since'[m] <= s.cursor /\ s.cursor <= reach'[m]
    BY <1>2, <1>6
  <2>6. Sound(m, w)'
    BY <2>1, <2>2, <2>3, <2>4, <2>5 DEF Sound
  <2> QED BY <1>2, <1>17, <1>22, <2>6 DEF PassInv
<1>23. at' \in {"save", "letter", "park"}
  BY DEF Attempt, GiveUp
<1>24. EndpointInv(mine)'
  BY <1>2, <1>16
<1> QED BY <1>20, <1>21, <1>22, <1>23, <1>24

\* A dead letter is written before the cursor passes the event.
LEMMA LetterStep ==
  ASSUME DeliveryInv, [WebhookNext]_webhookVars, WriteDeadLetter
  PROVE  PassInv'
<1>1. PICK m, s, c : m = mine /\ s = mem /\ c = cand
  OBVIOUS
<1>2. at = "letter" /\ at \in Pass /\ mine' = m /\ mem' = s /\ at' = "park"
      /\ letters' = letters \cup {<<m, c.event>>}
      /\ UNCHANGED <<rows, late, subscribed, since, reach, got, last>>
  BY <1>1 DEF WriteDeadLetter, Pass, streamVars, subVars, receiverVars
<1>3. /\ since[m] <= s.cursor /\ s.cursor <= reach[m]
      /\ \A q \in Due(m) : q.seq <= s.cursor /\ q.event # c.event => Settled(m, q.event)
      /\ Gap(m, s.cursor, last[m])
      /\ s.retry = NoRetry
  BY <1>1, <1>2 DEF DeliveryInv, PassInv
<1>4. Due(m)' = Due(m)
  BY <1>2, DueSame
<1>5. Behind(m, s.cursor)'
  BY <1>2, <1>3, <1>4 DEF Behind, Settled
<1>6. Gap(m, s.cursor, last[m])'
  BY <1>2, <1>3, <1>4 DEF Gap
<1>7. Sound(m, s)'
  BY <1>2, <1>3, <1>5, <1>6 DEF Sound
<1> QED BY <1>2, <1>7 DEF PassInv

\* A retry is of the row that failed.
LEMMA RetryStep ==
  ASSUME DeliveryInv, [WebhookNext]_webhookVars, Retry
  PROVE  PassInv'
<1>1. PICK m, s, t : m = mine /\ s = mem /\ t = state[mine]
  OBVIOUS
<1>2. at = "next" /\ at \in Pass /\ s.retry # NoRetry
      /\ UNCHANGED <<rows, late, subscribed, since, reach, state, got, letters, last>>
  BY <1>1 DEF Retry, Pass, streamVars, subVars, receiverVars
<1>3. CASE at' = "tick"
  BY <1>3 DEF PassInv
<1>4. CASE at' = "attempt"
  <2>1. cand' = s.retry.row /\ mine' = m /\ mem' = s /\ state' = state
    BY <1>1, <1>2, <1>4 DEF Retry, Leave
  <2>2. /\ m \in subscribed /\ EndpointInv(m)' /\ s.cursor = t.cursor /\ s.retry.row = t.retry.row
        /\ t.retry # NoRetry
    BY <1>1, <1>2, PassFacts, EndpointKept DEF DeliveryInv, PassInv
  <2>3. Sound(m, t)'
    BY <1>1, <2>1, <2>2 DEF EndpointInv
  <2>4. PICK c : c = s.retry.row
    OBVIOUS
  <2>5. Candidate(m, t.cursor, c)'
    BY <2>2, <2>3, <2>4 DEF Sound
  <2>6. Sound(m, s)'
    BY <2>2, <2>3 DEF Sound
  <2>7. PICK n : n = t.cursor
    OBVIOUS
  <2>8. Candidate(m, n, c)' /\ n <= c.seq /\ n \in Nat
    BY <1>1, <1>2, <2>5, <2>7, PassFacts DEF Candidate
  <2>9. state'[m] = t
    BY <1>1, <1>2
  <2> QED BY <1>2, <1>4, <2>1, <2>2, <2>4, <2>6, <2>7, <2>8, <2>9 DEF PassInv
<1> QED BY <1>3, <1>4 DEF Retry, Leave

\* What is due to an endpoint that has just subscribed comes after.
LEMMA SubscribeStep ==
  ASSUME DeliveryInv, [WebhookNext]_webhookVars, NEW p \in Endpoints, Subscribe(p)
  PROVE  EndpointInv(p)'
<1>1. PICK n : n = Latest
  OBVIOUS
<1>2. n \in Nat /\ \A r \in rows : r.seq <= n /\ r.seq \in Nat
  BY <1>1, LatestNat DEF DeliveryInv, StreamInv, RowType
<1>3. /\ p \notin subscribed /\ rows' = rows /\ last' = last
      /\ since' = [since EXCEPT ![p] = n] /\ reach' = [reach EXCEPT ![p] = n]
      /\ state' = [state EXCEPT ![p] = Fresh(n)]
  BY <1>1 DEF Subscribe, streamVars, receiverVars
<1>4. since'[p] = n /\ reach'[p] = n /\ state'[p] = Fresh(n) /\ last'[p] = NoRow
  BY <1>3 DEF DeliveryInv, WorkerTypes
<1>5. Due(p)' = {}
  BY <1>2, <1>3, <1>4 DEF Due
<1>6. PICK t : t = Fresh(n)
  OBVIOUS
<1>7. t.cursor = n /\ t.retry = NoRetry /\ NoRow.seq = 0
  BY <1>6 DEF Fresh, NoRow, Row
<1>8. Behind(p, n)' /\ Gap(p, n, last[p])'
  BY <1>5 DEF Behind, Gap
<1>9. Sound(p, t)'
  BY <1>2, <1>4, <1>7, <1>8 DEF Sound
<1> QED BY <1>2, <1>4, <1>6, <1>7, <1>9 DEF EndpointInv

\* A save makes durable what the worker holds.
LEMMA SaveStep ==
  ASSUME DeliveryInv, [WebhookNext]_webhookVars, Save
  PROVE  PassInv' /\ \A p \in subscribed : EndpointInv(p)'
<1>1. PICK m, s : m = mine /\ s = mem
  OBVIOUS
<1>2. /\ at \in {"save", "park"} /\ at \in Pass /\ last' = last
      /\ state' = [state EXCEPT ![m] = s]
  BY <1>1 DEF Save, Pass, receiverVars
<1>3. /\ m \in subscribed /\ m \in Endpoints /\ s \in Positions
      /\ since[m] \in Nat /\ last[m].seq \in Nat /\ last[m].seq <= reach[m]
      /\ Sound(m, s)
  BY <1>1, <1>2, PassFacts DEF DeliveryInv, PassInv, EndpointInv
<1>4. Kept(m)
  BY <1>3, AllKept
<1>5. Sound(m, s)'
  BY <1>2, <1>3, <1>4, SoundKept
<1>6. state'[m] = s /\ \A p \in subscribed : p # m => state'[p] = state[p]
  BY <1>2, <1>3 DEF DeliveryInv, WorkerTypes
<1>7. last'[m].seq <= reach'[m]
  <2>1. reach[m] \in Nat
    BY <1>1, <1>2, PassFacts
  <2> QED BY <1>2, <1>3, <1>4, <2>1 DEF Kept
<1>8. EndpointInv(m)'
  BY <1>5, <1>6, <1>7 DEF EndpointInv
<1>9. \A p \in subscribed : EndpointInv(p)'
  BY <1>2, <1>6, <1>8, EndpointKept
<1>10. PassInv'
  <2>1. CASE at' = "tick"
    BY <2>1 DEF PassInv
  <2>2. CASE at' = "next" /\ mine' = m /\ mem' = s
    BY <1>6, <2>2 DEF PassInv
  <2> QED BY <1>1, <2>1, <2>2 DEF Save, Leave
<1> QED BY <1>9, <1>10

\* The end of a backoff changes no position.
LEMMA ElapseStep ==
  ASSUME DeliveryInv, [WebhookNext]_webhookVars, NEW p \in Endpoints, Elapse(p)
  PROVE  PassInv' /\ \A ep \in subscribed : EndpointInv(ep)'
<1>1. PICK t, u : t = state[p] /\ u = [t EXCEPT !.retry.due = TRUE]
  OBVIOUS
<1>2. /\ state' = [state EXCEPT ![p] = u] /\ t.retry # NoRetry
      /\ UNCHANGED workerVars /\ last' = last
  BY <1>1 DEF Elapse, receiverVars
<1>3. /\ t \in Positions /\ state'[p] = u /\ p \in subscribed
      /\ \A ep \in subscribed : ep # p => state'[ep] = state[ep]
  BY <1>1, <1>2 DEF DeliveryInv, WorkerTypes
<1>4. u.cursor = t.cursor /\ u.retry.row = t.retry.row /\ u.retry # NoRetry
  BY <1>1, <1>3 DEF Positions, Retries, NoRetry
<1>5. EndpointInv(p)'
  <2>1. /\ Sound(p, t) /\ since[p] \in Nat /\ last[p].seq \in Nat /\ last[p].seq <= reach[p]
        /\ reach[p] \in Nat
    BY <1>1, <1>3 DEF DeliveryInv, EndpointInv, WorkerTypes, RowType, NoRow, Row
  <2>2. Kept(p)
    BY <1>3, AllKept
  <2>3. Sound(p, t)'
    BY <1>2, <1>3, <2>1, <2>2, SoundKept
  <2>4. Sound(p, u)'
    BY <1>2, <1>4, <2>3 DEF Sound
  <2>5. last'[p].seq <= reach'[p]
    BY <1>2, <2>1, <2>2 DEF Kept
  <2> QED BY <1>3, <2>4, <2>5 DEF EndpointInv
<1>6. \A ep \in subscribed : EndpointInv(ep)'
  BY <1>2, <1>3, <1>5, EndpointKept
<1>7. PassInv'
  <2>1. at \in Pass => mine \in subscribed
    BY DEF DeliveryInv, WorkerTypes
  <2>2. at \in Pass =>
          /\ state'[mine].cursor = state[mine].cursor
          /\ state'[mine].retry.row = state[mine].retry.row
          /\ (state'[mine].retry = NoRetry <=> state[mine].retry = NoRetry)
          /\ last'[mine] = last[mine]
    BY <1>1, <1>2, <1>3, <1>4, <2>1
  <2> QED BY <1>2, <2>2, PassKept
<1> QED BY <1>6, <1>7

\* Every step keeps the invariant of the delivery.
LEMMA DeliveryNext ==
  ASSUME DeliveryInv, [WebhookNext]_webhookVars
  PROVE  DeliveryInv'
<1>1. StreamInv' /\ WorkerTypes'
  BY StreamStep, WorkerTypesStep
<1>2. at \in Pass => mine \in subscribed
  BY DEF DeliveryInv, WorkerTypes
<1>3. ASSUME subscribed' = subscribed, state' = state, last' = last
      PROVE  \A ep \in subscribed' : EndpointInv(ep)'
  BY <1>3, EndpointKept
<1>4. CASE (\E e \in Events : AppendLine(e) \/ Insert(e)) \/ (\E r \in flight : Commit(r))
           \/ UNCHANGED webhookVars
  <2>1. UNCHANGED <<subscribed, state, last, workerVars>>
    BY <1>4 DEF AppendLine, Insert, Commit, webhookVars, subVars, receiverVars
  <2>2. PassInv'
    BY <2>1, PassKept
  <2> QED BY <1>1, <1>3, <2>1, <2>2 DEF DeliveryInv
<1>5. CASE Crash \/ StoreThrows \/ Restart \/ StartTick \/ EndTick
  <2>1. UNCHANGED <<subscribed, state, last>> /\ at' \in {"asleep", "tick", "down"}
    BY <1>5 DEF Crash, StoreThrows, Restart, StartTick, EndTick, Leave, subVars, receiverVars
  <2>2. PassInv'
    BY <2>1 DEF PassInv
  <2> QED BY <1>1, <1>3, <2>1, <2>2 DEF DeliveryInv
<1>6. ASSUME NEW ep \in Endpoints, Pick(ep) PROVE DeliveryInv'
  <2>1. /\ UNCHANGED <<subscribed, state, last>>
        /\ at' = "next" /\ mine' = ep /\ mem' = state[ep]
    BY <1>6 DEF Pick, subVars, receiverVars
  <2>2. PassInv'
    BY <2>1 DEF PassInv
  <2> QED BY <1>1, <1>3, <2>1, <2>2 DEF DeliveryInv
<1>7. CASE Retry \/ Scan \/ WriteDeadLetter
  <2>1. UNCHANGED <<subscribed, state, last>>
    BY <1>7 DEF Retry, Scan, WriteDeadLetter, subVars, receiverVars
  <2>2. PassInv'
    BY <1>7, RetryStep, ScanStep, LetterStep
  <2> QED BY <1>1, <1>3, <2>1, <2>2 DEF DeliveryInv
<1>8. CASE Attempt
  <2>1. UNCHANGED <<subscribed, state, mine>> /\ mine \in subscribed
        /\ \A ep : ep # mine => last'[ep] = last[ep] \/ ep \notin Endpoints
    BY <1>2, <1>8 DEF Attempt, Receive, subVars, receiverVars, Pass, DeliveryInv, WorkerTypes
  <2>2. PassInv' /\ EndpointInv(mine)'
    BY <1>8, AttemptStep
  <2>3. ASSUME NEW ep \in subscribed' PROVE EndpointInv(ep)'
    <3>1. CASE ep = mine
      BY <2>1, <2>2, <3>1
    <3>2. CASE ep # mine
      BY <2>1, <3>2, EndpointKept DEF DeliveryInv, WorkerTypes
    <3> QED BY <3>1, <3>2
  <2> QED BY <1>1, <2>2, <2>3 DEF DeliveryInv
<1>9. CASE Save
  <2>1. subscribed' = subscribed
    BY <1>9 DEF Save, subVars
  <2> QED BY <1>1, <1>9, <2>1, SaveStep DEF DeliveryInv
<1>10. ASSUME NEW p \in Endpoints, Elapse(p) PROVE DeliveryInv'
  <2>1. subscribed' = subscribed
    BY <1>10 DEF Elapse, subVars
  <2> QED BY <1>1, <1>10, <2>1, ElapseStep DEF DeliveryInv
<1>11. ASSUME NEW p \in Endpoints, Subscribe(p) PROVE DeliveryInv'
  <2>1. /\ p \notin subscribed /\ subscribed' = subscribed \cup {p} /\ last' = last
        /\ UNCHANGED workerVars
        /\ \A ep : ep # p /\ ep \in Endpoints => state'[ep] = state[ep]
    BY <1>11 DEF Subscribe, receiverVars, DeliveryInv, WorkerTypes
  <2>2. PassInv'
    <3>1. at \in Pass => state'[mine] = state[mine]
      BY <1>2, <2>1 DEF DeliveryInv, WorkerTypes
    <3> QED BY <2>1, <3>1, PassKept
  <2>3. ASSUME NEW ep \in subscribed PROVE EndpointInv(ep)'
    <3>1. state'[ep] = state[ep] /\ last'[ep] = last[ep]
      BY <2>1 DEF DeliveryInv, WorkerTypes
    <3> QED BY <3>1, EndpointKept
  <2>4. EndpointInv(p)'
    BY <1>11, SubscribeStep
  <2> QED BY <1>1, <2>1, <2>2, <2>3, <2>4 DEF DeliveryInv
<1> QED BY <1>4, <1>5, <1>6, <1>7, <1>8, <1>9, <1>10, <1>11 DEF WebhookNext, WorkerStep

\* DeliveryInv holds in every state.
LEMMA DeliveryInvariant == WebhookSpec => []DeliveryInv
<1>1. WebhookInit => DeliveryInv
  BY DeliveryInit
<1>2. DeliveryInv /\ [WebhookNext]_webhookVars => DeliveryInv'
  BY DeliveryNext
<1> QED BY <1>1, <1>2, PTL DEF WebhookSpec

\* OrderedDelivery: an endpoint receives its events in the order of the stream,
\* each with everything due before it already received or in the dead letters,
\* whatever fails, crashes or becomes readable late.
THEOREM DeliveredInOrder == WebhookSpec => OrderedDelivery
<1> DEFINE InOrder ==
      \A ep \in Endpoints : last'[ep] # last[ep] =>
        /\ last'[ep].seq >= last[ep].seq \/ <<ep, last'[ep].event>> \in late
        /\ \A q \in Due(ep) : q.seq < last'[ep].seq => Settled(ep, q.event)
<1>1. ASSUME DeliveryInv, [WebhookNext]_webhookVars PROVE [InOrder]_last
  <2> SUFFICES ASSUME NEW ep \in Endpoints, last'[ep] # last[ep]
               PROVE  /\ last'[ep].seq >= last[ep].seq \/ <<ep, last'[ep].event>> \in late
                      /\ \A q \in Due(ep) : q.seq < last'[ep].seq => Settled(ep, q.event)
    OBVIOUS
  <2>1. Attempt
    BY <1>1 DEF WebhookNext, WorkerStep, StartTick, EndTick, Pick, Retry, Scan,
       WriteDeadLetter, Save, Restart, AppendLine, Insert, Commit, Subscribe, Elapse,
       StoreThrows, Crash, webhookVars, receiverVars
  <2>2. at = "attempt" /\ at \in Pass /\ ep = mine /\ last'[ep] = cand
    BY <1>1, <2>1 DEF Attempt, Receive, receiverVars, Pass, DeliveryInv, WorkerTypes
  <2>3. /\ Sound(ep, mem) /\ Candidate(ep, state[ep].cursor, cand)
        /\ state[ep].cursor <= mem.cursor
    BY <1>1, <2>2 DEF DeliveryInv, PassInv
  <2>4. state[ep].cursor \in Nat /\ mem.cursor \in Nat /\ \A q \in Due(ep) : q.seq \in Nat
    BY <1>1, <2>2, PassFacts
  <2>5. cand.seq \in Nat
    BY <2>3 DEF Candidate, RowType
  <2>6. ASSUME NEW q \in Due(ep), q.seq < cand.seq PROVE Settled(ep, q.event)
    <3>1. CASE q.seq <= mem.cursor
      BY <2>3, <3>1 DEF Sound, Behind
    <3>2. CASE state[ep].cursor < q.seq
      BY <2>3, <2>4, <2>5, <2>6, <3>2 DEF Candidate, Gap
    <3> QED BY <2>3, <2>4, <3>1, <3>2
  <2> QED BY <2>2, <2>3, <2>6 DEF Candidate
<1>2. DeliveryInv /\ [WebhookNext]_webhookVars => [InOrder]_last
  BY <1>1
<1> QED BY <1>2, DeliveryInvariant, PTL DEF WebhookSpec, OrderedDelivery

-----------------------------------------------------------------------------
\* The agent tree.

\* Induction up to n, for a property given as the set of numbers that have it.
LEMMA UpTo ==
  ASSUME NEW n \in Nat, NEW S, 0 \in S,
         \A k \in 0..n : k \in S /\ k < n => k + 1 \in S
  PROVE  0..n \subseteq S
<1>1. SUFFICES ASSUME {k \in 0..n : k \notin S} # {} PROVE FALSE
  OBVIOUS
<1>2. PICK m \in {k \in 0..n : k \notin S} : \A k \in {i \in 0..n : i \notin S} : m <= k
  <2>1. {k \in 0..n : k \notin S} \in SUBSET Nat
    OBVIOUS
  <2> QED BY <1>1, <2>1, LeastNat
<1>3. m - 1 \in 0..n /\ m - 1 \in S
  <2>1. m # 0
    BY <1>2
  <2>2. m - 1 \in 0..n
    BY <1>2, <2>1
  <2> QED BY <1>2, <2>2
<1> QED BY <1>2, <1>3

\* The powers of two.
LEMMA PowerDef ==
  /\ Power[0] = 1
  /\ \A d \in 0..MaxAgents : d > 0 => Power[d] = 2 * Power[d - 1]
<1> DEFINE P(d, f) == IF d = 0 THEN 1 ELSE 2 * f[d - 1]
           Good == {n \in Nat : \E f : f = [d \in 0..n |-> P(d, f)]}
<1>1. MaxAgents \in Nat
  BY MerkleAssumption
<1>2. 0 \in Good
  <2>1. PICK f : f = [d \in 0..0 |-> 1]
    OBVIOUS
  <2>2. f = [d \in 0..0 |-> P(d, f)]
    BY <2>1
  <2> QED BY <2>2
<1>3. ASSUME NEW k \in 0..MaxAgents, k \in Good, k < MaxAgents PROVE k + 1 \in Good
  <2>1. PICK f : f = [d \in 0..k |-> P(d, f)]
    BY <1>3
  <2>2. PICK g : g = [d \in 0..(k + 1) |-> IF d <= k THEN f[d] ELSE 2 * f[k]]
    OBVIOUS
  <2>3. \A d \in 0..(k + 1) : g[d] = P(d, g)
    BY <2>1, <2>2
  <2>4. g = [d \in 0..(k + 1) |-> P(d, g)]
    BY <2>2, <2>3
  <2> QED BY <2>4
<1>4. MaxAgents \in Good
  <2> HIDE DEF Good
  <2>1. 0..MaxAgents \subseteq Good
    BY <1>1, <1>2, <1>3, UpTo
  <2> QED BY <1>1, <2>1
<1>5. PICK f : f = [d \in 0..MaxAgents |-> IF d = 0 THEN 1 ELSE 2 * f[d - 1]]
  BY <1>4
<1>6. Power = [d \in 0..MaxAgents |-> IF d = 0 THEN 1 ELSE 2 * Power[d - 1]]
  BY <1>5, Zenon DEF Power
<1> QED BY <1>1, <1>6

\* A power of two is larger than its exponent.
LEMMA PowerLarge == \A d \in 0..MaxAgents : Power[d] \in Nat /\ Power[d] > d
<1> DEFINE Good == {d \in 0..MaxAgents : Power[d] \in Nat /\ Power[d] > d}
<1>1. MaxAgents \in Nat /\ 0 \in Good
  BY PowerDef, MerkleAssumption
<1>2. \A k \in 0..MaxAgents : k \in Good /\ k < MaxAgents => k + 1 \in Good
  <2> SUFFICES ASSUME NEW k \in 0..MaxAgents, k \in Good, k < MaxAgents PROVE k + 1 \in Good
    OBVIOUS
  <2>1. k + 1 \in 0..MaxAgents /\ (k + 1) - 1 = k
    BY <1>1
  <2>2. Power[k + 1] = 2 * Power[k]
    BY <2>1, PowerDef
  <2> QED BY <2>1, <2>2
<1>3. 0..MaxAgents \subseteq Good
  <2> HIDE DEF Good
  <2> QED BY <1>1, <1>2, UpTo
<1> QED BY <1>3

\* Width: a power of two that is large enough.
LEMMA WidthFits ==
  ASSUME NEW n \in 0..MaxAgents
  PROVE  Width(n) \in Powers /\ Width(n) >= n
<1> DEFINE Fits == {w \in Powers : w >= n}
<1>1. MaxAgents \in Nat /\ MaxAgents \in 0..MaxAgents
  BY MerkleAssumption
<1>2. Fits \in SUBSET Nat
  BY PowerLarge DEF Powers
<1>3. Power[MaxAgents] \in Fits
  BY <1>1, PowerLarge DEF Powers
<1>4. PICK w \in Fits : \A v \in Fits : w <= v
  BY <1>2, <1>3, LeastNat
<1> QED BY <1>4 DEF Width

\* Halvings, unfolded.
LEMMA HalvingsDef ==
  ASSUME NEW n \in Nat, NEW depth \in Nat
  PROVE  /\ Halvings(n, depth)[0] = n
         /\ \A d \in 1..depth : Halvings(n, depth)[d] = Halvings(n, depth)[d - 1] \div 2
         /\ \A d \in 0..depth : Halvings(n, depth)[d] \in Nat
<1> DEFINE P(d, f) == IF d = 0 THEN n ELSE f[d - 1] \div 2
           Good == {k \in Nat : \E f : f = [d \in 0..k |-> P(d, f)]}
<1>1. 0 \in Good
  <2>1. PICK f : f = [d \in 0..0 |-> n]
    OBVIOUS
  <2>2. f = [d \in 0..0 |-> P(d, f)]
    BY <2>1
  <2> QED BY <2>2
<1>2. ASSUME NEW k \in 0..depth, k \in Good, k < depth PROVE k + 1 \in Good
  <2>1. PICK f : f = [d \in 0..k |-> P(d, f)]
    BY <1>2
  <2>2. PICK g : g = [d \in 0..(k + 1) |-> IF d <= k THEN f[d] ELSE f[k] \div 2]
    OBVIOUS
  <2>3. \A d \in 0..(k + 1) : g[d] = P(d, g)
    BY <2>1, <2>2
  <2>4. g = [d \in 0..(k + 1) |-> P(d, g)]
    BY <2>2, <2>3
  <2> QED BY <2>4
<1>3. depth \in Good
  <2> HIDE DEF Good
  <2>1. 0..depth \subseteq Good
    BY <1>1, <1>2, UpTo
  <2> QED BY <2>1
<1>4. PICK f : f = [d \in 0..depth |-> IF d = 0 THEN n ELSE f[d - 1] \div 2]
  BY <1>3
<1>5. PICK h : h = Halvings(n, depth)
  OBVIOUS
<1>6. h = [d \in 0..depth |-> IF d = 0 THEN n ELSE h[d - 1] \div 2]
  BY <1>4, <1>5, Zenon DEF Halvings
<1>7. h[0] = n /\ \A d \in 1..depth : h[d] = h[d - 1] \div 2
  BY <1>6
<1> DEFINE Whole == {d \in 0..depth : h[d] \in Nat}
<1>8. 0 \in Whole /\ \A k \in 0..depth : k \in Whole /\ k < depth => k + 1 \in Whole
  BY <1>7
<1>9. 0..depth \subseteq Whole
  <2> HIDE DEF Whole
  <2> QED BY <1>8, UpTo
<1> QED BY <1>5, <1>7, <1>9

\* Walk, unfolded.
LEMMA WalkDef ==
  ASSUME NEW leaf, NEW siblings, NEW bits, NEW depth \in Nat, Len(siblings) = depth
  PROVE  /\ Walk(leaf, siblings, bits)[0] = leaf
         /\ \A d \in 1..depth :
              Walk(leaf, siblings, bits)[d] =
                IF Halvings(bits, depth)[d - 1] % 2 = 1
                THEN Node(siblings[d], Walk(leaf, siblings, bits)[d - 1])
                ELSE Node(Walk(leaf, siblings, bits)[d - 1], siblings[d])
<1> DEFINE left == Halvings(bits, depth)
           P(d, f) == IF d = 0 THEN leaf
                      ELSE IF left[d - 1] % 2 = 1 THEN Node(siblings[d], f[d - 1])
                                                  ELSE Node(f[d - 1], siblings[d])
           Good == {k \in Nat : \E f : f = [d \in 0..k |-> P(d, f)]}
<1>1. 0 \in Good
  <2>1. PICK f : f = [d \in 0..0 |-> leaf]
    OBVIOUS
  <2>2. f = [d \in 0..0 |-> P(d, f)]
    BY <2>1
  <2> QED BY <2>2
<1>2. ASSUME NEW k \in 0..depth, k \in Good, k < depth PROVE k + 1 \in Good
  <2>1. PICK f : f = [d \in 0..k |-> P(d, f)]
    BY <1>2
  <2>2. PICK g : g = [d \in 0..(k + 1) |-> IF d <= k THEN f[d] ELSE P(d, f)]
    OBVIOUS
  <2>3. \A d \in 0..(k + 1) : g[d] = P(d, g)
    BY <2>1, <2>2
  <2>4. g = [d \in 0..(k + 1) |-> P(d, g)]
    BY <2>2, <2>3
  <2> QED BY <2>4
<1>3. depth \in Good
  <2> HIDE DEF Good
  <2>1. 0..depth \subseteq Good
    BY <1>1, <1>2, UpTo
  <2> QED BY <2>1
<1>4. PICK w : w = Walk(leaf, siblings, bits)
  OBVIOUS
<1>5. PICK f : f = [d \in 0..depth |-> P(d, f)]
  BY <1>3
<1>6. w = [d \in 0..depth |-> P(d, w)]
  BY <1>4, <1>5, Zenon DEF Walk
<1> QED BY <1>4, <1>6

\* A walk starts at its leaf.
LEMMA WalkStart ==
  ASSUME NEW leaf, NEW siblings, NEW bits, Len(siblings) \in Nat
  PROVE  Walk(leaf, siblings, bits)[0] = leaf
<1>1. PICK depth \in Nat : Len(siblings) = depth
  OBVIOUS
<1> QED BY <1>1, WalkDef

\* Levels, unfolded.
LEMMA LevelsDef ==
  ASSUME NEW reg
  PROVE  /\ Levels(reg)[0] = LeafLevel(reg)
         /\ \A d \in 1..MaxAgents :
              Levels(reg)[d] = [i \in 1..(Len(Levels(reg)[d - 1]) \div 2) |->
                                 Node(Levels(reg)[d - 1][2 * i - 1],
                                      Levels(reg)[d - 1][2 * i])]
<1> DEFINE P(d, f) == IF d = 0 THEN LeafLevel(reg)
                      ELSE [i \in 1..(Len(f[d - 1]) \div 2) |->
                              Node(f[d - 1][2 * i - 1], f[d - 1][2 * i])]
           Good == {k \in Nat : \E f : f = [d \in 0..k |-> P(d, f)]}
<1>0. MaxAgents \in Nat
  BY MerkleAssumption
<1>1. 0 \in Good
  <2>1. PICK f : f = [d \in 0..0 |-> LeafLevel(reg)]
    OBVIOUS
  <2>2. f = [d \in 0..0 |-> P(d, f)]
    BY <2>1
  <2> QED BY <2>2
<1>2. ASSUME NEW k \in 0..MaxAgents, k \in Good, k < MaxAgents PROVE k + 1 \in Good
  <2>1. PICK f : f = [d \in 0..k |-> P(d, f)]
    BY <1>2
  <2>2. PICK g : g = [d \in 0..(k + 1) |-> IF d <= k THEN f[d] ELSE P(d, f)]
    OBVIOUS
  <2>3. ASSUME NEW d \in 0..(k + 1) PROVE g[d] = P(d, g)
    <3>1. d # 0 => g[d - 1] = f[d - 1]
      BY <2>2
    <3>2. P(d, g) = P(d, f)
      BY <3>1
    <3>3. g[d] = P(d, f)
      <4>1. CASE d <= k
        <5>1. d \in 0..k /\ g[d] = f[d]
          BY <2>2, <4>1
        <5> HIDE DEF P
        <5> QED BY <2>1, <5>1
      <4>2. CASE ~(d <= k)
        <5> HIDE DEF P
        <5> QED BY <2>2, <4>2
      <4> QED BY <4>1, <4>2
    <3> QED BY <3>2, <3>3
  <2>4. g = [d \in 0..(k + 1) |-> P(d, g)]
    BY <2>2, <2>3
  <2> QED BY <2>4
<1>3. MaxAgents \in Good
  <2> HIDE DEF Good
  <2>1. 0..MaxAgents \subseteq Good
    BY <1>0, <1>1, <1>2, UpTo
  <2> QED BY <1>0, <2>1
<1>4. PICK l : l = Levels(reg)
  OBVIOUS
<1>5. PICK f : f = [d \in 0..MaxAgents |-> P(d, f)]
  BY <1>3
<1>6. l = [d \in 0..MaxAgents |-> P(d, l)]
  BY <1>4, <1>5, Zenon DEF Levels
<1> QED BY <1>0, <1>4, <1>6

\* A finite set of naturals can be put in ascending order.
LEMMA SortingExists ==
  ASSUME NEW P \in SUBSET Nat, IsFiniteSet(P)
  PROVE  \E s \in [1..Cardinality(P) -> P] :
           \A i, j \in 1..Cardinality(P) : i < j => s[i] < s[j]
<1> DEFINE Ascends(Q, s) == \A i, j \in 1..Cardinality(Q) : i < j => s[i] < s[j]
           Good == {k \in Nat : \A Q \in SUBSET P : Cardinality(Q) = k =>
                                  \E s \in [1..k -> Q] : Ascends(Q, s)}
<1>1. \A Q \in SUBSET P : IsFiniteSet(Q) /\ Cardinality(Q) \in Nat
  BY FS_Subset, FS_CardinalityType
<1>2. 0 \in Good
  <2> SUFFICES ASSUME NEW Q \in SUBSET P, Cardinality(Q) = 0
               PROVE  \E s \in [1..0 -> Q] : Ascends(Q, s)
    OBVIOUS
  <2>1. 1..0 = {}
    OBVIOUS
  <2>2. [i \in 1..0 |-> 0] \in [1..0 -> Q]
    BY <2>1
  <2>3. Ascends(Q, [i \in 1..0 |-> 0])
    BY <2>1
  <2> QED BY <2>2, <2>3
<1>3. ASSUME NEW k \in 0..Cardinality(P), k \in Good, k < Cardinality(P) PROVE k + 1 \in Good
  <2> SUFFICES ASSUME NEW Q \in SUBSET P, Cardinality(Q) = k + 1
               PROVE  \E s \in [1..(k + 1) -> Q] : Ascends(Q, s)
    OBVIOUS
  <2>1. Q # {}
    <3> HIDE DEF Good
    <3> SUFFICES ASSUME Q = {} PROVE FALSE
      OBVIOUS
    <3>1. k + 1 # 0
      OBVIOUS
    <3>2. Cardinality(Q) = 0
      BY FS_EmptySet, Zenon
    <3> QED BY <3>1, <3>2
  <2>2. PICK m \in Q : \A q \in Q : m <= q
    BY <2>1, LeastNat
  <2>3. PICK R : R = Q \ {m}
    OBVIOUS
  <2>4. R \in SUBSET P /\ Cardinality(R) = k /\ \A r \in R : m < r
    BY <1>1, <2>2, <2>3, FS_RemoveElement
  <2>5. PICK s \in [1..k -> R] : \A i, j \in 1..k : i < j => s[i] < s[j]
    BY <1>3, <2>4
  <2>6. PICK t : t = [i \in 1..(k + 1) |-> IF i = 1 THEN m ELSE s[i - 1]]
    OBVIOUS
  <2>7. t \in [1..(k + 1) -> Q]
    BY <2>2, <2>3, <2>5, <2>6
  <2>8. ASSUME NEW i \in 1..(k + 1), NEW j \in 1..(k + 1), i < j PROVE t[i] < t[j]
    <3>1. j - 1 \in 1..k /\ t[j] = s[j - 1] /\ s[j - 1] \in R
      BY <2>5, <2>6, <2>8
    <3>2. CASE i = 1
      BY <2>4, <2>6, <3>1, <3>2
    <3>3. CASE i # 1
      <4>1. i - 1 \in 1..k /\ t[i] = s[i - 1] /\ i - 1 < j - 1
        BY <2>6, <2>8, <3>3
      <4> QED BY <2>5, <3>1, <4>1
    <3> QED BY <3>2, <3>3
  <2>9. Ascends(Q, t)
    BY <2>8
  <2> QED BY <2>7, <2>9
<1>4. Cardinality(P) \in Good
  <2> HIDE DEF Good
  <2>1. Cardinality(P) \in Nat
    BY <1>1
  <2>2. 0..Cardinality(P) \subseteq Good
    BY <1>2, <1>3, <2>1, UpTo
  <2> QED BY <2>1, <2>2
<1> QED BY <1>4

\* Sorted lists every present agent once.
LEMMA SortedLists ==
  ASSUME NEW reg
  PROVE  /\ Len(Sorted(reg)) \in 0..MaxAgents
         /\ \A i \in 1..Len(Sorted(reg)) : Sorted(reg)[i] \in Present(reg)
         /\ \A i, j \in 1..Len(Sorted(reg)) : Sorted(reg)[i] = Sorted(reg)[j] => i = j
         /\ \A a \in Present(reg) : \E i \in 1..Len(Sorted(reg)) : Sorted(reg)[i] = a
<1>1. PICK P, n : P = Present(reg) /\ n = Cardinality(P)
  OBVIOUS
<1>2. MaxAgents \in Nat /\ P \in SUBSET Agents /\ P \in SUBSET Nat
  BY <1>1, MerkleAssumption DEF Present, Agents
<1>3. IsFiniteSet(Agents) /\ Cardinality(Agents) = MaxAgents
  BY <1>2, FS_Interval DEF Agents
<1>4. IsFiniteSet(P) /\ n \in Nat /\ n <= MaxAgents
  BY <1>1, <1>2, <1>3, FS_Subset, FS_CardinalityType
<1>5. PICK s \in [1..n -> P] : \A i, j \in 1..n : i < j => s[i] < s[j]
  BY <1>1, <1>2, <1>4, SortingExists
<1>6. \A i, j \in 1..n : i # j => s[i] # s[j]
  <2> SUFFICES ASSUME NEW i \in 1..n, NEW j \in 1..n, i # j PROVE s[i] # s[j]
    OBVIOUS
  <2>1. s[i] \in Nat /\ s[j] \in Nat
    BY <1>2, <1>5
  <2>2. s[i] < s[j] \/ s[j] < s[i]
    BY <1>4, <1>5
  <2> QED BY <2>1, <2>2
<1>7. s \in SetToSeqs(P) /\ DOMAIN s = 1..n
  BY <1>1, <1>5, <1>6 DEF SetToSeqs
<1>8. PICK t : t = Sorted(reg)
  OBVIOUS
<1>9. t \in SetToSeqs(P)
  <2>1. \E r \in SetToSeqs(P) : \A i, j \in DOMAIN r : i < j => r[i] < r[j]
    BY <1>5, <1>7
  <2> QED BY <1>1, <1>8, <2>1, Zenon DEF Sorted
<1>10. t \in [1..n -> P] /\ \A i, j \in 1..n : i # j => t[i] # t[j]
  BY <1>1, <1>9 DEF SetToSeqs
<1>11. Len(t) = n
  BY <1>4, <1>10
<1>12. \A a \in P : \E i \in 1..n : t[i] = a
  <2>1. t \in Injection(1..n, P)
    BY <1>10 DEF Injection, IsInjective
  <2>2. IsFiniteSet(1..n) /\ Cardinality(1..n) = n
    BY <1>4, FS_Interval
  <2>3. t \in Surjection(1..n, P)
    BY <1>1, <1>4, <2>1, <2>2, FS_Injection
  <2> QED BY <2>3 DEF Surjection
<1> QED BY <1>1, <1>4, <1>8, <1>10, <1>11, <1>12

\* A power of two is twice the one below it, and positive.
LEMMA PowerStep ==
  /\ Power[0] = 1
  /\ \A d \in 0..MaxAgents : Power[d] \in Nat /\ Power[d] >= 1
  /\ \A d \in 0..MaxAgents : d < MaxAgents => Power[d + 1] = 2 * Power[d]
<1>1. MaxAgents \in Nat
  BY MerkleAssumption
<1>2. ASSUME NEW d \in 0..MaxAgents, d < MaxAgents PROVE Power[d + 1] = 2 * Power[d]
  <2>1. d + 1 \in 0..MaxAgents /\ d + 1 > 0 /\ (d + 1) - 1 = d
    BY <1>1, <1>2
  <2> QED BY <2>1, PowerDef
<1>3. ASSUME NEW d \in 0..MaxAgents PROVE Power[d] \in Nat /\ Power[d] >= 1
  BY <1>1, PowerLarge
<1> QED BY <1>2, <1>3, PowerDef

\* The terms are free: nodes are equal when their children are, a leaf when its
\* policy is, and no leaf is a node or padding.
LEMMA TermsFree ==
  /\ \A l, r, m, s : Node(l, r) = Node(m, s) => l = m /\ r = s
  /\ \A a, n, b, k : PolicyLeaf(a, n) = PolicyLeaf(b, k) => a = b /\ n = k
  /\ \A a, n, l, r : PolicyLeaf(a, n) # Node(l, r)
  /\ \A l, r : PaddingLeaf # Node(l, r)
  /\ \A a, n : PolicyLeaf(a, n) # PaddingLeaf
<1>1. ASSUME NEW l, NEW r, NEW m, NEW s, Node(l, r) = Node(m, s) PROVE l = m /\ r = s
  BY <1>1 DEF Node
<1>2. ASSUME NEW a, NEW n, NEW b, NEW k, PolicyLeaf(a, n) = PolicyLeaf(b, k)
      PROVE  a = b /\ n = k
  BY <1>2 DEF PolicyLeaf
<1>3. ASSUME NEW a, NEW n, NEW l, NEW r PROVE PolicyLeaf(a, n) # Node(l, r)
  BY DEF PolicyLeaf, Node
<1>4. ASSUME NEW l, NEW r PROVE PaddingLeaf # Node(l, r)
  BY DEF PaddingLeaf, Node
<1>5. ASSUME NEW a, NEW n PROVE PolicyLeaf(a, n) # PaddingLeaf
  BY DEF PolicyLeaf, PaddingLeaf
<1> QED BY <1>1, <1>2, <1>3, <1>4, <1>5, Zenon

\* The leaf level: the policies in order, then padding, up to a power of two.
LEMMA LeafLevelIs ==
  ASSUME NEW reg
  PROVE  /\ Depth(reg) \in 0..MaxAgents
         /\ Len(LeafLevel(reg)) = Width(Len(Sorted(reg)))
         /\ Len(LeafLevel(reg)) = Power[Depth(reg)]
         /\ Len(Sorted(reg)) <= Power[Depth(reg)]
         /\ \A i \in 1..Power[Depth(reg)] :
              LeafLevel(reg)[i] =
                IF i <= Len(Sorted(reg))
                THEN PolicyLeaf(Sorted(reg)[i], reg[Sorted(reg)[i]])
                ELSE PaddingLeaf
<1>1. PICK s, n, w : s = Sorted(reg) /\ n = Len(s) /\ w = Width(n)
  OBVIOUS
<1>2. n \in 0..MaxAgents
  BY <1>1, SortedLists
<1>3. w \in Powers /\ w >= n
  BY <1>1, <1>2, WidthFits
<1>4. w \in Nat
  BY <1>3, PowerLarge DEF Powers
<1>5. PICK p : p = [i \in 1..n |-> PolicyLeaf(s[i], reg[s[i]])]
  OBVIOUS
<1>6. Len(p) = n
  BY <1>2, <1>5
<1>7. PICK l : l = [i \in 1..w |-> IF i <= n THEN p[i] ELSE PaddingLeaf]
  OBVIOUS
<1>8. l = LeafLevel(reg)
  <2>1. LeafLevel(reg) = Padded(p)
    BY <1>1, <1>5, Zenon DEF LeafLevel
  <2>2. Padded(p) = [i \in 1..w |-> IF i <= n THEN p[i] ELSE PaddingLeaf]
    BY <1>1, <1>6 DEF Padded
  <2> QED BY <1>7, <2>1, <2>2
<1>9. Len(l) = w
  BY <1>4, <1>7
<1>10. Depth(reg) \in 0..MaxAgents /\ Power[Depth(reg)] = w
  <2>1. \E d \in 0..MaxAgents : Power[d] = Len(LeafLevel(reg))
    BY <1>3, <1>8, <1>9 DEF Powers
  <2>2. Depth(reg) \in 0..MaxAgents /\ Power[Depth(reg)] = Len(LeafLevel(reg))
    BY <2>1, Zenon DEF Depth
  <2> QED BY <1>8, <1>9, <2>2
<1>11. ASSUME NEW i \in 1..w
       PROVE  l[i] = IF i <= n THEN PolicyLeaf(s[i], reg[s[i]]) ELSE PaddingLeaf
  <2>1. CASE i <= n
    <3>1. i \in 1..n
      BY <1>2, <2>1
    <3> QED BY <1>5, <1>7, <2>1, <3>1
  <2>2. CASE ~(i <= n)
    BY <1>7, <2>2
  <2> QED BY <2>1, <2>2
<1> QED BY <1>1, <1>3, <1>8, <1>9, <1>10, <1>11

\* level is a tree of 2^D leaves: a node is the hash of the two below it.
IsTree(level, D) ==
  \A d \in 1..D : \A i \in 1..Power[D - d] :
    level[d][i] = Node(level[d - 1][2 * i - 1], level[d - 1][2 * i])

\* The siblings are those the tree has beside the path of bits.
IsCoPath(level, D, siblings, bits) ==
  \A d \in 1..D :
    siblings[d] = level[d - 1][Sibling(Halvings(bits, D)[d - 1]) + 1]

\* buildAgentTreeV4 builds such a tree: each level has half the nodes of the one
\* below it.
LEMMA LevelsTree ==
  ASSUME NEW reg
  PROVE  IsTree(Levels(reg), Depth(reg))
<1> DEFINE D == Depth(reg)
           l == Levels(reg)
<1>2. D \in 0..MaxAgents /\ MaxAgents \in Nat
  BY LeafLevelIs, MerkleAssumption
<1>3. \A d \in 1..MaxAgents :
        l[d] = [i \in 1..(Len(l[d - 1]) \div 2) |->
                  Node(l[d - 1][2 * i - 1], l[d - 1][2 * i])]
  BY LevelsDef
<1>1. Len(l[0]) = Power[D]
  BY LevelsDef, LeafLevelIs
<1> HIDE DEF D, l
<1> DEFINE Good == {d \in 0..D : Len(l[d]) = Power[D - d]}
<1>4. 0 \in Good
  BY <1>1, <1>2
<1>5. ASSUME NEW d \in 0..D, d \in Good, d < D
      PROVE  /\ Len(l[d]) \div 2 = Power[D - (d + 1)]
             /\ d + 1 \in Good
  <2>1. d + 1 \in 1..MaxAgents /\ (d + 1) - 1 = d /\ d + 1 \in 0..D
    BY <1>2, <1>5
  <2>2. PICK e \in 0..MaxAgents : e = D - (d + 1) /\ e < MaxAgents /\ e + 1 = D - d
    BY <1>2, <1>5
  <2>3. Power[e + 1] = 2 * Power[e] /\ Power[e] \in Nat
    BY <2>2, PowerStep
  <2>4. Len(l[d]) \div 2 = Power[e]
    <3>1. Len(l[d]) = Power[D - d]
      BY <1>5
    <3>2. Len(l[d]) = 2 * Power[e]
      BY <2>2, <2>3, <3>1
    <3>3. \A x \in Nat : (2 * x) \div 2 = x
      OBVIOUS
    <3> QED BY <2>3, <3>2, <3>3, Zenon
  <2>5. l[d + 1] = [i \in 1..Power[e] |-> Node(l[d][2 * i - 1], l[d][2 * i])]
    <3>1. l[d + 1] = [i \in 1..(Len(l[(d + 1) - 1]) \div 2) |->
                       Node(l[(d + 1) - 1][2 * i - 1], l[(d + 1) - 1][2 * i])]
      BY <1>3, <2>1, Zenon
    <3>2. (d + 1) - 1 = d
      BY <2>1
    <3> QED BY <2>4, <3>1, <3>2, Zenon
  <2>6. Len(l[d + 1]) = Power[e]
    BY <2>3, <2>5
  <2> QED BY <2>1, <2>2, <2>4, <2>6
<1>6. 0..D \subseteq Good
  <2>1. \A d \in 0..D : d \in Good /\ d < D => d + 1 \in Good
    BY <1>5
  <2> HIDE DEF Good
  <2> QED BY <1>2, <1>4, <2>1, UpTo
<1>7. ASSUME NEW d \in 1..D, NEW i \in 1..Power[D - d]
      PROVE  l[d][i] = Node(l[d - 1][2 * i - 1], l[d - 1][2 * i])
  <2>1. d - 1 \in 0..D /\ d - 1 < D /\ (d - 1) + 1 = d /\ d \in 1..MaxAgents
    BY <1>2
  <2>2. Len(l[d - 1]) \div 2 = Power[D - d]
    BY <1>5, <1>6, <2>1
  <2>3. l[d] = [j \in 1..Power[D - d] |-> Node(l[d - 1][2 * j - 1], l[d - 1][2 * j])]
    BY <1>3, <2>1, <2>2
  <2> QED BY <2>3
<1> QED BY <1>7 DEF IsTree, D, l

\* The halvings of an index that fits the leaves fit the levels.
LEMMA HalvingsFit ==
  ASSUME NEW D \in 0..MaxAgents, NEW bits \in Nat, bits < Power[D]
  PROVE  \A d \in 0..D : Halvings(bits, D)[d] < Power[D - d]
<1>1. MaxAgents \in Nat /\ D \in Nat
  BY MerkleAssumption
<1>2. PICK h : h = Halvings(bits, D)
  OBVIOUS
<1>3. /\ h[0] = bits
      /\ \A d \in 1..D : h[d] = h[d - 1] \div 2
      /\ \A d \in 0..D : h[d] \in Nat
  BY <1>1, <1>2, HalvingsDef
<1> DEFINE Good == {d \in 0..D : h[d] < Power[D - d]}
<1>4. 0 \in Good
  BY <1>1, <1>3
<1>5. ASSUME NEW d \in 0..D, d \in Good, d < D PROVE d + 1 \in Good
  <2>1. d + 1 \in 1..D /\ (d + 1) - 1 = d
    BY <1>1, <1>5
  <2>2. PICK e \in 0..MaxAgents : e = D - (d + 1) /\ e < MaxAgents /\ e + 1 = D - d
    BY <1>1, <1>5
  <2>3. Power[e + 1] = 2 * Power[e] /\ Power[e] \in Nat
    BY <2>2, PowerStep
  <2>4. h[d + 1] = h[d] \div 2 /\ h[d] \in Nat
    BY <1>3, <2>1
  <2>5. h[d] < 2 * Power[e]
    BY <1>5, <2>2, <2>3
  <2>6. h[d + 1] < Power[e]
    BY <2>3, <2>4, <2>5
  <2> QED BY <2>1, <2>2, <2>6
<1>6. 0..D \subseteq Good
  <2>1. \A d \in 0..D : d \in Good /\ d < D => d + 1 \in Good
    BY <1>5
  <2> HIDE DEF Good
  <2> QED BY <1>1, <1>4, <2>1, UpTo
<1> QED BY <1>2, <1>6

\* Every node is the child its bit says: 2i - 1 and 2i are the places of the
\* (i - 1)-th node's children.
LEMMA ChildAt ==
  ASSUME NEW b \in Nat, NEW c \in Nat, c = b \div 2
  PROVE  /\ b % 2 = 1 => 2 * (c + 1) = b + 1 /\ 2 * (c + 1) - 1 = Sibling(b) + 1
         /\ b % 2 # 1 => 2 * (c + 1) - 1 = b + 1 /\ 2 * (c + 1) = Sibling(b) + 1
<1>1. b = 2 * c + (b % 2) /\ b % 2 \in 0..1
  <2>1. \A x \in Nat : x = 2 * (x \div 2) + (x % 2) /\ x % 2 \in 0..1
    OBVIOUS
  <2> QED BY <2>1
<1>2. CASE b % 2 = 1
  <2>1. Sibling(b) = b - 1
    BY <1>2 DEF Sibling
  <2> QED BY <1>1, <1>2, <2>1
<1>3. CASE b % 2 # 1
  <2>1. Sibling(b) = b + 1
    BY <1>1, <1>3 DEF Sibling
  <2> QED BY <1>1, <1>3, <2>1
<1> QED BY <1>2, <1>3

\* foldLeafV4 of a leaf of the tree with the siblings beside its path climbs to
\* the root.
LEMMA Climb ==
  ASSUME NEW D \in 0..MaxAgents, NEW level, IsTree(level, D),
         NEW bits \in Nat, bits < Power[D],
         NEW siblings, Len(siblings) = D, IsCoPath(level, D, siblings, bits),
         NEW leaf, leaf = level[0][bits + 1]
  PROVE  Halvings(bits, D)[D] = 0 /\ Walk(leaf, siblings, bits)[D] = level[D][1]
<1>1. MaxAgents \in Nat /\ D \in Nat
  BY MerkleAssumption
<1> DEFINE h == Halvings(bits, D)
           w == Walk(leaf, siblings, bits)
<1>2. /\ h[0] = bits
      /\ \A d \in 1..D : h[d] = h[d - 1] \div 2
      /\ \A d \in 0..D : h[d] \in Nat
      /\ \A d \in 0..D : h[d] < Power[D - d]
  BY <1>1, HalvingsDef, HalvingsFit
<1>3. /\ w[0] = leaf
      /\ \A d \in 1..D : w[d] = IF h[d - 1] % 2 = 1 THEN Node(siblings[d], w[d - 1])
                                                     ELSE Node(w[d - 1], siblings[d])
  <2>0. D \in Nat
    BY <1>1
  <2>1. w[0] = leaf
    BY <2>0, WalkStart
  <2>2. ASSUME NEW d \in 1..D
        PROVE  w[d] = IF h[d - 1] % 2 = 1 THEN Node(siblings[d], w[d - 1])
                                          ELSE Node(w[d - 1], siblings[d])
    BY <2>0, WalkDef
  <2> HIDE DEF h, w
  <2> QED BY <2>1, <2>2
<1>4. \A d \in 1..D : siblings[d] = level[d - 1][Sibling(h[d - 1]) + 1]
  BY DEF IsCoPath
<1> HIDE DEF h, w
<1> DEFINE Good == {d \in 0..D : w[d] = level[d][h[d] + 1]}
<1>6. 0 \in Good
  BY <1>1, <1>2, <1>3
<1>7. ASSUME NEW k \in 0..D, k \in Good, k < D PROVE k + 1 \in Good
  <2>1. PICK d \in 1..D : d = k + 1 /\ d - 1 = k /\ d - 1 \in 0..D /\ d \in 0..D
    BY <1>1, <1>7
  <2>2. h[d - 1] \in Nat /\ h[d] \in Nat /\ h[d] = h[d - 1] \div 2 /\ h[d] < Power[D - d]
    BY <1>2, <2>1
  <2>3. h[d] + 1 \in 1..Power[D - d]
    <3>1. D - d \in 0..MaxAgents
      BY <1>1, <2>1
    <3>2. Power[D - d] \in Nat
      BY <3>1, PowerStep
    <3>3. h[d] \in Nat /\ h[d] < Power[D - d]
      BY <2>2
    <3> QED BY <3>2, <3>3
  <2>4. level[d][h[d] + 1] = Node(level[d - 1][2 * (h[d] + 1) - 1], level[d - 1][2 * (h[d] + 1)])
    BY <2>1, <2>3 DEF IsTree
  <2>5. w[d - 1] = level[d - 1][h[d - 1] + 1]
    BY <1>7, <2>1
  <2>6. CASE h[d - 1] % 2 = 1
    <3>1. w[d] = Node(siblings[d], w[d - 1])
      BY <1>3, <2>1, <2>6
    <3>2. 2 * (h[d] + 1) = h[d - 1] + 1 /\ 2 * (h[d] + 1) - 1 = Sibling(h[d - 1]) + 1
      BY <2>2, <2>6, ChildAt
    <3> QED BY <1>4, <2>1, <2>4, <2>5, <3>1, <3>2
  <2>7. CASE h[d - 1] % 2 # 1
    <3>1. w[d] = Node(w[d - 1], siblings[d])
      BY <1>3, <2>1, <2>7
    <3>2. 2 * (h[d] + 1) - 1 = h[d - 1] + 1 /\ 2 * (h[d] + 1) = Sibling(h[d - 1]) + 1
      BY <2>2, <2>7, ChildAt
    <3> QED BY <1>4, <2>1, <2>4, <2>5, <3>1, <3>2
  <2> QED BY <2>6, <2>7
<1>8. 0..D \subseteq Good
  <2>1. \A d \in 0..D : d \in Good /\ d < D => d + 1 \in Good
    BY <1>7
  <2> HIDE DEF Good
  <2> QED BY <1>1, <1>6, <2>1, UpTo
<1>9. h[D] = 0 /\ w[D] = level[D][h[D] + 1]
  <2>1. D \in 0..D /\ D - D = 0
    BY <1>1
  <2> QED BY <1>2, <1>8, <2>1, PowerStep
<1> QED BY <1>9 DEF h, w

\* Conversely, what folds to the root of the tree and is no node is the leaf the
\* path of bits leads to, with the siblings beside that path: there is no second
\* preimage, no shorter or longer path, no other leaf.
LEMMA Descend ==
  ASSUME NEW D \in 0..MaxAgents, NEW level, IsTree(level, D),
         NEW bits \in Nat, NEW L \in Nat, NEW siblings, Len(siblings) = L, NEW leaf,
         level[D][1] \in Fold(leaf, siblings, bits),
         \A l, r : leaf # Node(l, r),
         \A i \in 1..Power[D] : \A l, r : level[0][i] # Node(l, r)
  PROVE  /\ L = D /\ bits < Power[D]
         /\ leaf = level[0][bits + 1]
         /\ IsCoPath(level, D, siblings, bits)
<1>1. MaxAgents \in Nat /\ D \in Nat /\ D <= MaxAgents
  BY MerkleAssumption
<1> DEFINE h == Halvings(bits, L)
           w == Walk(leaf, siblings, bits)
<1>2. /\ h[0] = bits
      /\ \A d \in 1..L : h[d] = h[d - 1] \div 2
      /\ \A d \in 0..L : h[d] \in Nat
  BY HalvingsDef
<1>3. /\ w[0] = leaf
      /\ \A d \in 1..L : w[d] = IF h[d - 1] % 2 = 1 THEN Node(siblings[d], w[d - 1])
                                                     ELSE Node(w[d - 1], siblings[d])
  <2>1. w[0] = leaf
    BY WalkDef
  <2>2. ASSUME NEW d \in 1..L
        PROVE  w[d] = IF h[d - 1] % 2 = 1 THEN Node(siblings[d], w[d - 1])
                                          ELSE Node(w[d - 1], siblings[d])
    BY WalkDef
  <2> HIDE DEF h, w
  <2> QED BY <2>1, <2>2
<1>4. h[L] = 0 /\ w[L] = level[D][1]
  <2>1. Fold(leaf, siblings, bits) = IF h[L] = 0 THEN {w[L]} ELSE {}
    BY Zenon DEF Fold
  <2> QED BY <2>1
<1>5. L = D => \A d \in 1..D : h[d - 1] = Halvings(bits, D)[d - 1]
  OBVIOUS
<1> HIDE DEF h, w
<1> DEFINE Beside(d) == siblings[d] = level[D - L + d - 1][Sibling(h[d - 1]) + 1]
           Good == {k \in 0..L : k <= D =>
                      /\ h[L - k] < Power[k]
                      /\ w[L - k] = level[D - k][h[L - k] + 1]
                      /\ \A d \in 1..L : d > L - k => Beside(d)}
<1>6. 0 \in Good
  <2>1. L - 0 = L /\ D - 0 = D /\ Power[0] = 1
    BY <1>1, PowerStep
  <2>2. ~ \E d \in 1..L : d > L - 0
    OBVIOUS
  <2> HIDE DEF Beside
  <2> QED BY <1>4, <2>1, <2>2
<1>7. ASSUME NEW m \in 1..L, NEW e \in 1..D, h[m] < Power[D - e], w[m] = level[e][h[m] + 1]
      PROVE  /\ h[m - 1] < Power[D - (e - 1)]
             /\ w[m - 1] = level[e - 1][h[m - 1] + 1]
             /\ siblings[m] = level[e - 1][Sibling(h[m - 1]) + 1]
  <2>1. PICK k \in 0..MaxAgents : k = D - e /\ k < MaxAgents /\ k + 1 = D - (e - 1)
    BY <1>1
  <2>2. Power[k + 1] = 2 * Power[k] /\ Power[k] \in Nat
    BY <2>1, PowerStep
  <2>3. m - 1 \in 0..L /\ m \in 0..L
    OBVIOUS
  <2>4. h[m - 1] \in Nat /\ h[m] \in Nat /\ h[m] = h[m - 1] \div 2
    BY <1>2, <2>3
  <2>5. h[m] + 1 \in 1..Power[D - e]
    <3>1. h[m] < Power[k]
      BY <1>7, <2>1
    <3>2. h[m] \in Nat /\ Power[k] \in Nat
      BY <2>2, <2>4
    <3>3. h[m] + 1 \in 1..Power[k]
      BY <3>1, <3>2
    <3> QED BY <2>1, <3>3
  <2>6. w[m] = Node(level[e - 1][2 * (h[m] + 1) - 1], level[e - 1][2 * (h[m] + 1)])
    BY <1>7, <2>5 DEF IsTree
  <2>7. h[m - 1] < Power[D - (e - 1)]
    <3>1. h[m] < Power[k]
      BY <1>7, <2>1
    <3> QED BY <2>1, <2>2, <2>4, <3>1
  <2>8. CASE h[m - 1] % 2 = 1
    <3>1. w[m] = Node(siblings[m], w[m - 1])
      BY <1>3, <2>8
    <3>2. 2 * (h[m] + 1) = h[m - 1] + 1 /\ 2 * (h[m] + 1) - 1 = Sibling(h[m - 1]) + 1
      BY <2>4, <2>8, ChildAt
    <3>3. siblings[m] = level[e - 1][2 * (h[m] + 1) - 1] /\ w[m - 1] = level[e - 1][2 * (h[m] + 1)]
      <4>1. PICK x, y : x = level[e - 1][2 * (h[m] + 1) - 1] /\ y = level[e - 1][2 * (h[m] + 1)]
        OBVIOUS
      <4>2. w[m] = Node(x, y)
        BY <2>6, <4>1, Zenon
      <4>3. PICK u, v : u = siblings[m] /\ v = w[m - 1]
        OBVIOUS
      <4>4. w[m] = Node(u, v)
        BY <3>1, <4>3, Zenon
      <4>5. x = u /\ y = v
        BY <4>2, <4>4, TermsFree, Zenon
      <4> QED BY <4>1, <4>3, <4>5, Zenon
    <3> QED BY <2>7, <3>2, <3>3
  <2>9. CASE h[m - 1] % 2 # 1
    <3>1. w[m] = Node(w[m - 1], siblings[m])
      BY <1>3, <2>9
    <3>2. 2 * (h[m] + 1) - 1 = h[m - 1] + 1 /\ 2 * (h[m] + 1) = Sibling(h[m - 1]) + 1
      BY <2>4, <2>9, ChildAt
    <3>3. w[m - 1] = level[e - 1][2 * (h[m] + 1) - 1] /\ siblings[m] = level[e - 1][2 * (h[m] + 1)]
      <4>1. PICK x, y : x = level[e - 1][2 * (h[m] + 1) - 1] /\ y = level[e - 1][2 * (h[m] + 1)]
        OBVIOUS
      <4>2. w[m] = Node(x, y)
        BY <2>6, <4>1, Zenon
      <4>3. PICK u, v : u = siblings[m] /\ v = w[m - 1]
        OBVIOUS
      <4>4. w[m] = Node(v, u)
        BY <3>1, <4>3, Zenon
      <4>5. x = v /\ y = u
        BY <4>2, <4>4, TermsFree, Zenon
      <4> QED BY <4>1, <4>3, <4>5, Zenon
    <3> QED BY <2>7, <3>2, <3>3
  <2> QED BY <2>8, <2>9
<1>8. ASSUME NEW k \in 0..L, k \in Good, k < L PROVE k + 1 \in Good
  <2>1. k + 1 \in 0..L
    BY <1>8
  <2> SUFFICES ASSUME k + 1 <= D
               PROVE  /\ h[L - (k + 1)] < Power[k + 1]
                      /\ w[L - (k + 1)] = level[D - (k + 1)][h[L - (k + 1)] + 1]
                      /\ \A d \in 1..L : d > L - (k + 1) => Beside(d)
    <3> HIDE DEF Beside
    <3> QED BY <2>1
  <2>2. PICK m \in 1..L, e \in 1..D : m = L - k /\ e = D - k
    BY <1>1, <1>8
  <2>3. /\ m - 1 = L - (k + 1) /\ e - 1 = D - (k + 1)
        /\ D - e = k /\ D - (e - 1) = k + 1 /\ D - L + m - 1 = e - 1
    <3> HIDE DEF Good, Beside
    <3>1. m - 1 = L - (k + 1) /\ e - 1 = D - (k + 1)
      BY <1>1, <2>2
    <3>2. D - e = k /\ D - (e - 1) = k + 1
      BY <1>1, <2>2
    <3>3. D - L + m - 1 = e - 1
      BY <1>1, <2>2
    <3> QED BY <3>1, <3>2, <3>3
  <2>4. /\ h[m] < Power[D - e]
        /\ w[m] = level[e][h[m] + 1]
        /\ \A d \in 1..L : d > L - k => Beside(d)
    <3> HIDE DEF Beside
    <3>1. k <= D
      BY <1>1
    <3> QED BY <1>8, <2>2, <2>3, <3>1
  <2>5. /\ h[m - 1] < Power[D - (e - 1)]
        /\ w[m - 1] = level[e - 1][h[m - 1] + 1]
        /\ siblings[m] = level[e - 1][Sibling(h[m - 1]) + 1]
    BY <1>7, <2>4
  <2>6. Beside(m)
    BY <2>3, <2>5
  <2>7. \A d \in 1..L : d > L - (k + 1) => Beside(d)
    <3> HIDE DEF Beside
    <3> SUFFICES ASSUME NEW d \in 1..L, d > L - (k + 1) PROVE Beside(d)
      OBVIOUS
    <3>1. d > L - k \/ d = m
      BY <2>2
    <3> QED BY <2>4, <2>6, <3>1
  <2> HIDE DEF Beside
  <2> QED BY <2>3, <2>5, <2>7
<1>9. 0..L \subseteq Good
  <2>1. \A k \in 0..L : k \in Good /\ k < L => k + 1 \in Good
    BY <1>8
  <2> HIDE DEF Good
  <2> QED BY <1>6, <2>1, UpTo
<1>10. ~(L < D)
  <2> SUFFICES ASSUME L < D PROVE FALSE
    OBVIOUS
  <2>1. L \in 0..L /\ L - L = 0 /\ L <= D
    BY <1>1
  <2>2. h[0] < Power[L] /\ w[0] = level[D - L][h[0] + 1]
    <3> HIDE DEF Beside
    <3> QED BY <1>9, <2>1
  <2>3. PICK e \in 1..D : e = D - L /\ D - e = L
    BY <1>1
  <2>4. Power[L] \in Nat /\ h[0] \in Nat
    BY <1>1, <1>2, PowerStep
  <2>5. h[0] + 1 \in 1..Power[D - e]
    BY <2>2, <2>3, <2>4
  <2>6. level[e][h[0] + 1] = Node(level[e - 1][2 * (h[0] + 1) - 1], level[e - 1][2 * (h[0] + 1)])
    BY <2>5 DEF IsTree
  <2> QED BY <1>3, <2>2, <2>3, <2>6
<1>11. ~(D < L)
  <2> SUFFICES ASSUME D < L PROVE FALSE
    OBVIOUS
  <2>1. D \in 0..L /\ D - D = 0 /\ D <= D
    BY <1>1
  <2>2. h[L - D] < Power[D] /\ w[L - D] = level[0][h[L - D] + 1]
    <3> HIDE DEF Beside
    <3> QED BY <1>9, <2>1
  <2>3. PICK m \in 1..L : m = L - D
    BY <1>1
  <2>4. Power[D] \in Nat /\ h[m] \in Nat
    BY <1>1, <1>2, PowerStep
  <2>5. h[m] + 1 \in 1..Power[D]
    BY <2>2, <2>3, <2>4
  <2>6. \E l, r : w[m] = Node(l, r)
    BY <1>3
  <2> QED BY <2>2, <2>3, <2>5, <2>6
<1>12. L = D
  BY <1>1, <1>10, <1>11
<1>13. /\ h[0] < Power[D] /\ w[0] = level[0][h[0] + 1]
       /\ \A d \in 1..D : siblings[d] = level[d - 1][Sibling(h[d - 1]) + 1]
  <2>1. D \in 0..L /\ L - D = 0 /\ D - D = 0 /\ D <= D
    BY <1>1, <1>12
  <2>2. /\ h[0] < Power[D] /\ w[0] = level[0][h[0] + 1]
        /\ \A d \in 1..L : d > 0 => Beside(d)
    <3> HIDE DEF Beside
    <3> QED BY <1>9, <2>1
  <2>3. ASSUME NEW d \in 1..D PROVE siblings[d] = level[d - 1][Sibling(h[d - 1]) + 1]
    <3>1. D - L + d - 1 = d - 1 /\ d > 0
      BY <1>1, <1>12
    <3>2. Beside(d)
      <4> HIDE DEF Beside
      <4> QED BY <1>12, <2>2, <3>1
    <3> QED BY <3>1, <3>2
  <2> QED BY <2>2, <2>3
<1>14. IsCoPath(level, D, siblings, bits)
  BY <1>5, <1>12, <1>13 DEF IsCoPath
<1> QED BY <1>2, <1>3, <1>12, <1>13, <1>14

\* A co-path does not contain the nodes of its own path: two trees that differ in
\* the leaf it belongs to have the same one.
LEMMA SameBeside ==
  ASSUME NEW D \in 0..MaxAgents, NEW l, NEW m, IsTree(l, D), IsTree(m, D),
         NEW bits \in Nat, bits < Power[D], NEW siblings,
         IsCoPath(l, D, siblings, bits),
         \A i \in 1..Power[D] : i # bits + 1 => l[0][i] = m[0][i]
  PROVE  IsCoPath(m, D, siblings, bits)
<1>1. MaxAgents \in Nat /\ D \in Nat /\ D <= MaxAgents
  BY MerkleAssumption
<1> DEFINE h == Halvings(bits, D)
<1>2. /\ h[0] = bits
      /\ \A d \in 1..D : h[d] = h[d - 1] \div 2
      /\ \A d \in 0..D : h[d] \in Nat
      /\ \A d \in 0..D : h[d] < Power[D - d]
  BY <1>1, HalvingsDef, HalvingsFit
<1>3. \A d \in 1..D : siblings[d] = l[d - 1][Sibling(h[d - 1]) + 1]
  BY DEF IsCoPath
<1>4. IsCoPath(m, D, siblings, bits)
      <=> \A d \in 1..D : siblings[d] = m[d - 1][Sibling(h[d - 1]) + 1]
  BY DEF IsCoPath
<1> HIDE DEF h
<1> DEFINE Same(d) == \A i \in 1..Power[D - d] : i # h[d] + 1 => l[d][i] = m[d][i]
           Good == {d \in 0..D : Same(d)}
<1>5. 0 \in Good
  <2>1. D - 0 = D
    BY <1>1
  <2> QED BY <1>1, <1>2, <2>1
<1>6. ASSUME NEW k \in 0..D, k \in Good, k < D PROVE k + 1 \in Good
  <2>1. PICK d \in 1..D : d = k + 1 /\ d - 1 = k /\ d - 1 \in 0..D /\ d \in 0..D
    BY <1>1, <1>6
  <2>2. h[d - 1] \in Nat /\ h[d] \in Nat /\ h[d] = h[d - 1] \div 2
    BY <1>2, <2>1
  <2>3. PICK e \in 0..MaxAgents : e = D - d /\ e < MaxAgents /\ e + 1 = D - (d - 1)
    BY <1>1, <2>1
  <2>4. Power[e + 1] = 2 * Power[e] /\ Power[e] \in Nat
    BY <2>3, PowerStep
  <2>5. Same(d - 1)
    BY <1>6, <2>1
  <2>6. ASSUME NEW i \in 1..Power[D - d], i # h[d] + 1 PROVE l[d][i] = m[d][i]
    <3>1. i \in 1..Power[e] /\ i \in Nat
      BY <2>3, <2>4
    <3>2. 2 * i - 1 \in 1..(2 * Power[e]) /\ 2 * i \in 1..(2 * Power[e])
      BY <2>4, <3>1
    <3>3. 2 * i - 1 \in 1..Power[D - (d - 1)] /\ 2 * i \in 1..Power[D - (d - 1)]
      BY <2>3, <2>4, <3>2
    <3>4. 2 * i - 1 # h[d - 1] + 1 /\ 2 * i # h[d - 1] + 1
      BY <2>2, <2>6, <3>1
    <3>5. l[d - 1][2 * i - 1] = m[d - 1][2 * i - 1] /\ l[d - 1][2 * i] = m[d - 1][2 * i]
      BY <2>5, <3>3, <3>4
    <3>6. /\ l[d][i] = Node(l[d - 1][2 * i - 1], l[d - 1][2 * i])
          /\ m[d][i] = Node(m[d - 1][2 * i - 1], m[d - 1][2 * i])
      BY DEF IsTree
    <3> QED BY <3>5, <3>6
  <2>7. Same(d)
    BY <2>6
  <2> HIDE DEF Same
  <2> QED BY <2>1, <2>7
<1>7. 0..D \subseteq Good
  <2>1. \A k \in 0..D : k \in Good /\ k < D => k + 1 \in Good
    BY <1>6
  <2> HIDE DEF Good
  <2> QED BY <1>1, <1>5, <2>1, UpTo
<1>8. ASSUME NEW d \in 1..D PROVE siblings[d] = m[d - 1][Sibling(h[d - 1]) + 1]
  <2>1. d - 1 \in 0..D /\ d \in 0..D
    BY <1>1
  <2>2. h[d - 1] \in Nat /\ h[d] \in Nat /\ h[d] = h[d - 1] \div 2 /\ h[d] < Power[D - d]
    BY <1>2, <2>1
  <2>3. PICK e \in 0..MaxAgents : e = D - d /\ e < MaxAgents /\ e + 1 = D - (d - 1)
    BY <1>1
  <2>4. Power[e + 1] = 2 * Power[e] /\ Power[e] \in Nat /\ h[d] < Power[e]
    BY <2>2, <2>3, PowerStep
  <2>5. Sibling(h[d - 1]) + 1 \in {2 * (h[d] + 1) - 1, 2 * (h[d] + 1)}
    BY <2>2, ChildAt
  <2>6. Sibling(h[d - 1]) + 1 \in 1..(2 * Power[e])
    BY <2>2, <2>4, <2>5
  <2>7. Sibling(h[d - 1]) + 1 # h[d - 1] + 1
    BY <2>2 DEF Sibling
  <2>8. Same(d - 1)
    BY <1>7, <2>1
  <2>9. Sibling(h[d - 1]) + 1 \in 1..Power[D - (d - 1)]
    BY <2>3, <2>4, <2>6
  <2> QED BY <1>3, <2>7, <2>8, <2>9
<1> QED BY <1>4, <1>8

\* The path of a present agent in the tree of its set, with the co-path beside it.
OwnPath(reg, a, siblings, bits) ==
  /\ a \in Present(reg)
  /\ bits \in Nat /\ bits + 1 \in 1..Len(Sorted(reg)) /\ Sorted(reg)[bits + 1] = a
  /\ Len(siblings) = Depth(reg)
  /\ IsCoPath(Levels(reg), Depth(reg), siblings, bits)

\* next differs from reg at most in the accounting of a.
OthersSame(reg, next, a) ==
  /\ Present(next) = Present(reg)
  /\ \A b \in Present(reg) : b # a => next[b] = reg[b]

\* The co-path folds the leaf of a in the set reg to the root of that set only.
FoldsToRoot(reg, a, siblings, bits) ==
  Fold(PolicyLeaf(a, reg[a]), siblings, bits) = {Root(reg)}

\* Which leaves the tree of an agent set has, and which proofs its root accepts:
\* those of a present agent, with its accounting and its own co-path.
LEMMA Accepted ==
  ASSUME NEW reg, NEW a, NEW spent, NEW siblings, Len(siblings) \in Nat, NEW bits \in Nat,
         Root(reg) \in Fold(PolicyLeaf(a, spent), siblings, bits)
  PROVE  OwnPath(reg, a, siblings, bits) /\ reg[a] = spent
<1> DEFINE D == Depth(reg)
           level == Levels(reg)
           s == Sorted(reg)
           leaf == PolicyLeaf(a, spent)
<1>1. /\ D \in 0..MaxAgents
      /\ \A i \in 1..Power[D] :
           level[0][i] = IF i <= Len(s) THEN PolicyLeaf(s[i], reg[s[i]]) ELSE PaddingLeaf
  <2>1. level[0] = LeafLevel(reg)
    BY LevelsDef
  <2> QED BY <2>1, LeafLevelIs, Zenon
<1>2. IsTree(level, D)
  BY LevelsTree
<1>3. level[D][1] \in Fold(leaf, siblings, bits)
  BY DEF Root
<1>4. \A l, r : leaf # Node(l, r)
  BY TermsFree, Zenon
<1>5. Len(s) \in Nat /\ \A i \in 1..Len(s) : s[i] \in Present(reg)
  BY SortedLists
<1> HIDE DEF D, level, s
<1>6. ASSUME NEW i \in 1..Power[D], NEW l, NEW r PROVE level[0][i] # Node(l, r)
  <2>1. level[0][i] = PolicyLeaf(s[i], reg[s[i]]) \/ level[0][i] = PaddingLeaf
    BY <1>1, Zenon
  <2> QED BY <2>1 DEF PolicyLeaf, PaddingLeaf, Node
<1>7. /\ Len(siblings) = D /\ bits < Power[D]
      /\ leaf = level[0][bits + 1]
      /\ IsCoPath(level, D, siblings, bits)
  <2> HIDE DEF leaf
  <2>1. \A i \in 1..Power[D] : \A l, r : level[0][i] # Node(l, r)
    BY <1>6, Zenon
  <2>2. PICK L \in Nat : Len(siblings) = L
    BY Zenon
  <2>3. D \in 0..MaxAgents
    BY <1>1
  <2>4. /\ L = D /\ bits < Power[D]
        /\ leaf = level[0][bits + 1]
        /\ IsCoPath(level, D, siblings, bits)
    BY <1>2, <1>3, <1>4, <2>1, <2>2, <2>3, Descend
  <2> QED BY <2>2, <2>4, Zenon
<1>8. bits + 1 \in 1..Power[D]
  BY <1>1, <1>7, PowerStep
<1>9. bits + 1 <= Len(s) /\ leaf = PolicyLeaf(s[bits + 1], reg[s[bits + 1]])
  <2>1. CASE bits + 1 <= Len(s)
    BY <1>1, <1>7, <1>8, <2>1
  <2>2. CASE ~(bits + 1 <= Len(s))
    <3>1. leaf = PaddingLeaf
      BY <1>1, <1>7, <1>8, <2>2
    <3> QED BY <3>1, TermsFree, Zenon
  <2> QED BY <2>1, <2>2
<1>10. a = s[bits + 1] /\ spent = reg[s[bits + 1]]
  <2>1. PICK b, k : b = s[bits + 1] /\ k = reg[s[bits + 1]]
    OBVIOUS
  <2>2. PolicyLeaf(a, spent) = PolicyLeaf(b, k)
    BY <1>9, <2>1, Zenon
  <2>3. a = b /\ spent = k
    BY <2>2 DEF PolicyLeaf
  <2> QED BY <2>1, <2>3, Zenon
<1>11. bits + 1 \in 1..Len(s)
  BY <1>5, <1>9
<1> QED BY <1>5, <1>7, <1>10, <1>11 DEF D, level, s, OwnPath

\* Changing the accounting of one present agent keeps the shape of the tree and
\* the agent's co-path, so the same proof folds the new leaf to the new root.
LEMMA FoldsTo ==
  ASSUME NEW reg, NEW next, NEW a, OthersSame(reg, next, a),
         NEW siblings, NEW bits, OwnPath(reg, a, siblings, bits)
  PROVE  FoldsToRoot(next, a, siblings, bits)
<1> DEFINE D == Depth(reg)
           l == Levels(reg)
           m == Levels(next)
           s == Sorted(reg)
<1>1. Sorted(next) = s
  BY Zenon DEF Sorted, OthersSame
<1>2. /\ D \in 0..MaxAgents
      /\ Len(s) <= Power[D]
      /\ Len(LeafLevel(reg)) = Power[D]
      /\ \A i \in 1..Power[D] :
           l[0][i] = IF i <= Len(s) THEN PolicyLeaf(s[i], reg[s[i]]) ELSE PaddingLeaf
  <2>1. l[0] = LeafLevel(reg)
    BY LevelsDef
  <2> QED BY <2>1, LeafLevelIs, Zenon
<1>3. Depth(next) = D
  <2>1. Len(LeafLevel(next)) = Width(Len(s))
    BY <1>1, LeafLevelIs
  <2>2. Len(LeafLevel(reg)) = Width(Len(s))
    BY LeafLevelIs
  <2>3. Len(LeafLevel(next)) = Len(LeafLevel(reg))
    BY <2>1, <2>2
  <2> QED BY <2>3, Zenon DEF Depth
<1>4. \A i \in 1..Power[D] :
        m[0][i] = IF i <= Len(s) THEN PolicyLeaf(s[i], next[s[i]]) ELSE PaddingLeaf
  <2>1. \A i \in 1..Power[Depth(next)] :
          LeafLevel(next)[i] = IF i <= Len(Sorted(next))
                               THEN PolicyLeaf(Sorted(next)[i], next[Sorted(next)[i]])
                               ELSE PaddingLeaf
    BY LeafLevelIs, Zenon
  <2> QED BY <1>1, <1>3, <2>1, LevelsDef, Zenon
<1>5. IsTree(l, D) /\ IsTree(m, D) /\ Root(next) = m[D][1]
  BY <1>3, LevelsTree, Zenon DEF Root
<1>6. /\ Len(s) \in Nat
      /\ \A i \in 1..Len(s) : s[i] \in Present(reg)
      /\ \A i, j \in 1..Len(s) : s[i] = s[j] => i = j
  BY SortedLists
<1>7. /\ bits \in Nat /\ bits + 1 \in 1..Len(s) /\ s[bits + 1] = a
      /\ Len(siblings) = D /\ IsCoPath(l, D, siblings, bits)
      /\ \A b \in Present(reg) : b # a => next[b] = reg[b]
  BY DEF OwnPath, OthersSame
<1> HIDE DEF D, l, m, s
<1>8. bits < Power[D] /\ bits + 1 \in 1..Power[D]
  BY <1>2, <1>6, <1>7, PowerStep
<1>9. ASSUME NEW i \in 1..Power[D], i # bits + 1 PROVE l[0][i] = m[0][i]
  <2>1. CASE i <= Len(s)
    <3>1. i \in 1..Len(s)
      BY <1>6, <2>1
    <3>2. s[i] \in Present(reg) /\ s[i] # a
      BY <1>6, <1>7, <1>9, <3>1
    <3>3. next[s[i]] = reg[s[i]]
      BY <1>7, <3>2
    <3> QED BY <1>2, <1>4, <2>1, <3>3
  <2>2. CASE ~(i <= Len(s))
    BY <1>2, <1>4, <2>2
  <2> QED BY <2>1, <2>2
<1>10. IsCoPath(m, D, siblings, bits)
  BY <1>2, <1>5, <1>7, <1>8, <1>9, SameBeside
<1>11. m[0][bits + 1] = PolicyLeaf(a, next[a])
  BY <1>4, <1>7, <1>8
<1>12. Fold(PolicyLeaf(a, next[a]), siblings, bits) = {m[D][1]}
  <2>1. D \in 0..MaxAgents /\ IsTree(m, D) /\ Len(siblings) = D /\ bits \in Nat
    BY <1>2, <1>5, <1>7
  <2>2. PICK leaf : leaf = PolicyLeaf(a, next[a])
    OBVIOUS
  <2>3. leaf = m[0][bits + 1]
    BY <1>11, <2>2, Zenon
  <2>4. Halvings(bits, D)[D] = 0 /\ Walk(leaf, siblings, bits)[D] = m[D][1]
    BY <1>8, <1>10, <2>1, <2>3, Climb
  <2>5. Fold(leaf, siblings, bits) = {m[D][1]}
    BY <2>1, <2>4 DEF Fold
  <2> QED BY <2>2, <2>5, Zenon
<1> QED BY <1>5, <1>12 DEF FoldsToRoot

\* The inductive invariant: the root commits to the registry, and what an agent
\* was paid since its leaf was written is the accounting in that leaf.
MerkleInv ==
  /\ registry \in [Agents -> {Absent} \cup 0..Budget]
  /\ root = Root(registry)
  /\ paid = [a \in Agents |-> IF registry[a] = Absent THEN 0 ELSE registry[a]]

\* An accepted spend is a spend of the registered leaf, and folds its successor
\* to the root of the updated registry.
LEMMA SpendCommits ==
  ASSUME MerkleInv, NEW a \in Agents, NEW spent \in 0..(Budget - 1),
         NEW siblings, Len(siblings) \in Nat, NEW bits \in Nat,
         Spend(a, spent, siblings, bits)
  PROVE  /\ registry[a] = spent /\ spent # Absent
         /\ root' = Root([registry EXCEPT ![a] = spent + 1])
<1> DEFINE next == [registry EXCEPT ![a] = spent + 1]
<1>1. Root(registry) \in Fold(PolicyLeaf(a, spent), siblings, bits)
  BY DEF MerkleInv, Spend, Verifies
<1>2. OwnPath(registry, a, siblings, bits) /\ registry[a] = spent
  BY <1>1, Accepted
<1>3. spent # Absent /\ spent + 1 # Absent /\ Budget \in Nat
  BY MerkleAssumption DEF Absent
<1>4. next[a] = spent + 1 /\ \A b \in Agents : b # a => next[b] = registry[b]
  BY DEF MerkleInv
<1>5. Present(next) = Present(registry)
  <2> HIDE DEF next
  <2>1. \A b \in Agents : next[b] # Absent <=> registry[b] # Absent
    BY <1>2, <1>3, <1>4
  <2> QED BY <2>1 DEF Present
<1>6. OthersSame(registry, next, a)
  BY <1>4, <1>5 DEF Present, OthersSame
<1>7. Fold(PolicyLeaf(a, next[a]), siblings, bits) = {Root(next)}
  <2> HIDE DEF next
  <2>1. FoldsToRoot(next, a, siblings, bits)
    BY <1>2, <1>6, FoldsTo
  <2> QED BY <2>1 DEF FoldsToRoot
<1>8. Fold(PolicyLeaf(a, spent + 1), siblings, bits) = {Root(next)}
  BY <1>4, <1>7
<1>9. root' = CHOOSE r \in Fold(PolicyLeaf(a, spent + 1), siblings, bits) : TRUE
  BY DEF Spend
<1> QED BY <1>2, <1>3, <1>8, <1>9

\* A rebuild of the agent set keeps the invariant when the leaves it writes are
\* fresh.
LEMMA RebuildKeeps ==
  ASSUME MerkleInv, NEW reg \in [Agents -> {Absent} \cup 0..Budget], Rebuild(reg),
         \A a \in Agents : reg[a] = registry[a] \/ reg[a] \in {Absent, 0}
  PROVE  MerkleInv'
<1>1. paid' = [a \in Agents |-> IF reg[a] = registry[a] THEN paid[a] ELSE 0]
  BY DEF Rebuild
<1>2. \A a \in Agents : (IF reg[a] = registry[a] THEN paid[a] ELSE 0)
                        = IF reg[a] = Absent THEN 0 ELSE reg[a]
  <2> SUFFICES ASSUME NEW a \in Agents
               PROVE  (IF reg[a] = registry[a] THEN paid[a] ELSE 0)
                        = IF reg[a] = Absent THEN 0 ELSE reg[a]
    OBVIOUS
  <2>1. paid[a] = IF registry[a] = Absent THEN 0 ELSE registry[a]
    BY DEF MerkleInv
  <2> QED BY <2>1
<1>3. paid' = [a \in Agents |-> IF reg[a] = Absent THEN 0 ELSE reg[a]]
  BY <1>1, <1>2
<1>4. registry' = reg /\ root' = Root(reg)
  BY DEF Rebuild
<1> QED BY <1>3, <1>4 DEF MerkleInv

\* MerkleInv holds throughout: of every spend and of every edit.
THEOREM MerkleInvariant == Spec => []MerkleInv
<1>1. Init => MerkleInv
  <2> SUFFICES ASSUME Init PROVE MerkleInv
    OBVIOUS
  <2>1. Budget \in Nat
    BY MerkleAssumption
  <2>2. registry \in [Agents -> {Absent, 0}] /\ root = Root(registry) /\ paid = [a \in Agents |-> 0]
    BY DEF Init
  <2>3. registry \in [Agents -> {Absent} \cup 0..Budget]
    BY <2>1, <2>2
  <2>4. paid = [a \in Agents |-> IF registry[a] = Absent THEN 0 ELSE registry[a]]
    BY <2>2
  <2> QED BY <2>2, <2>3, <2>4 DEF MerkleInv
<1>2. MerkleInv /\ [Next]_vars => MerkleInv'
  <2> SUFFICES ASSUME MerkleInv, [Next]_vars PROVE MerkleInv'
    OBVIOUS
  <2>0. /\ registry \in [Agents -> {Absent} \cup 0..Budget] /\ Budget \in Nat
    BY MerkleAssumption DEF MerkleInv
  <2>1. CASE AgentStep
    <3>1. PICK a \in Agents, spent \in 0..(Budget - 1), siblings \in Siblings,
               bits \in 0..(2^MaxProofDepth - 1) : Spend(a, spent, siblings, bits)
      BY <2>1 DEF AgentStep
    <3>2. bits \in Nat
      OBVIOUS
    <3>3. Len(siblings) \in Nat
      <4>1. PICK T : siblings \in SeqOf(T, MaxProofDepth)
        BY DEF Siblings
      <4>2. PICK m \in 0..MaxProofDepth : siblings \in [1..m -> T]
        BY <4>1 DEF SeqOf
      <4>3. MaxProofDepth \in Nat
        BY MerkleAssumption
      <4> QED BY <4>2, <4>3
    <3>4. registry[a] = spent /\ spent # Absent
          /\ root' = Root([registry EXCEPT ![a] = spent + 1])
      BY <3>1, <3>2, <3>3, SpendCommits
    <3>5. registry' = [registry EXCEPT ![a] = spent + 1]
      BY <3>1, <3>4 DEF Spend
    <3>6. registry' \in [Agents -> {Absent} \cup 0..Budget]
      BY <2>0, <3>5
    <3>7. paid' = [paid EXCEPT ![a] = @ + 1]
      BY <3>1 DEF Spend
    <3>8. paid' = [b \in Agents |-> IF registry'[b] = Absent THEN 0 ELSE registry'[b]]
      <4>1. ASSUME NEW b \in Agents
            PROVE  paid'[b] = IF registry'[b] = Absent THEN 0 ELSE registry'[b]
        <5>1. paid[b] = IF registry[b] = Absent THEN 0 ELSE registry[b]
          BY DEF MerkleInv
        <5>2. paid'[b] = IF b = a THEN paid[b] + 1 ELSE paid[b]
          BY <3>7 DEF MerkleInv
        <5>3. registry'[b] = IF b = a THEN spent + 1 ELSE registry[b]
          BY <2>0, <3>5
        <5>4. spent + 1 # Absent
          BY <2>0 DEF Absent
        <5> QED BY <3>4, <5>1, <5>2, <5>3, <5>4
      <4>2. paid' = [b \in Agents |-> paid'[b]]
        BY <3>7 DEF MerkleInv
      <4> QED BY <4>1, <4>2
    <3> QED BY <3>4, <3>5, <3>6, <3>8 DEF MerkleInv
  <2>2. ASSUME NEW a \in Agents, AddAgent(a) PROVE MerkleInv'
    <3>1. [registry EXCEPT ![a] = 0] \in [Agents -> {Absent} \cup 0..Budget]
      BY <2>0
    <3> QED BY <2>0, <2>2, <3>1, RebuildKeeps DEF AddAgent
  <2>3. ASSUME NEW a \in Agents, RemoveAgent(a) PROVE MerkleInv'
    <3>1. [registry EXCEPT ![a] = Absent] \in [Agents -> {Absent} \cup 0..Budget]
      BY <2>0
    <3> QED BY <2>0, <2>3, <3>1, RebuildKeeps DEF RemoveAgent
  <2>4. ASSUME NEW a \in Agents, UpdateAgentPolicy(a) PROVE MerkleInv'
    <3>1. [registry EXCEPT ![a] = 0] \in [Agents -> {Absent} \cup 0..Budget]
      BY <2>0
    <3> QED BY <2>0, <2>4, <3>1, RebuildKeeps DEF UpdateAgentPolicy
  <2>5. ASSUME NEW a \in Agents, NEW b \in Agents, RotateAgent(a, b) PROVE MerkleInv'
    <3>1. [registry EXCEPT ![a] = Absent, ![b] = 0] \in [Agents -> {Absent} \cup 0..Budget]
      BY <2>0
    <3> QED BY <2>0, <2>5, <3>1, RebuildKeeps DEF RotateAgent
  <2>6. CASE UNCHANGED vars
    BY <2>6 DEF MerkleInv, vars
  <2> QED BY <2>1, <2>2, <2>3, <2>4, <2>5, <2>6 DEF Next, OwnerStep
<1> QED BY <1>1, <1>2, PTL DEF Spec

\* Whatever leaf preimages and co-paths agents offer, the root that consensus
\* folds (computeMerkleRoot) stays the root of the SDK's own tree.
THEOREM RootCommits == Spec => []RootCommitsRegistry
<1>1. MerkleInv => RootCommitsRegistry
  BY DEF MerkleInv, RootCommitsRegistry
<1> QED BY <1>1, MerkleInvariant, PTL

\* No agent is paid more than the budget in the leaf the owner wrote for it.
THEOREM OneLane == Spec => []OneLanePerAgent
<1>1. MerkleInv => OneLanePerAgent
  <2> SUFFICES ASSUME MerkleInv, NEW a \in Agents PROVE paid[a] <= Budget
    BY DEF OneLanePerAgent
  <2>1. Budget \in Nat
    BY MerkleAssumption
  <2>2. registry[a] \in {Absent} \cup 0..Budget
    BY DEF MerkleInv
  <2>3. paid[a] = IF registry[a] = Absent THEN 0 ELSE registry[a]
    BY DEF MerkleInv
  <2> QED BY <2>1, <2>2, <2>3
<1> QED BY <1>1, MerkleInvariant, PTL

\* The proof generateAgentProofV4 makes for a registered agent is accepted by
\* requireAgentMembership: nobody with a budget is locked out.
THEOREM ProofsAccepted == Spec => []ProofsVerify
<1>1. MerkleInv => ProofsVerify
  <2> SUFFICES ASSUME MerkleInv, NEW a \in Agents, registry[a] # Absent
               PROVE  Verifies(a, registry[a], Proof(registry, a).siblings, Proof(registry, a).bits)
    BY Zenon DEF ProofsVerify
  <2> DEFINE D == Depth(registry)
             level == Levels(registry)
             s == Sorted(registry)
             i == Index(registry, a)
             before == Halvings(i - 1, D)
             co == [d \in 1..D |-> level[d - 1][Sibling(before[d - 1]) + 1]]
  <2>1. a \in Present(registry)
    BY DEF Present
  <2>2. /\ Len(s) \in Nat
        /\ \E k \in 1..Len(s) : s[k] = a
    BY <2>1, SortedLists
  <2>3. i \in 1..Len(s) /\ s[i] = a
    BY <2>2 DEF Index
  <2>4. Proof(registry, a).siblings = co /\ Proof(registry, a).bits = i - 1
    BY DEF Proof
  <2>5. D \in 0..MaxAgents /\ MaxAgents \in Nat
    BY LeafLevelIs, MerkleAssumption
  <2>6. root = Root(registry)
    BY DEF MerkleInv
  <2> HIDE DEF D, level, s, i
  <2>7. Len(co) = D
    BY <2>5
  <2>8. (i - 1) + 1 = i /\ i - 1 \in Nat
    BY <2>2, <2>3
  <2>9. IsCoPath(level, D, co, i - 1)
    BY DEF IsCoPath
  <2>10. Fold(PolicyLeaf(a, registry[a]), co, i - 1) = {Root(registry)}
    <3> HIDE DEF co
    <3>1. OwnPath(registry, a, co, i - 1)
      BY <2>1, <2>3, <2>7, <2>8, <2>9 DEF OwnPath, D, level, s
    <3>2. OthersSame(registry, registry, a)
      BY DEF OthersSame
    <3>3. FoldsToRoot(registry, a, co, i - 1)
      BY <3>1, <3>2, FoldsTo
    <3> QED BY <3>3 DEF FoldsToRoot
  <2> QED BY <2>4, <2>6, <2>10 DEF Verifies
<1> QED BY <1>1, MerkleInvariant, PTL
=============================================================================
