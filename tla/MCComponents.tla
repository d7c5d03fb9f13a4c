---------------------------- MODULE MCComponents ----------------------------
(***************************************************************************)
(* Instances of the components that share no state with one another, in    *)
(* one run: a behaviour is one of one component, the others stay as they    *)
(* begin.                                                                  *)
(***************************************************************************)
EXTENDS AgentMerkleV4, WebhookDelivery, AuditChain, FacilitatorClaims, OrgRootV7

CONSTANTS
  endpoint, event1, event2, event3,
  call1, call2, call3, call4, call5, need1, need2, need3, output1, output2,
  key1, key2, successor

VARIABLE focus \* the component of this behaviour

merkleVars == vars
allVars == <<focus, merkleVars, webhookVars, auditVars, facilitatorVars, rootVars>>

\* The endpoint did not ask for the second event.
MCWants == {<<endpoint, event1>>, <<endpoint, event3>>}

\* Three calls for one requirement with two payments, and two requirements
\* that want the payment of another.
MCReqOf == call1 :> need1 @@ call2 :> need1 @@ call3 :> need1 @@ call4 :> need2
           @@ call5 :> need3
MCOutOf == call1 :> output1 @@ call2 :> output2 @@ call3 :> output2 @@ call4 :> output2
           @@ call5 :> output2
MCSameDestination == {<<need1, need3>>, <<need3, need1>>}

\* A set with a lighter emergency quorum, the successor's own, and a genesis
\* with one key in two slots.
MCHead(owners, m, k, r) == [owners |-> owners, ownerM |-> m, emergencyK |-> k, recoveryM |-> r]
MCHeads == {MCHead(<<key1, key2>>, 2, 1, 1), MCHead(<<successor, key2>>, 2, 2, 0),
            MCHead(<<key1, key1>>, 2, 1, 1)}

\* One trail of a component that is not looked at.
Still(component, initially) == focus = component \/ initially

MCInit ==
  /\ focus \in {"merkle", "webhooks", "audit", "facilitator", "root"}
  /\ Init /\ WebhookInit /\ AuditInit /\ FacilitatorInit /\ RootInit
  /\ Still("merkle", \A a \in Agents : registry[a] = Absent)
  /\ Still("webhooks", backend = "json")
  /\ Still("audit", medium = "json")
  /\ Still("facilitator", store = "files")
  /\ Still("root", org = RootOf(MCHead(<<key1, key2>>, 2, 1, 1), FALSE))
  /\ Still("root", \A v \in Vaults : vault[v].terms = CHOOSE t \in Terms7 : TRUE)

MCNext ==
  /\ UNCHANGED focus
  /\ \/ /\ focus = "merkle" /\ Next
        /\ UNCHANGED <<webhookVars, auditVars, facilitatorVars, rootVars>>
     \/ /\ focus = "webhooks" /\ WebhookNext
        /\ UNCHANGED <<merkleVars, auditVars, facilitatorVars, rootVars>>
     \/ /\ focus = "audit" /\ AuditNext
        /\ UNCHANGED <<merkleVars, webhookVars, facilitatorVars, rootVars>>
     \/ /\ focus = "facilitator" /\ FacilitatorNext
        /\ UNCHANGED <<merkleVars, webhookVars, auditVars, rootVars>>
     \/ /\ focus = "root" /\ RootNext
        /\ UNCHANGED <<merkleVars, webhookVars, auditVars, facilitatorVars>>

\* WebhookFairness of the behaviours that are about the webhooks.
MCFairness ==
  /\ WF_webhookVars(focus = "webhooks" /\ WorkerStep)
  /\ \A ep \in Endpoints : WF_webhookVars(focus = "webhooks" /\ Elapse(ep))

MCSpec == MCInit /\ [][MCNext]_allVars /\ MCFairness
=============================================================================
