----------------------------- MODULE OncePerKey -----------------------------
(***************************************************************************)
(* What an Idempotency-Key promises to the callers of the HTTP API, without *)
(* any of the machinery of server/src/idempotency.js: the operation of a    *)
(* key is performed at most once, it has at most one outcome, and a caller  *)
(* that is given an outcome asked for that operation and gets that outcome. *)
(* A caller may always be refused, also when the operation was performed.   *)
(***************************************************************************)
CONSTANTS
  Calls,    \* HTTP calls that carry a key
  Keys,     \* Idempotency-Key values, scoped by their caller
  KeyOf,    \* the key of a call
  BodyOf,   \* the method, path and body of a call
  Outcomes, \* what an operation may definitively result in
  Refusals, \* answers that carry no outcome
  None

VARIABLES
  ran,     \* the calls that performed the operation of a key
  result,  \* the outcome of the operation of a key, or None
  answer   \* what a call was answered, or None

vars == <<ran, result, answer>>

Init == /\ ran = [k \in Keys |-> {}]
        /\ result = [k \in Keys |-> None]
        /\ answer = [c \in Calls |-> None]

Perform(c) == /\ ran[KeyOf[c]] = {}
              /\ ran' = [ran EXCEPT ![KeyOf[c]] = {c}]
              /\ UNCHANGED <<result, answer>>

Decide(k, o) == /\ ran[k] # {}
                /\ result[k] = None
                /\ result' = [result EXCEPT ![k] = o]
                /\ UNCHANGED <<ran, answer>>

Answer(c) == /\ answer[c] = None
             /\ result[KeyOf[c]] # None
             /\ \A d \in ran[KeyOf[c]] : BodyOf[d] = BodyOf[c]
             /\ answer' = [answer EXCEPT ![c] = result[KeyOf[c]]]
             /\ UNCHANGED <<ran, result>>

Refuse(c, r) == /\ answer[c] = None
                /\ answer' = [answer EXCEPT ![c] = r]
                /\ UNCHANGED <<ran, result>>

Next == \/ \E c \in Calls : Perform(c) \/ Answer(c)
        \/ \E k \in Keys, o \in Outcomes : Decide(k, o)
        \/ \E c \in Calls, r \in Refusals : Refuse(c, r)

Spec == Init /\ [][Next]_vars
=============================================================================
