-------------------------- MODULE SubmissionPromise --------------------------
(***************************************************************************)
(* What POST /orders promises to its clients: an Idempotency-Key stands    *)
(* for one order, for good; whoever asks with the key is told that order,  *)
(* one request at most that it created it, or that the key stands for      *)
(* something else; and everybody is answered.                              *)
(***************************************************************************)
CONSTANTS Requests,  \* clients' requests
          KeyOf,     \* the Idempotency-Key of each request
          BodyOf,    \* what each request orders
          Ids,       \* order ids
          NoOrder

VARIABLES orders,  \* the orders accepted: [id, key, body]
          answer   \* what each request was told: [kind, id]

vars == <<orders, answer>>

Unanswered == [kind |-> "none", id |-> NoOrder]

Init == /\ orders = {}
        /\ answer = [r \in Requests |-> Unanswered]

\* The first request with a key settles what the key stands for.
Enter(r, id) ==
  /\ \A o \in orders : o.key # KeyOf[r] /\ o.id # id
  /\ orders' = orders \cup {[id |-> id, key |-> KeyOf[r], body |-> BodyOf[r]]}
  /\ UNCHANGED answer

\* r is told about the order o of its key.
Tell(r, o, kind) ==
  /\ answer[r] = Unanswered
  /\ o.key = KeyOf[r]
  /\ answer' = [answer EXCEPT ![r] =
       [kind |-> kind, id |-> IF kind = "KeyReused" THEN NoOrder ELSE o.id]]
  /\ UNCHANGED orders

Answer(r) ==
  \E o \in orders :
    \/ o.body # BodyOf[r] /\ Tell(r, o, "KeyReused")
    \/ o.body = BodyOf[r] /\ Tell(r, o, "Replayed")
    \/ /\ o.body = BodyOf[r]
       /\ \A s \in Requests : answer[s] # [kind |-> "Created", id |-> o.id]
       /\ Tell(r, o, "Created")

Next == \E r \in Requests : Answer(r) \/ \E id \in Ids : Enter(r, id)

\* The safety half of the promise.
Safe == Init /\ [][Next]_vars

\* The whole promise, for clients that retry until they are answered.
Spec == Safe /\ \A r \in Requests : <>(answer[r] # Unanswered)
=============================================================================
