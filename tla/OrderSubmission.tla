--------------------------- MODULE OrderSubmission ---------------------------
(***************************************************************************)
(* POST /orders: concurrent requests with Idempotency-Keys against the     *)
(* order store.  A try generates its own order and event ids, and submits  *)
(* them in one transaction: INSERT .. ON CONFLICT (idempotency_key) DO     *)
(* NOTHING, then either the outbox event and the Accepted entry, or a look *)
(* at the order that has the key and a Replayed entry.  The INSERT waits   *)
(* for a transaction that is inserting the same key.                       *)
(*                                                                         *)
(* A client that gets a 503, or no response, retries with the same key and *)
(* the same body.  "faults" counts failed transactions, lost               *)
(* acknowledgements of COMMIT and lost responses.                          *)
(***************************************************************************)
EXTENDS Naturals, FiniteSets

CONSTANTS Requests,  \* requests of clients, each retried until answered
          Keys,      \* Idempotency-Keys
          Bodies,    \* what is ordered, as its fingerprint tells it apart
          KeyOf,     \* the key of each request
          BodyOf,    \* the body of each request
          NoOrder,   \* no order id
          MaxFaults  \* bound on the faults of a behaviour

ASSUME RequestAssumption == /\ KeyOf \in [Requests -> Keys]
                            /\ BodyOf \in [Requests -> Bodies]
ASSUME FiniteAssumption == IsFiniteSet(Requests)
ASSUME BoundAssumption == MaxFaults \in Nat

\* Every try generates an order id of its own.
Ids == Requests \X (Nat \ {0})

ASSUME IdAssumption == NoOrder \notin Ids

VARIABLES
  orders,    \* rows of orders: [id, key, body]
  outbox,    \* OrderCreated events inserted into order_outbox, per order
  accepted,  \* Accepted entries in order_timeline, per order
  replayed,  \* Replayed entries in order_timeline, per order
  tries,     \* tries of each request so far
  pc,        \* where each request is
  outcome,   \* what submitOrder returned to the current try: [kind, id]
  answer,    \* what the client was told
  faults     \* faults so far

tables == <<orders, outbox, accepted, replayed>>
vars == <<orders, outbox, accepted, replayed, tries, pc, outcome, answer,
          faults>>

Kinds == {"Created", "Replayed", "KeyReused"}

Unanswered == [kind |-> "none", id |-> NoOrder]

\* Orders there can be within the bound on faults.
Tried == Requests \X (1..MaxFaults + 1)

TypeOK ==
  /\ orders \subseteq [id : Tried, key : Keys, body : Bodies]
  /\ outbox \in [Tried -> Nat]
  /\ accepted \in [Tried -> Nat]
  /\ replayed \in [Tried -> Nat]
  /\ tries \in [Requests -> 0..MaxFaults + 1]
  /\ pc \in [Requests -> {"new", "insert", "create", "existing", "reply", "done"}]
  /\ outcome \in [Requests -> [kind : Kinds \cup {"none"}, id : Tried \cup {NoOrder}]]
  /\ answer \in [Requests -> [kind : Kinds \cup {"none"}, id : Tried \cup {NoOrder}]]
  /\ \A r \in Requests : answer[r] # Unanswered <=> pc[r] = "done"
  /\ faults \in 0..MaxFaults

Init ==
  /\ orders = {}
  /\ outbox = [id \in Tried |-> 0]
  /\ accepted = [id \in Tried |-> 0]
  /\ replayed = [id \in Tried |-> 0]
  /\ tries = [r \in Requests |-> 0]
  /\ pc = [r \in Requests |-> "new"]
  /\ outcome = [r \in Requests |-> Unanswered]
  /\ answer = [r \in Requests |-> Unanswered]
  /\ faults = 0
-----------------------------------------------------------------------------
(* Helpers. *)

\* A fault is one more of a bounded number of things that go wrong.
Fault == faults < MaxFaults /\ faults' = faults + 1

\* The order id generated by the current try of r.
OwnId(r) == <<r, tries[r]>>

\* Faulty variant: the index does not wait for an INSERT in progress.
KeyNeverTaken(r) == FALSE

\* Another transaction has inserted r's key and not yet committed.
KeyTaken(r) ==
  \E s \in Requests \ {r} : pc[s] = "create" /\ KeyOf[s] = KeyOf[r]

\* Rows with r's key: what the unique index and the SELECT find.
Conflicting(r) == {o \in orders : o.key = KeyOf[r]}

\* Faulty variant: the body of a repeated request is not compared.
AnyRequest(r, o) == TRUE

\* stored.requestFingerprint = order.requestFingerprint
SameRequest(r, o) == o.body = BodyOf[r]

\* Faulty variant: the response names the id generated by this try.
FoundOwnOutcome(r, o) ==
  [kind |-> IF SameRequest(r, o) THEN "Replayed" ELSE "KeyReused",
   id |-> IF SameRequest(r, o) THEN OwnId(r) ELSE NoOrder]

\* What submitOrder returns when the key is there already.
FoundOutcome(r, o) ==
  [kind |-> IF SameRequest(r, o) THEN "Replayed" ELSE "KeyReused",
   id |-> IF SameRequest(r, o) THEN o.id ELSE NoOrder]

Goto(r, label) == pc' = [pc EXCEPT ![r] = label]

\* The store throws: 503, with Retry-After and the same key.
Unavailable(r) ==
  /\ Goto(r, "new")
  /\ outcome' = [outcome EXCEPT ![r] = Unanswered]
-----------------------------------------------------------------------------
(* One try. *)

\* The request is validated, its ids are generated, its transaction begins.
Submit(r) ==
  /\ pc[r] = "new"
  /\ tries' = [tries EXCEPT ![r] = @ + 1]
  /\ Goto(r, "insert")
  /\ UNCHANGED <<tables, outcome, answer, faults>>

\* INSERT .. ON CONFLICT DO NOTHING, once no other INSERT of the key is open.
Insert(r) ==
  /\ pc[r] = "insert" /\ ~KeyTaken(r)
  /\ Goto(r, IF Conflicting(r) = {} THEN "create" ELSE "existing")
  /\ UNCHANGED <<tables, tries, outcome, answer, faults>>

\* The order, its event and its Accepted entry.
WriteOrder(r) ==
  /\ orders' = orders \cup
       {[id |-> OwnId(r), key |-> KeyOf[r], body |-> BodyOf[r]]}
  /\ outbox' = [outbox EXCEPT ![OwnId(r)] = @ + 1]
  /\ accepted' = [accepted EXCEPT ![OwnId(r)] = @ + 1]
  /\ UNCHANGED replayed

\* The new order is committed.
Create(r) ==
  /\ pc[r] = "create"
  /\ WriteOrder(r)
  /\ outcome' = [outcome EXCEPT ![r] = [kind |-> "Created", id |-> OwnId(r)]]
  /\ Goto(r, "reply")
  /\ UNCHANGED <<tries, answer, faults>>

\* The new order is committed, but the service sees an error.
CreateLost(r) ==
  /\ pc[r] = "create" /\ Fault
  /\ WriteOrder(r)
  /\ Unavailable(r)
  /\ UNCHANGED <<tries, answer>>

\* Faulty variant: a retry is not recorded.
WriteNothing(r, o) == UNCHANGED tables

\* The Replayed entry of the order o that has r's key.
WriteReplay(r, o) ==
  /\ replayed' = IF SameRequest(r, o) THEN [replayed EXCEPT ![o.id] = @ + 1]
                                      ELSE replayed
  /\ UNCHANGED <<orders, outbox, accepted>>

\* The key was found: the same order, or another one.
Existing(r) ==
  /\ pc[r] = "existing"
  /\ \E o \in Conflicting(r) :
       /\ WriteReplay(r, o)
       /\ outcome' = [outcome EXCEPT ![r] = FoundOutcome(r, o)]
  /\ Goto(r, "reply")
  /\ UNCHANGED <<tries, answer, faults>>

\* The same, but the acknowledgement of the COMMIT is lost.
ExistingLost(r) ==
  /\ pc[r] = "existing" /\ Fault
  /\ \E o \in Conflicting(r) : WriteReplay(r, o)
  /\ Unavailable(r)
  /\ UNCHANGED <<tries, answer>>

\* Faulty variant: the statements are not one transaction.
FailWithoutRollback(r) ==
  /\ pc[r] \in {"insert", "create", "existing"} /\ Fault
  /\ Unavailable(r)
  /\ orders' = IF pc[r] = "create"
                 THEN orders \cup
                      {[id |-> OwnId(r), key |-> KeyOf[r], body |-> BodyOf[r]]}
                 ELSE orders
  /\ UNCHANGED <<outbox, accepted, replayed, tries, answer>>

\* A statement fails or the connection breaks: ROLLBACK.
Fail(r) ==
  /\ pc[r] \in {"insert", "create", "existing"} /\ Fault
  /\ Unavailable(r)
  /\ UNCHANGED <<tables, tries, answer>>

\* 201, 200 or 422 reaches the client.
Respond(r) ==
  /\ pc[r] = "reply"
  /\ answer' = [answer EXCEPT ![r] = outcome[r]]
  /\ Goto(r, "done")
  /\ UNCHANGED <<tables, tries, outcome, faults>>

\* The response is lost, or the process dies before it is sent.
ResponseLost(r) ==
  /\ pc[r] = "reply" /\ Fault
  /\ Unavailable(r)
  /\ UNCHANGED <<tables, tries, answer>>
-----------------------------------------------------------------------------
RequestStep(r) ==
  Submit(r) \/ Insert(r) \/ Create(r) \/ Existing(r) \/ Respond(r)

RequestFault(r) ==
  CreateLost(r) \/ ExistingLost(r) \/ Fail(r) \/ ResponseLost(r)

Next == \E r \in Requests : RequestStep(r) \/ RequestFault(r)

Spec == Init /\ [][Next]_vars

\* Clients retry until they are answered, and statements return.  A waiting
\* INSERT is woken when the key is free.
Fairness ==
  \A r \in Requests :
    /\ WF_vars(Submit(r) \/ Create(r) \/ Existing(r) \/ Respond(r))
    /\ SF_vars(Insert(r))

FairSpec == Spec /\ Fairness
-----------------------------------------------------------------------------
(* Properties. *)

\* Two orders never share a key, however their submissions overlap.
OneOrderPerKey == \A x, y \in orders : x.key = y.key => x = y

\* An order, its OrderCreated event and its Accepted entry are one: a try that
\* failed, or that found the key in use, left none of them behind.
WrittenTogether ==
  \A id \in Tried :
    LET stored == IF id \in {o.id : o \in orders} THEN 1 ELSE 0
    IN  /\ outbox[id] = stored
        /\ accepted[id] = stored
        /\ replayed[id] > 0 => stored = 1

\* Submissions that overlap, fail and are tried again store what was asked for
\* once: one order for a key, with one event and one entry.
StoredOnce == OneOrderPerKey /\ WrittenTogether

\* A client is only ever told of an order that is stored and is what it asked
\* for, so all answers to one key and body agree; and of a reused key only if
\* the key stands for something else.  Every retry that was told of an order is
\* in the order's timeline.
AnswersAreTrue ==
  /\ \A r \in Requests :
       /\ answer[r].kind \in {"Created", "Replayed"} =>
            [id |-> answer[r].id, key |-> KeyOf[r], body |-> BodyOf[r]] \in orders
       /\ answer[r].kind = "KeyReused" =>
            \E o \in orders : o.key = KeyOf[r] /\ o.body # BodyOf[r]
  /\ \A o \in orders :
       Cardinality({r \in Requests :
                      answer[r] = [kind |-> "Replayed", id |-> o.id]})
         <= replayed[o.id]

\* Submission implements the promise made to the clients.
Promise == INSTANCE SubmissionPromise WITH Ids <- Tried

PromiseSafe == Promise!Safe
PromiseKept == Promise!Spec
=============================================================================
