--------------------------- MODULE SubmissionProofs ---------------------------
(***************************************************************************)
(* Theorems about OrderSubmission, for any finite number of requests, any  *)
(* keys and bodies, and any number of faults.                              *)
(***************************************************************************)
EXTENDS OrderSubmission, FiniteSetTheorems, TLAPS

(* The inductive invariant. *)

InTransaction == {"insert", "create", "existing"}

\* A request has tried once more than it failed, at most.
TriesAreCounted ==
  \A r \in Requests :
    /\ pc[r] = "new" => tries[r] <= faults
    /\ pc[r] # "new" => tries[r] > 0 /\ tries[r] <= faults + 1

\* The ids of tries that have not committed are new.
IdsAreFresh ==
  /\ \A o \in orders : \E r \in Requests : \E n \in 1..tries[r] : o.id = <<r, n>>
  /\ \A r \in Requests :
       pc[r] \in InTransaction => \A o \in orders : o.id # OwnId(r)

IdsAreUnique == \A x, y \in orders : x.id = y.id => x = y

\* Who inserts a key is the only one, and there is no order with it.
KeysAreLocked ==
  \A r \in Requests :
    pc[r] = "create" => ~KeyTaken(r) /\ Conflicting(r) = {}

\* What a try returns is true, and what its client is told if it is told.
OutcomesAreTrue ==
  \A r \in Requests :
    /\ pc[r] \notin {"reply", "done"} => outcome[r] = Unanswered
    /\ pc[r] \in {"reply", "done"} =>
         /\ outcome[r].kind \in Kinds
         /\ outcome[r].kind \in {"Created", "Replayed"} =>
              [id |-> outcome[r].id, key |-> KeyOf[r], body |-> BodyOf[r]]
                \in orders
         /\ outcome[r].kind = "Created" => outcome[r].id = OwnId(r)
         /\ outcome[r].kind = "KeyReused" =>
              /\ outcome[r].id = NoOrder
              /\ \E o \in orders : o.key = KeyOf[r] /\ o.body # BodyOf[r]
    /\ pc[r] = "done" => answer[r] = outcome[r]
    /\ pc[r] # "done" => answer[r] = Unanswered

\* Requests that are told that they repeated the order id.
Repeats(id) == {r \in Requests : outcome[r] = [kind |-> "Replayed", id |-> id]}

ReplaysAreCounted == \A id \in Tried : Cardinality(Repeats(id)) <= replayed[id]

\* WrittenTogether, for each order id.
Stored(id) == \E o \in orders : o.id = id

RowsAreTogether ==
  \A id \in Tried :
    /\ Stored(id) => outbox[id] = 1 /\ accepted[id] = 1
    /\ ~Stored(id) => outbox[id] = 0 /\ accepted[id] = 0 /\ replayed[id] = 0

IInv ==
  /\ TypeOK /\ TriesAreCounted /\ IdsAreFresh /\ IdsAreUnique
  /\ OneOrderPerKey /\ KeysAreLocked /\ OutcomesAreTrue /\ ReplaysAreCounted
  /\ RowsAreTogether
-----------------------------------------------------------------------------
(* Helpers. *)

\* The id of a try under way is one of those within the bound.
LEMMA OwnIdIsTried ==
  ASSUME TypeOK, TriesAreCounted, NEW r \in Requests, pc[r] # "new"
  PROVE  OwnId(r) \in Tried
BY BoundAssumption DEF TypeOK, TriesAreCounted, OwnId, Tried

\* No try generates the id that stands for none.
LEMMA NoOrderIsNoId == \A id \in Tried : id # NoOrder
BY IdAssumption, BoundAssumption DEF Tried, Ids

\* The requests that repeated an order can be counted.
LEMMA RepeatsAreFinite ==
  \A id : IsFiniteSet(Repeats(id)) /\ Cardinality(Repeats(id)) \in Nat
<1>. TAKE id
<1>1. Repeats(id) \subseteq Requests
  BY DEF Repeats
<1>2. IsFiniteSet(Repeats(id))
  BY <1>1, FiniteAssumption, FS_Subset
<1>. QED BY <1>2, FS_CardinalityType

\* A store without orders satisfies the invariant.
LEMMA InitIsSafe == Init => IInv
<1>. SUFFICES ASSUME Init PROVE IInv
  OBVIOUS
<1>1. TypeOK
  BY BoundAssumption DEF Init, TypeOK, Unanswered
<1>2. TriesAreCounted /\ IdsAreFresh /\ IdsAreUnique /\ OneOrderPerKey
  BY DEF Init, TriesAreCounted, IdsAreFresh, IdsAreUnique, OneOrderPerKey,
     InTransaction
<1>3. KeysAreLocked /\ OutcomesAreTrue
  BY DEF Init, KeysAreLocked, OutcomesAreTrue
<1>4. ReplaysAreCounted
  <2>1. \A id \in Tried : Repeats(id) = {}
    BY DEF Init, Repeats, Unanswered
  <2>. QED BY <2>1, FS_EmptySet DEF Init, ReplaysAreCounted
<1>5. RowsAreTogether
  BY DEF Init, RowsAreTogether, Stored
<1>. QED BY <1>1, <1>2, <1>3, <1>4, <1>5 DEF IInv

\* A client that is not answered: it is back where it was, with nothing told.
LEMMA UnavailableDoes ==
  ASSUME TypeOK, NEW r \in Requests, Unavailable(r)
  PROVE  /\ pc' \in [Requests -> {"new", "insert", "create", "existing", "reply",
                                  "done"}]
         /\ outcome' \in [Requests -> [kind : Kinds \cup {"none"},
                                       id : Tried \cup {NoOrder}]]
         /\ pc'[r] = "new" /\ outcome'[r] = Unanswered
         /\ \A s \in Requests \ {r} : pc'[s] = pc[s] /\ outcome'[s] = outcome[s]
         /\ \A id : Repeats(id)' \subseteq Repeats(id)
<1>1. /\ pc' = [pc EXCEPT ![r] = "new"]
      /\ outcome' = [outcome EXCEPT ![r] = Unanswered]
  BY DEF Unavailable, Goto
<1>2. /\ pc' \in [Requests -> {"new", "insert", "create", "existing", "reply",
                               "done"}]
      /\ pc'[r] = "new" /\ outcome'[r] = Unanswered
      /\ \A s \in Requests \ {r} : pc'[s] = pc[s] /\ outcome'[s] = outcome[s]
  BY <1>1 DEF TypeOK
<1>3. outcome' \in [Requests -> [kind : Kinds \cup {"none"},
                                 id : Tried \cup {NoOrder}]]
  BY <1>1 DEF TypeOK, Unanswered
<1>4. \A id : Repeats(id)' \subseteq Repeats(id)
  BY <1>2 DEF Repeats, Unanswered
<1>. QED BY <1>2, <1>3, <1>4

\* Fewer repeats than before are still counted.
LEMMA FewerRepeats ==
  ASSUME ReplaysAreCounted, TypeOK,
         \A id \in Tried : Repeats(id)' \subseteq Repeats(id) /\ replayed'[id] >= replayed[id],
         replayed' \in [Tried -> Nat]
  PROVE  ReplaysAreCounted'
<1>1. ASSUME NEW id \in Tried
      PROVE  Cardinality(Repeats(id)') <= replayed'[id]
  <2>1. /\ IsFiniteSet(Repeats(id)) /\ Cardinality(Repeats(id)) \in Nat
        /\ Repeats(id)' \subseteq Repeats(id)
    BY RepeatsAreFinite
  <2>2. /\ Cardinality(Repeats(id)') <= Cardinality(Repeats(id))
        /\ Cardinality(Repeats(id)') \in Nat
    BY <2>1, FS_Subset, FS_CardinalityType
  <2>3. Cardinality(Repeats(id)) <= replayed[id] /\ replayed[id] \in Nat
        /\ replayed'[id] \in Nat
    BY DEF ReplaysAreCounted, TypeOK
  <2>. QED BY <2>1, <2>2, <2>3
<1>. QED BY <1>1 DEF ReplaysAreCounted
-----------------------------------------------------------------------------
(* The invariant, step by step. *)

Labels == {"new", "insert", "create", "existing", "reply", "done"}
Outcomes == [kind : Kinds \cup {"none"}, id : Tried \cup {NoOrder}]

\* Rows that do not change keep what only depends on them.
LEMMA RowsRest ==
  ASSUME IInv, UNCHANGED <<orders, outbox, accepted, replayed>>
  PROVE  IdsAreUnique' /\ OneOrderPerKey' /\ RowsAreTogether'
BY DEF IInv, IdsAreUnique, OneOrderPerKey, RowsAreTogether, Stored

\* A try begins, or its INSERT returns.
LEMMA GoingOnIsSafe ==
  ASSUME IInv, NEW r \in Requests, Submit(r) \/ Insert(r)
  PROVE  IInv'
<1>1. /\ UNCHANGED <<orders, outbox, accepted, replayed, outcome, answer, faults>>
      /\ pc[r] \in {"new", "insert"} /\ pc'[r] \in InTransaction
      /\ pc' = [pc EXCEPT ![r] = pc'[r]]
      /\ pc' \in [Requests -> Labels]
      /\ \A s \in Requests \ {r} : pc'[s] = pc[s]
  BY DEF Submit, Insert, Goto, tables, IInv, TypeOK, InTransaction, Labels
<1>2. /\ TypeOK /\ TriesAreCounted /\ IdsAreFresh /\ KeysAreLocked
      /\ OutcomesAreTrue /\ ReplaysAreCounted
      /\ tries \in [Requests -> 0..MaxFaults + 1]
      /\ faults \in 0..MaxFaults /\ MaxFaults \in Nat
  BY BoundAssumption DEF IInv, TypeOK
<1>3. /\ tries' \in [Requests -> 0..MaxFaults + 1]
      /\ \A s \in Requests \ {r} : tries'[s] = tries[s]
      /\ \A s \in Requests : tries'[s] >= tries[s]
      /\ tries'[r] > 0 /\ tries'[r] <= faults + 1
  <2>1. CASE Submit(r)
    <3>1. tries[r] <= faults /\ tries' = [tries EXCEPT ![r] = @ + 1]
      BY <1>2, <2>1 DEF Submit, TriesAreCounted
    <3>2. tries[r] + 1 \in 0..MaxFaults + 1
      BY <1>2, <3>1
    <3>3. /\ tries' \in [Requests -> 0..MaxFaults + 1]
          /\ \A s \in Requests \ {r} : tries'[s] = tries[s]
          /\ tries'[r] = tries[r] + 1
      BY <1>2, <3>1, <3>2
    <3>. QED BY <1>2, <3>1, <3>3
  <2>2. CASE Insert(r)
    <3>1. tries' = tries
      BY <2>2 DEF Insert
    <3>. QED BY <1>2, <2>2, <3>1 DEF Insert, TriesAreCounted
  <2>. QED BY <2>1, <2>2
<1>4. TypeOK'
  BY <1>1, <1>2, <1>3 DEF TypeOK, Labels, InTransaction
<1>5. TriesAreCounted'
  BY <1>1, <1>2, <1>3 DEF TriesAreCounted, InTransaction
<1>6. IdsAreFresh'
  <2>1. \A o \in orders : \E s \in Requests : \E n \in 1..tries'[s] : o.id = <<s, n>>
    <3>1. SUFFICES ASSUME NEW o \in orders
                   PROVE  \E s \in Requests : \E n \in 1..tries'[s] : o.id = <<s, n>>
      OBVIOUS
    <3>2. PICK s \in Requests : \E n \in 1..tries[s] : o.id = <<s, n>>
      BY <1>2 DEF IdsAreFresh
    <3>3. PICK n \in 1..tries[s] : o.id = <<s, n>>
      BY <3>2
    <3>4. n \in 1..tries'[s]
      BY <1>2, <1>3
    <3>. QED BY <3>3, <3>4
  <2>2. ASSUME NEW o \in orders PROVE o.id # <<r, tries'[r]>>
    <3>1. CASE Submit(r)
      <4>1. tries'[r] = tries[r] + 1
        BY <1>2, <3>1 DEF Submit
      <4>2. PICK s \in Requests : \E n \in 1..tries[s] : o.id = <<s, n>>
        BY <1>2 DEF IdsAreFresh
      <4>. QED BY <1>2, <4>1, <4>2
    <3>2. CASE Insert(r)
      <4>1. tries' = tries /\ pc[r] \in InTransaction
        BY <3>2 DEF Insert, InTransaction
      <4>. QED BY <1>2, <4>1 DEF IdsAreFresh, OwnId
    <3>. QED BY <3>1, <3>2
  <2>3. ASSUME NEW s \in Requests \ {r}, pc'[s] \in InTransaction, NEW o \in orders
        PROVE  o.id # <<s, tries'[s]>>
    BY <1>1, <1>2, <1>3, <2>3 DEF IdsAreFresh, OwnId
  <2>. QED BY <1>1, <2>1, <2>2, <2>3 DEF IdsAreFresh, OwnId
<1>7. KeysAreLocked'
  <2>1. /\ \A s \in Requests : Conflicting(s)' = Conflicting(s)
        /\ pc'[r] = "create" => ~KeyTaken(r) /\ Conflicting(r) = {}
    BY <1>1 DEF Conflicting, Submit, Insert, Goto, IInv, TypeOK
  <2>. QED BY <1>1, <1>2, <2>1 DEF KeysAreLocked, KeyTaken
<1>8. OutcomesAreTrue'
  <2>1. \A s \in Requests \ {r} : OwnId(s)' = OwnId(s)
    BY <1>3 DEF OwnId
  <2>. QED BY <1>1, <1>2, <2>1 DEF OutcomesAreTrue, InTransaction
<1>9. ReplaysAreCounted'
  BY <1>1, <1>2 DEF ReplaysAreCounted, Repeats
<1>. QED BY <1>1, <1>4, <1>5, <1>6, <1>7, <1>8, <1>9, RowsRest DEF IInv

\* A try ends without an answer, and nothing is written.
LEMMA BackIsSafe ==
  ASSUME IInv, NEW r \in Requests, pc[r] \notin {"new", "done"}, Unavailable(r),
         Fault, UNCHANGED <<orders, outbox, accepted, replayed, tries, answer>>
  PROVE  IInv'
<1>1. /\ TypeOK /\ TriesAreCounted /\ IdsAreFresh /\ KeysAreLocked
      /\ OutcomesAreTrue /\ ReplaysAreCounted
      /\ tries \in [Requests -> 0..MaxFaults + 1]
      /\ faults \in 0..MaxFaults /\ MaxFaults \in Nat
      /\ faults' = faults + 1 /\ faults' \in 0..MaxFaults
  BY BoundAssumption DEF IInv, TypeOK, Fault
<1>2. /\ pc' \in [Requests -> Labels] /\ outcome' \in [Requests -> Outcomes]
      /\ pc'[r] = "new" /\ outcome'[r] = Unanswered
      /\ \A s \in Requests \ {r} : pc'[s] = pc[s] /\ outcome'[s] = outcome[s]
      /\ \A id : Repeats(id)' \subseteq Repeats(id)
  BY <1>1, UnavailableDoes DEF Labels, Outcomes
<1>3. TypeOK'
  BY <1>1, <1>2 DEF TypeOK, Labels, Outcomes
<1>4. TriesAreCounted'
  <2>1. \A s \in Requests : tries[s] \in Nat
    BY <1>1
  <2>. QED BY <1>1, <1>2, <2>1 DEF TriesAreCounted
<1>5. IdsAreFresh'
  BY <1>1, <1>2 DEF IdsAreFresh, OwnId, InTransaction
<1>6. KeysAreLocked'
  BY <1>1, <1>2 DEF KeysAreLocked, KeyTaken, Conflicting
<1>7. OutcomesAreTrue'
  BY <1>1, <1>2 DEF OutcomesAreTrue, OwnId
<1>8. ReplaysAreCounted'
  BY <1>1, <1>2, FewerRepeats DEF TypeOK
<1>. QED BY <1>3, <1>4, <1>5, <1>6, <1>7, <1>8, RowsRest DEF IInv

\* A client is told what its try returned.
LEMMA RespondIsSafe ==
  ASSUME IInv, NEW r \in Requests, Respond(r)
  PROVE  IInv'
<1>1. /\ pc[r] = "reply"
      /\ answer' = [answer EXCEPT ![r] = outcome[r]]
      /\ pc' = [pc EXCEPT ![r] = "done"]
      /\ UNCHANGED <<orders, outbox, accepted, replayed, tries, outcome, faults>>
  BY DEF Respond, Goto, tables
<1>2. /\ TypeOK /\ TriesAreCounted /\ IdsAreFresh /\ KeysAreLocked
      /\ OutcomesAreTrue /\ ReplaysAreCounted
  BY DEF IInv
<1>3. /\ pc'[r] = "done" /\ answer'[r] = outcome[r]
      /\ \A s \in Requests \ {r} : pc'[s] = pc[s] /\ answer'[s] = answer[s]
  BY <1>1, <1>2 DEF TypeOK
<1>4. outcome[r] # Unanswered
  <2>1. outcome[r].kind \in Kinds
    BY <1>1, <1>2 DEF OutcomesAreTrue
  <2>2. Unanswered.kind = "none"
    BY DEF Unanswered
  <2>. QED BY <2>1, <2>2 DEF Kinds
<1>5. TypeOK'
  BY <1>1, <1>2, <1>3, <1>4 DEF TypeOK
<1>6. TriesAreCounted' /\ IdsAreFresh' /\ KeysAreLocked'
  BY <1>1, <1>2, <1>3 DEF TriesAreCounted, IdsAreFresh, KeysAreLocked, KeyTaken,
     Conflicting, OwnId, InTransaction
<1>7. OutcomesAreTrue'
  BY <1>1, <1>2, <1>3 DEF OutcomesAreTrue, OwnId
<1>8. ReplaysAreCounted'
  BY <1>1, <1>2 DEF ReplaysAreCounted, Repeats
<1>. QED BY <1>1, <1>5, <1>6, <1>7, <1>8, RowsRest DEF IInv

\* The rows that a committed order adds.
LEMMA WriteOrderDoes ==
  ASSUME IInv, NEW r \in Requests, pc[r] = "create", WriteOrder(r)
  PROVE  /\ orders' = orders \cup
              {[id |-> OwnId(r), key |-> KeyOf[r], body |-> BodyOf[r]]}
         /\ orders' \subseteq [id : Tried, key : Keys, body : Bodies]
         /\ outbox' \in [Tried -> Nat] /\ accepted' \in [Tried -> Nat]
         /\ replayed' = replayed
         /\ OwnId(r) \in Tried
         /\ IdsAreUnique' /\ OneOrderPerKey' /\ RowsAreTogether'
<1>1. /\ orders' = orders \cup
              {[id |-> OwnId(r), key |-> KeyOf[r], body |-> BodyOf[r]]}
      /\ outbox' = [outbox EXCEPT ![OwnId(r)] = @ + 1]
      /\ accepted' = [accepted EXCEPT ![OwnId(r)] = @ + 1]
      /\ replayed' = replayed
  BY DEF WriteOrder
<1>2. /\ orders \subseteq [id : Tried, key : Keys, body : Bodies]
      /\ outbox \in [Tried -> Nat] /\ accepted \in [Tried -> Nat]
  BY DEF IInv, TypeOK
<1>3. OwnId(r) \in Tried
  BY OwnIdIsTried DEF IInv
<1>4. /\ outbox' \in [Tried -> Nat] /\ accepted' \in [Tried -> Nat]
      /\ outbox'[OwnId(r)] = outbox[OwnId(r)] + 1
      /\ accepted'[OwnId(r)] = accepted[OwnId(r)] + 1
      /\ \A id \in Tried \ {OwnId(r)} :
           outbox'[id] = outbox[id] /\ accepted'[id] = accepted[id]
  BY <1>1, <1>2, <1>3
<1>5. orders' \subseteq [id : Tried, key : Keys, body : Bodies]
  BY <1>1, <1>2, <1>3, RequestAssumption
<1>6. /\ \A o \in orders : o.id # OwnId(r)
      /\ \A o \in orders : o.key # KeyOf[r]
  BY DEF IInv, IdsAreFresh, InTransaction, KeysAreLocked, Conflicting
<1>7. IdsAreUnique' /\ OneOrderPerKey'
  BY <1>1, <1>6 DEF IInv, IdsAreUnique, OneOrderPerKey
<1>8. PICK new \in Tried : new = OwnId(r)
  BY <1>3
<1>9. RowsAreTogether'
  <2>1. /\ Stored(new)' /\ ~Stored(new)
        /\ \A id \in Tried \ {new} : Stored(id)' <=> Stored(id)
    <3>1. PICK row : /\ row.id = new
                     /\ orders' = orders \cup {row}
      BY <1>1, <1>8
    <3>2. \A o \in orders : o.id # new
      BY <1>6, <1>8
    <3>. QED BY <3>1, <3>2 DEF Stored
  <2>2. RowsAreTogether
    BY DEF IInv
  <2>3. outbox[new] = 0 /\ accepted[new] = 0
    BY <1>8, <2>1, <2>2 DEF RowsAreTogether
  <2>4. outbox'[new] = 1 /\ accepted'[new] = 1
    BY <1>4, <1>8, <2>3
  <2>. QED BY <1>1, <1>4, <1>8, <2>1, <2>2, <2>4 DEF RowsAreTogether
<1>. QED BY <1>1, <1>3, <1>4, <1>5, <1>7, <1>9

\* An order is committed, whether or not its request learns of it.
LEMMA CreateIsSafe ==
  ASSUME IInv, NEW r \in Requests, Create(r) \/ CreateLost(r)
  PROVE  IInv'
<1>1. /\ pc[r] = "create" /\ WriteOrder(r)
      /\ UNCHANGED <<tries, answer>>
  BY DEF Create, CreateLost
<1>2. /\ TypeOK /\ TriesAreCounted /\ IdsAreFresh /\ KeysAreLocked
      /\ OutcomesAreTrue /\ ReplaysAreCounted
      /\ tries \in [Requests -> 0..MaxFaults + 1]
      /\ faults \in 0..MaxFaults /\ MaxFaults \in Nat
  BY BoundAssumption DEF IInv, TypeOK
<1> DEFINE row == [id |-> OwnId(r), key |-> KeyOf[r], body |-> BodyOf[r]]
<1>3. /\ orders' = orders \cup {row}
      /\ orders' \subseteq [id : Tried, key : Keys, body : Bodies]
      /\ outbox' \in [Tried -> Nat] /\ accepted' \in [Tried -> Nat]
      /\ replayed' = replayed
      /\ OwnId(r) \in Tried
      /\ IdsAreUnique' /\ OneOrderPerKey' /\ RowsAreTogether'
  BY <1>1, WriteOrderDoes
<1>4. /\ pc' \in [Requests -> Labels] /\ outcome' \in [Requests -> Outcomes]
      /\ \A s \in Requests \ {r} : pc'[s] = pc[s] /\ outcome'[s] = outcome[s]
      /\ \A id : Repeats(id)' \subseteq Repeats(id)
      /\ faults' \in 0..MaxFaults
      /\ \/ /\ pc'[r] = "new" /\ outcome'[r] = Unanswered
            /\ faults' = faults + 1
         \/ /\ pc'[r] = "reply" /\ faults' = faults
            /\ outcome'[r] = [kind |-> "Created", id |-> OwnId(r)]
  <2>1. CASE Create(r)
    <3>1. /\ outcome' = [outcome EXCEPT ![r] = [kind |-> "Created", id |-> OwnId(r)]]
          /\ pc' = [pc EXCEPT ![r] = "reply"]
          /\ faults' = faults
      BY <2>1 DEF Create, Goto
    <3>2. [kind |-> "Created", id |-> OwnId(r)] \in Outcomes
      BY <1>3 DEF Outcomes, Kinds
    <3>3. /\ pc' \in [Requests -> Labels] /\ outcome' \in [Requests -> Outcomes]
          /\ \A s \in Requests \ {r} : pc'[s] = pc[s] /\ outcome'[s] = outcome[s]
          /\ pc'[r] = "reply"
          /\ outcome'[r] = [kind |-> "Created", id |-> OwnId(r)]
      BY <1>2, <3>1, <3>2 DEF TypeOK, Labels, Outcomes
    <3>4. \A id : Repeats(id)' \subseteq Repeats(id)
      BY <3>3 DEF Repeats
    <3>. QED BY <1>2, <3>1, <3>3, <3>4
  <2>2. CASE CreateLost(r)
    <3>1. Unavailable(r) /\ Fault
      BY <2>2 DEF CreateLost
    <3>. QED BY <1>2, <3>1, UnavailableDoes DEF Labels, Outcomes, Fault
  <2>. QED BY <2>1, <2>2
<1>5. TypeOK'
  BY <1>1, <1>2, <1>3, <1>4 DEF TypeOK, Labels, Outcomes
<1>6. TriesAreCounted'
  <2>1. \A s \in Requests : tries[s] \in Nat
    BY <1>2
  <2>. QED BY <1>1, <1>2, <1>4, <2>1 DEF TriesAreCounted
<1>7. IdsAreFresh'
  <2>1. tries[r] \in 1..tries[r]
    BY <1>1, <1>2 DEF TriesAreCounted
  <2>2. \A o \in orders' : \E s \in Requests : \E n \in 1..tries[s] : o.id = <<s, n>>
    BY <1>2, <1>3, <2>1 DEF IdsAreFresh, OwnId
  <2>3. ASSUME NEW s \in Requests, pc'[s] \in InTransaction, NEW o \in orders'
        PROVE  o.id # OwnId(s)
    <3>1. s # r /\ pc[s] \in InTransaction
      BY <1>4, <2>3 DEF InTransaction
    <3>2. OwnId(s) # OwnId(r)
      BY <3>1 DEF OwnId
    <3>. QED BY <1>2, <1>3, <3>1, <3>2 DEF IdsAreFresh
  <2>4. \A s : OwnId(s)' = OwnId(s)
    BY <1>1 DEF OwnId
  <2>. QED BY <1>1, <2>2, <2>3, <2>4 DEF IdsAreFresh
<1>8. KeysAreLocked'
  <2>1. ASSUME NEW s \in Requests, pc'[s] = "create"
        PROVE  ~KeyTaken(s)' /\ Conflicting(s)' = {}
    <3>1. s # r /\ pc[s] = "create"
      BY <1>4, <2>1
    <3>2. ~KeyTaken(s) /\ Conflicting(s) = {}
      BY <1>2, <3>1 DEF KeysAreLocked
    <3>3. KeyOf[r] # KeyOf[s]
      BY <1>1, <3>1, <3>2 DEF KeyTaken
    <3>4. Conflicting(s)' = {}
      BY <1>3, <3>2, <3>3 DEF Conflicting
    <3>5. ~KeyTaken(s)'
      BY <1>4, <3>2 DEF KeyTaken
    <3>. QED BY <3>4, <3>5
  <2>. QED BY <2>1 DEF KeysAreLocked
<1>9. OutcomesAreTrue'
  <2>1. /\ orders \subseteq orders' /\ row \in orders'
        /\ \A s : OwnId(s)' = OwnId(s)
        /\ answer[r] = Unanswered
    BY <1>1, <1>2, <1>3 DEF OwnId, OutcomesAreTrue
  <2>. QED BY <1>1, <1>2, <1>4, <2>1 DEF OutcomesAreTrue, Kinds
<1>10. ReplaysAreCounted'
  <2>1. /\ replayed' \in [Tried -> Nat]
        /\ \A id \in Tried : replayed'[id] >= replayed[id]
    BY <1>2, <1>3 DEF TypeOK
  <2>. QED BY <1>2, <1>4, <2>1, FewerRepeats
<1>. QED BY <1>3, <1>5, <1>6, <1>7, <1>8, <1>9, <1>10 DEF IInv

\* The key is found, whether or not its request learns of it.
LEMMA ExistingIsSafe ==
  ASSUME IInv, NEW r \in Requests, Existing(r) \/ ExistingLost(r)
  PROVE  IInv'
<1>1. PICK o \in Conflicting(r) :
         /\ WriteReplay(r, o)
         /\ \/ Unavailable(r) /\ Fault
            \/ /\ outcome' = [outcome EXCEPT ![r] = FoundOutcome(r, o)]
               /\ pc' = [pc EXCEPT ![r] = "reply"] /\ faults' = faults
  BY DEF Existing, ExistingLost, Goto
<1>2. /\ pc[r] = "existing"
      /\ UNCHANGED <<orders, outbox, accepted, tries, answer>>
  BY <1>1 DEF Existing, ExistingLost, WriteReplay
<1>3. /\ TypeOK /\ TriesAreCounted /\ IdsAreFresh /\ KeysAreLocked
      /\ OutcomesAreTrue /\ ReplaysAreCounted
      /\ tries \in [Requests -> 0..MaxFaults + 1]
      /\ faults \in 0..MaxFaults /\ MaxFaults \in Nat
  BY BoundAssumption DEF IInv, TypeOK
<1>4. /\ o \in orders /\ o.key = KeyOf[r] /\ o.id \in Tried
      /\ o = [id |-> o.id, key |-> o.key, body |-> o.body]
  BY <1>3 DEF Conflicting, TypeOK
<1>5. /\ replayed' \in [Tried -> Nat]
      /\ \A id \in Tried : replayed'[id] >= replayed[id]
      /\ \A id \in Tried : id # o.id => replayed'[id] = replayed[id]
      /\ SameRequest(r, o) => replayed'[o.id] = replayed[o.id] + 1
  <2>1. CASE SameRequest(r, o)
    <3>1. replayed' = [replayed EXCEPT ![o.id] = @ + 1]
      BY <1>1, <2>1 DEF WriteReplay
    <3>. QED BY <1>3, <1>4, <3>1 DEF TypeOK
  <2>2. CASE ~SameRequest(r, o)
    <3>1. replayed' = replayed
      BY <1>1, <2>2 DEF WriteReplay
    <3>. QED BY <1>3, <2>2, <3>1 DEF TypeOK
  <2>. QED BY <2>1, <2>2
<1>6. RowsAreTogether'
  <2>1. RowsAreTogether /\ Stored(o.id)
    BY <1>4 DEF IInv, Stored
  <2>2. \A id \in Tried : Stored(id)' <=> Stored(id)
    BY <1>2 DEF Stored
  <2>. QED BY <1>2, <1>4, <1>5, <2>1, <2>2 DEF RowsAreTogether
<1>7. IdsAreUnique' /\ OneOrderPerKey'
  BY <1>2 DEF IInv, IdsAreUnique, OneOrderPerKey
<1>8. FoundOutcome(r, o) \in Outcomes /\ FoundOutcome(r, o).kind \in Kinds
  BY <1>4 DEF FoundOutcome, Outcomes, Kinds
<1>9. /\ pc' \in [Requests -> Labels] /\ outcome' \in [Requests -> Outcomes]
      /\ \A s \in Requests \ {r} : pc'[s] = pc[s] /\ outcome'[s] = outcome[s]
      /\ faults' \in 0..MaxFaults
      /\ \/ /\ pc'[r] = "new" /\ outcome'[r] = Unanswered
            /\ faults' = faults + 1
         \/ /\ pc'[r] = "reply" /\ faults' = faults
            /\ outcome'[r] = FoundOutcome(r, o)
  <2>1. CASE Unavailable(r) /\ Fault
    BY <1>3, <2>1, UnavailableDoes DEF Labels, Outcomes, Fault
  <2>2. CASE /\ outcome' = [outcome EXCEPT ![r] = FoundOutcome(r, o)]
             /\ pc' = [pc EXCEPT ![r] = "reply"] /\ faults' = faults
    BY <1>3, <1>8, <2>2 DEF TypeOK, Labels, Outcomes
  <2>. QED BY <1>1, <2>1, <2>2
<1>10. TypeOK'
  BY <1>2, <1>3, <1>5, <1>9 DEF TypeOK, Labels, Outcomes
<1>11. TriesAreCounted'
  <2>1. \A s \in Requests : tries[s] \in Nat
    BY <1>3
  <2>. QED BY <1>2, <1>3, <1>9, <2>1 DEF TriesAreCounted
<1>12. IdsAreFresh'
  BY <1>2, <1>3, <1>9 DEF IdsAreFresh, OwnId, InTransaction
<1>13. KeysAreLocked'
  BY <1>2, <1>3, <1>9 DEF KeysAreLocked, KeyTaken, Conflicting
<1>14. OutcomesAreTrue'
  <2>1. \A s : OwnId(s)' = OwnId(s)
    BY <1>2 DEF OwnId
  <2>2. /\ FoundOutcome(r, o).kind # "Created"
        /\ FoundOutcome(r, o).kind = "Replayed" =>
             FoundOutcome(r, o).id = o.id /\ o.body = BodyOf[r]
        /\ FoundOutcome(r, o).kind = "KeyReused" =>
             FoundOutcome(r, o).id = NoOrder /\ o.body # BodyOf[r]
    BY DEF FoundOutcome, SameRequest
  <2>3. answer[r] = Unanswered
    BY <1>2, <1>3 DEF OutcomesAreTrue
  <2>4. FoundOutcome(r, o).kind = "Replayed" =>
          [id |-> FoundOutcome(r, o).id, key |-> KeyOf[r], body |-> BodyOf[r]]
            \in orders
    BY <1>4, <2>2
  <2>. QED BY <1>2, <1>3, <1>4, <1>8, <1>9, <2>1, <2>2, <2>3, <2>4
       DEF OutcomesAreTrue
<1>15. ReplaysAreCounted'
  <2>1. CASE outcome'[r] = FoundOutcome(r, o) /\ SameRequest(r, o)
    <3>1. /\ outcome'[r] = [kind |-> "Replayed", id |-> o.id]
          /\ outcome[r] = Unanswered
      BY <1>2, <1>3, <2>1 DEF FoundOutcome, OutcomesAreTrue
    <3>2. PICK new \in Tried : new = o.id
      BY <1>4
    <3>3. Repeats(new)' = Repeats(new) \cup {r} /\ r \notin Repeats(new)
      BY <1>9, <3>1, <3>2 DEF Repeats, Unanswered
    <3>4. Cardinality(Repeats(new)') = Cardinality(Repeats(new)) + 1
      BY <3>3, RepeatsAreFinite, FS_AddElement
    <3>5. Cardinality(Repeats(new)') <= replayed'[new]
      <4>1. replayed'[new] = replayed[new] + 1
        BY <1>5, <2>1, <3>2
      <4>2. Cardinality(Repeats(new)) <= replayed[new] /\ replayed[new] \in Nat
            /\ Cardinality(Repeats(new)) \in Nat
        BY <1>3, RepeatsAreFinite DEF ReplaysAreCounted, TypeOK
      <4>. QED BY <3>4, <4>1, <4>2
    <3>6. \A id \in Tried \ {new} : Repeats(id)' = Repeats(id)
      BY <1>9, <3>1, <3>2 DEF Repeats, Unanswered
    <3>. QED BY <1>3, <1>5, <3>2, <3>5, <3>6 DEF ReplaysAreCounted
  <2>2. CASE ~(outcome'[r] = FoundOutcome(r, o) /\ SameRequest(r, o))
    <3>1. outcome'[r].kind # "Replayed"
      BY <1>9, <2>2 DEF FoundOutcome, Unanswered
    <3>2. \A id \in Tried : Repeats(id)' \subseteq Repeats(id)
      BY <1>9, <3>1 DEF Repeats
    <3>. QED BY <1>3, <1>5, <3>2, FewerRepeats
  <2>. QED BY <2>1, <2>2
<1>. QED BY <1>6, <1>7, <1>10, <1>11, <1>12, <1>13, <1>14, <1>15 DEF IInv

\* A try fails, or its response is lost.
LEMMA FaultsAreSafe ==
  ASSUME IInv, NEW r \in Requests, Fail(r) \/ ResponseLost(r)
  PROVE  IInv'
BY BackIsSafe DEF Fail, ResponseLost, tables

\* Every step preserves the invariant.
LEMMA StepsAreSafe == IInv /\ [Next]_vars => IInv'
<1>. SUFFICES ASSUME IInv, [Next]_vars PROVE IInv'
  OBVIOUS
<1>1. ASSUME NEW r \in Requests, RequestStep(r) PROVE IInv'
  BY <1>1, GoingOnIsSafe, CreateIsSafe, ExistingIsSafe, RespondIsSafe
  DEF RequestStep
<1>2. ASSUME NEW r \in Requests, RequestFault(r) PROVE IInv'
  BY <1>2, CreateIsSafe, ExistingIsSafe, FaultsAreSafe DEF RequestFault
<1>3. CASE UNCHANGED vars
  BY <1>3 DEF vars, tables, IInv, TypeOK, TriesAreCounted, IdsAreFresh,
     IdsAreUnique, OneOrderPerKey, KeysAreLocked, KeyTaken, Conflicting,
     OutcomesAreTrue, ReplaysAreCounted, Repeats, RowsAreTogether, Stored, OwnId
<1>. QED BY <1>1, <1>2, <1>3 DEF Next
-----------------------------------------------------------------------------
(* The theorems. *)

\* Every state the requests reach satisfies the invariant above.
THEOREM Invariance == Spec => []IInv
BY InitIsSafe, StepsAreSafe, PTL DEF Spec

\* The rows and the requests keep their types, whatever fails.
THEOREM TypeCorrect == Spec => []TypeOK
<1>1. IInv => TypeOK
  BY DEF IInv
<1>. QED BY <1>1, Invariance, PTL

\* Two orders never share an Idempotency-Key, for any number of requests that
\* submitOrder serves at once and any failures of theirs.
THEOREM OneOrderForAKey == Spec => []OneOrderPerKey
<1>1. IInv => OneOrderPerKey
  BY DEF IInv
<1>. QED BY <1>1, Invariance, PTL

\* An order, its event and its Accepted entry are committed together or not at
\* all, and only the repeats of a stored order are recorded.
THEOREM CommittedTogether == Spec => []WrittenTogether
<1>1. IInv => WrittenTogether
  <2>. SUFFICES ASSUME IInv, NEW id \in Tried
                PROVE  LET stored == IF id \in {o.id : o \in orders} THEN 1 ELSE 0
                       IN  /\ outbox[id] = stored
                           /\ accepted[id] = stored
                           /\ replayed[id] > 0 => stored = 1
    BY DEF WrittenTogether
  <2>1. CASE Stored(id)
    BY <2>1 DEF IInv, RowsAreTogether, Stored
  <2>2. CASE ~Stored(id)
    BY <2>2 DEF IInv, RowsAreTogether, Stored
  <2>. QED BY <2>1, <2>2
<1>. QED BY <1>1, Invariance, PTL

\* However submissions of a key overlap, fail and are tried again, they leave
\* one order with one event and one entry.
THEOREM StoredOnceForAll == Spec => []StoredOnce
BY OneOrderForAKey, CommittedTogether, PTL DEF StoredOnce

\* What clients are told is true of the stored orders, and every client that was
\* told that it repeated an order is in that order's timeline.
THEOREM AnswersHold == Spec => []AnswersAreTrue
<1>1. IInv => AnswersAreTrue
  <2>. SUFFICES ASSUME IInv PROVE AnswersAreTrue
    OBVIOUS
  <2>1. ASSUME NEW r \in Requests
        PROVE  /\ answer[r].kind \in {"Created", "Replayed"} =>
                    [id |-> answer[r].id, key |-> KeyOf[r], body |-> BodyOf[r]]
                      \in orders
               /\ answer[r].kind = "KeyReused" =>
                    \E o \in orders : o.key = KeyOf[r] /\ o.body # BodyOf[r]
    <3>1. OutcomesAreTrue
      BY DEF IInv
    <3>2. CASE pc[r] = "done"
      <4>1. answer[r] = outcome[r]
        BY <3>1, <3>2 DEF OutcomesAreTrue
      <4>. QED BY <3>1, <3>2, <4>1 DEF OutcomesAreTrue
    <3>3. CASE pc[r] # "done"
      <4>1. answer[r] = Unanswered
        BY <3>1, <3>3 DEF OutcomesAreTrue
      <4>. QED BY <4>1 DEF Unanswered
    <3>. QED BY <3>2, <3>3
  <2>2. ASSUME NEW o \in orders
        PROVE  Cardinality({r \in Requests :
                              answer[r] = [kind |-> "Replayed", id |-> o.id]})
                 <= replayed[o.id]
    <3> DEFINE told == {r \in Requests :
                          answer[r] = [kind |-> "Replayed", id |-> o.id]}
    <3>1. o.id \in Tried
      BY DEF IInv, TypeOK
    <3>2. told \subseteq Repeats(o.id)
      <4>1. OutcomesAreTrue /\ Unanswered.kind = "none"
        BY DEF IInv, Unanswered
      <4>2. ASSUME NEW r \in told PROVE answer[r] = outcome[r]
        <5>1. answer[r].kind = "Replayed"
          OBVIOUS
        <5>. QED BY <4>1, <5>1 DEF OutcomesAreTrue
      <4>. QED BY <4>2 DEF Repeats
    <3>3. /\ IsFiniteSet(Repeats(o.id)) /\ Cardinality(Repeats(o.id)) \in Nat
      BY RepeatsAreFinite
    <3>4. /\ Cardinality(told) <= Cardinality(Repeats(o.id))
          /\ Cardinality(told) \in Nat
      BY <3>2, <3>3, FS_Subset, FS_CardinalityType
    <3>5. Cardinality(Repeats(o.id)) <= replayed[o.id] /\ replayed[o.id] \in Nat
      BY <3>1 DEF IInv, ReplaysAreCounted, TypeOK
    <3>6. Cardinality(told) <= replayed[o.id]
      BY <3>3, <3>4, <3>5
    <3>. QED BY <3>6
  <2>. QED BY <2>1, <2>2 DEF AnswersAreTrue
<1>. QED BY <1>1, Invariance, PTL

\* Every step of submission is one of the promise to the clients, or none: a
\* commit enters an order under a key that had none, and an answer tells of the
\* order that has the key.
THEOREM Implementation == Spec => PromiseSafe
<1>1. Init => Promise!Init
  BY DEF Init, Promise!Init, Unanswered, Promise!Unanswered
<1>2. IInv /\ [Next]_vars => [Promise!Next]_(Promise!vars)
  <2>. SUFFICES ASSUME IInv, [Next]_vars
                PROVE  Promise!Next \/ UNCHANGED <<orders, answer>>
    BY DEF Promise!vars
  <2>1. ASSUME NEW r \in Requests, Create(r) \/ CreateLost(r)
        PROVE  Promise!Next
    <3>1. pc[r] = "create" /\ WriteOrder(r) /\ answer' = answer
      BY <2>1 DEF Create, CreateLost
    <3>2. OwnId(r) \in Tried
      BY <3>1, WriteOrderDoes
    <3>3. \A o \in orders : o.key # KeyOf[r] /\ o.id # OwnId(r)
      BY <3>1 DEF IInv, IdsAreFresh, InTransaction, KeysAreLocked, Conflicting
    <3>4. orders' = orders \cup
            {[id |-> OwnId(r), key |-> KeyOf[r], body |-> BodyOf[r]]}
      BY <3>1 DEF WriteOrder
    <3>5. Promise!Enter(r, OwnId(r))
      BY <3>1, <3>3, <3>4 DEF Promise!Enter
    <3>. QED BY <3>2, <3>5 DEF Promise!Next
  <2>2. ASSUME NEW r \in Requests, Respond(r)
        PROVE  Promise!Next
    <3>1. /\ pc[r] = "reply"
          /\ answer' = [answer EXCEPT ![r] = outcome[r]]
          /\ orders' = orders
      BY <2>2 DEF Respond, tables
    <3>2. /\ outcome \in [Requests -> Outcomes] /\ OutcomesAreTrue
          /\ answer[r] = Promise!Unanswered
      BY <3>1 DEF IInv, TypeOK, OutcomesAreTrue, Outcomes, Unanswered,
         Promise!Unanswered
    <3>3. outcome[r] = [kind |-> outcome[r].kind, id |-> outcome[r].id]
      BY <3>2 DEF Outcomes
    <3>4. CASE outcome[r].kind = "KeyReused"
      <4>1. PICK o \in orders : o.key = KeyOf[r] /\ o.body # BodyOf[r]
        BY <3>1, <3>2, <3>4 DEF OutcomesAreTrue
      <4>2. outcome[r].id = NoOrder
        BY <3>1, <3>2, <3>4 DEF OutcomesAreTrue
      <4>3. Promise!Tell(r, o, "KeyReused")
        BY <3>1, <3>2, <3>3, <3>4, <4>1, <4>2 DEF Promise!Tell
      <4>. QED BY <4>1, <4>3 DEF Promise!Answer, Promise!Next
    <3>5. CASE outcome[r].kind \in {"Created", "Replayed"}
      <4>1. PICK o \in orders :
              o.id = outcome[r].id /\ o.key = KeyOf[r] /\ o.body = BodyOf[r]
        BY <3>1, <3>2, <3>5 DEF OutcomesAreTrue
      <4>2. Promise!Tell(r, o, outcome[r].kind)
        BY <3>1, <3>2, <3>3, <3>5, <4>1 DEF Promise!Tell
      <4>3. CASE outcome[r].kind = "Replayed"
        <5>1. Promise!Tell(r, o, "Replayed")
          BY <4>2, <4>3
        <5>2. Promise!Answer(r)
          BY <4>1, <5>1 DEF Promise!Answer
        <5>. QED BY <5>2 DEF Promise!Next
      <4>4. CASE outcome[r].kind = "Created"
        <5>1. o.id = OwnId(r)
          BY <3>1, <3>2, <4>1, <4>4 DEF OutcomesAreTrue
        <5>2. ASSUME NEW s \in Requests,
                     answer[s] = [kind |-> "Created", id |-> o.id]
              PROVE  FALSE
          <6>1. answer[s].kind = "Created" /\ answer[s].id = o.id
            BY <5>2
          <6>2. pc[s] = "done" /\ answer[s] = outcome[s]
            <7>1. answer[s] # Unanswered
              BY <6>1 DEF Unanswered
            <7>. QED BY <3>2, <7>1 DEF OutcomesAreTrue
          <6>3. o.id = OwnId(s)
            BY <3>2, <6>1, <6>2 DEF OutcomesAreTrue
          <6>. QED BY <3>1, <5>1, <6>2, <6>3 DEF OwnId
        <5>. QED BY <4>1, <4>2, <4>4, <5>2 DEF Promise!Answer, Promise!Next
      <4>. QED BY <3>5, <4>3, <4>4
    <3>. QED BY <3>1, <3>2, <3>4, <3>5 DEF OutcomesAreTrue, Kinds
  <2>3. ASSUME NEW r \in Requests,
               \/ Submit(r) \/ Insert(r) \/ Existing(r)
               \/ ExistingLost(r) \/ Fail(r) \/ ResponseLost(r)
        PROVE  UNCHANGED <<orders, answer>>
    BY <2>3 DEF Submit, Insert, Existing, ExistingLost, Fail, ResponseLost,
       tables, WriteReplay
  <2>4. CASE UNCHANGED vars
    BY <2>4 DEF vars, tables
  <2>. QED BY <2>1, <2>2, <2>3, <2>4 DEF Next, RequestStep, RequestFault
<1>3. Spec => Promise!Safe
  BY <1>1, <1>2, Invariance, PTL DEF Spec, Promise!Safe
<1>. QED BY <1>3 DEF PromiseSafe
=============================================================================
