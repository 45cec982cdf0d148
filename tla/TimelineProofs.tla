---------------------------- MODULE TimelineProofs ----------------------------
(***************************************************************************)
(* Theorems about OrderTimeline, for any number of orders, deliveries at   *)
(* the same time, readers, copies and faults; and about the views that     *)
(* TimelineView makes of any order's history, of any length.               *)
(***************************************************************************)
EXTENDS OrderDetails, FiniteSetTheorems, WellFoundedInduction, TLAPS

(* The status of a set of events. *)

\* The stages of the statuses, as numbers.
LEMMA Stages ==
  /\ Stage("Created") = 0 /\ Stage("PaymentAuthorized") = 1
  /\ Stage("InventoryReserved") = 2 /\ Stage("InventoryReservationFailed") = 2
  /\ Stage("DeliveryBooked") = 3
BY DEF Stage

\* Events that one order can have: inventory has decided once, and a delivery
\* follows a reservation.
Consistent(types) ==
  /\ types \subseteq Types
  /\ "InventoryReservationFailed" \in types =>
       "InventoryReserved" \notin types /\ "DeliveryBooked" \notin types

\* s is the furthest that events of these types have come.
Furthest(s, types) ==
  /\ s \in types \cup {"Created"}
  /\ \A t \in types \cup {"Created"} : Stage(t) <= Stage(s)

\* Only one status is the furthest of events that one order can have: what
\* StatusOf chooses.
LEMMA StatusIsFurthest ==
  ASSUME NEW types, Consistent(types), NEW s, Furthest(s, types)
  PROVE  s = StatusOf(types)
<1>. DEFINE ts == types \cup {"Created"}
            Top(x) == x \in ts /\ \A t \in ts : Stage(t) <= Stage(x)
<1>1. \A x \in ts : x \in {"Created", "PaymentAuthorized", "InventoryReserved",
                           "InventoryReservationFailed", "DeliveryBooked"}
  BY DEF Consistent, Types
<1>2. \A x \in ts : Top(x) => Stage(x) <= Stage(s) /\ Stage(s) <= Stage(x)
  BY DEF Furthest
<1>3. \A x \in ts : Top(x) => x = s
  <2>. SUFFICES ASSUME NEW x \in ts, Top(x) PROVE x = s
    OBVIOUS
  <2>1. s \in ts /\ Stage(x) <= Stage(s) /\ Stage(s) <= Stage(x)
    BY <1>2 DEF Furthest
  <2>2. ~(x = "InventoryReserved" /\ s = "InventoryReservationFailed")
    BY <2>1 DEF Consistent
  <2>3. ~(s = "InventoryReserved" /\ x = "InventoryReservationFailed")
    BY <2>1 DEF Consistent
  <2>. QED BY <1>1, <2>1, <2>2, <2>3, Stages
<1>4. Top(s)
  BY DEF Furthest
<1>. QED BY <1>3, <1>4 DEF StatusOf

\* applyWorkflowEvent keeps the status at the furthest event.
LEMMA ApplyKeepsFurthest ==
  ASSUME NEW types, NEW t \in Types, NEW s, Furthest(s, types),
         Consistent(types \cup {t})
  PROVE  Furthest(ApplyWorkflowEvent(s, t), types \cup {t})
<1>1. \A x \in types \cup {t} \cup {"Created"} :
        x \in {"Created", "PaymentAuthorized", "InventoryReserved",
               "InventoryReservationFailed", "DeliveryBooked"}
  BY DEF Consistent, Types
<1>2. s \in types \cup {"Created"}
  BY DEF Furthest
<1>3. \A x \in types \cup {t} \cup {"Created"} : Stage(x) \in Nat
  BY <1>1, Stages
<1>4. CASE s = "InventoryReservationFailed"
  <2>1. t # "DeliveryBooked" /\ Stage(t) <= Stage(s)
    BY <1>1, <1>2, <1>4, Stages DEF Consistent, Types
  <2>. QED BY <1>4, <2>1 DEF Furthest, ApplyWorkflowEvent
<1>5. CASE Stage(t) <= Stage(s)
  BY <1>5 DEF Furthest, ApplyWorkflowEvent
<1>6. CASE s # "InventoryReservationFailed" /\ ~(Stage(t) <= Stage(s))
  <2>1. ApplyWorkflowEvent(s, t) = t
    BY <1>6 DEF ApplyWorkflowEvent
  <2>2. \A x \in types \cup {"Created"} : Stage(x) <= Stage(s)
    BY DEF Furthest
  <2>3. Stage(s) <= Stage(t)
    BY <1>2, <1>3, <1>6
  <2>4. \A x \in types \cup {t} \cup {"Created"} : Stage(x) <= Stage(t)
    BY <1>2, <1>3, <2>2, <2>3
  <2>. QED BY <2>1, <2>4 DEF Furthest
<1>. QED BY <1>4, <1>5, <1>6
-----------------------------------------------------------------------------
(* The inductive invariant. *)

\* What is waiting, handled or recorded was told.
OnlyTold ==
  /\ \A e \in Events : queue[e] > 0 \/ deliveries[e] > 0 => copies[e] > 0
  /\ \A w \in Workers : event[w] # None => copies[event[w]] > 0

\* The services tell of one decision, and of a delivery after a reservation.
ToldOnce ==
  \A o \in Known :
    /\ Told(o, "InventoryReservationFailed") => ~Told(o, "InventoryReserved")
    /\ Told(o, "DeliveryBooked") => Told(o, "InventoryReserved")

\* The row is locked by one transaction, which knows the status.
RowsAreLocked ==
  \A w \in Workers :
    pc[w] = "record" =>
      /\ event[w].order \in Known
      /\ current[w] = status[event[w].order]
      /\ \A v \in Workers \ {w} :
           pc[v] = "record" => event[v].order # event[w].order

StatusIsFar == \A o \in Known : Furthest(status[o], Recorded(o))

ReadersAreTrue ==
  \A r \in Readers :
    /\ readPc[r] = "timeline" =>
         /\ reading[r] \in Known
         /\ shown[r] \in Recorded(reading[r]) \cup {"Created"}
    /\ readPc[r] = "done" => shown[r] \in entries[r] \cup {"Created"}

IInv ==
  /\ TypeOK /\ OnlyTold /\ ToldOnce /\ RowsAreLocked /\ StatusIsFar
  /\ ReadersAreTrue

\* Events of a known order.
LEMMA KnownEvents ==
  /\ \A o \in Known, t \in Types : [order |-> o, type |-> t] \in Events
  /\ \A e \in Events : e.type \in Types /\ e.order \in Orders
                       /\ e = [order |-> e.order, type |-> e.type]
                       /\ e # None
BY StrayAssumption, OrderAssumption, NoneAssumption DEF Events

\* An event has been told if there was a copy of it.
LEMMA ToldMeans ==
  ASSUME NEW o \in Known, NEW t \in Types
  PROVE  Told(o, t) <=> copies[[order |-> o, type |-> t]] > 0
BY KnownEvents DEF Told

\* What is recorded is consistent.
LEMMA RecordedIsConsistent ==
  ASSUME TypeOK, OnlyTold, ToldOnce, NEW o \in Known
  PROVE  Consistent(Recorded(o))
<1>1. \A t \in Recorded(o) : t \in Types /\ Told(o, t)
  BY KnownEvents, ToldMeans DEF Recorded, OnlyTold
<1>. QED BY <1>1 DEF Consistent, ToldOnce
-----------------------------------------------------------------------------
(* The invariant, step by step. *)

\* A database without events satisfies the invariant.
LEMMA InitIsSafe == Init => IInv
<1>. SUFFICES ASSUME Init PROVE IInv
  OBVIOUS
<1>1. TypeOK
  BY NoneAssumption DEF Init, TypeOK, Statuses
<1>2. OnlyTold /\ RowsAreLocked /\ ReadersAreTrue
  BY DEF Init, OnlyTold, RowsAreLocked, ReadersAreTrue
<1>3. ToldOnce
  BY DEF Init, ToldOnce, Told
<1>4. StatusIsFar
  <2>1. \A o \in Known : Recorded(o) = {} /\ status[o] = "Created"
    BY KnownEvents DEF Init, Recorded
  <2>. QED BY <2>1, Stages DEF StatusIsFar, Furthest
<1>. QED BY <1>1, <1>2, <1>3, <1>4 DEF IInv

\* The message of a delivery that ends goes back to the queue.
LEMMA RequeueCounts ==
  ASSUME TypeOK, NEW w \in Workers, event[w] # None,
         queue' = [queue EXCEPT ![event[w]] = @ + 1]
  PROVE  /\ event[w] \in Events
         /\ queue' \in [Events -> Nat]
         /\ \A e \in Events : queue'[e] > 0 => queue[e] > 0 \/ e = event[w]
BY DEF TypeOK

\* A producer publishes an event: the causes of it are known already.
LEMMA TellIsSafe ==
  ASSUME IInv, NEW e \in Events, Tell(e)
  PROVE  IInv'
<1>1. /\ copies' = [copies EXCEPT ![e] = @ + 1]
      /\ queue' = [queue EXCEPT ![e] = @ + 1]
      /\ UNCHANGED <<deliveries, status, pc, event, current, readPc, reading,
                     shown, entries, faults>>
      /\ MayTell(e)
  BY DEF Tell, tables, workers, readers
<1>2. /\ copies \in [Events -> Nat] /\ queue \in [Events -> Nat]
      /\ event \in [Workers -> Events \cup {None}]
  BY DEF IInv, TypeOK
<1>3. /\ copies' \in [Events -> Nat] /\ queue' \in [Events -> Nat]
      /\ copies'[e] > 0
      /\ \A f \in Events : f # e => copies'[f] = copies[f] /\ queue'[f] = queue[f]
      /\ \A f \in Events : copies[f] > 0 => copies'[f] > 0
  BY <1>1, <1>2
<1>4. TypeOK'
  BY <1>1, <1>3 DEF IInv, TypeOK
<1>5. OnlyTold'
  BY <1>1, <1>2, <1>3 DEF IInv, OnlyTold
<1>6. ToldOnce'
  <2>1. \A o \in Known, t \in Types :
          Told(o, t)' <=> Told(o, t) \/ e = [order |-> o, type |-> t]
    BY <1>2, <1>3, KnownEvents DEF Told
  <2>2. e = [order |-> e.order, type |-> e.type] /\ e.type \in Types
    BY KnownEvents
  <2>3. \A o \in Known, t \in Types :
          e = [order |-> o, type |-> t] <=> e.order = o /\ e.type = t
    BY <2>2
  <2>4. ASSUME NEW o \in Known
        PROVE  /\ Told(o, "InventoryReservationFailed")' =>
                    ~Told(o, "InventoryReserved")'
               /\ Told(o, "DeliveryBooked")' => Told(o, "InventoryReserved")'
    <3>1. \A t \in Types : Told(o, t)' <=> Told(o, t) \/ (e.order = o /\ e.type = t)
      BY <2>1, <2>3
    <3>2. /\ Told(o, "InventoryReservationFailed") => ~Told(o, "InventoryReserved")
          /\ Told(o, "DeliveryBooked") => Told(o, "InventoryReserved")
      BY DEF IInv, ToldOnce
    <3>3. e.order = o =>
            /\ e.type = "InventoryReserved" =>
                 ~Told(o, "InventoryReservationFailed")
            /\ e.type = "InventoryReservationFailed" =>
                 ~Told(o, "InventoryReserved")
            /\ e.type = "DeliveryBooked" => Told(o, "InventoryReserved")
      BY <1>1 DEF MayTell
    <3>. QED BY <3>1, <3>2, <3>3 DEF Types
  <2>. QED BY <2>4 DEF ToldOnce
<1>7. RowsAreLocked' /\ ReadersAreTrue' /\ StatusIsFar'
  BY <1>1 DEF IInv, RowsAreLocked, ReadersAreTrue, StatusIsFar, Recorded, Furthest
<1>. QED BY <1>4, <1>5, <1>6, <1>7 DEF IInv

\* A worker goes on, or gives its message back, without writing.
LEMMA MovingIsSafe ==
  ASSUME IInv, NEW w \in Workers,
         UNCHANGED <<copies, tables, readers>>,
         TypeOK', OnlyTold', pc'[w] # "record",
         \A v \in Workers \ {w} :
           pc'[v] = pc[v] /\ event'[v] = event[v] /\ current'[v] = current[v]
  PROVE  IInv'
<1>1. UNCHANGED <<copies, deliveries, status, readPc, reading, shown, entries>>
  BY DEF tables, readers
<1>2. ToldOnce' /\ StatusIsFar' /\ ReadersAreTrue'
  BY <1>1 DEF IInv, ToldOnce, Told, StatusIsFar, Recorded, Furthest, ReadersAreTrue
<1>3. RowsAreLocked'
  BY <1>1 DEF IInv, RowsAreLocked
<1>. QED BY <1>2, <1>3 DEF IInv

\* A worker takes a copy of an event from the queue.
LEMMA DeliverIsSafe ==
  ASSUME IInv, NEW w \in Workers, NEW e \in Events, Deliver(w, e)
  PROVE  IInv'
<1>1. /\ pc[w] = "idle" /\ queue[e] > 0
      /\ queue' = [queue EXCEPT ![e] = @ - 1]
      /\ event' = [event EXCEPT ![w] = e]
      /\ pc' = [pc EXCEPT ![w] = "lock"]
      /\ UNCHANGED <<copies, deliveries, status, current, readPc, reading, shown,
                     entries, faults>>
      /\ UNCHANGED <<copies, tables, readers>>
  BY DEF Deliver, tables, readers
<1>2. e # None /\ TypeOK
  BY KnownEvents DEF IInv
<1>3. /\ queue' \in [Events -> Nat]
      /\ \A f \in Events : queue'[f] > 0 => queue[f] > 0
  BY <1>1, <1>2 DEF TypeOK
<1>4. TypeOK'
  BY <1>1, <1>2, <1>3 DEF TypeOK
<1>5. OnlyTold'
  BY <1>1, <1>2, <1>3 DEF TypeOK, IInv, OnlyTold
<1>6. /\ pc'[w] # "record"
      /\ \A v \in Workers \ {w} :
           pc'[v] = pc[v] /\ event'[v] = event[v] /\ current'[v] = current[v]
  BY <1>1, <1>2 DEF TypeOK
<1>. QED BY <1>1, <1>4, <1>5, <1>6, MovingIsSafe

\* A worker acknowledges a copy, or its acknowledgement is lost.
LEMMA AckIsSafe ==
  ASSUME IInv, NEW w \in Workers, Ack(w) \/ AckLost(w)
  PROVE  IInv'
<1>1. /\ pc[w] = "ack"
      /\ pc' = [pc EXCEPT ![w] = "idle"]
      /\ event' = [event EXCEPT ![w] = None]
      /\ queue' = queue \/ queue' = [queue EXCEPT ![event[w]] = @ + 1]
      /\ faults' \in Nat
      /\ UNCHANGED <<copies, deliveries, status, current, readPc, reading, shown,
                     entries>>
      /\ UNCHANGED <<copies, tables, readers>>
  BY DEF Ack, AckLost, Fault, tables, readers, messages, IInv, TypeOK
<1>2. TypeOK /\ event[w] # None /\ event[w] \in Events
  BY <1>1 DEF IInv, TypeOK
<1>3. /\ queue' \in [Events -> Nat]
      /\ \A f \in Events : queue'[f] > 0 => queue[f] > 0 \/ f = event[w]
  BY <1>1, <1>2, RequeueCounts DEF TypeOK
<1>4. TypeOK'
  BY <1>1, <1>2, <1>3 DEF TypeOK
<1>5. OnlyTold'
  BY <1>1, <1>2, <1>3 DEF TypeOK, IInv, OnlyTold
<1>6. /\ pc'[w] # "record"
      /\ \A v \in Workers \ {w} :
           pc'[v] = pc[v] /\ event'[v] = event[v] /\ current'[v] = current[v]
  BY <1>1, <1>2 DEF TypeOK
<1>. QED BY <1>1, <1>4, <1>5, <1>6, MovingIsSafe

\* What RetryOrRequeue does.
LEMMA RetryDoes ==
  ASSUME TypeOK, OnlyTold, NEW w \in Workers, event[w] # None, RetryOrRequeue(w)
  PROVE  /\ queue' \in [Events -> Nat]
         /\ pc' \in [Workers -> {"idle", "lock", "record", "ack"}]
         /\ event' \in [Workers -> Events \cup {None}]
         /\ pc'[w] \in {"lock", "idle"}
         /\ event'[w] = None <=> pc'[w] = "idle"
         /\ event'[w] \in {event[w], None}
         /\ \A v \in Workers \ {w} : pc'[v] = pc[v] /\ event'[v] = event[v]
         /\ \A f \in Events : queue'[f] > 0 => copies[f] > 0
<1>1. CASE pc' = [pc EXCEPT ![w] = "lock"] /\ UNCHANGED <<event, queue>>
  BY <1>1 DEF TypeOK, OnlyTold
<1>2. CASE /\ pc' = [pc EXCEPT ![w] = "idle"]
           /\ event' = [event EXCEPT ![w] = None]
           /\ queue' = [queue EXCEPT ![event[w]] = @ + 1]
  <2>1. /\ queue' \in [Events -> Nat]
        /\ \A e \in Events : queue'[e] > 0 => queue[e] > 0 \/ e = event[w]
    BY <1>2, RequeueCounts
  <2>. QED BY <1>2, <2>1 DEF TypeOK, OnlyTold
<1>. QED BY <1>1, <1>2 DEF RetryOrRequeue

\* A transaction is rolled back, and its lock goes with it.
LEMMA FailIsSafe ==
  ASSUME IInv, NEW w \in Workers, Fail(w)
  PROVE  IInv'
<1>1. /\ pc[w] \in {"lock", "record"} /\ RetryOrRequeue(w) /\ faults' \in Nat
      /\ UNCHANGED <<copies, deliveries, status, current, readPc, reading, shown,
                     entries>>
      /\ UNCHANGED <<copies, tables, readers>>
  BY DEF Fail, Fault, tables, readers, IInv, TypeOK
<1>2. TypeOK /\ OnlyTold /\ event[w] # None
  BY <1>1 DEF IInv, TypeOK
<1>3. /\ queue' \in [Events -> Nat]
      /\ pc' \in [Workers -> {"idle", "lock", "record", "ack"}]
      /\ event' \in [Workers -> Events \cup {None}]
      /\ pc'[w] \in {"lock", "idle"}
      /\ event'[w] = None <=> pc'[w] = "idle"
      /\ event'[w] \in {event[w], None}
      /\ \A v \in Workers \ {w} : pc'[v] = pc[v] /\ event'[v] = event[v]
      /\ \A f \in Events : queue'[f] > 0 => copies[f] > 0
  BY <1>1, <1>2, RetryDoes
<1>4. TypeOK'
  BY <1>1, <1>2, <1>3 DEF TypeOK
<1>5. OnlyTold'
  BY <1>1, <1>2, <1>3 DEF OnlyTold
<1>. QED BY <1>1, <1>3, <1>4, <1>5, MovingIsSafe

\* A worker locks the row of an order and reads its status.
LEMMA LockIsSafe ==
  ASSUME IInv, NEW w \in Workers, LockOrder(w)
  PROVE  IInv'
<1>1. /\ pc[w] = "lock" /\ ~RowLocked(w)
      /\ UNCHANGED <<copies, queue, deliveries, status, event, readPc, reading,
                     shown, entries, faults>>
      /\ UNCHANGED <<copies, tables, readers>>
  BY DEF LockOrder, messages, tables, readers
<1>2. TypeOK /\ event[w] # None
  BY <1>1 DEF IInv, TypeOK
<1>3. OnlyTold'
  BY <1>1 DEF IInv, OnlyTold
<1>4. CASE event[w].order \in Known
  <2>1. /\ current' = [current EXCEPT ![w] = status[event[w].order]]
        /\ pc' = [pc EXCEPT ![w] = "record"]
    BY <1>4 DEF LockOrder
  <2>2. TypeOK'
    BY <1>1, <1>2, <1>4, <2>1 DEF TypeOK
  <2>3. RowsAreLocked'
    BY <1>1, <1>2, <1>4, <2>1 DEF IInv, TypeOK, RowsAreLocked, RowLocked
  <2>4. ToldOnce' /\ StatusIsFar' /\ ReadersAreTrue'
    BY <1>1 DEF IInv, ToldOnce, Told, StatusIsFar, Recorded, Furthest,
       ReadersAreTrue
  <2>. QED BY <1>3, <2>2, <2>3, <2>4 DEF IInv
<1>5. CASE event[w].order \notin Known
  <2>1. pc' = [pc EXCEPT ![w] = "ack"] /\ UNCHANGED current
    BY <1>5 DEF LockOrder
  <2>2. TypeOK'
    BY <1>1, <1>2, <2>1 DEF TypeOK
  <2>3. /\ pc'[w] # "record"
        /\ \A v \in Workers \ {w} :
             pc'[v] = pc[v] /\ event'[v] = event[v] /\ current'[v] = current[v]
    BY <1>1, <1>2, <2>1 DEF TypeOK
  <2>. QED BY <1>1, <1>3, <2>2, <2>3, MovingIsSafe
<1>. QED BY <1>4, <1>5

\* What Write does to the row and the status.
LEMMA WriteDoes ==
  ASSUME IInv, NEW w \in Workers, pc[w] = "record", Write(w)
  PROVE  /\ deliveries' \in [Events -> Nat]
         /\ status' \in [Known -> Statuses]
         /\ \A e \in Events :
              /\ deliveries'[e] > 0 <=> deliveries[e] > 0 \/ e = event[w]
         /\ event[w].order \in Known
         /\ \A o \in Known \ {event[w].order} : status'[o] = status[o]
         /\ LET o == event[w].order
            IN  \/ deliveries[event[w]] > 0 /\ status'[o] = status[o]
                \/ status'[o] = ApplyWorkflowEvent(status[o], event[w].type)
<1>. DEFINE e == event[w]
<1>1. /\ e \in Events /\ e.type \in Types /\ e.order \in Known
      /\ current[w] = status[e.order]
      /\ deliveries \in [Events -> Nat] /\ status \in [Known -> Statuses]
  BY KnownEvents DEF IInv, TypeOK, RowsAreLocked
<1>2. deliveries' = [deliveries EXCEPT ![e] = @ + 1]
  BY DEF Write
<1>3. /\ deliveries' \in [Events -> Nat]
      /\ \A f \in Events : deliveries'[f] > 0 <=> deliveries[f] > 0 \/ f = e
  BY <1>1, <1>2
<1>4. CASE deliveries[e] > 0
  <2>1. status' = status
    BY <1>4 DEF Write
  <2>. QED BY <1>1, <1>3, <1>4, <2>1
<1>5. CASE ~(deliveries[e] > 0)
  <2>1. status' = [status EXCEPT ![e.order] =
                     ApplyWorkflowEvent(status[e.order], e.type)]
    BY <1>1, <1>5 DEF Write
  <2>2. ApplyWorkflowEvent(status[e.order], e.type) \in Statuses
    BY <1>1 DEF ApplyWorkflowEvent, Statuses
  <2>. QED BY <1>1, <1>3, <2>1, <2>2
<1>. QED BY <1>4, <1>5

\* The row of an event and the status are written together, under the lock.
LEMMA WriteIsSafe ==
  ASSUME IInv, NEW w \in Workers, pc[w] = "record", Write(w),
         UNCHANGED <<copies, current, readers>>,
         queue' \in [Events -> Nat], faults' \in Nat,
         \A f \in Events : queue'[f] > 0 => copies[f] > 0,
         pc' \in [Workers -> {"idle", "lock", "record", "ack"}],
         event' \in [Workers -> Events \cup {None}],
         pc'[w] # "record", event'[w] = None <=> pc'[w] = "idle",
         event'[w] \in {event[w], None},
         \A v \in Workers \ {w} : pc'[v] = pc[v] /\ event'[v] = event[v]
  PROVE  IInv'
<1>0. PICK e \in Events : e = event[w]
  BY DEF IInv, TypeOK
<1>1. /\ deliveries' \in [Events -> Nat]
      /\ status' \in [Known -> Statuses]
      /\ \A f \in Events : deliveries'[f] > 0 <=> deliveries[f] > 0 \/ f = e
      /\ e.order \in Known
      /\ \A o \in Known \ {e.order} : status'[o] = status[o]
      /\ \/ deliveries[e] > 0 /\ status'[e.order] = status[e.order]
         \/ status'[e.order] = ApplyWorkflowEvent(status[e.order], e.type)
  BY <1>0, WriteDoes
<1>2. /\ TypeOK /\ OnlyTold /\ ToldOnce
      /\ e # None
      /\ e.type \in Types /\ e = [order |-> e.order, type |-> e.type]
  BY KnownEvents DEF IInv, TypeOK
<1>3. UNCHANGED <<copies, current, readPc, reading, shown, entries>>
  BY DEF readers
<1>4. TypeOK'
  BY <1>1, <1>2, <1>3 DEF TypeOK
<1>5. OnlyTold'
  BY <1>0, <1>1, <1>2, <1>3 DEF OnlyTold
<1>6. ToldOnce'
  BY <1>3 DEF IInv, ToldOnce, Told
<1>7. RowsAreLocked'
  BY <1>0, <1>1, <1>3 DEF IInv, RowsAreLocked
<1>8. /\ \A o \in Known \ {e.order} : Recorded(o)' = Recorded(o)
      /\ Recorded(e.order)' = Recorded(e.order) \cup {e.type}
      /\ deliveries[e] > 0 => e.type \in Recorded(e.order)
  <2>1. \A o \in Known, t \in Types :
          deliveries'[[order |-> o, type |-> t]] > 0
            <=> \/ deliveries[[order |-> o, type |-> t]] > 0
                \/ o = e.order /\ t = e.type
    <3>. SUFFICES ASSUME NEW o \in Known, NEW t \in Types
                  PROVE  deliveries'[[order |-> o, type |-> t]] > 0
                           <=> \/ deliveries[[order |-> o, type |-> t]] > 0
                               \/ o = e.order /\ t = e.type
      OBVIOUS
    <3>1. [order |-> o, type |-> t] \in Events
      BY KnownEvents
    <3>2. [order |-> o, type |-> t] = e <=> o = e.order /\ t = e.type
      BY <1>2
    <3>. QED BY <1>1, <3>1, <3>2
  <2>2. \A o \in Known \ {e.order} : Recorded(o)' = Recorded(o)
    BY <2>1 DEF Recorded
  <2>3. Recorded(e.order)' = Recorded(e.order) \cup {e.type}
    BY <1>1, <1>2, <2>1 DEF Recorded
  <2>4. deliveries[e] > 0 => e.type \in Recorded(e.order)
    BY <1>2 DEF Recorded
  <2>. QED BY <2>2, <2>3, <2>4
<1>9. Consistent(Recorded(e.order) \cup {e.type})
  <2>1. \A t \in Recorded(e.order) \cup {e.type} : t \in Types /\ Told(e.order, t)
    BY <1>0, <1>1, <1>2, KnownEvents, ToldMeans DEF Recorded, OnlyTold
  <2>. QED BY <1>1, <1>2, <2>1 DEF Consistent, ToldOnce
<1>10. StatusIsFar'
  <2>1. Furthest(status[e.order], Recorded(e.order))
    BY <1>1 DEF IInv, StatusIsFar
  <2>2. Furthest(status'[e.order], Recorded(e.order)')
    <3>1. CASE deliveries[e] > 0 /\ status'[e.order] = status[e.order]
      <4>1. Recorded(e.order)' = Recorded(e.order)
        BY <1>8, <3>1
      <4>. QED BY <2>1, <3>1, <4>1
    <3>2. CASE status'[e.order] = ApplyWorkflowEvent(status[e.order], e.type)
      BY <1>2, <1>8, <1>9, <2>1, <3>2, ApplyKeepsFurthest
    <3>. QED BY <1>1, <3>1, <3>2
  <2>3. \A o \in Known \ {e.order} : Furthest(status'[o], Recorded(o)')
    BY <1>1, <1>8 DEF IInv, StatusIsFar
  <2>4. \A o \in Known : Furthest(status'[o], Recorded(o)')
    BY <2>2, <2>3
  <2>. QED BY <2>4 DEF StatusIsFar
<1>11. ReadersAreTrue'
  <2>1. \A o \in Known : Recorded(o) \subseteq Recorded(o)'
    BY <1>8
  <2>2. ASSUME NEW r \in Readers
        PROVE  /\ readPc[r] = "timeline" =>
                    /\ reading[r] \in Known
                    /\ shown[r] \in Recorded(reading[r])' \cup {"Created"}
               /\ readPc[r] = "done" => shown[r] \in entries[r] \cup {"Created"}
    <3>1. /\ readPc[r] = "timeline" =>
               /\ reading[r] \in Known
               /\ shown[r] \in Recorded(reading[r]) \cup {"Created"}
          /\ readPc[r] = "done" => shown[r] \in entries[r] \cup {"Created"}
      BY DEF IInv, ReadersAreTrue
    <3>. QED BY <1>3, <2>1, <3>1
  <2>. QED BY <1>3, <2>2 DEF ReadersAreTrue
<1>. QED BY <1>4, <1>5, <1>6, <1>7, <1>10, <1>11 DEF IInv

\* A transaction commits, whether or not its worker learns of it.
LEMMA RecordIsSafe ==
  ASSUME IInv, NEW w \in Workers, Record(w) \/ RecordLost(w)
  PROVE  IInv'
<1>1. /\ pc[w] = "record" /\ Write(w) /\ faults' \in Nat
      /\ UNCHANGED <<copies, current, readers>>
  BY DEF Record, RecordLost, Fault, messages, IInv, TypeOK
<1>2. TypeOK /\ OnlyTold /\ event[w] # None
  BY <1>1 DEF IInv, TypeOK
<1>3. CASE Record(w)
  <2>1. /\ pc' = [pc EXCEPT ![w] = "ack"] /\ UNCHANGED <<queue, event>>
    BY <1>3 DEF Record, messages
  <2>2. /\ queue' \in [Events -> Nat]
        /\ \A f \in Events : queue'[f] > 0 => copies[f] > 0
        /\ pc' \in [Workers -> {"idle", "lock", "record", "ack"}]
        /\ event' \in [Workers -> Events \cup {None}]
        /\ pc'[w] = "ack" /\ event'[w] = event[w] /\ event'[w] # None
        /\ \A v \in Workers \ {w} : pc'[v] = pc[v] /\ event'[v] = event[v]
    BY <1>2, <2>1 DEF TypeOK, OnlyTold
  <2>. QED BY <1>1, <2>2, WriteIsSafe
<1>4. CASE RecordLost(w)
  <2>1. RetryOrRequeue(w)
    BY <1>4 DEF RecordLost
  <2>2. /\ queue' \in [Events -> Nat]
        /\ pc' \in [Workers -> {"idle", "lock", "record", "ack"}]
        /\ event' \in [Workers -> Events \cup {None}]
        /\ pc'[w] \in {"lock", "idle"}
        /\ event'[w] = None <=> pc'[w] = "idle"
        /\ event'[w] \in {event[w], None}
        /\ \A v \in Workers \ {w} : pc'[v] = pc[v] /\ event'[v] = event[v]
        /\ \A f \in Events : queue'[f] > 0 => copies[f] > 0
    BY <1>2, <2>1, RetryDoes
  <2>. QED BY <1>1, <2>2, WriteIsSafe
<1>. QED BY <1>3, <1>4

\* A client is shown the status of one moment and the entries of a later one.
LEMMA ReadIsSafe ==
  ASSUME IInv, NEW r \in Readers,
         ReadTimeline(r) \/ \E o \in Known : ReadOrder(r, o)
  PROVE  IInv'
<1>1. /\ UNCHANGED <<copies, queue, deliveries, status, pc, event, current, faults>>
      /\ TypeOK
  BY DEF IInv, ReadTimeline, ReadOrder, messages, tables, workers
<1>2. OnlyTold' /\ ToldOnce' /\ RowsAreLocked' /\ StatusIsFar'
  BY <1>1 DEF IInv, OnlyTold, ToldOnce, Told, RowsAreLocked, StatusIsFar,
     Recorded, Furthest
<1>3. \A o : Recorded(o)' = Recorded(o) /\ Recorded(o) \subseteq Types
  BY <1>1 DEF Recorded
<1>4. CASE ReadTimeline(r)
  <2>1. /\ readPc[r] = "timeline"
        /\ entries' = [entries EXCEPT ![r] = Recorded(reading[r])]
        /\ readPc' = [readPc EXCEPT ![r] = "done"]
        /\ UNCHANGED <<reading, shown>>
    BY <1>4 DEF ReadTimeline
  <2>2. TypeOK'
    BY <1>1, <1>3, <2>1 DEF TypeOK
  <2>3. ReadersAreTrue'
    BY <1>1, <1>3, <2>1 DEF IInv, TypeOK, ReadersAreTrue
  <2>. QED BY <1>2, <2>2, <2>3 DEF IInv
<1>5. CASE \E o \in Known : ReadOrder(r, o)
  <2>1. PICK o \in Known :
          /\ readPc[r] = "order"
          /\ reading' = [reading EXCEPT ![r] = o]
          /\ shown' = [shown EXCEPT ![r] = status[o]]
          /\ readPc' = [readPc EXCEPT ![r] = "timeline"]
          /\ UNCHANGED entries
    BY <1>5 DEF ReadOrder
  <2>2. TypeOK'
    BY <1>1, <2>1 DEF TypeOK
  <2>3. status[o] \in Recorded(o) \cup {"Created"}
    BY DEF IInv, StatusIsFar, Furthest
  <2>4. ReadersAreTrue'
    BY <1>1, <1>3, <2>1, <2>3 DEF IInv, TypeOK, ReadersAreTrue
  <2>. QED BY <1>2, <2>2, <2>4 DEF IInv
<1>. QED BY <1>4, <1>5

\* Every step preserves the invariant.
LEMMA StepsAreSafe == IInv /\ [Next]_vars => IInv'
<1>. SUFFICES ASSUME IInv, [Next]_vars PROVE IInv'
  OBVIOUS
<1>1. ASSUME NEW e \in Events, Tell(e) PROVE IInv'
  BY <1>1, TellIsSafe
<1>2. ASSUME NEW w \in Workers, WorkerStep(w) \/ WorkerFault(w) PROVE IInv'
  BY <1>2, DeliverIsSafe, AckIsSafe, LockIsSafe, RecordIsSafe, FailIsSafe
     DEF WorkerStep, WorkerFault
<1>3. ASSUME NEW r \in Readers,
             ReadTimeline(r) \/ \E o \in Known : ReadOrder(r, o)
      PROVE  IInv'
  BY <1>3, ReadIsSafe
<1>4. CASE UNCHANGED vars
  BY <1>4 DEF vars, IInv, TypeOK, OnlyTold, ToldOnce, Told, RowsAreLocked,
     StatusIsFar, Recorded, Furthest, ReadersAreTrue
<1>. QED BY <1>1, <1>2, <1>3, <1>4 DEF Next

\* Every state in which events are recorded and read satisfies the invariant
\* above.
THEOREM Invariance == Spec => []IInv
<1>1. Init => IInv
  BY InitIsSafe
<1>2. IInv /\ [Next]_vars => IInv'
  BY StepsAreSafe
<1>. QED BY <1>1, <1>2, PTL DEF Spec
-----------------------------------------------------------------------------
(* Theorems. *)

\* Every variable keeps its type.
THEOREM TypeCorrect == Spec => []TypeOK
<1>1. IInv => TypeOK
  BY DEF IInv
<1>. QED BY <1>1, Invariance, PTL

\* The status of an order is always that of the events in its timeline,
\* whatever the order and number of their deliveries (recordWorkflowEvent).
THEOREM StatusIsFunction == Spec => []StatusReflectsTimeline
<1>1. ASSUME IInv PROVE StatusReflectsTimeline
  BY <1>1, RecordedIsConsistent, StatusIsFurthest
     DEF IInv, StatusIsFar, StatusReflectsTimeline
<1>2. IInv => StatusReflectsTimeline
  BY <1>1
<1>. QED BY <1>2, Invariance, PTL

\* The entries a client is shown explain the status it is shown
\* (getOrderDetails).
THEOREM DetailsExplained == Spec => []ShownIsExplained
<1>1. IInv => ShownIsExplained
  BY DEF IInv, ReadersAreTrue, ShownIsExplained
<1>. QED BY <1>1, Invariance, PTL

\* No step takes a status back, and none changes that of a failed order
\* (applyWorkflowEvent, under the row's lock).
THEOREM ForwardOnly == Spec => StatusOnlyForward
<1>1. ASSUME IInv, [Next]_vars, NEW o \in Known
      PROVE  /\ Stage(status'[o]) >= Stage(status[o])
             /\ status[o] = "InventoryReservationFailed" => status'[o] = status[o]
  <2>1. status[o] \in Statuses
    BY <1>1 DEF IInv, TypeOK
  <2>2. Stage(status[o]) \in Nat
    BY <2>1, Stages DEF Statuses, Types
  <2>3. CASE status' = status
    BY <2>2, <2>3
  <2>4. ASSUME NEW w \in Workers, Record(w) \/ RecordLost(w)
        PROVE  \/ status'[o] = status[o]
               \/ /\ event[w].type \in Types
                  /\ status'[o] = ApplyWorkflowEvent(status[o], event[w].type)
    <3>1. pc[w] = "record" /\ Write(w)
      BY <2>4 DEF Record, RecordLost
    <3>2. event[w].type \in Types
      BY <1>1, <3>1, KnownEvents DEF IInv, TypeOK
    <3>. QED BY <1>1, <3>1, <3>2, WriteDoes
  <2>5. ASSUME NEW t \in Types, status'[o] = ApplyWorkflowEvent(status[o], t)
        PROVE  /\ Stage(status'[o]) >= Stage(status[o])
               /\ status[o] = "InventoryReservationFailed" => status'[o] = status[o]
    <3>1. Stage(t) \in Nat
      BY Stages DEF Types
    <3>. QED BY <2>2, <2>5, <3>1 DEF ApplyWorkflowEvent
  <2>6. status' = status \/ \E w \in Workers : Record(w) \/ RecordLost(w)
    BY <1>1 DEF Next, WorkerStep, WorkerFault, Tell, Deliver, Ack, AckLost,
       LockOrder, Fail, ReadOrder, ReadTimeline, tables, vars
  <2>. QED BY <2>2, <2>3, <2>4, <2>5, <2>6
<1>2. IInv /\ [Next]_vars =>
        \A o \in Known :
          /\ Stage(status'[o]) >= Stage(status[o])
          /\ status[o] = "InventoryReservationFailed" => status'[o] = status[o]
  BY <1>1
<1>. QED BY <1>2, Invariance, PTL DEF Spec, StatusOnlyForward

-----------------------------------------------------------------------------
(* Sorting. *)

\* Induction over the natural numbers, for a set of them.
LEMMA SetInduction ==
  ASSUME NEW T \in SUBSET Nat, 0 \in T, \A n \in T : n + 1 \in T
  PROVE  T = Nat
<1> DEFINE U == Nat \ T
<1> SUFFICES ASSUME U # {} PROVE FALSE
  OBVIOUS
<1>1. PICK m \in U : \A x \in U : ~(<<x, m>> \in OpToRel(<, Nat))
  <2>1. U \subseteq Nat
    OBVIOUS
  <2> HIDE DEF U
  <2> QED
    BY <2>1, WFMin, NatLessThanWellFounded
<1>2. \A x \in U : ~(x < m)
  BY <1>1 DEF OpToRel
<1>3. m - 1 \in Nat /\ m - 1 < m
  OBVIOUS
<1>4. m - 1 \in T
  BY <1>2, <1>3
<1> QED
  BY <1>4

\* The order is strict and total on S.
IsStrictOrder(order, S) ==
  /\ \A x \in S : <<x, x>> \notin order
  /\ \A x, y \in S : x # y => <<x, y>> \in order \/ <<y, x>> \in order
  /\ \A x, y, z \in S :
       <<x, y>> \in order /\ <<y, z>> \in order => <<x, z>> \in order

\* s lists all elements of S in the order.
Lists(s, S, order) ==
  /\ s \in [1..Cardinality(S) -> S]
  /\ \A x \in S : \E k \in 1..Cardinality(S) : s[k] = x
  /\ \A j, k \in 1..Cardinality(S) : j < k => <<s[j], s[k]>> \in order

\* Each element is at the place after those below it: there are as many places
\* as elements, and no two elements have the same number below them.
LEMMA InOrderLists ==
  ASSUME NEW S, IsFiniteSet(S), NEW order, IsStrictOrder(order, S)
  PROVE  Lists(InOrder(S, order), S, order)
<1> DEFINE Below(x) == {y \in S : <<y, x>> \in order}
           N == Cardinality(S)
           rank == [x \in S |-> Cardinality(Below(x))]
           s == InOrder(S, order)
<1>1. N \in Nat
  BY FS_CardinalityType
<1>2. ASSUME NEW x \in S
      PROVE  /\ IsFiniteSet(Below(x)) /\ rank[x] \in 0..N - 1
  <2>1. Below(x) \in SUBSET (S \ {x})
    BY DEF IsStrictOrder
  <2>2. IsFiniteSet(S \ {x}) /\ Cardinality(S \ {x}) = N - 1
    BY FS_RemoveElement
  <2>3. IsFiniteSet(Below(x)) /\ Cardinality(Below(x)) <= N - 1
    BY <2>1, <2>2, FS_Subset
  <2>4. Cardinality(Below(x)) \in Nat
    BY <2>3, FS_CardinalityType
  <2> HIDE DEF Below, N
  <2> QED
    BY <1>1, <2>3, <2>4
<1>3. ASSUME NEW x \in S, NEW y \in S, <<x, y>> \in order
      PROVE  rank[x] < rank[y]
  <2>1. Below(x) \in SUBSET Below(y)
    BY <1>3 DEF IsStrictOrder
  <2>2. x \in Below(y) /\ x \notin Below(x)
    BY <1>3 DEF IsStrictOrder
  <2>3. IsFiniteSet(Below(y)) /\ Below(x) # Below(y)
    BY <1>2, <2>2
  <2>4. Cardinality(Below(x)) <= Cardinality(Below(y))
        /\ Cardinality(Below(x)) # Cardinality(Below(y))
    <3> HIDE DEF Below
    <3> QED
      BY <2>1, <2>3, FS_Subset
  <2>5. rank[x] \in 0..N - 1 /\ rank[y] \in 0..N - 1
    BY <1>2
  <2> HIDE DEF Below, N
  <2> QED
    BY <1>1, <2>4, <2>5
<1>4. ASSUME NEW x \in S, NEW y \in S, rank[x] = rank[y]
      PROVE  x = y
  <2>1. rank[x] \in 0..N - 1 /\ rank[y] \in 0..N - 1
    BY <1>2
  <2>2. ~(rank[x] < rank[y]) /\ ~(rank[y] < rank[x])
    <3> HIDE DEF rank, N
    <3> QED
      BY <1>1, <1>4, <2>1
  <2> HIDE DEF rank
  <2>3. <<x, y>> \notin order /\ <<y, x>> \notin order
    BY <1>3, <2>2
  <2> QED
    BY <2>3 DEF IsStrictOrder
<1>5. \A n \in 0..N - 1 : \E x \in S : rank[x] = n
  <2>1. rank \in [S -> 0..N - 1]
    <3>1. \A x \in S : rank[x] \in 0..N - 1
      BY <1>2
    <3>2. rank = [x \in S |-> rank[x]]
      OBVIOUS
    <3> HIDE DEF rank, N
    <3> QED
      BY <3>1, <3>2
  <2>2. IsFiniteSet(0..N - 1) /\ Cardinality(0..N - 1) = N
    <3>1. N - 1 \in Int /\ 0 \in Int
      BY <1>1
    <3>2. IsFiniteSet(0..N - 1)
          /\ Cardinality(0..N - 1) = IF 0 > N - 1 THEN 0 ELSE (N - 1) - 0 + 1
      <4> HIDE DEF N
      <4> QED
        BY <3>1, FS_Interval
    <3> HIDE DEF N
    <3> QED
      BY <1>1, <3>2
  <2>3. rank \in Injection(S, 0..N - 1)
    <3> HIDE DEF rank, N
    <3> QED
      BY <1>4, <2>1 DEF Injection, IsInjective
  <2>4. rank \in Surjection(S, 0..N - 1)
    <3> HIDE DEF rank
    <3> QED
      BY <2>2, <2>3, FS_Injection
  <2> HIDE DEF rank, N
  <2> QED
    BY <2>4 DEF Surjection
<1>6. /\ s = [k \in 1..N |-> CHOOSE x \in S : Cardinality(Below(x)) = k - 1]
      /\ \A x \in S : rank[x] = Cardinality(Below(x))
  BY DEF InOrder
<1>7. ASSUME NEW k \in 1..N PROVE s[k] \in S /\ rank[s[k]] = k - 1
  <2>1. k - 1 \in 0..N - 1
    BY <1>1
  <2>2. \E x \in S : Cardinality(Below(x)) = k - 1
    BY <1>5, <1>6, <2>1
  <2>3. s[k] = CHOOSE x \in S : Cardinality(Below(x)) = k - 1
    BY <1>6
  <2> HIDE DEF Below, rank, s, N
  <2>4. s[k] \in S /\ Cardinality(Below(s[k])) = k - 1
    BY <2>2, <2>3
  <2> QED
    BY <1>6, <2>4
<1> HIDE DEF rank, s, N
<1>8. s \in [1..N -> S]
  BY <1>6, <1>7
<1>9. ASSUME NEW x \in S PROVE \E k \in 1..N : s[k] = x
  <2>1. rank[x] \in 0..N - 1
    BY <1>2
  <2>2. rank[x] + 1 \in 1..N /\ (rank[x] + 1) - 1 = rank[x]
    BY <1>1, <2>1
  <2>3. s[rank[x] + 1] \in S /\ rank[s[rank[x] + 1]] = rank[x]
    BY <1>7, <2>2
  <2> QED
    BY <1>4, <2>2, <2>3
<1>10. ASSUME NEW j \in 1..N, NEW k \in 1..N, j < k
       PROVE  <<s[j], s[k]>> \in order
  <2>1. /\ s[j] \in S /\ rank[s[j]] = j - 1
        /\ s[k] \in S /\ rank[s[k]] = k - 1
    BY <1>7
  <2>2. ~(rank[s[k]] < rank[s[j]]) /\ s[j] # s[k]
    BY <1>1, <1>10, <2>1
  <2> QED
    BY <1>3, <2>1, <2>2 DEF IsStrictOrder
<1> QED
  BY <1>8, <1>9, <1>10 DEF Lists, s, N

\* The entries that become a view.
StepKinds == {"Accepted", "Published", "PublicationPending", "PaymentAuthorized",
              "InventoryReserved", "InventoryReservationFailed",
              "DeliveryBooked"}
EntryKinds == StepKinds \cup {"Replayed"}
Entries == [kind : EntryKinds, number : Nat, at : Nat]

\* The stages are those of the workflow, and the accepted order is the first.
LEMMA EntryStages ==
  ASSUME NEW e \in Entries
  PROVE  /\ IsStep(e) <=> e.kind \in StepKinds
         /\ IsStep(e) => EntryStage(e) \in Nat
         /\ IsStep(e) => (EntryStage(e) = 0 <=> e.kind = "Accepted")
BY DEF Entries, EntryKinds, StepKinds, IsStep, IsRetry, EntryStage

LEMMA ElementOf ==
  ASSUME NEW R, NEW s \in Seq(R), NEW i \in DOMAIN s
  PROVE  s[i] \in R
OBVIOUS

\* Entries are in a strict order of time, and steps in one of stage.
LEMMA OrdersAreStrict ==
  ASSUME NEW list \in Seq(Entries)
  PROVE  /\ IsStrictOrder(ByTime(list), DOMAIN list)
         /\ IsStrictOrder(ByStage(list), {i \in DOMAIN list : IsStep(list[i])})
<1>1. \A i \in DOMAIN list : i \in Nat /\ list[i] \in Entries
  BY ElementOf
<1>2. \A i \in DOMAIN list : i \in Nat /\ list[i].at \in Nat
  BY <1>1 DEF Entries
<1>3. \A i, j \in DOMAIN list :
        <<i, j>> \in ByTime(list) <=>
          \/ list[i].at < list[j].at
          \/ list[i].at = list[j].at /\ i < j
  BY DEF ByTime
<1>4. IsStrictOrder(ByTime(list), DOMAIN list)
  <2> DEFINE D == DOMAIN list
             time == [i \in D |-> list[i].at]
  <2>1. \A i \in D : i \in Nat /\ time[i] \in Nat
    BY <1>2
  <2>2. \A i, j \in D :
          <<i, j>> \in ByTime(list) <=>
            time[i] < time[j] \/ (time[i] = time[j] /\ i < j)
    BY <1>3
  <2> HIDE DEF D, time
  <2>3. \A i, j \in D :
          i # j => <<i, j>> \in ByTime(list) \/ <<j, i>> \in ByTime(list)
    BY <2>1, <2>2
  <2>4. ASSUME NEW i \in D, NEW j \in D, NEW k \in D,
               <<i, j>> \in ByTime(list), <<j, k>> \in ByTime(list)
        PROVE  <<i, k>> \in ByTime(list)
    <3>1. /\ time[i] < time[j] \/ (time[i] = time[j] /\ i < j)
          /\ time[j] < time[k] \/ (time[j] = time[k] /\ j < k)
      BY <2>2, <2>4
    <3>2. time[i] < time[k] \/ (time[i] = time[k] /\ i < k)
      BY <2>1, <3>1
    <3> QED
      BY <2>2, <3>2
  <2>5. \A i \in D : <<i, i>> \notin ByTime(list)
    BY <2>1, <2>2
  <2>6. IsStrictOrder(ByTime(list), D)
    BY <2>3, <2>4, <2>5 DEF IsStrictOrder
  <2> QED
    BY <2>6 DEF D
<1> DEFINE S == {i \in DOMAIN list : IsStep(list[i])}
<1>5. \A i, j \in S :
        <<i, j>> \in ByStage(list) <=>
          \/ EntryStage(list[i]) < EntryStage(list[j])
          \/ /\ EntryStage(list[i]) = EntryStage(list[j])
             /\ <<i, j>> \in ByTime(list)
  BY DEF ByStage
<1>6. \A i \in S : EntryStage(list[i]) \in Nat /\ i \in DOMAIN list
  BY <1>1, EntryStages
<1> HIDE DEF S
<1>7. IsStrictOrder(ByStage(list), S)
  BY <1>4, <1>5, <1>6 DEF IsStrictOrder
<1> QED
  BY <1>4, <1>7 DEF S

\* A listing of places of the list, as entries.
LEMMA EntriesInOrder ==
  ASSUME NEW list \in Seq(Entries), NEW S \in SUBSET DOMAIN list,
         NEW order, Lists(InOrder(S, order), S, order),
         NEW s, s = [k \in DOMAIN InOrder(S, order) |-> list[InOrder(S, order)[k]]]
  PROVE  /\ s \in Seq(Entries) /\ Len(s) = Cardinality(S)
         /\ DOMAIN s = 1..Cardinality(S)
         /\ \A k \in DOMAIN s : InOrder(S, order)[k] \in S
         /\ \A k \in DOMAIN s : s[k] = list[InOrder(S, order)[k]]
         /\ \A i \in S : \E k \in DOMAIN s : s[k] = list[i]
<1> DEFINE o == InOrder(S, order)
           N == Cardinality(S)
<1>1. o \in [1..N -> S]
  BY DEF Lists
<1>2. \A i \in S : \E k \in 1..N : o[k] = i
  BY DEF Lists
<1>3. N \in Nat
  <2>1. IsFiniteSet(DOMAIN list)
    <3>1. DOMAIN list = 1..Len(list) /\ Len(list) \in Int /\ 1 \in Int
      OBVIOUS
    <3> QED
      BY <3>1, FS_Interval
  <2>2. IsFiniteSet(S)
    BY <2>1, FS_Subset
  <2> QED
    BY <2>2, FS_CardinalityType
<1>4. \A i \in S : list[i] \in Entries
  BY ElementOf
<1> HIDE DEF o, N
<1>5. s = [k \in 1..N |-> list[o[k]]]
  BY <1>1 DEF o
<1>6. s \in [1..N -> Entries]
  BY <1>1, <1>4, <1>5
<1>7. s \in Seq(Entries) /\ Len(s) = N /\ DOMAIN s = 1..N
  BY <1>3, <1>6
<1>8. \A k \in DOMAIN s : o[k] \in S /\ s[k] = list[o[k]]
  BY <1>1, <1>5, <1>7
<1>9. \A i \in S : \E k \in DOMAIN s : s[k] = list[i]
  BY <1>2, <1>5, <1>7
<1> QED
  BY <1>7, <1>8, <1>9 DEF o, N

\* The steps of a view: one acceptance, and the others by stage after it.
AreSteps(steps) ==
  /\ steps \in Seq(Entries) /\ Len(steps) > 0
  /\ \A k \in DOMAIN steps :
       IsStep(steps[k]) /\ (steps[k].kind = "Accepted" <=> k = 1)
  /\ \A j, k \in DOMAIN steps :
       j < k => EntryStage(steps[j]) <= EntryStage(steps[k])

\* Its retries, by the time they were received.
AreRetries(retries) ==
  /\ retries \in Seq(Entries)
  /\ \A k \in DOMAIN retries : IsRetry(retries[k])
  /\ \A j, k \in DOMAIN retries : j < k => retries[j].at <= retries[k].at

\* The entries of an order that was accepted once, before every retry.
IsAccount(list) ==
  /\ list \in Seq(Entries)
  /\ \E a \in DOMAIN list :
       /\ list[a].kind = "Accepted"
       /\ \A i \in DOMAIN list :
            /\ list[i].kind = "Accepted" => i = a
            /\ IsRetry(list[i]) => list[a].at <= list[i].at

\* s has the entries of the list at the places S, as often as they are there.
HasPlaces(s, list, S) ==
  /\ Len(s) = Cardinality(S)
  /\ \A k \in DOMAIN s : \E i \in S : s[k] = list[i]
  /\ \A i \in S : \E k \in DOMAIN s : s[k] = list[i]

LEMMA PlacesAreFinite ==
  ASSUME NEW list \in Seq(Entries), NEW S \in SUBSET DOMAIN list
  PROVE  IsFiniteSet(S)
<1>1. DOMAIN list = 1..Len(list) /\ Len(list) \in Int /\ 1 \in Int
  OBVIOUS
<1>2. IsFiniteSet(DOMAIN list)
  BY <1>1, FS_Interval
<1> QED
  BY <1>2, FS_Subset

LEMMA RetriesInTime ==
  ASSUME NEW list \in Seq(Entries)
  PROVE  /\ AreRetries(RetriesOf(list))
         /\ HasPlaces(RetriesOf(list), list, {i \in DOMAIN list : IsRetry(list[i])})
<1> DEFINE S == {i \in DOMAIN list : IsRetry(list[i])}
           o == InOrder(S, ByTime(list))
           s == RetriesOf(list)
<1>1. S \in SUBSET DOMAIN list /\ IsFiniteSet(S)
  BY PlacesAreFinite
<1>2. IsStrictOrder(ByTime(list), S)
  BY OrdersAreStrict DEF IsStrictOrder
<1>3. Lists(o, S, ByTime(list))
  BY <1>1, <1>2, InOrderLists
<1>4. s = [k \in DOMAIN o |-> list[o[k]]]
  BY DEF RetriesOf
<1>5. \A i \in S : IsRetry(list[i])
  OBVIOUS
<1> HIDE DEF S, s
<1>6. /\ s \in Seq(Entries) /\ Len(s) = Cardinality(S)
      /\ DOMAIN s = 1..Cardinality(S)
      /\ \A k \in DOMAIN s : o[k] \in S
      /\ \A k \in DOMAIN s : s[k] = list[o[k]]
      /\ \A i \in S : \E k \in DOMAIN s : s[k] = list[i]
  BY <1>1, <1>3, <1>4, EntriesInOrder
<1>7. ASSUME NEW j \in DOMAIN s, NEW k \in DOMAIN s, j < k
      PROVE  s[j].at <= s[k].at
  <2>1. <<o[j], o[k]>> \in ByTime(list)
    BY <1>3, <1>6, <1>7 DEF Lists
  <2>0. s[j] \in Entries /\ s[k] \in Entries
    BY <1>6, ElementOf
  <2>2. s[j].at \in Nat /\ s[k].at \in Nat
    BY <2>0 DEF Entries
  <2>3. list[o[j]].at < list[o[k]].at \/ list[o[j]].at = list[o[k]].at
    BY <2>1 DEF ByTime
  <2> QED
    BY <1>6, <2>2, <2>3
<1>8. AreRetries(s)
  BY <1>5, <1>6, <1>7 DEF AreRetries
<1>9. HasPlaces(s, list, S)
  BY <1>6 DEF HasPlaces
<1> QED
  BY <1>8, <1>9 DEF S, s

LEMMA StepsInStages ==
  ASSUME NEW list, IsAccount(list)
  PROVE  /\ AreSteps(StepsOf(list))
         /\ HasPlaces(StepsOf(list), list, {i \in DOMAIN list : IsStep(list[i])})
<1> DEFINE S == {i \in DOMAIN list : IsStep(list[i])}
           o == InOrder(S, ByStage(list))
           s == StepsOf(list)
<1>0. list \in Seq(Entries)
  BY DEF IsAccount
<1>1. S \in SUBSET DOMAIN list /\ IsFiniteSet(S)
  BY <1>0, PlacesAreFinite
<1>2. IsStrictOrder(ByStage(list), S)
  BY <1>0, OrdersAreStrict
<1>3. Lists(o, S, ByStage(list))
  BY <1>1, <1>2, InOrderLists
<1>4. s = [k \in DOMAIN o |-> list[o[k]]]
  BY DEF StepsOf
<1>5. \A i \in DOMAIN list : i \in S <=> IsStep(list[i])
  OBVIOUS
<1> HIDE DEF S, s
<1>6. /\ s \in Seq(Entries) /\ Len(s) = Cardinality(S)
      /\ DOMAIN s = 1..Cardinality(S) /\ Cardinality(S) \in Nat
      /\ \A k \in DOMAIN s : o[k] \in S
      /\ \A k \in DOMAIN s : s[k] = list[o[k]]
      /\ \A i \in S : \E k \in DOMAIN s : s[k] = list[i]
  BY <1>0, <1>1, <1>3, <1>4, EntriesInOrder, FS_CardinalityType
<1>a. \A k \in DOMAIN s : s[k] \in Entries /\ IsStep(s[k])
  BY <1>1, <1>5, <1>6, ElementOf
<1>b. \A k \in DOMAIN s : /\ EntryStage(s[k]) \in Nat
                          /\ EntryStage(s[k]) = 0 <=> s[k].kind = "Accepted"
  BY <1>a, EntryStages
<1>7. ASSUME NEW j \in DOMAIN s, NEW k \in DOMAIN s, j < k
      PROVE  EntryStage(s[j]) <= EntryStage(s[k]) /\ o[j] # o[k]
  <2>1. <<o[j], o[k]>> \in ByStage(list)
    BY <1>3, <1>6, <1>7 DEF Lists
  <2>2. EntryStage(list[o[j]]) < EntryStage(list[o[k]])
        \/ EntryStage(list[o[j]]) = EntryStage(list[o[k]])
    BY <2>1 DEF ByStage
  <2>3. o[j] # o[k]
    BY <1>2, <1>6, <2>1 DEF IsStrictOrder
  <2> QED
    BY <1>6, <1>b, <2>2, <2>3
<1>8. PICK a \in DOMAIN list :
        list[a].kind = "Accepted"
        /\ \A i \in DOMAIN list : list[i].kind = "Accepted" => i = a
  BY DEF IsAccount
<1>9. a \in S
  BY <1>5, <1>8 DEF IsStep, IsRetry
<1>10. PICK n \in DOMAIN s : s[n] = list[a]
  BY <1>6, <1>9
<1>11. 1 \in DOMAIN s /\ Len(s) > 0
  BY <1>6, <1>10
<1>12. s[1].kind = "Accepted"
  <2>1. CASE n = 1
    BY <1>8, <1>10, <2>1
  <2>2. CASE n # 1
    <3>1. 1 < n
      BY <1>6, <2>2
    <3>2. EntryStage(s[1]) <= EntryStage(s[n]) /\ EntryStage(s[n]) = 0
      BY <1>7, <1>8, <1>10, <1>11, <1>b, <3>1
    <3> QED
      BY <1>11, <1>b, <3>2
  <2> QED
    BY <2>1, <2>2
<1>13. ASSUME NEW k \in DOMAIN s, s[k].kind = "Accepted" PROVE k = 1
  <2>1. o[k] = a /\ o[1] = a
    BY <1>1, <1>6, <1>8, <1>11, <1>12, <1>13
  <2> QED
    BY <1>6, <1>7, <1>11, <2>1
<1>14. AreSteps(s)
  BY <1>6, <1>7, <1>11, <1>12, <1>13, <1>a DEF AreSteps
<1>15. HasPlaces(s, list, S)
  BY <1>6 DEF HasPlaces
<1> QED
  BY <1>14, <1>15 DEF S, s
-----------------------------------------------------------------------------
(* The loop that places the retries. *)

\* The while loop stops at the first retry that was not received before.
LEMMA DueRetries ==
  ASSUME NEW retries \in Seq(Entries), NEW step
  PROVE  /\ Due(retries, step) \in 0..Len(retries)
         /\ \A k \in 1..Due(retries, step) : Before(retries[k], step)
         /\ Due(retries, step) < Len(retries) =>
              ~Before(retries[Due(retries, step) + 1], step)
<1> DEFINE N == Len(retries)
           Stops(n) == /\ \A k \in 1..n : Before(retries[k], step)
                       /\ n < N => ~Before(retries[n + 1], step)
           T == {n \in Nat : n <= N => \A k \in 1..n : Before(retries[k], step)}
<1>1. N \in Nat
  OBVIOUS
<1>2. \E n \in 0..N : Stops(n)
  <2>1. SUFFICES ASSUME \A n \in 0..N : ~Stops(n) PROVE FALSE
    OBVIOUS
  <2>2. 0 \in T
    OBVIOUS
  <2>3. ASSUME NEW n \in T PROVE n + 1 \in T
    <3>1. SUFFICES ASSUME n + 1 <= N
                   PROVE  \A k \in 1..n + 1 : Before(retries[k], step)
      OBVIOUS
    <3>2. \A k \in 1..n : Before(retries[k], step)
      BY <1>1, <3>1
    <3>0. n \in 0..N /\ n < N
      BY <1>1, <3>1
    <3>3. Before(retries[n + 1], step)
      BY <2>1, <3>0, <3>2
    <3>4. \A k \in 1..n + 1 : k \in 1..n \/ k = n + 1
      OBVIOUS
    <3> QED
      BY <3>2, <3>3, <3>4
  <2>4. T = Nat
    <3>1. T \in SUBSET Nat
      OBVIOUS
    <3> HIDE DEF T
    <3> QED
      BY <2>2, <2>3, <3>1, SetInduction
  <2>5. Stops(N)
    BY <1>1, <2>4
  <2> QED
    BY <1>1, <2>1, <2>5
<1>3. Due(retries, step) = CHOOSE n \in 0..N : Stops(n)
  BY DEF Due
<1> HIDE DEF Stops
<1>4. Due(retries, step) \in 0..N /\ Stops(Due(retries, step))
  BY <1>2, <1>3
<1> QED
  BY <1>4 DEF Stops

\* The view before and after its first n steps.
Views(f, steps, retries, n) ==
  /\ f[0] = [ordered |-> <<>>, retries |-> retries]
  /\ \A k \in 1..n : f[k] = Place(f[k - 1], steps[k])

\* The loop is sound: it goes through the steps.
LEMMA LoopDefined ==
  ASSUME NEW steps \in Seq(Entries), NEW retries
  PROVE  \E f : /\ Views(f, steps, retries, Len(steps))
                /\ Placed(steps, retries) = f[Len(steps)]
<1> DEFINE N == Len(steps)
           start == [ordered |-> <<>>, retries |-> retries]
           F(h) == [n \in 0..N |-> IF n = 0 THEN start ELSE Place(h[n - 1], steps[n])]
           T == {n \in Nat : \E f : Views(f, steps, retries, n)}
<1>1. N \in Nat
  OBVIOUS
<1>2. 0 \in T
  <2> DEFINE f == [k \in {0} |-> start]
  <2>1. Views(f, steps, retries, 0)
    BY DEF Views
  <2> QED
    BY <2>1
<1>3. ASSUME NEW n \in T PROVE n + 1 \in T
  <2>1. PICK f : Views(f, steps, retries, n)
    OBVIOUS
  <2> DEFINE g == [k \in 0..n + 1 |->
                     IF k <= n THEN f[k] ELSE Place(f[n], steps[n + 1])]
  <2>2. /\ n \in Nat /\ n + 1 \in Nat /\ (n + 1) - 1 = n /\ ~(n + 1 <= n)
        /\ 0 \in 0..n + 1 /\ n + 1 \in 0..n + 1 /\ n \in 0..n + 1
        /\ \A k \in 1..n + 1 : k \in 1..n \/ k = n + 1
        /\ \A k \in 1..n : /\ k \in 0..n + 1 /\ k <= n
                           /\ k - 1 \in 0..n + 1 /\ k - 1 <= n
        /\ 0 <= n
    OBVIOUS
  <2>3. g[0] = f[0] /\ g[n] = f[n] /\ g[n + 1] = Place(f[n], steps[n + 1])
    BY <2>2
  <2>4. \A k \in 1..n : g[k] = f[k] /\ g[k - 1] = f[k - 1]
    BY <2>2
  <2> HIDE DEF g
  <2>5. Views(g, steps, retries, n + 1)
    BY <2>1, <2>2, <2>3, <2>4 DEF Views
  <2> QED
    BY <2>2, <2>5
<1>4. PICK f : Views(f, steps, retries, N)
  <2>1. T = Nat
    <3>1. T \in SUBSET Nat
      OBVIOUS
    <3> HIDE DEF T
    <3> QED
      BY <1>2, <1>3, <3>1, SetInduction
  <2> QED
    BY <1>1, <2>1
<1> DEFINE g == [n \in 0..N |-> f[n]]
           view == CHOOSE h : h = F(h)
<1>5. g = F(g)
  <2>1. ASSUME NEW n \in 0..N
        PROVE  f[n] = IF n = 0 THEN start ELSE Place(g[n - 1], steps[n])
    <3>1. CASE n = 0
      BY <1>4, <3>1 DEF Views
    <3>2. CASE n # 0
      <4>1. n \in 1..N /\ n - 1 \in 0..N
        BY <1>1, <3>2
      <4>2. g[n - 1] = f[n - 1]
        BY <4>1
      <4>3. f[n] = Place(f[n - 1], steps[n])
        BY <1>4, <4>1 DEF Views
      <4> QED
        BY <3>2, <4>2, <4>3
    <3> QED
      BY <3>1, <3>2
  <2> QED
    BY <2>1
<1>6. view = F(view)
  <2> HIDE DEF g, F
  <2> QED
    BY <1>5
<1>7. Placed(steps, retries) = view[N]
  BY DEF Placed
<1> HIDE DEF view
<1>8. /\ view[0] = start
      /\ \A n \in 1..N : view[n] = Place(view[n - 1], steps[n])
  BY <1>1, <1>6
<1>9. Views(view, steps, retries, N)
  BY <1>8 DEF Views
<1> QED
  BY <1>7, <1>9

LEMMA Concatenation ==
  ASSUME NEW R, NEW s \in Seq(R), NEW u \in Seq(R)
  PROVE  /\ s \o u \in Seq(R) /\ Len(s \o u) = Len(s) + Len(u)
         /\ \A i \in 1..Len(s) : (s \o u)[i] = s[i]
         /\ \A k \in 1..Len(u) : (s \o u)[Len(s) + k] = u[k]
<1>1. Len(s) \in Nat /\ Len(u) \in Nat
  OBVIOUS
<1>2. s \o u \in Seq(R) /\ Len(s \o u) = Len(s) + Len(u)
  OBVIOUS
<1>3. ASSUME NEW i \in 1..Len(s) PROVE (s \o u)[i] = s[i]
  OBVIOUS
<1>4. ASSUME NEW k \in 1..Len(u) PROVE (s \o u)[Len(s) + k] = u[k]
  <2>1. Len(s) + k \in 1..Len(s) + Len(u) /\ ~(Len(s) + k <= Len(s))
        /\ (Len(s) + k) - Len(s) = k
    BY <1>1
  <2> QED
    BY <2>1
<1> QED
  BY <1>2, <1>3, <1>4

\* p and r are o and q after d entries of q and then e were appended to o.
Moved(o, q, e, d, p, r) ==
  /\ d \in 0..Len(q)
  /\ p \in Seq(Entries) /\ r \in Seq(Entries)
  /\ Len(p) = Len(o) + d + 1 /\ Len(r) = Len(q) - d
  /\ \A i \in DOMAIN o : p[i] = o[i]
  /\ \A k \in 1..d : p[Len(o) + k] = q[k]
  /\ p[Len(o) + d + 1] = e
  /\ \A k \in DOMAIN r : r[k] = q[d + k]

LEMMA MovedByPlace ==
  ASSUME NEW o \in Seq(Entries), NEW q \in Seq(Entries), NEW e \in Entries,
         NEW v, v = [ordered |-> o, retries |-> q]
  PROVE  Moved(o, q, e, IF o = <<>> THEN 0 ELSE Due(q, e),
               Place(v, e).ordered, Place(v, e).retries)
<1> DEFINE d == IF o = <<>> THEN 0 ELSE Due(q, e)
           a == SubSeq(q, 1, d)
           r == SubSeq(q, d + 1, Len(q))
           b == o \o a
           p == b \o <<e>>
<1>1. Place(v, e).ordered = p /\ Place(v, e).retries = r
  BY DEF Place
<1>2. d \in 0..Len(q) /\ Len(q) \in Nat /\ Len(o) \in Nat
  BY DueRetries
<1> HIDE DEF d
<1>3. /\ a \in Seq(Entries) /\ Len(a) = d /\ \A k \in 1..d : a[k] = q[k]
  BY <1>2
<1>4. /\ r \in Seq(Entries) /\ Len(r) = Len(q) - d
      /\ \A k \in 1..Len(q) - d : r[k] = q[d + k]
  BY <1>2
<1> HIDE DEF a, r
<1>5. /\ b \in Seq(Entries) /\ Len(b) = Len(o) + d
      /\ \A i \in 1..Len(o) : b[i] = o[i]
      /\ \A k \in 1..d : b[Len(o) + k] = q[k]
  <2>0. a \in Seq(Entries)
    BY <1>3
  <2>1. /\ b \in Seq(Entries) /\ Len(b) = Len(o) + Len(a)
        /\ \A i \in 1..Len(o) : b[i] = o[i]
        /\ \A k \in 1..Len(a) : b[Len(o) + k] = a[k]
    <3> HIDE DEF Entries
    <3> QED
      BY <2>0, Concatenation
  <2> QED
    BY <1>3, <2>1
<1> HIDE DEF b
<1>6. /\ p \in Seq(Entries) /\ Len(p) = Len(b) + 1
      /\ \A i \in 1..Len(b) : p[i] = b[i]
      /\ p[Len(b) + 1] = e
  BY <1>5
<1> HIDE DEF p
<1>7. ASSUME NEW i \in DOMAIN o PROVE p[i] = o[i]
  <2>1. i \in 1..Len(o) /\ i \in 1..Len(b)
    BY <1>2, <1>5
  <2> QED
    BY <1>5, <1>6, <2>1
<1>8. ASSUME NEW k \in 1..d PROVE p[Len(o) + k] = q[k]
  <2>1. Len(o) + k \in 1..Len(b)
    BY <1>2, <1>5
  <2> QED
    BY <1>5, <1>6, <2>1
<1>9. \A k \in DOMAIN r : r[k] = q[d + k]
  BY <1>4
<1>10. Moved(o, q, e, d, p, r)
  BY <1>2, <1>4, <1>5, <1>6, <1>7, <1>8, <1>9 DEF Moved
<1> QED
  BY <1>1, <1>10 DEF d

\* Where the entries of p and r are from.
LEMMA MovedPlaces ==
  ASSUME NEW o \in Seq(Entries), NEW q \in Seq(Entries), NEW e, NEW d,
         NEW p, NEW r, Moved(o, q, e, d, p, r)
  PROVE  /\ DOMAIN p = 1..Len(o) + d + 1 /\ DOMAIN r = 1..Len(q) - d
         /\ DOMAIN o = 1..Len(o) /\ DOMAIN q = 1..Len(q)
         /\ Len(o) \in Nat /\ Len(q) \in Nat /\ d \in Nat /\ d <= Len(q)
         /\ \A i \in DOMAIN p : \/ i \in DOMAIN o /\ p[i] = o[i]
                                \/ \E k \in 1..d : i = Len(o) + k /\ p[i] = q[k]
                                \/ i = Len(o) + d + 1 /\ p[i] = e
         /\ \A k \in 1..d : k \in DOMAIN q
         /\ \A k \in DOMAIN r : d + k \in DOMAIN q /\ r[k] = q[d + k]
         /\ \A k \in DOMAIN q : k \in 1..d \/ (k - d \in DOMAIN r /\ r[k - d] = q[k])
<1>1. /\ DOMAIN p = 1..Len(o) + d + 1 /\ DOMAIN r = 1..Len(q) - d
      /\ DOMAIN o = 1..Len(o) /\ DOMAIN q = 1..Len(q)
      /\ Len(o) \in Nat /\ Len(q) \in Nat /\ d \in Nat /\ d <= Len(q)
  BY DEF Moved
<1>2. ASSUME NEW i \in DOMAIN p
      PROVE  \/ i \in DOMAIN o /\ p[i] = o[i]
             \/ \E k \in 1..d : i = Len(o) + k /\ p[i] = q[k]
             \/ i = Len(o) + d + 1 /\ p[i] = e
  <2>1. CASE i <= Len(o)
    BY <1>1, <2>1 DEF Moved
  <2>2. CASE Len(o) < i /\ i <= Len(o) + d
    <3>1. i - Len(o) \in 1..d /\ i = Len(o) + (i - Len(o))
      BY <1>1, <2>2
    <3>2. p[i] = q[i - Len(o)]
      BY <3>1 DEF Moved
    <3> QED
      BY <3>1, <3>2
  <2>3. CASE i = Len(o) + d + 1
    BY <2>3 DEF Moved
  <2> QED
    BY <1>1, <2>1, <2>2, <2>3
<1>3. \A k \in DOMAIN r : d + k \in DOMAIN q /\ r[k] = q[d + k]
  BY <1>1 DEF Moved
<1>4. ASSUME NEW k \in DOMAIN q, k \notin 1..d
      PROVE  k - d \in DOMAIN r /\ r[k - d] = q[k]
  <2>1. k - d \in DOMAIN r /\ d + (k - d) = k
    BY <1>1, <1>4
  <2> QED
    BY <1>3, <2>1
<1>5. \A k \in 1..d : k \in DOMAIN q
  BY <1>1
<1> QED
  BY <1>1, <1>2, <1>3, <1>4, <1>5

\* o and q have the first n steps and all retries, and nothing else.
AreComplete(o, q, n, steps, retries) ==
  /\ Len(o) + Len(q) = n + Len(retries)
  /\ \A i \in DOMAIN o : \/ \E k \in 1..n : o[i] = steps[k]
                         \/ \E k \in DOMAIN retries : o[i] = retries[k]
  /\ \A i \in DOMAIN q : \E k \in DOMAIN retries : q[i] = retries[k]
  /\ \A k \in 1..n : \E i \in DOMAIN o : o[i] = steps[k]
  /\ \A k \in DOMAIN retries : \/ \E i \in DOMAIN o : o[i] = retries[k]
                               \/ \E i \in DOMAIN q : q[i] = retries[k]

\* The steps in o are in order, and it begins with the acceptance.
IsCausal(o, n) ==
  /\ o = <<>> <=> n = 0
  /\ \A i \in DOMAIN o : o[i].kind = "Accepted" <=> i = 1
  /\ \A i, j \in DOMAIN o :
       i < j /\ IsStep(o[i]) /\ IsStep(o[j]) =>
         EntryStage(o[i]) <= EntryStage(o[j])

\* All that is before the retry o[i] had been seen by then, and the next step
\* was seen later.
IsPlaced(o, i) ==
  /\ \A j \in 1..i - 1 : o[j].at <= o[i].at
  /\ \E j \in i + 1 .. Len(o) :
       /\ IsStep(o[j])
       /\ \A k \in i + 1 .. j - 1 : IsRetry(o[k])
       /\ o[i].at < o[j].at

\* The retries that are left are later than everything in o.
AreLater(q, o) == \A i \in DOMAIN o, k \in DOMAIN q : o[i].at <= q[k].at

\* What is true of the view after n steps.
IsView(v, n, steps, retries) ==
  /\ v = [ordered |-> v.ordered, retries |-> v.retries]
  /\ v.ordered \in Seq(Entries)
  /\ AreRetries(v.retries)
  /\ AreComplete(v.ordered, v.retries, n, steps, retries)
  /\ IsCausal(v.ordered, n)
  /\ \A i \in DOMAIN v.ordered : IsRetry(v.ordered[i]) => IsPlaced(v.ordered, i)
  /\ AreLater(v.retries, v.ordered)

\* The entries that are moved fit between o and the rest of q.
Fits(q, e, d) ==
  /\ \A k \in 1..d : q[k].at < e.at
  /\ \A k \in DOMAIN q : d < k => e.at <= q[k].at

LEMMA KeepsComplete ==
  ASSUME NEW o \in Seq(Entries), NEW q \in Seq(Entries), NEW d,
         NEW p, NEW r, NEW steps, NEW retries, NEW n \in Nat,
         Len(retries) \in Nat,
         Moved(o, q, steps[n + 1], d, p, r),
         AreComplete(o, q, n, steps, retries)
  PROVE  AreComplete(p, r, n + 1, steps, retries)
<1> DEFINE e == steps[n + 1]
           L == Len(o)
<1>1. /\ L \in Nat /\ Len(q) \in Nat /\ d \in Nat /\ d <= Len(q)
      /\ Len(p) = L + d + 1 /\ Len(r) = Len(q) - d
      /\ DOMAIN p = 1..L + d + 1 /\ DOMAIN o = 1..L
  BY MovedPlaces DEF Moved
<1>b. \A i \in DOMAIN p : \/ i \in DOMAIN o /\ p[i] = o[i]
                          \/ \E k \in 1..d : p[i] = q[k]
                          \/ p[i] = e
  BY MovedPlaces
<1>c. \A k \in 1..d : k \in DOMAIN q
  BY MovedPlaces
<1>d. \A k \in DOMAIN r : d + k \in DOMAIN q /\ r[k] = q[d + k]
  BY MovedPlaces
<1>e. \A k \in DOMAIN q : k \in 1..d \/ \E j \in DOMAIN r : r[j] = q[k]
  BY MovedPlaces
<1>f. /\ \A i \in DOMAIN o : i \in DOMAIN p /\ p[i] = o[i]
      /\ \A k \in 1..d : L + k \in DOMAIN p /\ p[L + k] = q[k]
      /\ L + d + 1 \in DOMAIN p /\ p[L + d + 1] = e
  BY <1>1 DEF Moved
<1>a. /\ n + 1 \in 1..n + 1 /\ \A k \in 1..n : k \in 1..n + 1
      /\ \A k \in 1..n + 1 : k \in 1..n \/ k = n + 1
  OBVIOUS
<1> HIDE DEF e, L
<1>3. Len(p) + Len(r) = (n + 1) + Len(retries)
  <2>1. L + Len(q) = n + Len(retries)
    BY DEF AreComplete, L
  <2> HIDE DEF AreComplete
  <2> QED
    BY <1>1, <2>1
<1>4. ASSUME NEW i \in DOMAIN p
      PROVE  \/ \E k \in 1..n + 1 : p[i] = steps[k]
             \/ \E k \in DOMAIN retries : p[i] = retries[k]
  <2>1. CASE i \in DOMAIN o /\ p[i] = o[i]
    BY <1>a, <2>1 DEF AreComplete
  <2>2. ASSUME NEW k \in 1..d, p[i] = q[k]
        PROVE  \E m \in DOMAIN retries : p[i] = retries[m]
    BY <1>c, <2>2 DEF AreComplete
  <2>3. CASE p[i] = e
    BY <1>a, <2>3 DEF e
  <2> QED
    BY <1>b, <2>1, <2>2, <2>3
<1>5. \A i \in DOMAIN r : \E k \in DOMAIN retries : r[i] = retries[k]
  BY <1>d DEF AreComplete
<1>6. ASSUME NEW k \in 1..n + 1 PROVE \E i \in DOMAIN p : p[i] = steps[k]
  <2>1. CASE k \in 1..n
    BY <1>f, <2>1 DEF AreComplete
  <2>2. CASE k = n + 1
    BY <1>f, <2>2 DEF e
  <2> QED
    BY <1>a, <2>1, <2>2
<1>7. ASSUME NEW k \in DOMAIN retries
      PROVE  \/ \E i \in DOMAIN p : p[i] = retries[k]
             \/ \E i \in DOMAIN r : r[i] = retries[k]
  <2>1. CASE \E i \in DOMAIN o : o[i] = retries[k]
    BY <1>f, <2>1
  <2>2. ASSUME NEW i \in DOMAIN q, q[i] = retries[k], i \in 1..d
        PROVE  \E j \in DOMAIN p : p[j] = retries[k]
    BY <1>f, <2>2
  <2>3. ASSUME NEW i \in DOMAIN q, q[i] = retries[k], i \notin 1..d
        PROVE  \E j \in DOMAIN r : r[j] = retries[k]
    BY <1>e, <2>3
  <2> QED
    BY <2>1, <2>2, <2>3 DEF AreComplete
<1> QED
  BY <1>3, <1>4, <1>5, <1>6, <1>7 DEF AreComplete

LEMMA KeepsCausal ==
  ASSUME NEW o \in Seq(Entries), NEW q, AreRetries(q), NEW d,
         NEW p, NEW r, NEW steps, AreSteps(steps), NEW retries, AreRetries(retries),
         NEW n \in Nat, n + 1 \in DOMAIN steps,
         Moved(o, q, steps[n + 1], d, p, r), n = 0 => d = 0,
         AreComplete(o, q, n, steps, retries), IsCausal(o, n)
  PROVE  IsCausal(p, n + 1)
<1> DEFINE e == steps[n + 1]
           L == Len(o)
<1>0. q \in Seq(Entries)
  BY DEF AreRetries
<1>1. /\ L \in Nat /\ d \in Nat /\ p \in Seq(Entries)
      /\ Len(p) = L + d + 1 /\ DOMAIN p = 1..L + d + 1 /\ DOMAIN o = 1..L
  BY <1>0, MovedPlaces DEF Moved
<1>b. \A i \in DOMAIN p : \/ i \in DOMAIN o /\ p[i] = o[i]
                          \/ \E k \in 1..d : i = L + k /\ p[i] = q[k]
                          \/ i = L + d + 1 /\ p[i] = e
  BY <1>0, MovedPlaces
<1>c. \A k \in 1..d : IsRetry(q[k]) /\ ~IsStep(q[k]) /\ q[k].kind # "Accepted"
  <2>1. \A k \in 1..d : k \in DOMAIN q
    BY <1>0, MovedPlaces
  <2> QED
    BY <2>1 DEF AreRetries, IsStep, IsRetry
<1>d. /\ e \in Entries /\ IsStep(e) /\ EntryStage(e) \in Nat
      /\ e.kind = "Accepted" <=> n = 0
  <2>1. e \in Entries
    BY ElementOf DEF AreSteps
  <2>2. IsStep(e) /\ (e.kind = "Accepted" <=> n + 1 = 1)
    BY DEF AreSteps
  <2> QED
    BY <2>1, <2>2, EntryStages
<1>e. /\ L = 0 <=> n = 0
      /\ n = 0 => d = 0
  BY <1>1 DEF IsCausal
<1>f. ASSUME NEW i \in DOMAIN o, IsStep(o[i])
      PROVE  EntryStage(o[i]) <= EntryStage(e)
  <2>1. \A k \in DOMAIN retries : ~IsStep(retries[k])
    BY DEF AreRetries, IsStep
  <2>2. PICK k \in 1..n : o[i] = steps[k]
    BY <1>f, <2>1 DEF AreComplete
  <2>3. k \in DOMAIN steps /\ k < n + 1
    BY DEF AreSteps
  <2> QED
    BY <2>2, <2>3 DEF AreSteps
<1> HIDE DEF e, L
<1>2. p = <<>> <=> n + 1 = 0
  BY <1>1
<1>3. ASSUME NEW i \in DOMAIN p PROVE p[i].kind = "Accepted" <=> i = 1
  <2>1. CASE i \in DOMAIN o /\ p[i] = o[i]
    BY <2>1 DEF IsCausal
  <2>2. ASSUME NEW k \in 1..d, i = L + k, p[i] = q[k]
        PROVE  p[i].kind # "Accepted" /\ i # 1
    BY <1>1, <1>c, <1>e, <2>2
  <2>3. CASE i = L + d + 1 /\ p[i] = e
    BY <1>1, <1>d, <1>e, <2>3
  <2> QED
    BY <1>b, <2>1, <2>2, <2>3
<1>4. ASSUME NEW i \in DOMAIN p, NEW j \in DOMAIN p, i < j,
             IsStep(p[i]), IsStep(p[j])
      PROVE  EntryStage(p[i]) <= EntryStage(p[j])
  <2>1. \/ i \in DOMAIN o /\ p[i] = o[i]
        \/ i = L + d + 1 /\ p[i] = e
    BY <1>4, <1>b, <1>c
  <2>2. \/ j \in DOMAIN o /\ p[j] = o[j]
        \/ j = L + d + 1 /\ p[j] = e
    BY <1>4, <1>b, <1>c
  <2>3. i \in DOMAIN o /\ p[i] = o[i]
    BY <1>1, <1>4, <2>1, <2>2
  <2>4. CASE j \in DOMAIN o /\ p[j] = o[j]
    BY <1>4, <2>3, <2>4 DEF IsCausal
  <2>5. CASE p[j] = e
    BY <1>4, <1>f, <2>3, <2>5
  <2> QED
    BY <2>2, <2>4, <2>5
<1> QED
  BY <1>2, <1>3, <1>4 DEF IsCausal

LEMMA KeepsLater ==
  ASSUME NEW o \in Seq(Entries), NEW q, AreRetries(q), NEW e \in Entries, NEW d,
         NEW p, NEW r, Moved(o, q, e, d, p, r), Fits(q, e, d), AreLater(q, o)
  PROVE  AreRetries(r) /\ AreLater(r, p)
<1> DEFINE L == Len(o)
<1>0. q \in Seq(Entries)
  BY DEF AreRetries
<1>1. /\ Len(q) \in Nat /\ d \in Nat /\ DOMAIN r = 1..Len(q) - d
      /\ r \in Seq(Entries)
  BY <1>0, MovedPlaces DEF Moved
<1>2. \A i \in DOMAIN p : \/ i \in DOMAIN o /\ p[i] = o[i]
                          \/ \E k \in 1..d : p[i] = q[k]
                          \/ p[i] = e
  BY <1>0, MovedPlaces
<1>3. \A k \in DOMAIN r : d + k \in DOMAIN q /\ r[k] = q[d + k]
  BY <1>0, MovedPlaces
<1>4. \A k \in 1..d : k \in DOMAIN q
  BY <1>0, MovedPlaces
<1>5. AreRetries(r)
  <2>1. ASSUME NEW j \in DOMAIN r, NEW k \in DOMAIN r, j < k
        PROVE  r[j].at <= r[k].at
    <3>1. d + j < d + k
      BY <1>1, <2>1
    <3> QED
      BY <1>3, <3>1 DEF AreRetries
  <2>2. \A k \in DOMAIN r : IsRetry(r[k])
    BY <1>3 DEF AreRetries
  <2> QED
    BY <1>1, <2>1, <2>2 DEF AreRetries
<1>6. ASSUME NEW i \in DOMAIN p, NEW k \in DOMAIN r
      PROVE  p[i].at <= r[k].at
  <2>0. d + k \in DOMAIN q /\ r[k] = q[d + k] /\ d < d + k
    BY <1>1, <1>3
  <2>1. CASE i \in DOMAIN o /\ p[i] = o[i]
    BY <2>0, <2>1 DEF AreLater
  <2>2. ASSUME NEW m \in 1..d, p[i] = q[m] PROVE p[i].at <= r[k].at
    <3>1. m < d + k /\ m \in DOMAIN q
      BY <1>1, <1>4, <2>0
    <3> QED
      BY <2>0, <2>2, <3>1 DEF AreRetries
  <2>3. CASE p[i] = e
    BY <2>0, <2>3 DEF Fits
  <2> QED
    BY <1>2, <2>1, <2>2, <2>3
<1> QED
  BY <1>5, <1>6 DEF AreLater

LEMMA KeepsPlaced ==
  ASSUME NEW o \in Seq(Entries), NEW q, AreRetries(q),
         NEW e \in Entries, IsStep(e), NEW d,
         NEW p, NEW r, Moved(o, q, e, d, p, r), Fits(q, e, d), AreLater(q, o),
         \A i \in DOMAIN o : IsRetry(o[i]) => IsPlaced(o, i),
         NEW i \in DOMAIN p, IsRetry(p[i])
  PROVE  IsPlaced(p, i)
<1> DEFINE L == Len(o)
<1>0. q \in Seq(Entries)
  BY DEF AreRetries
<1>1. /\ L \in Nat /\ d \in Nat
      /\ Len(p) = L + d + 1 /\ DOMAIN p = 1..L + d + 1 /\ DOMAIN o = 1..L
  BY <1>0, MovedPlaces DEF Moved
<1>2. /\ \A j \in DOMAIN o : p[j] = o[j]
      /\ \A k \in 1..d : p[L + k] = q[k]
      /\ p[L + d + 1] = e
  BY DEF Moved
<1>3. \A k \in 1..d : k \in DOMAIN q
  BY <1>0, MovedPlaces
<1> HIDE DEF L
<1>4. CASE i \in DOMAIN o
  <2>1. IsPlaced(o, i) /\ p[i] = o[i] /\ i \in 1..L
    BY <1>1, <1>2, <1>4
  <2>2. PICK j \in i + 1 .. L :
          /\ IsStep(o[j])
          /\ \A k \in i + 1 .. j - 1 : IsRetry(o[k])
          /\ o[i].at < o[j].at
    BY <2>1 DEF IsPlaced, L
  <2>3. /\ j \in DOMAIN o /\ j \in i + 1 .. Len(p)
        /\ \A k \in i + 1 .. j - 1 : k \in DOMAIN o
        /\ \A k \in 1 .. i - 1 : k \in DOMAIN o
    BY <1>1, <2>1
  <2>4. \A k \in 1 .. i - 1 : p[k].at <= p[i].at
    BY <1>2, <2>1, <2>3 DEF IsPlaced
  <2>5. IsStep(p[j]) /\ p[i].at < p[j].at
    BY <1>2, <2>1, <2>2, <2>3
  <2>6. \A k \in i + 1 .. j - 1 : IsRetry(p[k])
    BY <1>2, <2>2, <2>3
  <2> QED
    BY <2>3, <2>4, <2>5, <2>6 DEF IsPlaced
<1>5. CASE i \notin DOMAIN o /\ i # L + d + 1
  <2> DEFINE m == i - L
  <2>1. m \in 1..d /\ i = L + m /\ m \in DOMAIN q
    BY <1>1, <1>3, <1>5
  <2>2. p[i] = q[m]
    BY <1>2, <2>1
  <2>3. ASSUME NEW k \in 1 .. i - 1 PROVE p[k].at <= p[i].at
    <3>1. CASE k \in DOMAIN o
      BY <1>2, <2>1, <2>2, <3>1 DEF AreLater
    <3>2. CASE k \notin DOMAIN o
      <4>1. k - L \in 1..d /\ k = L + (k - L) /\ k - L < m
        BY <1>1, <2>1, <3>2
      <4>2. p[k] = q[k - L] /\ k - L \in DOMAIN q
        BY <1>2, <1>3, <4>1
      <4> QED
        BY <2>1, <2>2, <4>1, <4>2 DEF AreRetries
    <3> QED
      BY <3>1, <3>2
  <2>4. L + d + 1 \in i + 1 .. Len(p) /\ p[i].at < p[L + d + 1].at
    BY <1>1, <1>2, <2>1, <2>2 DEF Fits
  <2>5. ASSUME NEW k \in i + 1 .. (L + d + 1) - 1 PROVE IsRetry(p[k])
    <3>1. k - L \in 1..d /\ k = L + (k - L)
      BY <1>1, <2>1
    <3>2. p[k] = q[k - L] /\ k - L \in DOMAIN q
      BY <1>2, <1>3, <3>1
    <3> QED
      BY <3>2 DEF AreRetries
  <2> QED
    BY <1>2, <2>3, <2>4, <2>5 DEF IsPlaced
<1>6. CASE i = L + d + 1
  BY <1>2, <1>6 DEF IsStep
<1> QED
  BY <1>4, <1>5, <1>6

\* What the while loop takes fits.
LEMMA DueFits ==
  ASSUME NEW q, AreRetries(q), NEW e \in Entries
  PROVE  Fits(q, e, Due(q, e))
<1> DEFINE d == Due(q, e)
<1>1. q \in Seq(Entries) /\ Len(q) \in Nat /\ DOMAIN q = 1..Len(q)
  BY DEF AreRetries
<1>2. /\ d \in 0..Len(q)
      /\ \A k \in 1..d : Before(q[k], e)
      /\ d < Len(q) => ~Before(q[d + 1], e)
  BY <1>1, DueRetries
<1> HIDE DEF d
<1>3. \A k \in 1..d : q[k].at < e.at
  BY <1>2 DEF Before
<1>4. ASSUME NEW k \in DOMAIN q, d < k PROVE e.at <= q[k].at
  <2>1. d + 1 \in DOMAIN q /\ d < Len(q) /\ d + 1 <= k
    BY <1>1, <1>2, <1>4
  <2>2. q[d + 1] \in Entries /\ q[k] \in Entries
    BY <1>1, <2>1, ElementOf
  <2>3. q[d + 1].at \in Nat /\ q[k].at \in Nat /\ e.at \in Nat
    BY <2>2 DEF Entries
  <2>4. ~(q[d + 1].at < e.at)
    BY <1>2, <2>1 DEF Before
  <2>5. q[d + 1].at <= q[k].at
    <3>1. CASE d + 1 = k
      BY <2>3, <3>1
    <3>2. CASE d + 1 # k
      <4>1. d + 1 < k
        BY <1>1, <1>2, <2>1, <3>2
      <4> QED
        BY <2>1, <4>1 DEF AreRetries
    <3> QED
      BY <3>1, <3>2
  <2> QED
    BY <2>3, <2>4, <2>5
<1> QED
  BY <1>3, <1>4 DEF Fits, d

\* Each step of the loop keeps what is true of the view.
LEMMA PlaceKeeps ==
  ASSUME NEW steps, AreSteps(steps), NEW retries, AreRetries(retries),
         \A k \in DOMAIN retries : steps[1].at <= retries[k].at,
         NEW n \in Nat, n + 1 \in DOMAIN steps,
         NEW v, IsView(v, n, steps, retries)
  PROVE  IsView(Place(v, steps[n + 1]), n + 1, steps, retries)
<1> DEFINE o == v.ordered
           q == v.retries
           e == steps[n + 1]
           d == IF o = <<>> THEN 0 ELSE Due(q, e)
           p == Place(v, e).ordered
           r == Place(v, e).retries
<1>1. /\ v = [ordered |-> o, retries |-> q] /\ o \in Seq(Entries)
      /\ AreRetries(q) /\ AreComplete(o, q, n, steps, retries)
      /\ IsCausal(o, n) /\ AreLater(q, o)
      /\ \A i \in DOMAIN o : IsRetry(o[i]) => IsPlaced(o, i)
  BY DEF IsView
<1>2. q \in Seq(Entries) /\ steps \in Seq(Entries) /\ Len(retries) \in Nat
  BY <1>1 DEF AreRetries, AreSteps
<1>3. e \in Entries /\ IsStep(e)
  BY <1>2, ElementOf DEF AreSteps
<1> HIDE DEF o, q, e
<1>4. Moved(o, q, e, d, p, r)
  BY <1>1, <1>2, <1>3, MovedByPlace
<1>5. Place(v, e) = [ordered |-> p, retries |-> r]
  BY DEF Place
<1>6. n = 0 => d = 0
  BY <1>1 DEF IsCausal
<1>7. Fits(q, e, d)
  <2>1. CASE o = <<>>
    <3>1. n = 0 /\ d = 0 /\ e = steps[1]
      BY <1>1, <2>1 DEF IsCausal, e
    <3>2. \A k \in DOMAIN q : e.at <= q[k].at
      BY <1>1, <3>1 DEF AreComplete
    <3> QED
      BY <3>1, <3>2 DEF Fits
  <2>2. CASE o # <<>>
    BY <1>1, <1>3, <2>2, DueFits
  <2> QED
    BY <2>1, <2>2
<1> HIDE DEF d, p, r
<1>8. AreComplete(p, r, n + 1, steps, retries)
  BY <1>1, <1>2, <1>4, KeepsComplete DEF e
<1>9. IsCausal(p, n + 1)
  BY <1>1, <1>4, <1>6, KeepsCausal DEF e
<1>10. AreRetries(r) /\ AreLater(r, p)
  BY <1>1, <1>3, <1>4, <1>7, KeepsLater
<1>11. \A i \in DOMAIN p : IsRetry(p[i]) => IsPlaced(p, i)
  BY <1>1, <1>3, <1>4, <1>7, KeepsPlaced
<1>12. p \in Seq(Entries)
  BY <1>4 DEF Moved
<1>13. IsView([ordered |-> p, retries |-> r], n + 1, steps, retries)
  BY <1>8, <1>9, <1>10, <1>11, <1>12 DEF IsView
<1> QED
  BY <1>5, <1>13 DEF e

\* So it is true of the view after the loop.
LEMMA PlacedIsView ==
  ASSUME NEW steps, AreSteps(steps), NEW retries, AreRetries(retries),
         \A k \in DOMAIN retries : steps[1].at <= retries[k].at
  PROVE  IsView(Placed(steps, retries), Len(steps), steps, retries)
<1>1. steps \in Seq(Entries) /\ Len(steps) \in Nat /\ DOMAIN steps = 1..Len(steps)
  BY DEF AreSteps
<1>2. PICK f : /\ Views(f, steps, retries, Len(steps))
               /\ Placed(steps, retries) = f[Len(steps)]
  BY <1>1, LoopDefined
<1> DEFINE T == {n \in Nat : n <= Len(steps) => IsView(f[n], n, steps, retries)}
<1>3. 0 \in T
  <2>1. f[0] = [ordered |-> <<>>, retries |-> retries]
    BY <1>2 DEF Views
  <2>2. IsView([ordered |-> <<>>, retries |-> retries], 0, steps, retries)
    <3>1. /\ <<>> \in Seq(Entries) /\ DOMAIN <<>> = {} /\ Len(<<>>) = 0
          /\ 1..0 = {} /\ Len(retries) \in Nat
      BY DEF AreRetries
    <3>2. AreComplete(<<>>, retries, 0, steps, retries)
      BY <3>1 DEF AreComplete
    <3> QED
      BY <3>1, <3>2 DEF IsView, IsCausal, AreLater
  <2> QED
    BY <2>1, <2>2
<1>4. ASSUME NEW n \in T PROVE n + 1 \in T
  <2>1. SUFFICES ASSUME n + 1 <= Len(steps)
                 PROVE  IsView(f[n + 1], n + 1, steps, retries)
    OBVIOUS
  <2>2. n + 1 \in DOMAIN steps /\ n + 1 \in 1..Len(steps) /\ (n + 1) - 1 = n
    BY <1>1, <2>1
  <2>3. IsView(f[n], n, steps, retries)
    BY <1>1, <2>1
  <2>4. IsView(Place(f[n], steps[n + 1]), n + 1, steps, retries)
    BY <2>2, <2>3, PlaceKeeps
  <2>5. f[n + 1] = Place(f[n], steps[n + 1])
    BY <1>2, <2>2 DEF Views
  <2> QED
    BY <2>4, <2>5
<1>5. T = Nat
  <2>1. T \in SUBSET Nat
    OBVIOUS
  <2> HIDE DEF T
  <2> QED
    BY <1>3, <1>4, <2>1, SetInduction
<1> QED
  BY <1>1, <1>2, <1>5
-----------------------------------------------------------------------------
(* The whole view. *)

\* view has every entry of the list.
HasAll(view, list) ==
  /\ Len(view) = Len(list)
  /\ \A i \in DOMAIN view : \E m \in DOMAIN list : view[i] = list[m]
  /\ \A m \in DOMAIN list : \E i \in DOMAIN view : view[i] = list[m]

\* The entries of the list were divided into the steps and the retries.
AreDivided(list, steps, retries) ==
  /\ HasPlaces(steps, list, {i \in DOMAIN list : IsStep(list[i])})
  /\ HasPlaces(retries, list, {i \in DOMAIN list : IsRetry(list[i])})

\* The entries of the list, as often as they are there, with the accepted order
\* first, the steps in their stages, and each retry before the first of the steps
\* that was seen after it.
IsOrdered(view, list) ==
  /\ view \in Seq(Entries) /\ HasAll(view, list)
  /\ \A i \in DOMAIN view : view[i].kind = "Accepted" <=> i = 1
  /\ \A i, j \in DOMAIN view :
       i < j /\ IsStep(view[i]) /\ IsStep(view[j]) =>
         EntryStage(view[i]) <= EntryStage(view[j])
  /\ \A i \in DOMAIN view : IsRetry(view[i]) =>
       /\ \A j \in 1..i - 1 : view[j].at <= view[i].at
       /\ (\E j \in i + 1 .. Len(view) : IsStep(view[j])) => IsPlaced(view, i)

\* The places of steps and of retries are all places.
LEMMA PlacesAddUp ==
  ASSUME NEW list \in Seq(Entries)
  PROVE  Cardinality({i \in DOMAIN list : IsStep(list[i])})
           + Cardinality({i \in DOMAIN list : IsRetry(list[i])}) = Len(list)
<1> DEFINE S == {i \in DOMAIN list : IsStep(list[i])}
           R == {i \in DOMAIN list : IsRetry(list[i])}
<1>1. IsFiniteSet(S) /\ IsFiniteSet(R)
  BY PlacesAreFinite
<1>2. S \cap R = {} /\ S \cup R = DOMAIN list
  BY DEF IsStep
<1>3. DOMAIN list = 1..Len(list) /\ Len(list) \in Nat
  OBVIOUS
<1>4. Cardinality(1..Len(list)) = Len(list)
  <2>1. Len(list) \in Int /\ 1 \in Int
    BY <1>3
  <2>2. Cardinality(1..Len(list)) = IF 1 > Len(list) THEN 0 ELSE Len(list) - 1 + 1
    BY <2>1, FS_Interval
  <2> QED
    BY <1>3, <2>2
<1> HIDE DEF S, R
<1>5. Cardinality(S \cup R) = Cardinality(S) + Cardinality(R) - Cardinality(S \cap R)
  BY <1>1, FS_Union
<1>6. Cardinality(S) \in Nat /\ Cardinality(R) \in Nat /\ Cardinality({}) = 0
  BY <1>1, FS_CardinalityType, FS_EmptySet
<1>7. Cardinality(S) + Cardinality(R) = Len(list)
  <2>1. Cardinality(S \cup R) = Len(list) /\ Cardinality(S \cap R) = 0
    BY <1>2, <1>3, <1>4, <1>6
  <2> QED
    BY <1>5, <1>6, <2>1
<1> QED
  BY <1>7 DEF S, R

\* The accepted order, which is the first step, is before every retry.
LEMMA AcceptedBeforeRetries ==
  ASSUME NEW list, IsAccount(list)
  PROVE  \A k \in DOMAIN RetriesOf(list) : StepsOf(list)[1].at <= RetriesOf(list)[k].at
<1> DEFINE steps == StepsOf(list)
           retries == RetriesOf(list)
<1>1. list \in Seq(Entries)
  BY DEF IsAccount
<1>2. /\ AreSteps(steps)
      /\ HasPlaces(steps, list, {i \in DOMAIN list : IsStep(list[i])})
  BY StepsInStages
<1>3. HasPlaces(retries, list, {i \in DOMAIN list : IsRetry(list[i])})
  BY <1>1, RetriesInTime
<1> HIDE DEF steps, retries
<1>4. PICK a \in DOMAIN list :
        \A i \in DOMAIN list :
          /\ list[i].kind = "Accepted" => i = a
          /\ IsRetry(list[i]) => list[a].at <= list[i].at
  BY DEF IsAccount
<1>5. 1 \in DOMAIN steps /\ steps[1].kind = "Accepted"
  BY <1>2 DEF AreSteps
<1>6. PICK m \in DOMAIN list : steps[1] = list[m]
  BY <1>2, <1>5 DEF HasPlaces
<1>7. steps[1] = list[a]
  BY <1>4, <1>5, <1>6
<1>8. ASSUME NEW k \in DOMAIN retries PROVE steps[1].at <= retries[k].at
  <2>1. PICK i \in DOMAIN list : IsRetry(list[i]) /\ retries[k] = list[i]
    BY <1>3 DEF HasPlaces
  <2> QED
    BY <1>4, <1>7, <2>1
<1> QED
  BY <1>8 DEF steps, retries

\* What comes of the loop, with the retries that are left at the end of it.
LEMMA LeftAtTheEnd ==
  ASSUME NEW o \in Seq(Entries), NEW q, AreRetries(q), AreLater(q, o),
         \A i \in DOMAIN o : IsRetry(o[i]) => IsPlaced(o, i),
         NEW i \in DOMAIN (o \o q), IsRetry((o \o q)[i])
  PROVE  /\ \A j \in 1..i - 1 : (o \o q)[j].at <= (o \o q)[i].at
         /\ (\E j \in i + 1 .. Len(o \o q) : IsStep((o \o q)[j])) => IsPlaced(o \o q, i)
<1> DEFINE w == o \o q
           L == Len(o)
<1>1. q \in Seq(Entries)
  BY DEF AreRetries
<1>2. /\ L \in Nat /\ Len(q) \in Nat /\ DOMAIN o = 1..L /\ DOMAIN q = 1..Len(q)
      /\ w \in Seq(Entries) /\ Len(w) = L + Len(q)
  BY <1>1, Concatenation
<1>3. DOMAIN w = 1..L + Len(q)
  BY <1>2
<1>4. \A k \in 1..L : w[k] = o[k]
  BY <1>1, Concatenation
<1>5. \A k \in 1..Len(q) : w[L + k] = q[k]
  BY <1>1, Concatenation
<1> HIDE DEF w, L
<1>6. \A k \in DOMAIN w : k > L => k - L \in DOMAIN q /\ w[k] = q[k - L]
  <2>1. ASSUME NEW k \in DOMAIN w, k > L
        PROVE  k - L \in DOMAIN q /\ w[k] = q[k - L]
    <3>1. k - L \in 1..Len(q) /\ L + (k - L) = k
      BY <1>2, <1>3, <2>1
    <3> QED
      BY <1>2, <1>5, <3>1
  <2> QED
    BY <2>1
<1>7. i \in DOMAIN w /\ IsRetry(w[i]) /\ i \in Nat
  BY <1>3 DEF w
<1>8. CASE i \in 1..L
  <2>1. w[i] = o[i] /\ IsPlaced(o, i)
    BY <1>2, <1>4, <1>7, <1>8
  <2>2. /\ \A j \in 1..i - 1 : o[j].at <= o[i].at
        /\ \E j \in i + 1 .. L :
             /\ IsStep(o[j])
             /\ \A k \in i + 1 .. j - 1 : IsRetry(o[k])
             /\ o[i].at < o[j].at
    BY <2>1 DEF IsPlaced, L
  <2>3. PICK j \in i + 1 .. L :
          /\ IsStep(o[j])
          /\ \A k \in i + 1 .. j - 1 : IsRetry(o[k])
          /\ o[i].at < o[j].at
    BY <2>2
  <2>4. /\ j \in 1..L /\ j \in i + 1 .. L + Len(q)
        /\ \A k \in i + 1 .. j - 1 : k \in 1..L
        /\ \A k \in 1..i - 1 : k \in 1..L
    BY <1>2, <1>7
  <2>5. \A k \in 1..i - 1 : w[k].at <= w[i].at
    BY <1>4, <2>1, <2>2, <2>4
  <2>6. IsStep(w[j]) /\ w[i].at < w[j].at
    BY <1>4, <2>1, <2>3, <2>4
  <2>7. \A k \in i + 1 .. j - 1 : IsRetry(w[k])
    BY <1>4, <2>3, <2>4
  <2>8. IsPlaced(w, i)
    BY <1>2, <2>4, <2>5, <2>6, <2>7 DEF IsPlaced
  <2> QED
    BY <2>5, <2>8 DEF w
<1>9. CASE i \notin 1..L
  <2>1. i > L
    BY <1>3, <1>7, <1>9, <1>2
  <2>2. i - L \in DOMAIN q /\ w[i] = q[i - L]
    BY <1>6, <1>7, <2>1
  <2>3. ASSUME NEW j \in 1..i - 1 PROVE w[j].at <= w[i].at
    <3>1. j \in DOMAIN w
      BY <1>2, <1>3, <1>7
    <3>2. CASE j \in 1..L
      BY <1>2, <1>4, <2>2, <3>2 DEF AreLater
    <3>3. CASE j \notin 1..L
      <4>1. j > L
        BY <1>2, <3>3
      <4>2. j - L \in DOMAIN q /\ w[j] = q[j - L]
        BY <1>6, <3>1, <4>1
      <4>3. j - L < i - L
        BY <1>2, <1>7, <2>1
      <4> QED
        BY <2>2, <4>2, <4>3 DEF AreRetries
    <3> QED
      BY <3>2, <3>3
  <2>4. ASSUME NEW j \in i + 1 .. Len(w) PROVE ~IsStep(w[j])
    <3>1. j \in DOMAIN w /\ j > L
      BY <1>2, <1>3, <1>7, <2>1
    <3> QED
      BY <1>6, <3>1 DEF AreRetries, IsStep
  <2> QED
    BY <2>3, <2>4 DEF w
<1> QED
  BY <1>8, <1>9

LEMMA ShownInOrderOfStage ==
  ASSUME NEW o \in Seq(Entries), NEW n \in Nat, n # 0, IsCausal(o, n),
         NEW q, AreRetries(q)
  PROVE  /\ \A i \in DOMAIN (o \o q) : (o \o q)[i].kind = "Accepted" <=> i = 1
         /\ \A i, j \in DOMAIN (o \o q) :
              i < j /\ IsStep((o \o q)[i]) /\ IsStep((o \o q)[j]) =>
                EntryStage((o \o q)[i]) <= EntryStage((o \o q)[j])
<1> DEFINE w == o \o q
           L == Len(o)
<1>1. q \in Seq(Entries) /\ DOMAIN q = 1..Len(q)
  BY DEF AreRetries
<1>2. L \in Nat /\ DOMAIN o = 1..L /\ Len(q) \in Nat /\ Len(w) = L + Len(q)
  BY <1>1, Concatenation
<1>3. DOMAIN w = 1..L + Len(q)
  BY <1>1, <1>2, Concatenation
<1>4. \A k \in 1..L : w[k] = o[k]
  BY <1>1, Concatenation
<1>5. \A k \in 1..Len(q) : w[L + k] = q[k]
  BY <1>1, Concatenation
<1>6. L # 0
  BY <1>2 DEF IsCausal
<1> HIDE DEF w, L
<1>7. ASSUME NEW k \in DOMAIN w, k \notin 1..L
      PROVE  IsRetry(w[k])
  <2>1. k - L \in 1..Len(q) /\ L + (k - L) = k
    BY <1>2, <1>3, <1>7
  <2>2. w[k] = q[k - L]
    BY <1>5, <2>1
  <2> QED
    BY <1>1, <2>1, <2>2 DEF AreRetries
<1>8. ASSUME NEW i \in DOMAIN w PROVE w[i].kind = "Accepted" <=> i = 1
  <2>1. CASE i \in 1..L
    BY <1>2, <1>4, <2>1 DEF IsCausal
  <2>2. CASE i \notin 1..L
    <3>1. i # 1
      BY <1>2, <1>6, <2>2
    <3> QED
      BY <1>7, <2>2, <3>1 DEF IsRetry
  <2> QED
    BY <2>1, <2>2
<1>9. ASSUME NEW i \in DOMAIN w, NEW j \in DOMAIN w,
             i < j, IsStep(w[i]), IsStep(w[j])
      PROVE  EntryStage(w[i]) <= EntryStage(w[j])
  <2>1. i \in 1..L /\ j \in 1..L
    BY <1>7, <1>9 DEF IsStep
  <2>2. w[i] = o[i] /\ w[j] = o[j]
    BY <1>4, <2>1
  <2> QED
    BY <1>2, <1>9, <2>1, <2>2 DEF IsCausal
<1> QED
  BY <1>8, <1>9 DEF w

\* The steps and retries of a list, moved into o and q, are its entries.
LEMMA ShownComplete ==
  ASSUME NEW o \in Seq(Entries), NEW q \in Seq(Entries),
         NEW steps \in Seq(Entries), NEW retries \in Seq(Entries),
         AreComplete(o, q, Len(steps), steps, retries),
         NEW list \in Seq(Entries),
         AreDivided(list, steps, retries)
  PROVE  HasAll(o \o q, list)
<1> DEFINE w == o \o q
           L == Len(o)
<1>1. /\ L \in Nat /\ DOMAIN o = 1..L /\ Len(w) = L + Len(q)
      /\ Len(q) \in Nat /\ DOMAIN q = 1..Len(q)
      /\ DOMAIN steps = 1..Len(steps)
  BY Concatenation
<1>2. DOMAIN w = 1..L + Len(q)
  BY <1>1, Concatenation
<1>3. \A k \in 1..L : w[k] = o[k]
  BY Concatenation
<1>4. \A k \in 1..Len(q) : w[L + k] = q[k]
  BY Concatenation
<1> HIDE DEF w, L
<1>5. Len(w) = Len(list)
  <2>1. Len(w) = Len(steps) + Len(retries)
    BY <1>1 DEF AreComplete, L
  <2>2. Len(steps) + Len(retries) = Len(list)
    BY PlacesAddUp DEF HasPlaces, AreDivided
  <2> QED
    BY <2>1, <2>2
<1>6. \A k \in DOMAIN steps : \E m \in DOMAIN list : steps[k] = list[m]
  BY DEF HasPlaces, AreDivided
<1>7. \A k \in DOMAIN retries : \E m \in DOMAIN list : retries[k] = list[m]
  BY DEF HasPlaces, AreDivided
<1>8. ASSUME NEW i \in DOMAIN w PROVE \E m \in DOMAIN list : w[i] = list[m]
  <2>1. CASE i \in 1..L
    <3>1. \A k \in DOMAIN o : \/ \E j \in DOMAIN steps : o[k] = steps[j]
                              \/ \E j \in DOMAIN retries : o[k] = retries[j]
      BY <1>1 DEF AreComplete
    <3>2. w[i] = o[i] /\ i \in DOMAIN o
      BY <1>1, <1>3, <2>1
    <3> QED
      BY <1>6, <1>7, <3>1, <3>2
  <2>2. CASE i \notin 1..L
    <3>1. i - L \in 1..Len(q) /\ L + (i - L) = i
      BY <1>1, <1>2, <2>2
    <3>2. w[i] = q[i - L] /\ i - L \in DOMAIN q
      BY <1>1, <1>4, <3>1
    <3>3. \E k \in DOMAIN retries : w[i] = retries[k]
      BY <3>2 DEF AreComplete
    <3> QED
      BY <1>7, <3>3
  <2> QED
    BY <2>1, <2>2
<1>9. ASSUME NEW k \in DOMAIN q PROVE \E i \in DOMAIN w : w[i] = q[k]
  <2>1. L + k \in DOMAIN w
    BY <1>1, <1>2
  <2> QED
    BY <1>1, <1>4, <2>1
<1>10. ASSUME NEW k \in DOMAIN o PROVE k \in DOMAIN w /\ w[k] = o[k]
  BY <1>1, <1>2, <1>3
<1>11. ASSUME NEW m \in DOMAIN list PROVE \E i \in DOMAIN w : w[i] = list[m]
  <2>1. CASE IsStep(list[m])
    <3>1. PICK k \in DOMAIN steps : steps[k] = list[m]
      BY <2>1 DEF HasPlaces, AreDivided
    <3>2. PICK i \in DOMAIN o : o[i] = steps[k]
      BY <1>1, <3>1 DEF AreComplete
    <3> QED
      BY <1>10, <3>1, <3>2
  <2>2. CASE ~IsStep(list[m])
    <3>1. IsRetry(list[m])
      BY <2>2 DEF IsStep
    <3>2. PICK k \in DOMAIN retries : retries[k] = list[m]
      BY <3>1 DEF HasPlaces, AreDivided
    <3>3. \/ \E i \in DOMAIN o : o[i] = retries[k]
          \/ \E i \in DOMAIN q : q[i] = retries[k]
      BY <3>2 DEF AreComplete
    <3> QED
      BY <1>9, <1>10, <3>2, <3>3
  <2> QED
    BY <2>1, <2>2
<1> QED
  BY <1>5, <1>8, <1>11 DEF w, HasAll

\* The view has the entries of the list, in the order of a causal view.
LEMMA OrderedCausally ==
  ASSUME NEW list, IsAccount(list)
  PROVE  IsOrdered(OrderCausally(list), list)
<1> DEFINE steps == StepsOf(list)
           retries == RetriesOf(list)
           o == Placed(steps, retries).ordered
           q == Placed(steps, retries).retries
<1>1. list \in Seq(Entries)
  BY DEF IsAccount
<1>2. /\ AreSteps(steps)
      /\ HasPlaces(steps, list, {i \in DOMAIN list : IsStep(list[i])})
  BY StepsInStages
<1>3. /\ AreRetries(retries)
      /\ HasPlaces(retries, list, {i \in DOMAIN list : IsRetry(list[i])})
  BY <1>1, RetriesInTime
<1>4. \A k \in DOMAIN retries : steps[1].at <= retries[k].at
  BY AcceptedBeforeRetries
<1>5. OrderCausally(list) = o \o q
  BY DEF OrderCausally
<1> HIDE DEF steps, retries
<1>6. IsView(Placed(steps, retries), Len(steps), steps, retries)
  BY <1>2, <1>3, <1>4, PlacedIsView
<1>7. /\ o \in Seq(Entries) /\ AreRetries(q)
      /\ AreComplete(o, q, Len(steps), steps, retries)
      /\ IsCausal(o, Len(steps)) /\ AreLater(q, o)
      /\ \A i \in DOMAIN o : IsRetry(o[i]) => IsPlaced(o, i)
  BY <1>6 DEF IsView
<1> HIDE DEF o, q
<1>8. /\ steps \in Seq(Entries) /\ Len(steps) \in Nat /\ Len(steps) # 0
      /\ retries \in Seq(Entries) /\ q \in Seq(Entries)
  BY <1>2, <1>3, <1>7 DEF AreSteps, AreRetries
<1>9. o \o q \in Seq(Entries)
  BY <1>7, <1>8, Concatenation
<1>10. HasAll(o \o q, list)
  <2>1. AreDivided(list, steps, retries)
    BY <1>2, <1>3 DEF AreDivided
  <2> QED
    BY <1>1, <1>7, <1>8, <2>1, ShownComplete
<1>11. /\ \A i \in DOMAIN (o \o q) : (o \o q)[i].kind = "Accepted" <=> i = 1
       /\ \A i, j \in DOMAIN (o \o q) :
            i < j /\ IsStep((o \o q)[i]) /\ IsStep((o \o q)[j]) =>
              EntryStage((o \o q)[i]) <= EntryStage((o \o q)[j])
  BY <1>7, <1>8, ShownInOrderOfStage
<1>12. ASSUME NEW i \in DOMAIN (o \o q), IsRetry((o \o q)[i])
       PROVE  /\ \A j \in 1..i - 1 : (o \o q)[j].at <= (o \o q)[i].at
              /\ (\E j \in i + 1 .. Len(o \o q) : IsStep((o \o q)[j]))
                   => IsPlaced(o \o q, i)
  BY <1>7, <1>12, LeftAtTheEnd
<1>13. IsOrdered(o \o q, list)
  BY <1>9, <1>10, <1>11, <1>12 DEF IsOrdered
<1> QED
  BY <1>5, <1>13

-----------------------------------------------------------------------------
(* The history of an order. *)

RowKinds == EntryKinds \ {"Published", "PublicationPending"}
Rows == [kind : RowKinds, occurredAt : Nat, recordedAt : Nat]

\* An order is accepted once, before its retries.  Nothing is said of the times
\* of other events, of their number, or of the order of the rows.
IsHistory(rows) ==
  /\ rows \in Seq(Rows)
  /\ \E a \in DOMAIN rows :
       /\ rows[a].kind = "Accepted"
       /\ \A i \in DOMAIN rows :
            /\ rows[i].kind = "Accepted" => i = a
            /\ rows[i].kind = "Replayed" => rows[a].occurredAt <= rows[i].occurredAt

\* The publication may be dated before everything else: clocks differ.
PublicationStates == [createdAt : Nat, publishedAt : Nat \cup {NotPublished}]

EntriesOf(rows, publication) ==
  Append([i \in DOMAIN rows |-> ToEntry(rows[i], i)], PublicationEntry(publication))

LEMMA EntriesOfHistory ==
  ASSUME NEW rows \in Seq(Rows), NEW publication \in PublicationStates,
         NEW list, list = EntriesOf(rows, publication)
  PROVE  /\ list \in Seq(Entries) /\ Len(list) = Len(rows) + 1
         /\ DOMAIN list = 1..Len(rows) + 1 /\ Len(rows) \in Nat
         /\ DOMAIN rows = 1..Len(rows)
         /\ \A i \in DOMAIN rows : list[i] = ToEntry(rows[i], i)
         /\ list[Len(rows) + 1] = PublicationEntry(publication)
<1> DEFINE s == [i \in DOMAIN rows |-> ToEntry(rows[i], i)]
           e == PublicationEntry(publication)
<1>1. Len(rows) \in Nat /\ DOMAIN rows = 1..Len(rows)
  OBVIOUS
<1>2. ASSUME NEW i \in DOMAIN rows PROVE ToEntry(rows[i], i) \in Entries
  <2>1. rows[i] \in Rows
    BY ElementOf
  <2>2. /\ rows[i].kind \in EntryKinds /\ rows[i].occurredAt \in Nat
        /\ rows[i].recordedAt \in Nat /\ i \in Nat
    BY <1>1, <2>1 DEF Rows, RowKinds
  <2> QED
    BY <2>2 DEF ToEntry, Entries
<1>3. e \in Entries
  BY DEF PublicationStates, PublicationEntry, Entries, EntryKinds, StepKinds
<1>4. s \in [1..Len(rows) -> Entries]
  BY <1>1, <1>2
<1>5. s \in Seq(Entries) /\ Len(s) = Len(rows) /\ \A i \in DOMAIN rows : s[i] = ToEntry(rows[i], i)
  BY <1>1, <1>4
<1>6. list = Append(s, e)
  BY DEF EntriesOf
<1> HIDE DEF s, e, Entries
<1>7. /\ Append(s, e) \in Seq(Entries) /\ Len(Append(s, e)) = Len(rows) + 1
      /\ DOMAIN Append(s, e) = 1..Len(rows) + 1
  BY <1>1, <1>3, <1>5
<1>8. ASSUME NEW i \in DOMAIN rows PROVE Append(s, e)[i] = ToEntry(rows[i], i)
  BY <1>1, <1>3, <1>5
<1>9. Append(s, e)[Len(rows) + 1] = e
  BY <1>1, <1>3, <1>5
<1> QED
  BY <1>1, <1>6, <1>7, <1>8, <1>9 DEF e

LEMMA HistoriesAreAccounts ==
  ASSUME NEW rows, IsHistory(rows), NEW publication \in PublicationStates
  PROVE  IsAccount(EntriesOf(rows, publication))
<1> DEFINE list == EntriesOf(rows, publication)
           N == Len(rows)
<1>1. rows \in Seq(Rows)
  BY DEF IsHistory
<1>2. /\ list \in Seq(Entries) /\ DOMAIN list = 1..N + 1 /\ N \in Nat
      /\ DOMAIN rows = 1..N
      /\ \A i \in DOMAIN rows : list[i] = ToEntry(rows[i], i)
      /\ list[N + 1] = PublicationEntry(publication)
  BY <1>1, EntriesOfHistory
<1> HIDE DEF list, N
<1>3. PICK a \in DOMAIN rows :
        /\ rows[a].kind = "Accepted"
        /\ \A i \in DOMAIN rows :
             /\ rows[i].kind = "Accepted" => i = a
             /\ rows[i].kind = "Replayed" => rows[a].occurredAt <= rows[i].occurredAt
  BY DEF IsHistory
<1>4. a \in DOMAIN list /\ list[a].kind = "Accepted" /\ list[a].at = rows[a].occurredAt
  <2>1. list[a] = ToEntry(rows[a], a) /\ a \in DOMAIN list
    BY <1>2
  <2>2. rows[a].kind = "Accepted"
    BY <1>3
  <2> QED
    BY <2>1, <2>2 DEF ToEntry
<1>5. ASSUME NEW i \in DOMAIN list
      PROVE  /\ list[i].kind = "Accepted" => i = a
             /\ IsRetry(list[i]) => list[a].at <= list[i].at
  <2>1. CASE i \in DOMAIN rows
    <3>1. list[i] = ToEntry(rows[i], i)
      BY <1>2, <2>1
    <3>2. list[i].kind = rows[i].kind
      BY <3>1 DEF ToEntry
    <3>3. list[i].kind = "Replayed" => list[i].at = rows[i].occurredAt
      BY <3>1 DEF ToEntry
    <3> QED
      BY <1>3, <1>4, <2>1, <3>2, <3>3 DEF IsRetry
  <2>2. CASE i \notin DOMAIN rows
    <3>1. i = N + 1
      BY <1>2, <2>2
    <3>2. list[i].kind \in {"Published", "PublicationPending"}
      BY <1>2, <3>1 DEF PublicationEntry
    <3> QED
      BY <3>2 DEF IsRetry
  <2> QED
    BY <2>1, <2>2
<1> QED
  BY <1>2, <1>4, <1>5 DEF IsAccount, list

\* An entry tells when what it is about was seen, and of which row it is.
LEMMA EntriesTellTheTime ==
  ASSUME NEW rows \in Seq(Rows), NEW publication \in PublicationStates,
         NEW list, list = EntriesOf(rows, publication),
         NEW m \in DOMAIN list
  PROVE  /\ SeenAt(list[m], rows, publication) = list[m].at
         /\ list[m].number = IF m = Len(rows) + 1 THEN 0 ELSE m
<1> DEFINE N == Len(rows)
<1>1. /\ DOMAIN list = 1..N + 1 /\ N \in Nat /\ DOMAIN rows = 1..N
      /\ \A i \in DOMAIN rows : list[i] = ToEntry(rows[i], i)
      /\ list[N + 1] = PublicationEntry(publication)
  BY EntriesOfHistory
<1> HIDE DEF N
<1>2. CASE m \in DOMAIN rows
  <2>1. list[m] = ToEntry(rows[m], m) /\ m # N + 1
    BY <1>1, <1>2
  <2>2. rows[m] \in Rows
    BY <1>2, ElementOf
  <2>3. rows[m].kind \notin {"Published", "PublicationPending"}
    BY <2>2 DEF Rows, RowKinds
  <2>4. /\ list[m].kind = rows[m].kind /\ list[m].number = m
        /\ list[m].at = IF rows[m].kind \in {"Accepted", "Replayed"}
                          THEN rows[m].occurredAt ELSE rows[m].recordedAt
    BY <2>1 DEF ToEntry
  <2> QED
    BY <2>1, <2>3, <2>4 DEF SeenAt, N
<1>3. CASE m \notin DOMAIN rows
  <2>1. m = N + 1
    BY <1>1, <1>3
  <2> QED
    BY <1>1, <2>1 DEF PublicationEntry, SeenAt, N
<1> QED
  BY <1>2, <1>3

\* The step after a retry that is in its place is later.
LEMMA NextIsLater ==
  ASSUME NEW view \in Seq(Entries), NEW i \in DOMAIN view, IsPlaced(view, i)
  PROVE  NextStep(view, i) \in DOMAIN view /\ view[i].at < view[NextStep(view, i)].at
<1> DEFINE Follows(j) == /\ IsStep(view[j])
                         /\ \A k \in i + 1 .. j - 1 : IsRetry(view[k])
<1>1. Len(view) \in Nat /\ DOMAIN view = 1..Len(view) /\ i \in Nat
  OBVIOUS
<1>2. PICK j \in i + 1 .. Len(view) : Follows(j) /\ view[i].at < view[j].at
  BY DEF IsPlaced
<1>3. NextStep(view, i) = CHOOSE n \in i + 1 .. Len(view) : Follows(n)
  BY DEF NextStep
<1> HIDE DEF Follows
<1>4. PICK n \in i + 1 .. Len(view) : n = NextStep(view, i) /\ Follows(n)
  BY <1>2, <1>3
<1>5. j \in Int /\ n \in Int
  BY <1>1
<1>6. ~(n < j)
  <2>1. SUFFICES ASSUME n < j PROVE FALSE
    OBVIOUS
  <2>2. n \in i + 1 .. j - 1
    BY <1>1, <1>5, <2>1
  <2> QED
    BY <1>2, <1>4, <2>2 DEF Follows, IsStep
<1>7. ~(j < n)
  <2>1. SUFFICES ASSUME j < n PROVE FALSE
    OBVIOUS
  <2>2. j \in i + 1 .. n - 1
    BY <1>1, <1>5, <2>1
  <2> QED
    BY <1>2, <1>4, <2>2 DEF Follows, IsStep
<1> QED
  BY <1>1, <1>2, <1>4, <1>5, <1>6, <1>7

\* Causes are of an earlier stage than their effects.
LEMMA CausesAreEarlier ==
  ASSUME NEW e \in Entries, NEW c \in Entries, c.kind \in Causes(e.kind)
  PROVE  /\ IsStep(c) /\ (IsRetry(e) => c.kind = "Accepted")
         /\ IsStep(e) => EntryStage(c) < EntryStage(e)
BY DEF Entries, EntryKinds, StepKinds, Causes, IsStep, IsRetry, EntryStage

\* So the view of a history is causal.
LEMMA OrderedIsCausal ==
  ASSUME NEW rows \in Seq(Rows), NEW publication \in PublicationStates,
         NEW view, IsOrdered(view, EntriesOf(rows, publication))
  PROVE  IsCausalView(rows, publication, view)
<1> DEFINE list == EntriesOf(rows, publication)
           N == Len(rows)
           Seen(i) == SeenAt(view[i], rows, publication)
<1>1. Len(list) = N + 1 /\ DOMAIN list = 1..N + 1 /\ N \in Nat
  BY EntriesOfHistory
<1>2. \A m \in DOMAIN list : SeenAt(list[m], rows, publication) = list[m].at
  BY EntriesTellTheTime
<1>3. \A m \in DOMAIN list : list[m].number = IF m = N + 1 THEN 0 ELSE m
  BY EntriesTellTheTime
<1> HIDE DEF list, N
<1>4. /\ view \in Seq(Entries) /\ Len(view) = N + 1
      /\ DOMAIN view = 1..Len(view) /\ Len(view) \in Nat
  BY <1>1 DEF IsOrdered, HasAll, list
<1>5. \A i \in DOMAIN view : \E m \in DOMAIN list : view[i] = list[m]
  BY DEF IsOrdered, HasAll, list
<1>6. \A m \in DOMAIN list : \E i \in DOMAIN view : view[i] = list[m]
  BY DEF IsOrdered, HasAll, list
<1>7. \A i \in DOMAIN view : Seen(i) = view[i].at
  BY <1>2, <1>5
<1> HIDE DEF Seen
<1>8. {view[i].number : i \in DOMAIN view} = 0..N
  <2>1. ASSUME NEW i \in DOMAIN view PROVE view[i].number \in 0..N
    <3>1. PICK m \in DOMAIN list : view[i] = list[m]
      BY <1>5
    <3> QED
      BY <1>1, <1>3, <3>1
  <2>2. ASSUME NEW n \in 0..N PROVE \E i \in DOMAIN view : view[i].number = n
    <3>1. PICK m \in DOMAIN list : list[m].number = n
      <4>1. CASE n = 0
        <5>1. N + 1 \in DOMAIN list
          BY <1>1
        <5> QED
          BY <1>3, <4>1, <5>1
      <4>2. CASE n # 0
        <5>1. n \in DOMAIN list /\ n # N + 1
          BY <1>1, <4>2
        <5> QED
          BY <1>3, <5>1
      <4> QED
        BY <4>1, <4>2
    <3>2. PICK i \in DOMAIN view : view[i] = list[m]
      BY <1>6
    <3> QED
      BY <3>1, <3>2
  <2> QED
    BY <2>1, <2>2
<1>9. ASSUME NEW i \in DOMAIN view, NEW j \in DOMAIN view, i < j
      PROVE  view[j].kind \notin Causes(view[i].kind)
  <2>1. SUFFICES ASSUME view[j].kind \in Causes(view[i].kind) PROVE FALSE
    OBVIOUS
  <2>2. view[i] \in Entries /\ view[j] \in Entries
    BY <1>4, ElementOf
  <2>3. /\ IsStep(view[j]) /\ (IsRetry(view[i]) => view[j].kind = "Accepted")
        /\ IsStep(view[i]) => EntryStage(view[j]) < EntryStage(view[i])
    BY <2>1, <2>2, CausesAreEarlier
  <2>4. i \in Nat /\ j \in Nat /\ 1 <= i
    BY <1>4
  <2>5. CASE IsRetry(view[i])
    <3>1. view[j].kind = "Accepted"
      BY <2>3, <2>5
    <3>2. j = 1
      BY <3>1 DEF IsOrdered
    <3> QED
      BY <1>9, <2>4, <3>2
  <2>6. CASE IsStep(view[i])
    <3>1. EntryStage(view[i]) <= EntryStage(view[j])
      BY <1>9, <2>3, <2>6 DEF IsOrdered
    <3>2. EntryStage(view[i]) \in Nat /\ EntryStage(view[j]) \in Nat
      BY <2>2, <2>3, <2>6, EntryStages
    <3> QED
      BY <2>3, <2>6, <3>1, <3>2
  <2> QED
    BY <2>5, <2>6 DEF IsStep
<1>10. ASSUME NEW i \in DOMAIN view, IsRetry(view[i])
       PROVE  \A j \in 1 .. i - 1 : Seen(j) <= Seen(i)
  <2>1. ASSUME NEW j \in 1..i - 1 PROVE Seen(j) <= Seen(i)
    <3>1. j \in DOMAIN view
      BY <1>4
    <3>2. view[j].at <= view[i].at
      BY <1>10 DEF IsOrdered
    <3> QED
      BY <1>7, <3>1, <3>2
  <2> QED
    BY <2>1
<1>11. ASSUME NEW i \in DOMAIN view, IsRetry(view[i]),
              \E j \in i + 1 .. Len(view) : IsStep(view[j])
       PROVE  Seen(i) < Seen(NextStep(view, i))
  <2>1. IsPlaced(view, i)
    BY <1>11 DEF IsOrdered
  <2>2. NextStep(view, i) \in DOMAIN view /\ view[i].at < view[NextStep(view, i)].at
    BY <1>4, <2>1, NextIsLater
  <2> QED
    BY <1>7, <2>2
<1> QED
  BY <1>4, <1>8, <1>9, <1>10, <1>11 DEF IsCausalView, Seen, N

\* However late and in whatever order events were recorded, the timeline a
\* client is shown has every row once, no effect before its cause, and each
\* retry before the first of the steps that was seen after it
\* (buildOrderTimeline): of any history of an order, of any length.
THEOREM HistoriesAreShownCausally ==
  ASSUME NEW rows, IsHistory(rows), NEW publication \in PublicationStates
  PROVE  IsCausalView(rows, publication, BuildOrderTimeline(rows, publication))
<1>1. IsAccount(EntriesOf(rows, publication)) /\ rows \in Seq(Rows)
  BY HistoriesAreAccounts DEF IsHistory
<1>2. IsOrdered(OrderCausally(EntriesOf(rows, publication)),
                EntriesOf(rows, publication))
  BY <1>1, OrderedCausally
<1>3. BuildOrderTimeline(rows, publication) = OrderCausally(EntriesOf(rows, publication))
  BY DEF BuildOrderTimeline, EntriesOf
<1> QED
  BY <1>1, <1>2, <1>3, OrderedIsCausal
-----------------------------------------------------------------------------
(* What readers are shown. *)

\* Any order of the elements of a finite set is a sequence of them.
LEMMA SetsAsSequences ==
  ASSUME NEW S, IsFiniteSet(S), NEW R, S \subseteq R
  PROVE  SetToSeq(S) \in Seq(R)
<1> DEFINE N == Cardinality(S)
<1>1. N \in Nat /\ ExistsBijection(1..N, S)
  BY FS_CardinalityType
<1>2. \E f \in [1..N -> S] : IsInjective(f)
  BY <1>1 DEF ExistsBijection, Bijection, Injection
<1>3. SetToSeq(S) \in [1..N -> S]
  BY <1>2 DEF SetToSeq
<1> HIDE DEF N
<1>4. SetToSeq(S) \in [1..N -> R]
  BY <1>3
<1> QED
  BY <1>1, <1>4

LEMMA RowIs ==
  ASSUME NEW kind \in RowKinds, NEW occurred \in Nat, NEW recorded \in Nat
  PROVE  /\ Row(kind, occurred, recorded) \in Rows
         /\ Row(kind, occurred, recorded).kind = kind
         /\ Row(kind, occurred, recorded).occurredAt = occurred
BY DEF Row, Rows

\* The accepted order, its retries, and events of other kinds.
LEMMA PartsMakeAHistory ==
  ASSUME NEW a \in Rows, a.kind = "Accepted", a.occurredAt = 0,
         NEW rs \in Seq(Rows), \A i \in DOMAIN rs : rs[i].kind = "Replayed",
         NEW es \in Seq(Rows), \A i \in DOMAIN es : es[i].kind \in Types
  PROVE  IsHistory(<<a>> \o rs \o es)
<1> DEFINE h == <<a>> \o rs
           w == h \o es
<1>1. /\ <<a>> \in Seq(Rows) /\ Len(<<a>>) = 1 /\ <<a>>[1] = a
      /\ Len(rs) \in Nat /\ DOMAIN rs = 1..Len(rs)
      /\ Len(es) \in Nat /\ DOMAIN es = 1..Len(es)
  OBVIOUS
<1>2. h \in Seq(Rows) /\ Len(h) = 1 + Len(rs)
  BY <1>1, Concatenation
<1>3. \A i \in 1..Len(<<a>>) : h[i] = <<a>>[i]
  BY <1>1, Concatenation
<1>4. \A k \in 1..Len(rs) : h[Len(<<a>>) + k] = rs[k]
  BY <1>1, Concatenation
<1> HIDE DEF h
<1>5. w \in Seq(Rows) /\ Len(w) = 1 + Len(rs) + Len(es)
  <2>1. h \o es \in Seq(Rows) /\ Len(h \o es) = Len(h) + Len(es)
    BY <1>2, Concatenation
  <2> QED
    BY <1>1, <1>2, <2>1
<1>6. \A i \in 1..Len(h) : w[i] = h[i]
  BY <1>2, Concatenation
<1>7. \A k \in 1..Len(es) : w[Len(h) + k] = es[k]
  BY <1>2, Concatenation
<1> HIDE DEF w
<1>8. DOMAIN w = 1..1 + Len(rs) + Len(es)
  BY <1>5
<1>9. w[1] = a
  BY <1>1, <1>2, <1>3, <1>6
<1>10. ASSUME NEW i \in DOMAIN w, i # 1
       PROVE  w[i].kind \in Types \cup {"Replayed"} /\ w[i] \in Rows
  <2>1. w[i] \in Rows
    BY <1>5, ElementOf
  <2>2. CASE i <= 1 + Len(rs)
    <3>1. i - 1 \in 1..Len(rs) /\ 1 + (i - 1) = i /\ i \in 1..Len(h)
      BY <1>1, <1>2, <1>8, <1>10, <2>2
    <3>2. w[i] = h[i] /\ h[i] = rs[i - 1]
      BY <1>1, <1>4, <1>6, <3>1
    <3> QED
      BY <1>1, <2>1, <3>1, <3>2
  <2>3. CASE ~(i <= 1 + Len(rs))
    <3>1. i - Len(h) \in 1..Len(es) /\ Len(h) + (i - Len(h)) = i
      BY <1>1, <1>2, <1>8, <2>3
    <3>2. w[i] = es[i - Len(h)]
      BY <1>7, <3>1
    <3> QED
      BY <1>1, <2>1, <3>1, <3>2
  <2> QED
    BY <2>2, <2>3
<1>11. 1 \in DOMAIN w
  BY <1>1, <1>8
<1>12. ASSUME NEW i \in DOMAIN w
       PROVE  /\ w[i].kind = "Accepted" => i = 1
              /\ w[i].kind = "Replayed" => w[1].occurredAt <= w[i].occurredAt
  <2>1. CASE i = 1
    BY <1>9, <2>1
  <2>2. CASE i # 1
    <3>1. w[i].kind # "Accepted" /\ w[i].occurredAt \in Nat
      BY <1>10, <2>2 DEF Types, Rows
    <3> QED
      BY <1>9, <3>1
  <2> QED
    BY <2>1, <2>2
<1>13. IsHistory(w)
  BY <1>5, <1>9, <1>11, <1>12 DEF IsHistory
<1> QED
  BY <1>13 DEF w, h

\* A function from a finite set has finitely many values.
LEMMA ImagesAreFinite ==
  ASSUME NEW S, IsFiniteSet(S), NEW f, DOMAIN f = S
  PROVE  IsFiniteSet({f[x] : x \in S})
<1> DEFINE T == {f[x] : x \in S}
           g == [x \in S |-> f[x]]
<1>1. g \in Surjection(S, T)
  BY DEF Surjection
<1> HIDE DEF T, g
<1>2. IsFiniteSet(T)
  BY <1>1, FS_Surjection
<1> QED
  BY <1>2 DEF T

LEMMA TypesAreFinite == IsFiniteSet(Types)
<1>1. IsFiniteSet({"PaymentAuthorized"})
  BY FS_Singleton
<1>2. IsFiniteSet({"PaymentAuthorized"} \cup {"InventoryReserved"})
  BY <1>1, FS_AddElement
<1>3. IsFiniteSet(({"PaymentAuthorized"} \cup {"InventoryReserved"})
                    \cup {"InventoryReservationFailed"})
  BY <1>2, FS_AddElement
<1>4. IsFiniteSet((({"PaymentAuthorized"} \cup {"InventoryReserved"})
                    \cup {"InventoryReservationFailed"}) \cup {"DeliveryBooked"})
  BY <1>3, FS_AddElement
<1>5. Types = (({"PaymentAuthorized"} \cup {"InventoryReserved"})
                    \cup {"InventoryReservationFailed"}) \cup {"DeliveryBooked"}
  BY DEF Types
<1> QED
  BY <1>4, <1>5

\* The rows that a reader can find are a history.
LEMMA HistoriesAreHistories ==
  ASSUME NEW types \in SUBSET Types, NEW rows \in Histories(types)
  PROVE  IsHistory(rows)
<1>1. PICK n \in 0..MaxRetries, retried \in [1..MaxRetries -> Clock],
           recorded \in [types -> Clock \ {0}] :
        rows = History(types, n, retried, recorded)
  BY DEF Histories
<1> DEFINE a == Row("Accepted", 0, 0)
           rs == [i \in 1..n |-> Row("Replayed", retried[i], retried[i])]
           R == {Row(t, 0, recorded[t]) : t \in types}
           E == {e \in Rows : e.kind \in Types}
<1>2. Types \subseteq RowKinds /\ {"Accepted", "Replayed"} \subseteq RowKinds
  BY DEF Types, RowKinds, EntryKinds, StepKinds
<1>3. a \in Rows /\ a.kind = "Accepted" /\ a.occurredAt = 0
  BY <1>2, RowIs
<1>4. n \in Nat /\ 1..n \subseteq 1..MaxRetries
  BY RetriesAssumption
<1>5. ASSUME NEW i \in 1..n
      PROVE  /\ Row("Replayed", retried[i], retried[i]) \in Rows
             /\ Row("Replayed", retried[i], retried[i]).kind = "Replayed"
  <2>1. retried[i] \in Nat
    BY <1>4, ClockAssumption
  <2> QED
    BY <1>2, <2>1, RowIs
<1>6. rs \in Seq(Rows) /\ DOMAIN rs = 1..n
  BY <1>4, <1>5
<1>7. \A i \in DOMAIN rs : rs[i].kind = "Replayed"
  BY <1>5
<1>8. IsFiniteSet(R)
  <2>1. IsFiniteSet(types)
    BY TypesAreFinite, FS_Subset
  <2>2. R = {[t \in types |-> Row(t, 0, recorded[t])][x] : x \in types}
    OBVIOUS
  <2> HIDE DEF R
  <2> QED
    BY <2>1, <2>2, ImagesAreFinite
<1>9. R \subseteq E
  <2>1. ASSUME NEW t \in types
        PROVE  Row(t, 0, recorded[t]) \in Rows /\ Row(t, 0, recorded[t]).kind = t
    <3>1. t \in RowKinds /\ recorded[t] \in Nat
      BY <1>2, ClockAssumption
    <3> QED
      BY <3>1, RowIs
  <2> QED
    BY <2>1
<1> DEFINE es == SetToSeq(R)
<1>10. es \in Seq(E)
  BY <1>8, <1>9, SetsAsSequences
<1>11. rows = <<a>> \o rs \o es
  BY <1>1 DEF History
<1> HIDE DEF a, rs, R, es
<1>12. es \in Seq(Rows) /\ \A i \in DOMAIN es : es[i].kind \in Types
  <2>1. \A i \in DOMAIN es : es[i] \in E
    BY <1>10, ElementOf
  <2>2. es \in [1..Len(es) -> Rows] /\ Len(es) \in Nat
    BY <1>10, <2>1
  <2> QED
    BY <2>1, <2>2
<1> QED
  BY <1>3, <1>6, <1>7, <1>11, <1>12, PartsMakeAHistory

\* Whatever events a reader has found, its view is causal in that sense
\* (getOrderDetails, buildOrderTimeline).
THEOREM ViewsAreCausal == Spec => []ShownCausally
<1>1. ASSUME NEW types \in SUBSET Types PROVE IsShownInOrder(types)
  <2>1. ASSUME NEW rows \in Histories(types), NEW publication \in Publications
        PROVE  IsCausalView(rows, publication, BuildOrderTimeline(rows, publication))
    <3>1. IsHistory(rows)
      BY HistoriesAreHistories
    <3>2. publication \in PublicationStates
      <4>1. /\ publication = [createdAt |-> publication.createdAt,
                              publishedAt |-> publication.publishedAt]
            /\ publication.createdAt \in {0}
            /\ publication.publishedAt \in (Clock \ {0}) \cup {NotPublished}
        BY DEF Publications
      <4>2. /\ publication.createdAt \in Nat
            /\ publication.publishedAt \in Nat \cup {NotPublished}
        BY <4>1, ClockAssumption
      <4> QED
        BY <4>1, <4>2 DEF PublicationStates
    <3> QED
      BY <3>1, <3>2, HistoriesAreShownCausally
  <2> QED
    BY <2>1 DEF IsShownInOrder
<1>2. SUBSET Types \subseteq ShownInOrder
  BY <1>1 DEF ShownInOrder
<1>3. IInv => ShownCausally
  BY <1>2 DEF IInv, TypeOK, ShownCausally
<1> QED
  BY <1>3, Invariance, PTL
=============================================================================
