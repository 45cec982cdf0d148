---------------------------- MODULE OrderTimeline ----------------------------
(***************************************************************************)
(* The order service's read model: workflow events of the other services   *)
(* are recorded once per event id in order_timeline and move the order's   *)
(* status forward; GET /orders/{id} shows both.                            *)
(*                                                                         *)
(* Events come from the services in the order of the workflow, but their   *)
(* messages are duplicated, redelivered and handled concurrently, so they  *)
(* are recorded in any order.  A worker is one delivery in progress, with  *)
(* a transaction that locks the order's row, and a reader is one request   *)
(* for an order's details, which are read in two statements.  "faults"     *)
(* counts failed transactions and lost acknowledgements.                   *)
(***************************************************************************)
EXTENDS Naturals, FiniteSets

CONSTANTS Orders,     \* orders that events tell about
          Known,      \* orders this database has
          Workers,    \* deliveries handled at the same time
          Readers,    \* requests for the details of an order
          StrayTypes, \* types sent about other orders than the known ones
          None,       \* no event, no order
          MaxCopies,  \* bound on the copies sent of one event
          MaxFaults   \* bound on the faults of a behaviour

ASSUME OrderAssumption == Known \subseteq Orders
ASSUME BoundAssumption == MaxCopies \in Nat /\ MaxFaults \in Nat

\* ORDER_WORKFLOW_EVENT_TYPES
Types == {"PaymentAuthorized", "InventoryReserved",
          "InventoryReservationFailed", "DeliveryBooked"}

Statuses == Types \cup {"Created"}

\* Each service tells of an order with one event, whose id does not change
\* when it is sent again.
\* Orders the database does not have differ in nothing but how often that
\* happens: StrayTypes bounds it.
Events == [order : Known, type : Types]
            \cup [order : Orders \ Known, type : StrayTypes]

ASSUME StrayAssumption == StrayTypes \subseteq Types
ASSUME NoneAssumption == None \notin Events \cup Orders

VARIABLES
  copies,      \* copies of each event the broker accepted
  queue,       \* copies waiting in order-service.order-events
  deliveries,  \* deliveries column of the event's timeline row; 0: no row
  status,      \* orders.status of the known orders
  pc,          \* where each worker is
  event,       \* the event a worker handles
  current,     \* the status its transaction has read
  readPc,      \* where each reader is
  reading,     \* the order a reader asks for
  shown,       \* the status it has read
  entries,     \* the events of the timeline it has read
  faults       \* faults so far

messages == <<copies, queue>>
tables == <<deliveries, status>>
workers == <<pc, event, current>>
readers == <<readPc, reading, shown, entries>>
vars == <<copies, queue, deliveries, status, pc, event, current, readPc,
          reading, shown, entries, faults>>

TypeOK ==
  /\ copies \in [Events -> Nat]
  /\ queue \in [Events -> Nat]
  /\ deliveries \in [Events -> Nat]
  /\ status \in [Known -> Statuses]
  /\ pc \in [Workers -> {"idle", "lock", "record", "ack"}]
  /\ event \in [Workers -> Events \cup {None}]
  /\ \A w \in Workers : event[w] = None <=> pc[w] = "idle"
  /\ current \in [Workers -> Statuses]
  /\ readPc \in [Readers -> {"order", "timeline", "done"}]
  /\ reading \in [Readers -> Known \cup {None}]
  /\ shown \in [Readers -> Statuses]
  /\ entries \in [Readers -> SUBSET Types]
  /\ faults \in Nat

Init ==
  /\ copies = [e \in Events |-> 0]
  /\ queue = [e \in Events |-> 0]
  /\ deliveries = [e \in Events |-> 0]
  /\ status = [o \in Known |-> "Created"]
  /\ pc = [w \in Workers |-> "idle"]
  /\ event = [w \in Workers |-> None]
  /\ current = [w \in Workers |-> "Created"]
  /\ readPc = [r \in Readers |-> "order"]
  /\ reading = [r \in Readers |-> None]
  /\ shown = [r \in Readers |-> "Created"]
  /\ entries = [r \in Readers |-> {}]
  /\ faults = 0
-----------------------------------------------------------------------------
(* Helpers. *)

\* A fault is one more of a bounded number of things that go wrong.
Fault == faults < MaxFaults /\ faults' = faults + 1

Stage(s) ==
  CASE s = "Created" -> 0
    [] s = "PaymentAuthorized" -> 1
    [] s \in {"InventoryReserved", "InventoryReservationFailed"} -> 2
    [] s = "DeliveryBooked" -> 3

\* Faulty variant: the latest event wins.
ApplyLatest(now, type) == type

\* applyWorkflowEvent
ApplyWorkflowEvent(now, type) ==
  IF now = "InventoryReservationFailed" \/ Stage(type) <= Stage(now)
    THEN now ELSE type

\* What the services have told of order o.
Told(o, type) ==
  LET e == [order |-> o, type |-> type] IN e \in Events /\ copies[e] > 0

\* An event follows the one that caused it; inventory decides once.
MayTell(e) ==
  CASE e.type = "PaymentAuthorized" -> TRUE
    [] e.type = "InventoryReserved" ->
         /\ Told(e.order, "PaymentAuthorized")
         /\ ~Told(e.order, "InventoryReservationFailed")
    [] e.type = "InventoryReservationFailed" ->
         /\ Told(e.order, "PaymentAuthorized")
         /\ ~Told(e.order, "InventoryReserved")
    [] e.type = "DeliveryBooked" -> Told(e.order, "InventoryReserved")

\* Faulty variant: SELECT without FOR UPDATE.
RowNotLocked(w) == FALSE

\* Another transaction has locked the row of the order that w's event is of.
RowLocked(w) ==
  \E v \in Workers \ {w} : pc[v] = "record" /\ event[v].order = event[w].order

\* Events of order o that the timeline has.
Recorded(o) == {type \in Types : deliveries[[order |-> o, type |-> type]] > 0}

\* Faulty variant: a failed delivery is acknowledged.
RetryOrDrop(w) ==
  /\ pc' = [pc EXCEPT ![w] = "ack"]
  /\ UNCHANGED <<event, queue>>

\* The handler is tried again in place, or its message is redelivered.
RetryOrRequeue(w) ==
  \/ /\ pc' = [pc EXCEPT ![w] = "lock"]
     /\ UNCHANGED <<event, queue>>
  \/ /\ pc' = [pc EXCEPT ![w] = "idle"]
     /\ event' = [event EXCEPT ![w] = None]
     /\ queue' = [queue EXCEPT ![event[w]] = @ + 1]
-----------------------------------------------------------------------------
(* Messages. *)

\* A service publishes its event about an order, perhaps repeatedly.
Tell(e) ==
  /\ MayTell(e) /\ copies[e] < MaxCopies
  /\ copies' = [copies EXCEPT ![e] = @ + 1]
  /\ queue' = [queue EXCEPT ![e] = @ + 1]
  /\ UNCHANGED <<tables, workers, readers, faults>>

\* The broker hands one of the waiting messages to the consumer.
Deliver(w, e) ==
  /\ pc[w] = "idle" /\ queue[e] > 0
  /\ queue' = [queue EXCEPT ![e] = @ - 1]
  /\ event' = [event EXCEPT ![w] = e]
  /\ pc' = [pc EXCEPT ![w] = "lock"]
  /\ UNCHANGED <<copies, tables, current, readers, faults>>

Ack(w) ==
  /\ pc[w] = "ack"
  /\ pc' = [pc EXCEPT ![w] = "idle"]
  /\ event' = [event EXCEPT ![w] = None]
  /\ UNCHANGED <<messages, tables, current, readers, faults>>

\* The connection or the process is lost before the acknowledgement.
AckLost(w) ==
  /\ pc[w] = "ack" /\ Fault
  /\ pc' = [pc EXCEPT ![w] = "idle"]
  /\ event' = [event EXCEPT ![w] = None]
  /\ queue' = [queue EXCEPT ![event[w]] = @ + 1]
  /\ UNCHANGED <<copies, tables, current, readers>>
-----------------------------------------------------------------------------
(* The transaction of recordWorkflowEvent. *)

\* SELECT status .. FOR UPDATE; an order the database never had is ignored.
LockOrder(w) ==
  /\ pc[w] = "lock" /\ ~RowLocked(w)
  /\ IF event[w].order \in Known
       THEN /\ current' = [current EXCEPT ![w] = status[event[w].order]]
            /\ pc' = [pc EXCEPT ![w] = "record"]
       ELSE /\ pc' = [pc EXCEPT ![w] = "ack"]
            /\ UNCHANGED current
  /\ UNCHANGED <<messages, tables, event, readers, faults>>

\* INSERT INTO order_timeline .. ON CONFLICT (event_id) DO UPDATE, and the
\* status if the event is new.
Write(w) ==
  /\ deliveries' = [deliveries EXCEPT ![event[w]] = @ + 1]
  /\ status' = IF deliveries[event[w]] > 0 THEN status
               ELSE [status EXCEPT ![event[w].order] =
                       ApplyWorkflowEvent(current[w], event[w].type)]

\* COMMIT, and the handler returns.
Record(w) ==
  /\ pc[w] = "record"
  /\ Write(w)
  /\ pc' = [pc EXCEPT ![w] = "ack"]
  /\ UNCHANGED <<messages, event, current, readers, faults>>

\* COMMIT takes effect, but the service sees an error.
RecordLost(w) ==
  /\ pc[w] = "record" /\ Fault
  /\ Write(w)
  /\ RetryOrRequeue(w)
  /\ UNCHANGED <<copies, current, readers>>

\* A statement fails, the connection breaks or the process dies: ROLLBACK.
Fail(w) ==
  /\ pc[w] \in {"lock", "record"} /\ Fault
  /\ RetryOrRequeue(w)
  /\ UNCHANGED <<copies, tables, current, readers>>
-----------------------------------------------------------------------------
(* getOrderDetails: the row of the order first, then its timeline. *)

ReadOrder(r, o) ==
  /\ readPc[r] = "order"
  /\ reading' = [reading EXCEPT ![r] = o]
  /\ shown' = [shown EXCEPT ![r] = status[o]]
  /\ readPc' = [readPc EXCEPT ![r] = "timeline"]
  /\ UNCHANGED <<messages, tables, workers, entries, faults>>

\* Faulty variant: the timeline is from before the order was read.
ReadNothing(r) ==
  /\ readPc[r] = "timeline"
  /\ readPc' = [readPc EXCEPT ![r] = "done"]
  /\ UNCHANGED <<messages, tables, workers, reading, shown, entries, faults>>

ReadTimeline(r) ==
  /\ readPc[r] = "timeline"
  /\ entries' = [entries EXCEPT ![r] = Recorded(reading[r])]
  /\ readPc' = [readPc EXCEPT ![r] = "done"]
  /\ UNCHANGED <<messages, tables, workers, reading, shown, faults>>
-----------------------------------------------------------------------------
WorkerStep(w) ==
  Ack(w) \/ LockOrder(w) \/ Record(w) \/ \E e \in Events : Deliver(w, e)

WorkerFault(w) == AckLost(w) \/ RecordLost(w) \/ Fail(w)

Next ==
  \/ \E e \in Events : Tell(e)
  \/ \E w \in Workers : WorkerStep(w) \/ WorkerFault(w)
  \/ \E r \in Readers : ReadTimeline(r) \/ \E o \in Known : ReadOrder(r, o)

Spec == Init /\ [][Next]_vars

\* Each consumer goes on whenever it can.  There are finitely many messages, so
\* nothing more need be assumed of who gets which, or of the order of locks.
Fairness == \A w \in Workers : WF_vars(WorkerStep(w))

FairSpec == Spec /\ Fairness
-----------------------------------------------------------------------------
(* Properties. *)

\* The status a set of recorded events stands for, whatever their order.
StatusOf(types) ==
  CHOOSE s \in types \cup {"Created"} :
    \A t \in types \cup {"Created"} : Stage(t) <= Stage(s)

\* The status is a function of what the timeline has recorded: events that
\* overtake each other, come twice or are handled at the same time never make
\* the two disagree.
StatusReflectsTimeline == \A o \in Known : status[o] = StatusOf(Recorded(o))

\* The status only moves forward, and a failed order stays failed.
StatusOnlyForward ==
  [][\A o \in Known :
       /\ Stage(status'[o]) >= Stage(status[o])
       /\ status[o] = "InventoryReservationFailed" => status'[o] = status[o]]_vars

\* The details a client gets explain the status they show: the event that set
\* it is among the entries, though the two are read one after the other.
ShownIsExplained ==
  \A r \in Readers :
    readPc[r] = "done" => shown[r] \in entries[r] \cup {"Created"}

\* Every event about a known order is in the order's timeline in the end, and
\* the status has caught up with it.
EveryEventShows ==
  \A e \in [order : Known, type : Types] :
    copies[e] > 0 ~>
      deliveries[e] > 0 /\ Stage(status[e.order]) >= Stage(e.type)
=============================================================================
