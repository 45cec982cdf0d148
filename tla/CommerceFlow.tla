----------------------------- MODULE CommerceFlow -----------------------------
(***************************************************************************)
(* The five services and the operator's replay tool, connected by the      *)
(* queues of the broker: an order from POST /orders to the notification    *)
(* of its customer.                                                        *)
(* Source: the handlers and composition roots under src/services.          *)
(*                                                                         *)
(* Each component does in one step what its own module shows that it does: *)
(* an order is stored with its event (OrderSubmission), an outbox delivers *)
(* at least once (OutboxPromise), the inventory decides once               *)
(* (ReservationPromise), the timeline records once (OrderTimeline), and a  *)
(* message that is not acknowledged stays in its queue, or becomes a dead  *)
(* letter after its attempts (MessageDelivery).  What comes of a chain of  *)
(* such components is the subject here.                                    *)
(***************************************************************************)
EXTENDS DeadLetterReplay

CONSTANTS Requested,     \* what each order wants of the one product
          MaxStock,      \* bound on what there is of it at first
          MaxTrouble     \* bound on the orders and the faults together

ASSUME RequestAssumption == Requested \in [Orders -> Nat]
ASSUME StockAssumption == MaxStock \in Nat
ASSUME BoundAssumption == MaxTrouble \in Nat

VARIABLES
  orders,     \* orders that are stored
  outbox,     \* events that a relay has not recorded as published
  stock,      \* what is left of the product
  decision,   \* "none", "Reserved" or "Rejected"
  notified,   \* events whose notifications the service remembers
  told,       \* notifications of each event so far
  recorded,   \* events in the timeline
  status,     \* orders.status
  broken,     \* services whose handlers fail, as without their database
  restarts,   \* restarts of the notification service
  faults      \* faults so far

services == <<orders, outbox, stock, decision, notified, told, recorded, status>>
vars == <<sent, queue, dead, tool, services, broken, restarts, faults>>

\* What the timeline does with an event; no order is unknown here.
Timeline ==
  INSTANCE OrderTimeline WITH
    Known <- Orders, Workers <- {}, Readers <- {}, StrayTypes <- {},
    MaxCopies <- 1, MaxFaults <- MaxTrouble, deliveries <- <<>>, pc <- <<>>, event <- <<>>,
    current <- <<>>, readPc <- <<>>, reading <- <<>>, shown <- <<>>,
    entries <- <<>>, queue <- <<>>,
    copies <- [e \in [order : Orders, type : EventTypes \ {"OrderCreated"}] |->
                 IF e \in sent THEN 1 ELSE 0]

TypeOK ==
  /\ sent \subseteq Events
  /\ queue \in [Messages -> Nat] /\ dead \in [Messages -> Nat]
  /\ source \in Queues \cup {None} /\ left \in Nat
  /\ letter \in Messages \cup {None} /\ confirmed \in BOOLEAN
  /\ orders \subseteq Orders /\ outbox \subseteq Events
  /\ stock \in 0..MaxStock
  /\ decision \in [Orders -> {"none", "Reserved", "Rejected"}]
  /\ notified \subseteq Events /\ told \in [Events -> Nat]
  /\ recorded \subseteq Events
  /\ status \in [Orders -> (EventTypes \ {"OrderCreated"}) \cup {"Created"}]
  /\ broken \subseteq Queues /\ restarts \in Nat /\ faults \in Nat

Init ==
  /\ RoutingInit /\ ToolInit
  /\ orders = {} /\ outbox = {}
  /\ stock \in 0..MaxStock
  /\ decision = [o \in Orders |-> "none"]
  /\ notified = {}
  /\ told = [e \in Events |-> 0]
  /\ recorded = {}
  /\ status = [o \in Orders |-> "Created"]
  /\ broken = {} /\ restarts = 0 /\ faults = 0
-----------------------------------------------------------------------------
(* Events with an outbox. *)

Bounded == Cardinality(orders) + faults < MaxTrouble

Fault == Bounded /\ faults' = faults + 1

\* submitOrder
Submit(o) ==
  /\ o \notin orders /\ Bounded
  /\ orders' = orders \cup {o}
  /\ outbox' = outbox \cup {Event("OrderCreated", o)}
  /\ UNCHANGED <<sent, queue, dead, tool, stock, decision, notified, told,
                 recorded, status, broken, restarts, faults>>

\* A relay publishes an event and records that.
Relay(e) ==
  /\ e \in outbox
  /\ Exchange({e}, {})
  /\ outbox' = outbox \ {e}
  /\ UNCHANGED <<dead, tool, orders, stock, decision, notified, told, recorded,
                 status, broken, restarts, faults>>

\* Its confirm or the record is lost: it publishes again.
RelayAgain(e) ==
  /\ e \in outbox /\ Fault
  /\ Exchange({e}, {})
  /\ UNCHANGED <<dead, tool, services, broken, restarts>>
-----------------------------------------------------------------------------
(* The handlers: what they change besides the broker's queues. *)

PublishOnly == UNCHANGED services

\* Faulty variant: nobody looks for an earlier decision.
DecideAgain(o) ==
  /\ \/ /\ Requested[o] <= stock
        /\ decision' = [decision EXCEPT ![o] = "Reserved"]
        /\ stock' = stock - Requested[o]
        /\ outbox' = outbox \cup {Event("InventoryReserved", o)}
     \/ /\ Requested[o] > stock
        /\ decision' = [decision EXCEPT ![o] = "Rejected"]
        /\ outbox' = outbox \cup {Event("InventoryReservationFailed", o)}
        /\ UNCHANGED stock
  /\ UNCHANGED <<orders, notified, told, recorded, status>>

\* reserveForPayment
ReserveForPayment(o) ==
  /\ \/ decision[o] # "none" /\ UNCHANGED <<decision, stock, outbox>>
     \/ /\ decision[o] = "none" /\ Requested[o] <= stock
        /\ decision' = [decision EXCEPT ![o] = "Reserved"]
        /\ stock' = stock - Requested[o]
        /\ outbox' = outbox \cup {Event("InventoryReserved", o)}
     \/ /\ decision[o] = "none" /\ Requested[o] > stock
        /\ decision' = [decision EXCEPT ![o] = "Rejected"]
        /\ outbox' = outbox \cup {Event("InventoryReservationFailed", o)}
        /\ UNCHANGED stock
  /\ UNCHANGED <<orders, notified, told, recorded, status>>

\* Faulty variant: every delivery is a notification.
NotifyAgain(e) ==
  /\ notified' = notified \cup {e}
  /\ told' = [told EXCEPT ![e] = @ + 1]
  /\ UNCHANGED <<orders, outbox, stock, decision, recorded, status>>

\* findNotification, createNotification
NotifyCustomer(e) ==
  /\ notified' = notified \cup {e}
  /\ told' = IF e \in notified THEN told ELSE [told EXCEPT ![e] = @ + 1]
  /\ UNCHANGED <<orders, outbox, stock, decision, recorded, status>>

\* recordWorkflowEvent
RecordWorkflowEvent(e) ==
  /\ recorded' = recorded \cup {e}
  /\ status' = IF e \in recorded THEN status
               ELSE [status EXCEPT ![e.order] =
                       Timeline!ApplyWorkflowEvent(@, e.type)]
  /\ UNCHANGED <<orders, outbox, stock, decision, notified, told>>

Handle(m) ==
  CASE m.queue = "inventory" -> ReserveForPayment(m.event.order)
    [] m.queue = "notification" -> NotifyCustomer(m.event)
    [] m.queue = "timeline" -> RecordWorkflowEvent(m.event)
    [] OTHER -> PublishOnly

\* What the handler awaits the publication of.
Published(m) ==
  CASE m.queue = "payment" -> {Event("PaymentAuthorized", m.event.order)}
    [] m.queue = "delivery" -> {Event("DeliveryBooked", m.event.order)}
    [] OTHER -> {}
-----------------------------------------------------------------------------
(* Consumers. *)

\* A message is handled and acknowledged.
Consume(m) ==
  /\ queue[m] > 0 /\ m.queue \notin broken
  /\ Handle(m)
  /\ Exchange(Published(m), {m})
  /\ UNCHANGED <<dead, tool, broken, restarts, faults>>

\* The effect of message m has come about.
Done(m) ==
  CASE m.queue = "payment" -> Event("PaymentAuthorized", m.event.order) \in sent
    [] m.queue = "inventory" -> decision[m.event.order] # "none"
    [] m.queue = "delivery" -> Event("DeliveryBooked", m.event.order) \in sent
    [] m.queue = "notification" -> told[m.event] > 0
    [] m.queue = "timeline" -> m.event \in recorded

\* The client knows that it has handled the event, and asks no handler.
Skip(m) ==
  /\ queue[m] > 0 /\ Done(m)
  /\ Exchange({}, {m})
  /\ UNCHANGED <<dead, tool, services, broken, restarts, faults>>

\* The handler has done its work, but the acknowledgement is lost.
ConsumeAgain(m) ==
  /\ queue[m] > 0 /\ m.queue \notin broken /\ Fault
  /\ Handle(m)
  /\ Exchange(Published(m), {})
  /\ UNCHANGED <<dead, tool, broken, restarts>>

\* The handler has done its work, but all its attempts failed after that: the
\* message is a dead letter nevertheless.
ConsumeAndReject(m) ==
  /\ queue[m] > 0 /\ m.queue \notin broken /\ Fault
  /\ Handle(m)
  /\ Exchange(Published(m), {m})
  /\ dead' = Moved(dead, {m}, {})
  /\ UNCHANGED <<tool, broken, restarts>>

\* Its attempts have failed: the message is a dead letter.
GiveUp(m) ==
  /\ queue[m] > 0 /\ m.queue \in broken
  /\ Exchange({}, {m})
  /\ dead' = Moved(dead, {m}, {})
  /\ UNCHANGED <<tool, services, broken, restarts, faults>>
-----------------------------------------------------------------------------
(* What happens to services, and what the operator does. *)

Break(q) ==
  /\ q \notin broken /\ Fault
  /\ broken' = broken \cup {q}
  /\ UNCHANGED <<sent, queue, dead, tool, services, restarts>>

Repair(q) ==
  /\ q \in broken
  /\ broken' = broken \ {q}
  /\ UNCHANGED <<sent, queue, dead, tool, services, restarts, faults>>

\* The notification service keeps what it knows in memory.
RestartNotification ==
  /\ notified # {} /\ Fault
  /\ notified' = {}
  /\ restarts' = restarts + 1
  /\ UNCHANGED <<sent, queue, dead, tool, orders, outbox, stock, decision, told,
                 recorded, status, broken>>

Replay(step) == step /\ UNCHANGED <<services, broken, restarts, faults>>

ToolFault == ReplayFails /\ Fault /\ UNCHANGED <<services, broken, restarts>>
-----------------------------------------------------------------------------
Next ==
  \/ \E o \in Orders : Submit(o)
  \/ \E e \in Events : Relay(e) \/ RelayAgain(e)
  \/ \E m \in Messages :
       Consume(m) \/ Skip(m) \/ ConsumeAgain(m) \/ ConsumeAndReject(m) \/ GiveUp(m)
  \/ \E q \in Queues : Break(q) \/ Repair(q) \/ Replay(StartReplay(q))
  \/ RestartNotification
  \/ Replay(ReplayStep)
  \/ ToolFault

Spec == Init /\ [][Next]_vars

\* What relays, consumers, the tool and an operator do who replays what was
\* left behind by services that work again.
Progress ==
  \/ \E e \in Events : Relay(e)
  \/ \E m \in Messages : Consume(m)
  \/ \E q \in Queues \ broken : Replay(StartReplay(q))
  \/ Replay(ReplayStep)

\* As long as something can go on, it does.  Clients need not order, and nobody
\* need repair anything.
Fairness == WF_vars(Progress)

FairSpec == Spec /\ Fairness
-----------------------------------------------------------------------------
(* Properties. *)

Stage(o) ==
  CASE o \notin orders -> "none"
    [] o \in orders /\ Event("PaymentAuthorized", o) \notin sent -> "Created"
    [] decision[o] = "Rejected" -> "InventoryReservationFailed"
    [] decision[o] = "Reserved" /\ Event("DeliveryBooked", o) \in sent ->
         "DeliveryBooked"
    [] decision[o] = "Reserved" /\ Event("DeliveryBooked", o) \notin sent ->
         "InventoryReserved"
    [] OTHER -> "PaymentAuthorized"

Promise ==
  INSTANCE WorkflowPromise WITH
    stage <- [o \in Orders |-> Stage(o)],
    told <- [o \in Orders |-> {t \in EventTypes : told[Event(t, o)] > 0}]

\* Duplicates, redeliveries, dead letters and replays notwithstanding, an order
\* goes through its stages once, its customer never hears of an outcome that did
\* not come about, and the status never runs ahead or back.
PromiseKept == Promise!Safe

\* What the order service assumes of those who tell it about orders: no event
\* is published before the one that causes it, and only one of the two decisions.
ToldAsAssumed ==
  [][\A e \in sent' \ sent :
       e.type # "OrderCreated" => Timeline!MayTell(e)]_vars

\* Somebody still has message m.
Carried(m) == queue[m] > 0 \/ dead[m] > 0 \/ (letter = m /\ ~confirmed)

\* No order is forgotten on its way: its next event is in an outbox, or on its
\* way to every service that has not dealt with it, at the latest as a dead
\* letter, or as one that the replay tool has not published yet.
NothingForgotten ==
  /\ \A o \in orders :
       Event("OrderCreated", o) \in outbox \cup sent
  /\ \A o \in Orders :
       /\ decision[o] = "Reserved" =>
            Event("InventoryReserved", o) \in outbox \cup sent
       /\ decision[o] = "Rejected" =>
            Event("InventoryReservationFailed", o) \in outbox \cup sent
  /\ \A m \in Messages : m.event \in sent => Done(m) \/ Carried(m)

\* A customer is told about each outcome once, even if events are delivered
\* again, as long as the notification service remembers what it did.
NotifiedOnce == \A e \in Events : told[e] <= 1 + restarts

\* A replay comes to its end even if what it replays fails again and again.
ReplayEnds == []<>(source = None)

\* If services do not stay broken, every order that was accepted is concluded:
\* delivered or failed, its customer told, its status final.
EveryOrderConcludes ==
  []<>(broken = {}) => []<>(\A o \in orders : Promise!Concluded(o))
=============================================================================
