----------------------------- MODULE EventRouting -----------------------------
(***************************************************************************)
(* The topic exchange commerce.events: which queue gets a copy of which    *)
(* event, and the dead-letter queue of each.                               *)
(* Source: src/shared/contracts/src/routing.ts.                            *)
(*                                                                         *)
(* An event type has one routing key, so the two are not told apart.       *)
(***************************************************************************)
EXTENDS Naturals, FiniteSets

CONSTANT Orders  \* orders that clients place

VARIABLES
  sent,   \* events the broker has confirmed at least once
  queue,  \* copies of each message in its queue
  dead    \* copies of each message in its dead-letter queue

EventTypes == {"OrderCreated", "PaymentAuthorized", "InventoryReserved",
               "InventoryReservationFailed", "DeliveryBooked"}

\* The ids of events are derived from their order, or stored with it.
Events == [type : EventTypes, order : Orders]

Event(type, o) == [type |-> type, order |-> o]

Queues == {"payment", "inventory", "delivery", "notification", "timeline"}

\* Faulty variant: customers only hear of success.
SuccessOnly(q) ==
  CASE q = "payment" -> {"OrderCreated"}
    [] q = "inventory" -> {"PaymentAuthorized"}
    [] q = "delivery" -> {"InventoryReserved"}
    [] q = "notification" -> {"DeliveryBooked"}
    [] q = "timeline" -> EventTypes \ {"OrderCreated"}

\* Faulty variant: deliveries are booked before the stock is reserved.
BookOnPayment(q) ==
  CASE q = "payment" -> {"OrderCreated"}
    [] q = "inventory" -> {"PaymentAuthorized"}
    [] q = "delivery" -> {"PaymentAuthorized"}
    [] q = "notification" -> {"DeliveryBooked", "InventoryReservationFailed"}
    [] q = "timeline" -> EventTypes \ {"OrderCreated"}

\* QUEUES
RoutingKeys(q) ==
  CASE q = "payment" -> {"OrderCreated"}
    [] q = "inventory" -> {"PaymentAuthorized"}
    [] q = "delivery" -> {"InventoryReserved"}
    [] q = "notification" -> {"DeliveryBooked", "InventoryReservationFailed"}
    [] q = "timeline" -> EventTypes \ {"OrderCreated"}

Message(q, e) == [queue |-> q, event |-> e]

Messages ==
  {m \in [queue : Queues, event : Events] : m.event.type \in RoutingKeys(m.queue)}

RoutingInit ==
  /\ sent = {}
  /\ queue = [m \in Messages |-> 0]
  /\ dead = [m \in Messages |-> 0]
-----------------------------------------------------------------------------
\* n copies of each message, with one more of "added", one less of "removed".
Moved(n, added, removed) ==
  [m \in Messages |-> (IF m \in added THEN n[m] + 1 ELSE n[m])
                        - (IF m \in removed THEN 1 ELSE 0)]

Copies(events) == {m \in Messages : m.event \in events}

\* The broker routes the events, and drops what a consumer acknowledged.
Exchange(events, acked) ==
  /\ sent' = sent \cup events
  /\ queue' = Moved(queue, Copies(events), acked)
=============================================================================
