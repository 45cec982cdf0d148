-------------------------- MODULE CommerceFlowProofs --------------------------
(***************************************************************************)
(* Theorems about CommerceFlow, for any number of orders, any stock and    *)
(* any number of faults.                                                   *)
(***************************************************************************)
EXTENDS CommerceFlow, TLAPS

(* Events and messages. *)

\* An event is its type and its order.
LEMMA EventsAreRecords ==
  /\ \A t \in EventTypes, o \in Orders :
       /\ Event(t, o) \in Events
       /\ Event(t, o).type = t /\ Event(t, o).order = o
  /\ \A e \in Events :
       /\ e.type \in EventTypes /\ e.order \in Orders
       /\ e = Event(e.type, e.order)
BY DEF Events, Event

\* A message is a queue and an event that is routed to it.
LEMMA MessagesAreRecords ==
  \A m \in Messages :
    /\ m.queue \in Queues /\ m.event \in Events
    /\ m.event.type \in RoutingKeys(m.queue)
BY DEF Messages

\* What each queue is for.
LEMMA RoutingIsFixed ==
  ASSUME NEW m \in Messages
  PROVE  /\ m.queue = "payment" => m.event.type = "OrderCreated"
         /\ m.queue = "inventory" => m.event.type = "PaymentAuthorized"
         /\ m.queue = "delivery" => m.event.type = "InventoryReserved"
         /\ m.queue = "notification" =>
              m.event.type \in {"DeliveryBooked", "InventoryReservationFailed"}
         /\ m.queue = "timeline" => m.event.type \in EventTypes \ {"OrderCreated"}
         /\ m.queue \in {"payment", "inventory", "delivery", "notification",
                         "timeline"}
BY MessagesAreRecords DEF RoutingKeys, Queues

\* Counting one copy in and one copy out.
LEMMA MovedCounts ==
  ASSUME NEW n \in [Messages -> Nat], NEW added, NEW removed,
         \A m \in removed \cap Messages : n[m] > 0
  PROVE  /\ Moved(n, added, removed) \in [Messages -> Nat]
         /\ \A m \in Messages :
              /\ m \in added => Moved(n, added, removed)[m] > 0 \/ m \in removed
              /\ n[m] > 0 /\ m \notin removed => Moved(n, added, removed)[m] > 0
              /\ n[m] > 0 /\ m \in added => Moved(n, added, removed)[m] > 0
              /\ Moved(n, added, removed)[m] > 0 => n[m] > 0 \/ m \in added
<1>. DEFINE k(m) == (IF m \in added THEN n[m] + 1 ELSE n[m])
                      - (IF m \in removed THEN 1 ELSE 0)
<1>1. \A m \in Messages : n[m] \in Nat /\ Moved(n, added, removed)[m] = k(m)
  BY DEF Moved
<1>2. \A m \in Messages : k(m) \in Nat
  BY <1>1
<1>3. Moved(n, added, removed) \in [Messages -> Nat]
  BY <1>2 DEF Moved
<1>. QED BY <1>1, <1>3
-----------------------------------------------------------------------------
(* The inductive invariant. *)

\* An outbox has what its service has decided and not yet told.
OutboxesAreTrue ==
  /\ \A e \in outbox :
       e.type \in {"OrderCreated", "InventoryReserved",
                   "InventoryReservationFailed"}
  /\ \A o \in Orders :
       /\ Event("OrderCreated", o) \in outbox \cup sent <=> o \in orders
       /\ Event("InventoryReserved", o) \in outbox \cup sent
            <=> decision[o] = "Reserved"
       /\ Event("InventoryReservationFailed", o) \in outbox \cup sent
            <=> decision[o] = "Rejected"

\* Each event follows the one that causes it.
CausesComeFirst ==
  \A o \in Orders :
    /\ Event("PaymentAuthorized", o) \in sent => Event("OrderCreated", o) \in sent
    /\ decision[o] # "none" => Event("PaymentAuthorized", o) \in sent
    /\ Event("DeliveryBooked", o) \in sent => Event("InventoryReserved", o) \in sent

\* A message is of an event that was sent, and there until its effect is.
MessagesAreFollowed ==
  \A m \in Messages :
    /\ Carried(m) => m.event \in sent
    /\ m.event \in sent => Done(m) \/ Carried(m)

\* The notification service tells each outcome once between two restarts.
NotificationsAreCounted ==
  \A e \in Events :
    /\ told[e] > 0 =>
         e \in sent /\ e.type \in {"DeliveryBooked", "InventoryReservationFailed"}
    /\ told[e] <= 1 + restarts
    /\ e \notin notified => told[e] <= restarts
    /\ e \in notified => told[e] > 0

\* The status is something that was recorded.
StatusIsRecorded ==
  /\ recorded \subseteq sent
  /\ \A o \in Orders :
       status[o] # "Created" => Event(status[o], o) \in recorded

\* A confirmed copy has its letter; a letter is of an event, and counts.
ToolIsSound ==
  /\ confirmed => letter # None
  /\ letter # None => left > 0 /\ letter.event \in sent

IInv ==
  /\ TypeOK /\ OutboxesAreTrue /\ CausesComeFirst /\ MessagesAreFollowed
  /\ NotificationsAreCounted /\ StatusIsRecorded /\ ToolIsSound

\* What the services know, apart from messages on their way.
Business ==
  /\ OutboxesAreTrue /\ CausesComeFirst /\ NotificationsAreCounted
  /\ StatusIsRecorded

\* What is done is not undone.
LEMMA DoneStays ==
  ASSUME TypeOK, sent \subseteq sent', recorded \subseteq recorded',
         \A o \in Orders : decision[o] # "none" => decision'[o] # "none",
         \A e \in Events : told[e] > 0 => told'[e] > 0,
         NEW m \in Messages, Done(m)
  PROVE  Done(m)'
BY RoutingIsFixed, MessagesAreRecords, EventsAreRecords DEF Done

\* Publications and acknowledgements on the broker.
LEMMA ExchangeDoes ==
  ASSUME TypeOK, NEW events \in SUBSET Events, NEW acked \in SUBSET Messages,
         \A m \in acked : queue[m] > 0, Exchange(events, acked)
  PROVE  /\ sent' = sent \cup events /\ sent' \subseteq Events
         /\ queue' \in [Messages -> Nat]
         /\ \A m \in Messages :
              /\ queue[m] > 0 /\ m \notin acked => queue'[m] > 0
              /\ m.event \in events => queue'[m] > 0 \/ m \in acked
              /\ queue'[m] > 0 => queue[m] > 0 \/ m.event \in events
<1>1. queue \in [Messages -> Nat] /\ sent \subseteq Events
  BY DEF TypeOK
<1>2. queue' = Moved(queue, Copies(events), acked) /\ sent' = sent \cup events
  BY DEF Exchange
<1>3. \A m \in acked \cap Messages : queue[m] > 0
  OBVIOUS
<1>4. \A m \in Messages : m \in Copies(events) <=> m.event \in events
  BY DEF Copies
<1>. QED BY <1>1, <1>2, <1>3, <1>4, MovedCounts
-----------------------------------------------------------------------------
(* What the handlers do. *)

ServicesAreTyped ==
  /\ orders \subseteq Orders /\ outbox \subseteq Events
  /\ stock \in 0..MaxStock
  /\ decision \in [Orders -> {"none", "Reserved", "Rejected"}]
  /\ notified \subseteq Events /\ told \in [Events -> Nat]
  /\ recorded \subseteq Events
  /\ status \in [Orders -> (EventTypes \ {"OrderCreated"}) \cup {"Created"}]

\* What has happened stays so.
NothingUndone ==
  /\ sent \subseteq sent' /\ recorded \subseteq recorded'
  /\ \A o \in Orders : decision[o] # "none" => decision'[o] # "none"
  /\ \A e \in Events : told[e] > 0 => told'[e] > 0

\* The inventory decides on a payment.
LEMMA ReservationDoes ==
  ASSUME TypeOK, Business, NEW o \in Orders, Event("PaymentAuthorized", o) \in sent,
         ReserveForPayment(o), sent' = sent, restarts' = restarts
  PROVE  /\ ServicesAreTyped' /\ Business' /\ NothingUndone
         /\ decision'[o] # "none"
<1>1. CASE decision[o] # "none" /\ UNCHANGED <<decision, stock, outbox>>
  BY <1>1 DEF TypeOK, ServicesAreTyped, Business, NothingUndone, OutboxesAreTrue,
     CausesComeFirst, NotificationsAreCounted, StatusIsRecorded, ReserveForPayment
<1>2. CASE decision[o] = "none"
  <2>1. PICK d \in {"Reserved", "Rejected"} :
          /\ decision' = [decision EXCEPT ![o] = d]
          /\ d = "Reserved" => outbox' = outbox \cup {Event("InventoryReserved", o)}
          /\ d = "Rejected" =>
               outbox' = outbox \cup {Event("InventoryReservationFailed", o)}
    BY <1>2 DEF ReserveForPayment
  <2>2. stock' \in 0..MaxStock
    <3>1. stock \in 0..MaxStock /\ Requested[o] \in Nat /\ MaxStock \in Nat
      BY RequestAssumption, StockAssumption DEF TypeOK
    <3>2. stock' = stock \/ (Requested[o] <= stock /\ stock' = stock - Requested[o])
      BY <1>2 DEF ReserveForPayment
    <3>. QED BY <3>1, <3>2
  <2>3. UNCHANGED <<orders, notified, told, recorded, status>>
    BY DEF ReserveForPayment
  <2>4. decision \in [Orders -> {"none", "Reserved", "Rejected"}]
    BY DEF TypeOK
  <2>5. /\ decision' \in [Orders -> {"none", "Reserved", "Rejected"}]
        /\ decision'[o] = d
        /\ \A p \in Orders : p # o => decision'[p] = decision[p]
    BY <2>1, <2>4
  <2>6. outbox' \subseteq Events
    BY <2>1, EventsAreRecords DEF TypeOK, EventTypes
  <2>7. ServicesAreTyped'
    BY <2>2, <2>3, <2>5, <2>6 DEF TypeOK, ServicesAreTyped
  <2>8. NothingUndone /\ decision'[o] # "none"
    BY <2>3, <2>5 DEF NothingUndone
  <2>9. OutboxesAreTrue'
    <3>. DEFINE pool == outbox \cup sent
                poolx == (outbox \cup sent)'
    <3>1. \A e \in outbox' : e.type \in {"OrderCreated", "InventoryReserved",
                                         "InventoryReservationFailed"}
      BY <2>1, EventsAreRecords DEF Business, OutboxesAreTrue, EventTypes
    <3>2. \A p \in Orders, t \in EventTypes :
            Event(t, p) \in poolx <=>
              \/ Event(t, p) \in pool
              \/ p = o /\ d = "Reserved" /\ t = "InventoryReserved"
              \/ p = o /\ d = "Rejected" /\ t = "InventoryReservationFailed"
      BY <2>1, EventsAreRecords DEF EventTypes
    <3>3. \A p \in Orders :
            /\ Event("OrderCreated", p) \in pool <=> p \in orders
            /\ Event("InventoryReserved", p) \in pool <=> decision[p] = "Reserved"
            /\ Event("InventoryReservationFailed", p) \in pool
                 <=> decision[p] = "Rejected"
      BY DEF Business, OutboxesAreTrue
    <3>4. \A p \in Orders :
            /\ Event("OrderCreated", p) \in poolx <=> p \in orders'
            /\ Event("InventoryReserved", p) \in poolx <=> decision'[p] = "Reserved"
            /\ Event("InventoryReservationFailed", p) \in poolx
                 <=> decision'[p] = "Rejected"
      BY <1>2, <2>1, <2>3, <2>5, <3>2, <3>3 DEF EventTypes
    <3>. QED BY <3>1, <3>4 DEF OutboxesAreTrue
  <2>10. CausesComeFirst'
    BY <2>5 DEF Business, CausesComeFirst
  <2>11. NotificationsAreCounted' /\ StatusIsRecorded'
    BY <2>3 DEF Business, NotificationsAreCounted, StatusIsRecorded
  <2>. QED BY <2>7, <2>8, <2>9, <2>10, <2>11 DEF Business
<1>. QED BY <1>1, <1>2 DEF ReserveForPayment

\* The customer is told what was sent.
LEMMA NotificationDoes ==
  ASSUME TypeOK, Business, NEW e \in sent,
         e.type \in {"DeliveryBooked", "InventoryReservationFailed"},
         NotifyCustomer(e), sent' = sent, restarts' = restarts
  PROVE  /\ ServicesAreTyped' /\ Business' /\ NothingUndone
         /\ told'[e] > 0
<1>1. /\ e \in Events /\ told \in [Events -> Nat] /\ restarts \in Nat
      /\ notified \subseteq Events
  BY DEF TypeOK
<1>2. /\ notified' = notified \cup {e}
      /\ UNCHANGED <<orders, outbox, stock, decision, recorded, status>>
  BY DEF NotifyCustomer
<1>3. /\ told' \in [Events -> Nat]
      /\ \A f \in Events : f # e => told'[f] = told[f]
      /\ e \in notified => told'[e] = told[e]
      /\ e \notin notified => told'[e] = told[e] + 1
  BY <1>1 DEF NotifyCustomer
<1>4. \A f \in Events : told[f] \in Nat /\ told'[f] \in Nat
  BY <1>1, <1>3
<1>5. ServicesAreTyped'
  BY <1>1, <1>2, <1>3 DEF TypeOK, ServicesAreTyped
<1>6. \A f \in Events :
        /\ told[f] > 0 => f \in sent
                       /\ f.type \in {"DeliveryBooked", "InventoryReservationFailed"}
        /\ told[f] <= 1 + restarts
        /\ f \notin notified => told[f] <= restarts
        /\ f \in notified => told[f] > 0
  BY DEF Business, NotificationsAreCounted
<1>7. told'[e] > 0 /\ told'[e] <= 1 + restarts
  BY <1>1, <1>3, <1>4, <1>6
<1>8. \A f \in Events : told[f] > 0 => told'[f] > 0
  BY <1>3, <1>7
<1>9. NotificationsAreCounted'
  BY <1>1, <1>2, <1>3, <1>4, <1>6, <1>7 DEF NotificationsAreCounted
<1>10. OutboxesAreTrue' /\ CausesComeFirst' /\ StatusIsRecorded'
  BY <1>2 DEF Business, OutboxesAreTrue, CausesComeFirst, StatusIsRecorded
<1>11. NothingUndone
  BY <1>2, <1>8 DEF NothingUndone
<1>. QED BY <1>5, <1>7, <1>9, <1>10, <1>11 DEF Business

\* The timeline records what was sent.
LEMMA RecordingDoes ==
  ASSUME TypeOK, Business, NEW e \in sent, e.type \in EventTypes \ {"OrderCreated"},
         RecordWorkflowEvent(e), sent' = sent, restarts' = restarts
  PROVE  /\ ServicesAreTyped' /\ Business' /\ NothingUndone
         /\ e \in recorded'
<1>1. /\ e \in Events /\ e.type \in EventTypes /\ e.order \in Orders
      /\ e = Event(e.type, e.order)
      /\ recorded \subseteq Events /\ recorded \subseteq sent
      /\ status \in [Orders -> (EventTypes \ {"OrderCreated"}) \cup {"Created"}]
  BY EventsAreRecords DEF TypeOK, Business, StatusIsRecorded
<1>2. /\ recorded' = recorded \cup {e}
      /\ UNCHANGED <<orders, outbox, stock, decision, notified, told>>
  BY DEF RecordWorkflowEvent
<1>3. \A now, type :
        Timeline!ApplyWorkflowEvent(now, type) \in {now, type}
  BY DEF Timeline!ApplyWorkflowEvent
<1>4. PICK s \in {status[e.order], e.type} :
        status' = [status EXCEPT ![e.order] = s]
  <2>1. CASE e \in recorded
    BY <1>1, <2>1 DEF RecordWorkflowEvent
  <2>2. CASE e \notin recorded
    BY <1>3, <2>2 DEF RecordWorkflowEvent
  <2>. QED BY <2>1, <2>2
<1>5. /\ status' \in [Orders -> (EventTypes \ {"OrderCreated"}) \cup {"Created"}]
      /\ status'[e.order] \in {status[e.order], e.type}
      /\ \A p \in Orders : p # e.order => status'[p] = status[p]
  BY <1>1, <1>4
<1>6. ServicesAreTyped'
  BY <1>1, <1>2, <1>5 DEF TypeOK, ServicesAreTyped
<1>7. NothingUndone
  BY <1>2 DEF NothingUndone
<1>8. StatusIsRecorded'
  <2>1. \A p \in Orders : status[p] # "Created" => Event(status[p], p) \in recorded
    BY DEF Business, StatusIsRecorded
  <2>2. \A p \in Orders : status'[p] # "Created" => Event(status'[p], p) \in recorded'
    BY <1>1, <1>2, <1>5, <2>1
  <2>. QED BY <1>1, <1>2, <2>2 DEF StatusIsRecorded
<1>9. OutboxesAreTrue' /\ CausesComeFirst' /\ NotificationsAreCounted'
  BY <1>2 DEF Business, OutboxesAreTrue, CausesComeFirst, NotificationsAreCounted
<1>. QED BY <1>2, <1>6, <1>7, <1>8, <1>9 DEF Business

\* An event that a handler publishes is added to those that were sent.
LEMMA PublicationDoes ==
  ASSUME TypeOK, Business, NEW o \in Orders, UNCHANGED services,
         NEW t \in {"PaymentAuthorized", "DeliveryBooked"},
         t = "PaymentAuthorized" => Event("OrderCreated", o) \in sent,
         t = "DeliveryBooked" => Event("InventoryReserved", o) \in sent,
         sent' = sent \cup {Event(t, o)}, restarts' = restarts
  PROVE  ServicesAreTyped' /\ Business' /\ NothingUndone
<1>1. /\ UNCHANGED <<orders, outbox, stock, decision, notified, told, recorded,
                     status>>
      /\ t \in EventTypes
  BY DEF services, EventTypes
<1>2. ServicesAreTyped' /\ NothingUndone
  BY <1>1 DEF TypeOK, ServicesAreTyped, NothingUndone
<1>3. \A p \in Orders, u \in EventTypes :
        Event(u, p) \in sent' <=> Event(u, p) \in sent \/ (u = t /\ p = o)
  BY <1>1, EventsAreRecords
<1>4. OutboxesAreTrue'
  BY <1>1, <1>3 DEF Business, OutboxesAreTrue, EventTypes
<1>5. CausesComeFirst'
  BY <1>1, <1>3 DEF Business, CausesComeFirst, EventTypes
<1>6. NotificationsAreCounted' /\ StatusIsRecorded'
  BY <1>1 DEF Business, NotificationsAreCounted, StatusIsRecorded
<1>. QED BY <1>2, <1>4, <1>5, <1>6 DEF Business

\* What a handler does keeps the services' knowledge consistent, and is done.
LEMMA HandlingDoes ==
  ASSUME TypeOK, Business, NEW m \in Messages, m.event \in sent,
         Handle(m), sent' = sent \cup Published(m), restarts' = restarts
  PROVE  ServicesAreTyped' /\ Business' /\ NothingUndone /\ Done(m)'
<1>1. m.event \in Events /\ m.event.order \in Orders
  BY MessagesAreRecords, EventsAreRecords
<1>2. m.event = Event(m.event.type, m.event.order)
  BY <1>1, EventsAreRecords
<1>3. CASE m.queue = "payment"
  <2>1. /\ UNCHANGED services
        /\ sent' = sent \cup {Event("PaymentAuthorized", m.event.order)}
        /\ Event("OrderCreated", m.event.order) \in sent
    BY <1>2, <1>3, RoutingIsFixed DEF Handle, PublishOnly, Published
  <2>2. ServicesAreTyped' /\ Business' /\ NothingUndone
    BY <1>1, <2>1, PublicationDoes
  <2>3. Done(m)'
    BY <1>3, <2>1 DEF Done
  <2>. QED BY <2>2, <2>3
<1>4. CASE m.queue = "delivery"
  <2>1. /\ UNCHANGED services
        /\ sent' = sent \cup {Event("DeliveryBooked", m.event.order)}
        /\ Event("InventoryReserved", m.event.order) \in sent
    BY <1>2, <1>4, RoutingIsFixed DEF Handle, PublishOnly, Published
  <2>2. ServicesAreTyped' /\ Business' /\ NothingUndone
    BY <1>1, <2>1, PublicationDoes
  <2>3. Done(m)'
    BY <1>4, <2>1 DEF Done
  <2>. QED BY <2>2, <2>3
<1>5. CASE m.queue = "inventory"
  <2>1. /\ ReserveForPayment(m.event.order) /\ sent' = sent
        /\ Event("PaymentAuthorized", m.event.order) \in sent
    BY <1>2, <1>5, RoutingIsFixed DEF Handle, Published
  <2>2. /\ ServicesAreTyped' /\ Business' /\ NothingUndone
        /\ decision'[m.event.order] # "none"
    BY <1>1, <2>1, ReservationDoes
  <2>3. Done(m)'
    BY <1>5, <2>2 DEF Done
  <2>. QED BY <2>2, <2>3
<1>6. CASE m.queue = "notification"
  <2>1. /\ NotifyCustomer(m.event) /\ sent' = sent
        /\ m.event.type \in {"DeliveryBooked", "InventoryReservationFailed"}
    BY <1>6, RoutingIsFixed DEF Handle, Published
  <2>2. /\ ServicesAreTyped' /\ Business' /\ NothingUndone
        /\ told'[m.event] > 0
    BY <2>1, NotificationDoes
  <2>3. Done(m)'
    BY <1>6, <2>2 DEF Done
  <2>. QED BY <2>2, <2>3
<1>7. CASE m.queue = "timeline"
  <2>1. /\ RecordWorkflowEvent(m.event) /\ sent' = sent
        /\ m.event.type \in EventTypes \ {"OrderCreated"}
    BY <1>7, RoutingIsFixed DEF Handle, Published
  <2>2. /\ ServicesAreTyped' /\ Business' /\ NothingUndone
        /\ m.event \in recorded'
    BY <2>1, RecordingDoes
  <2>3. Done(m)'
    BY <1>7, <2>2 DEF Done
  <2>. QED BY <2>2, <2>3
<1>. QED BY <1>3, <1>4, <1>5, <1>6, <1>7, RoutingIsFixed
-----------------------------------------------------------------------------
(* The invariant, step by step. *)

\* Messages that keep being carried, or are done, are followed.
LEMMA FollowedOn ==
  ASSUME TypeOK, MessagesAreFollowed, NothingUndone,
         \A m \in Messages :
           /\ Carried(m) \/ m.event \in sent' \ sent => Carried(m)' \/ Done(m)'
           /\ Carried(m)' => m.event \in sent'
  PROVE  MessagesAreFollowed'
<1>1. \A m \in Messages : Done(m) => Done(m)'
  BY DoneStays DEF NothingUndone
<1>2. ASSUME NEW m \in Messages, m.event \in sent'
      PROVE  Done(m)' \/ Carried(m)'
  <2>1. CASE m.event \in sent
    BY <1>1, <2>1 DEF MessagesAreFollowed
  <2>2. CASE m.event \notin sent
    BY <1>2, <2>2
  <2>. QED BY <2>1, <2>2
<1>. QED BY <1>2 DEF MessagesAreFollowed

\* A message is handled, acknowledged or not, dead-lettered or not.
LEMMA HandlingIsSafe ==
  ASSUME IInv, NEW m \in Messages, queue[m] > 0, Handle(m),
         NEW acked \in SUBSET {m}, Exchange(Published(m), acked),
         dead' = dead \/ dead' = Moved(dead, {m}, {}),
         UNCHANGED <<tool, broken, restarts>>, faults' \in Nat
  PROVE  IInv'
<1>1. /\ TypeOK /\ Business /\ MessagesAreFollowed /\ ToolIsSound
      /\ m.event \in sent
  BY DEF IInv, Business, MessagesAreFollowed, Carried
<1>2. Published(m) \in SUBSET Events
  BY MessagesAreRecords, EventsAreRecords DEF Published, EventTypes
<1>3. /\ sent' = sent \cup Published(m) /\ sent' \subseteq Events
      /\ queue' \in [Messages -> Nat]
      /\ \A n \in Messages :
           /\ queue[n] > 0 /\ n # m => queue'[n] > 0
           /\ n.event \in Published(m) => queue'[n] > 0 \/ n = m
           /\ queue'[n] > 0 => queue[n] > 0 \/ n.event \in Published(m)
  <2>1. acked \in SUBSET Messages /\ \A n \in acked : queue[n] > 0
    OBVIOUS
  <2>. QED BY <1>1, <1>2, <2>1, ExchangeDoes
<1>4. /\ dead' \in [Messages -> Nat]
      /\ \A n \in Messages : dead[n] > 0 => dead'[n] > 0
      /\ \A n \in Messages : dead'[n] > 0 => dead[n] > 0 \/ n = m
  BY <1>1, MovedCounts DEF TypeOK
<1>5. UNCHANGED <<source, left, letter, confirmed>>
  BY DEF tool
<1>6. ServicesAreTyped' /\ Business' /\ NothingUndone /\ Done(m)'
  BY <1>1, <1>3, HandlingDoes
<1>7. TypeOK' /\ ToolIsSound'
  BY <1>1, <1>3, <1>4, <1>5, <1>6 DEF TypeOK, ServicesAreTyped, ToolIsSound
<1>8. MessagesAreFollowed'
  <2>1. ASSUME NEW n \in Messages, Carried(n) \/ n.event \in sent' \ sent
        PROVE  Carried(n)' \/ Done(n)'
    BY <1>3, <1>4, <1>5, <1>6, <2>1 DEF Carried
  <2>2. ASSUME NEW n \in Messages, Carried(n)'
        PROVE  n.event \in sent'
    BY <1>1, <1>3, <1>4, <1>5, <2>2 DEF Carried, MessagesAreFollowed
  <2>. QED BY <1>1, <1>6, <2>1, <2>2, FollowedOn
<1>. QED BY <1>6, <1>7, <1>8 DEF IInv, Business

\* A step that moves messages, and changes nothing that a service knows.
LEMMA MovingIsSafe ==
  ASSUME IInv, UNCHANGED <<services, sent, restarts>>, TypeOK', ToolIsSound',
         \A m \in Messages :
           /\ Carried(m) => Carried(m)' \/ Done(m)
           /\ Carried(m)' => m.event \in sent
  PROVE  IInv'
<1>1. UNCHANGED <<orders, outbox, stock, decision, notified, told, recorded,
                  status, sent, restarts>>
  BY DEF services
<1>2. NothingUndone
  BY <1>1 DEF NothingUndone
<1>3. \A m \in Messages : Done(m) => Done(m)'
  BY <1>2, DoneStays DEF NothingUndone, IInv
<1>4. MessagesAreFollowed'
  BY <1>1, <1>2, <1>3, FollowedOn DEF IInv, MessagesAreFollowed
<1>. QED
  BY <1>1, <1>4 DEF IInv, OutboxesAreTrue, CausesComeFirst,
     NotificationsAreCounted, StatusIsRecorded

\* An outbox's event is published, and perhaps kept.
LEMMA RelayingIsSafe ==
  ASSUME IInv, NEW e \in outbox, Exchange({e}, {}),
         outbox' = outbox \ {e} \/ outbox' = outbox,
         UNCHANGED <<dead, tool, orders, stock, decision, notified, told,
                     recorded, status, broken, restarts>>,
         faults' \in Nat
  PROVE  IInv'
<1>1. TypeOK /\ OutboxesAreTrue /\ e \in Events
  BY DEF IInv, TypeOK
<1>2. /\ sent' = sent \cup {e} /\ sent' \subseteq Events
      /\ queue' \in [Messages -> Nat]
      /\ \A n \in Messages :
           /\ queue[n] > 0 => queue'[n] > 0
           /\ n.event = e => queue'[n] > 0
           /\ queue'[n] > 0 => queue[n] > 0 \/ n.event = e
  <2>1. {e} \in SUBSET Events /\ {} \in SUBSET Messages
    BY <1>1
  <2>. QED BY <1>1, <2>1, ExchangeDoes
<1>3. UNCHANGED <<source, left, letter, confirmed>>
  BY DEF tool
<1>4. TypeOK' /\ ToolIsSound'
  BY <1>1, <1>2, <1>3 DEF IInv, TypeOK, ToolIsSound
<1>5. outbox' \cup sent' = outbox \cup sent /\ outbox' \subseteq outbox
  BY <1>2
<1>6. OutboxesAreTrue'
  BY <1>1, <1>5 DEF OutboxesAreTrue
<1>7. CausesComeFirst'
  <2>1. e.type \in {"OrderCreated", "InventoryReserved",
                    "InventoryReservationFailed"}
    BY <1>1 DEF OutboxesAreTrue
  <2>2. \A o \in Orders, t \in {"PaymentAuthorized", "DeliveryBooked"} :
          Event(t, o) \in sent' => Event(t, o) \in sent
    BY <1>2, <2>1, EventsAreRecords DEF EventTypes
  <2>. QED BY <1>2, <2>2 DEF IInv, CausesComeFirst
<1>8. NotificationsAreCounted' /\ StatusIsRecorded'
  BY <1>2 DEF IInv, NotificationsAreCounted, StatusIsRecorded
<1>9. NothingUndone
  BY <1>2 DEF NothingUndone
<1>10. MessagesAreFollowed'
  <2>1. ASSUME NEW n \in Messages, Carried(n) \/ n.event \in sent' \ sent
        PROVE  Carried(n)' \/ Done(n)'
    BY <1>2, <1>3, <2>1 DEF Carried
  <2>2. ASSUME NEW n \in Messages, Carried(n)'
        PROVE  n.event \in sent'
    BY <1>2, <1>3, <2>2 DEF Carried, IInv, MessagesAreFollowed
  <2>. QED BY <1>1, <1>9, <2>1, <2>2, FollowedOn DEF IInv
<1>. QED BY <1>4, <1>6, <1>7, <1>8, <1>10 DEF IInv

\* Services without orders satisfy the invariant.
LEMMA InitIsSafe == Init => IInv
<1>. SUFFICES ASSUME Init PROVE IInv
  OBVIOUS
<1>1. /\ sent = {} /\ queue = [m \in Messages |-> 0]
      /\ dead = [m \in Messages |-> 0]
      /\ source = None /\ left = 0 /\ letter = None /\ confirmed = FALSE
  BY DEF Init, RoutingInit, ToolInit
<1>2. /\ orders = {} /\ outbox = {} /\ notified = {} /\ recorded = {}
      /\ stock \in 0..MaxStock
      /\ decision = [o \in Orders |-> "none"]
      /\ told = [e \in Events |-> 0]
      /\ status = [o \in Orders |-> "Created"]
      /\ broken = {} /\ restarts = 0 /\ faults = 0
  BY DEF Init
<1>3. TypeOK
  BY <1>1, <1>2 DEF TypeOK
<1>4. OutboxesAreTrue /\ CausesComeFirst /\ StatusIsRecorded /\ ToolIsSound
  BY <1>1, <1>2 DEF OutboxesAreTrue, CausesComeFirst, StatusIsRecorded, ToolIsSound
<1>5. NotificationsAreCounted
  BY <1>1, <1>2 DEF NotificationsAreCounted
<1>6. MessagesAreFollowed
  BY <1>1, NoneAssumption DEF MessagesAreFollowed, Carried
<1>. QED BY <1>3, <1>4, <1>5, <1>6 DEF IInv
-----------------------------------------------------------------------------
(* The other steps. *)

\* An order is stored with its event.
LEMMA SubmitIsSafe ==
  ASSUME IInv, NEW o \in Orders, Submit(o)
  PROVE  IInv'
<1>1. /\ orders' = orders \cup {o} /\ o \notin orders
      /\ outbox' = outbox \cup {Event("OrderCreated", o)}
      /\ UNCHANGED <<sent, queue, dead, source, left, letter, confirmed, stock,
                     decision, notified, told, recorded, status, broken,
                     restarts, faults>>
  BY DEF Submit, tool
<1>2. Event("OrderCreated", o) \in Events
  BY EventsAreRecords DEF EventTypes
<1>3. TypeOK' /\ ToolIsSound'
  BY <1>1, <1>2 DEF IInv, TypeOK, ToolIsSound
<1>4. OutboxesAreTrue'
  <2>1. \A p \in Orders, t \in EventTypes :
          Event(t, p) \in outbox' \cup sent' <=>
            Event(t, p) \in outbox \cup sent \/ (t = "OrderCreated" /\ p = o)
    BY <1>1, EventsAreRecords DEF EventTypes
  <2>2. \A e \in outbox' : e.type \in {"OrderCreated", "InventoryReserved",
                                       "InventoryReservationFailed"}
    BY <1>1, EventsAreRecords DEF IInv, OutboxesAreTrue, EventTypes
  <2>. QED BY <1>1, <2>1, <2>2 DEF IInv, OutboxesAreTrue, EventTypes
<1>5. CausesComeFirst' /\ NotificationsAreCounted' /\ StatusIsRecorded'
  BY <1>1 DEF IInv, CausesComeFirst, NotificationsAreCounted, StatusIsRecorded
<1>6. MessagesAreFollowed'
  BY <1>1 DEF IInv, MessagesAreFollowed, Carried, Done
<1>. QED BY <1>3, <1>4, <1>5, <1>6 DEF IInv

\* The notification service forgets, which restarts counts.
LEMMA RestartIsSafe ==
  ASSUME IInv, RestartNotification
  PROVE  IInv'
<1>1. /\ notified' = {} /\ restarts' = restarts + 1 /\ faults' = faults + 1
      /\ UNCHANGED <<sent, queue, dead, source, left, letter, confirmed, orders,
                     outbox, stock, decision, told, recorded, status, broken>>
  BY DEF RestartNotification, Fault, tool
<1>2. TypeOK' /\ ToolIsSound'
  BY <1>1 DEF IInv, TypeOK, ToolIsSound
<1>3. NotificationsAreCounted'
  <2>1. \A e \in Events : told[e] \in Nat /\ restarts \in Nat
    BY DEF IInv, TypeOK
  <2>2. \A e \in Events : told[e] <= 1 + restarts'
    BY <1>1, <2>1 DEF IInv, NotificationsAreCounted
  <2>3. \A e \in Events : told[e] <= restarts'
    BY <1>1, <2>1 DEF IInv, NotificationsAreCounted
  <2>. QED BY <1>1, <2>2, <2>3 DEF IInv, NotificationsAreCounted
<1>4. OutboxesAreTrue' /\ CausesComeFirst' /\ StatusIsRecorded'
  BY <1>1 DEF IInv, OutboxesAreTrue, CausesComeFirst, StatusIsRecorded
<1>5. MessagesAreFollowed'
  BY <1>1 DEF IInv, MessagesAreFollowed, Carried, Done
<1>. QED BY <1>2, <1>3, <1>4, <1>5 DEF IInv

\* A message leaves its queue: it is done, or becomes a dead letter.
LEMMA LeavingIsSafe ==
  ASSUME IInv, NEW m \in Messages, queue[m] > 0, Exchange({}, {m}),
         UNCHANGED <<tool, services, broken, restarts, faults>>,
         \/ dead' = dead /\ Done(m)
         \/ dead' = Moved(dead, {m}, {})
  PROVE  IInv'
<1>1. /\ sent' = sent /\ queue' \in [Messages -> Nat]
      /\ \A n \in Messages :
           /\ queue[n] > 0 /\ n # m => queue'[n] > 0
           /\ queue'[n] > 0 => queue[n] > 0
  <2>1. {} \in SUBSET Events /\ {m} \in SUBSET Messages
    OBVIOUS
  <2>. QED BY <2>1, ExchangeDoes DEF IInv
<1>2. /\ dead' \in [Messages -> Nat]
      /\ \A n \in Messages :
           /\ dead[n] > 0 => dead'[n] > 0
           /\ dead'[n] > 0 => dead[n] > 0 \/ n = m
      /\ Done(m) \/ dead'[m] > 0
  BY MovedCounts DEF IInv, TypeOK
<1>3. UNCHANGED <<source, left, letter, confirmed, orders, outbox, stock,
                  decision, notified, told, recorded, status>>
  BY DEF tool, services
<1>4. TypeOK' /\ ToolIsSound'
  BY <1>1, <1>2, <1>3 DEF IInv, TypeOK, ToolIsSound
<1>5. \A n \in Messages :
        /\ Carried(n) => Carried(n)' \/ Done(n)
        /\ Carried(n)' => n.event \in sent
  BY <1>1, <1>2, <1>3 DEF IInv, MessagesAreFollowed, Carried
<1>. QED BY <1>1, <1>4, <1>5, MovingIsSafe

\* A service breaks or is repaired: nothing else changes.
LEMMA BreakingIsSafe ==
  ASSUME IInv, NEW q \in Queues, Break(q) \/ Repair(q)
  PROVE  IInv'
<1>1. /\ UNCHANGED <<sent, queue, dead, tool, services, restarts>>
      /\ UNCHANGED <<source, left, letter, confirmed, orders, outbox, stock,
                     decision, notified, told, recorded, status>>
      /\ broken' \subseteq Queues /\ faults' \in Nat
  BY DEF IInv, TypeOK, Break, Repair, Fault, tool, services
<1>2. TypeOK' /\ ToolIsSound'
  BY <1>1 DEF IInv, TypeOK, ToolIsSound
<1>3. \A n \in Messages :
        /\ Carried(n) => Carried(n)' \/ Done(n)
        /\ Carried(n)' => n.event \in sent
  BY <1>1 DEF IInv, MessagesAreFollowed, Carried
<1>. QED BY <1>1, <1>2, <1>3, MovingIsSafe

\* What the tool does while the services rest.
LEMMA ReplayingIsSafe ==
  ASSUME IInv, UNCHANGED <<services, broken, restarts>>, faults' \in Nat,
         \/ \E q \in Queues : StartReplay(q)
         \/ ReplayStep
         \/ ReplayFails
  PROVE  IInv'
<1>1. /\ UNCHANGED <<orders, outbox, stock, decision, notified, told, recorded,
                     status>>
      /\ sent' = sent
  BY DEF services, StartReplay, ReplayStep, GetLetter, Republish, AckLetter,
     EndReplay, ReplayFails
<1>2. /\ TypeOK /\ ToolIsSound /\ MessagesAreFollowed
      /\ queue \in [Messages -> Nat] /\ dead \in [Messages -> Nat]
      /\ left \in Nat
      /\ \A m \in Messages : m # None
      /\ \A q \in Queues : q # None
  BY NoneAssumption DEF IInv, TypeOK
<1>. SUFFICES /\ queue' \in [Messages -> Nat] /\ dead' \in [Messages -> Nat]
              /\ source' \in Queues \cup {None} /\ left' \in Nat
              /\ letter' \in Messages \cup {None} /\ confirmed' \in BOOLEAN
              /\ ToolIsSound'
              /\ \A m \in Messages : /\ Carried(m) => Carried(m)' \/ Done(m)
                                     /\ Carried(m)' => m.event \in sent
  <2>1. TypeOK'
    BY <1>1, <1>2 DEF TypeOK
  <2>. QED BY <1>1, <2>1, MovingIsSafe
<1>3. CASE \E q \in Queues : StartReplay(q)
  <2>1. /\ left' \in Nat /\ left' > 0
        /\ UNCHANGED <<letter, confirmed, queue, dead>> /\ source' \in Queues
    BY <1>3 DEF StartReplay
  <2>. QED
    BY <1>1, <1>2, <2>1 DEF TypeOK, ToolIsSound, MessagesAreFollowed, Carried
<1>4. CASE \E m \in Messages : GetLetter(m)
  <2>1. PICK m \in Messages : GetLetter(m)
    BY <1>4
  <2>2. /\ letter' = m /\ letter = None /\ left > 0 /\ dead[m] > 0
        /\ dead' = Moved(dead, {}, {m})
        /\ UNCHANGED <<source, left, confirmed, queue>>
    BY <2>1 DEF GetLetter
  <2>3. ~confirmed
    BY <1>2, <2>2 DEF ToolIsSound
  <2>4. m.event \in sent
    BY <1>2, <2>2 DEF MessagesAreFollowed, Carried
  <2>5. /\ dead' \in [Messages -> Nat]
        /\ \A n \in Messages :
             /\ dead[n] > 0 /\ n # m => dead'[n] > 0
             /\ dead'[n] > 0 => dead[n] > 0
    <3>1. \A n \in {m} \cap Messages : dead[n] > 0
      BY <2>2
    <3>. QED BY <1>2, <2>2, <3>1, MovedCounts
  <2>. QED
    BY <1>1, <1>2, <2>2, <2>3, <2>4, <2>5
       DEF TypeOK, ToolIsSound, MessagesAreFollowed, Carried
<1>5. CASE Republish
  <2>1. /\ letter \in Messages /\ letter # None
        /\ queue' = Moved(queue, {letter}, {}) /\ confirmed' = TRUE
        /\ UNCHANGED <<source, left, letter, dead>>
    BY <1>2, <1>5 DEF Republish, TypeOK
  <2>2. /\ queue' \in [Messages -> Nat]
        /\ queue'[letter] > 0 \/ letter \in {}
        /\ \A n \in Messages :
             /\ queue[n] > 0 => queue'[n] > 0
             /\ queue'[n] > 0 => queue[n] > 0 \/ n = letter
    BY <1>2, <2>1, MovedCounts
  <2>. QED
    BY <1>1, <1>2, <2>1, <2>2 DEF TypeOK, ToolIsSound, MessagesAreFollowed, Carried
<1>6. CASE AckLetter
  <2>1. /\ confirmed /\ letter' = None /\ confirmed' = FALSE /\ left' = left - 1
        /\ UNCHANGED <<source, queue, dead>>
    BY <1>6 DEF AckLetter
  <2>2. left > 0
    BY <1>2, <2>1 DEF ToolIsSound
  <2>3. left' \in Nat
    BY <1>2, <2>1, <2>2
  <2>4. ToolIsSound'
    BY <2>1 DEF ToolIsSound
  <2>5. \A m \in Messages :
          /\ Carried(m) => Carried(m)'
          /\ Carried(m)' => Carried(m)
    BY <1>2, <2>1 DEF Carried
  <2>6. \A m \in Messages : Carried(m)' => m.event \in sent
    BY <1>2, <2>5 DEF MessagesAreFollowed
  <2>7. /\ queue' \in [Messages -> Nat] /\ dead' \in [Messages -> Nat]
        /\ source' \in Queues \cup {None}
        /\ letter' \in Messages \cup {None} /\ confirmed' \in BOOLEAN
    BY <1>2, <2>1 DEF TypeOK
  <2>. QED
    BY <2>3, <2>4, <2>5, <2>6, <2>7
<1>7. CASE EndReplay
  <2>1. /\ letter = None /\ source' = None /\ left' = 0
        /\ UNCHANGED <<letter, confirmed, queue, dead>>
    BY <1>7 DEF EndReplay
  <2>. QED
    BY <1>1, <1>2, <2>1 DEF TypeOK, ToolIsSound, MessagesAreFollowed, Carried
<1>8. CASE ReplayFails
  <2>1. /\ dead' = Moved(dead, {letter}, {})
        /\ source' = None /\ left' = 0 /\ letter' = None /\ confirmed' = FALSE
        /\ UNCHANGED queue
    BY <1>8 DEF ReplayFails
  <2>2. /\ dead' \in [Messages -> Nat]
        /\ \A n \in Messages :
             /\ n = letter => dead'[n] > 0
             /\ dead[n] > 0 => dead'[n] > 0
             /\ dead'[n] > 0 => dead[n] > 0 \/ n = letter
    BY <1>2, <2>1, MovedCounts
  <2>. QED
    BY <1>1, <1>2, <2>1, <2>2 DEF TypeOK, ToolIsSound, MessagesAreFollowed, Carried
<1>. QED BY <1>3, <1>4, <1>5, <1>6, <1>7, <1>8 DEF ReplayStep

\* Every step preserves the invariant.
LEMMA StepsAreSafe == IInv /\ [Next]_vars => IInv'
<1>. SUFFICES ASSUME IInv, [Next]_vars PROVE IInv'
  OBVIOUS
<1>1. ASSUME NEW o \in Orders, Submit(o) PROVE IInv'
  BY <1>1, SubmitIsSafe
<1>2. ASSUME NEW e \in Events, Relay(e) PROVE IInv'
  <2>1. e \in outbox /\ faults' \in Nat
    BY <1>2 DEF Relay, IInv, TypeOK
  <2>. QED BY <1>2, <2>1, RelayingIsSafe DEF Relay
<1>3. ASSUME NEW e \in Events, RelayAgain(e) PROVE IInv'
  <2>1. /\ e \in outbox /\ faults' \in Nat
        /\ UNCHANGED <<orders, outbox, stock, decision, notified, told, recorded,
                       status>>
    BY <1>3 DEF RelayAgain, Fault, IInv, TypeOK, services
  <2>. QED BY <1>3, <2>1, RelayingIsSafe DEF RelayAgain
<1>4. ASSUME NEW m \in Messages, Consume(m) PROVE IInv'
  <2>1. {m} \in SUBSET {m} /\ faults' \in Nat
    BY <1>4 DEF Consume, IInv, TypeOK
  <2>. QED BY <1>4, <2>1, HandlingIsSafe DEF Consume
<1>5. ASSUME NEW m \in Messages, ConsumeAgain(m) PROVE IInv'
  <2>1. {} \in SUBSET {m} /\ faults' \in Nat
    BY <1>5 DEF ConsumeAgain, Fault, IInv, TypeOK
  <2>. QED BY <1>5, <2>1, HandlingIsSafe DEF ConsumeAgain
<1>6. ASSUME NEW m \in Messages, ConsumeAndReject(m) PROVE IInv'
  <2>1. {m} \in SUBSET {m} /\ faults' \in Nat
    BY <1>6 DEF ConsumeAndReject, Fault, IInv, TypeOK
  <2>. QED BY <1>6, <2>1, HandlingIsSafe DEF ConsumeAndReject
<1>7. ASSUME NEW m \in Messages, Skip(m) PROVE IInv'
  BY <1>7, LeavingIsSafe DEF Skip
<1>8. ASSUME NEW m \in Messages, GiveUp(m) PROVE IInv'
  BY <1>8, LeavingIsSafe DEF GiveUp
<1>9. ASSUME NEW q \in Queues, Break(q) \/ Repair(q) PROVE IInv'
  BY <1>9, BreakingIsSafe
<1>10. ASSUME NEW q \in Queues, Replay(StartReplay(q)) PROVE IInv'
  BY <1>10, ReplayingIsSafe DEF Replay, IInv, TypeOK
<1>11. CASE RestartNotification
  BY <1>11, RestartIsSafe
<1>12. CASE Replay(ReplayStep)
  BY <1>12, ReplayingIsSafe DEF Replay, IInv, TypeOK
<1>13. CASE ToolFault
  BY <1>13, ReplayingIsSafe DEF ToolFault, Fault, IInv, TypeOK
<1>14. CASE UNCHANGED vars
  <2>1. UNCHANGED <<sent, queue, dead, source, left, letter, confirmed, orders,
                    outbox, stock, decision, notified, told, recorded, status,
                    broken, restarts, faults>>
    BY <1>14 DEF vars, tool, services
  <2>. QED
    BY <2>1 DEF IInv, TypeOK, OutboxesAreTrue, CausesComeFirst,
       MessagesAreFollowed, Carried, Done, NotificationsAreCounted,
       StatusIsRecorded, ToolIsSound
<1>. QED
  BY <1>1, <1>2, <1>3, <1>4, <1>5, <1>6, <1>7, <1>8, <1>9, <1>10, <1>11, <1>12,
     <1>13, <1>14 DEF Next

\* Every state of the workflow satisfies the invariant above.
THEOREM Invariance == Spec => []IInv
<1>1. Init => IInv
  BY InitIsSafe
<1>2. IInv /\ [Next]_vars => IInv'
  BY StepsAreSafe
<1>. QED BY <1>1, <1>2, PTL DEF Spec
-----------------------------------------------------------------------------
(* Theorems. *)

\* Every variable keeps its type.
THEOREM TypeCorrect == Spec => []TypeOK
<1>1. IInv => TypeOK
  BY DEF IInv
<1>. QED BY <1>1, Invariance, PTL

\* Whatever fails, an order's next event is in an outbox, or on its way, or a
\* dead letter (submitOrder, the relays, the consumers, replayDeadLetters).
THEOREM NoOrderForgotten == Spec => []NothingForgotten
<1>1. IInv => NothingForgotten
  BY DEF IInv, TypeOK, NothingForgotten, OutboxesAreTrue, MessagesAreFollowed
<1>. QED BY <1>1, Invariance, PTL

\* Customers hear of an outcome once between two restarts of the service that
\* remembers whom it told (findNotification, createNotification).
THEOREM ToldOnce == Spec => []NotifiedOnce
<1>1. IInv => NotifiedOnce
  BY DEF IInv, NotifiedOnce, NotificationsAreCounted
<1>. QED BY <1>1, Invariance, PTL

\* What a step can publish, by type.
LEMMA WhatIsSent ==
  ASSUME IInv, [Next]_vars, NEW e \in sent' \ sent
  PROVE  /\ e \in Events
         /\ e.type = "PaymentAuthorized" => Event("OrderCreated", e.order) \in sent
         /\ e.type = "DeliveryBooked" => Event("InventoryReserved", e.order) \in sent
         /\ e.type \in {"InventoryReserved", "InventoryReservationFailed"} =>
              e \in outbox
<1>1. \A r \in Events : r \in outbox =>
        r.type \in {"OrderCreated", "InventoryReserved",
                    "InventoryReservationFailed"}
  BY DEF IInv, OutboxesAreTrue
<1>2. ASSUME NEW r \in Events, Relay(r) \/ RelayAgain(r)
      PROVE  e = r /\ r \in outbox
  BY <1>2 DEF Relay, RelayAgain, Exchange
<1>3. ASSUME NEW m \in Messages,
             Consume(m) \/ ConsumeAgain(m) \/ ConsumeAndReject(m)
      PROVE  e \in Published(m) /\ m.event \in sent
  BY <1>3 DEF Consume, ConsumeAgain, ConsumeAndReject, Exchange, IInv,
     MessagesAreFollowed, Carried
<1>4. ASSUME NEW m \in Messages, e \in Published(m), m.event \in sent
      PROVE  /\ e \in Events
             /\ \/ /\ e = Event("PaymentAuthorized", m.event.order)
                   /\ m.event = Event("OrderCreated", m.event.order)
                \/ /\ e = Event("DeliveryBooked", m.event.order)
                   /\ m.event = Event("InventoryReserved", m.event.order)
  BY <1>4, RoutingIsFixed, MessagesAreRecords, EventsAreRecords
     DEF Published, EventTypes
<1>5. \/ \E r \in Events : Relay(r) \/ RelayAgain(r)
      \/ \E m \in Messages : Consume(m) \/ ConsumeAgain(m) \/ ConsumeAndReject(m)
  <2>1. sent' # sent
    OBVIOUS
  <2>2. ~UNCHANGED vars
    BY <2>1 DEF vars
  <2>3. \A o \in Orders : ~Submit(o)
    BY <2>1 DEF Submit
  <2>4. \A m \in Messages : ~Skip(m) /\ ~GiveUp(m)
    BY <2>1 DEF Skip, GiveUp, Exchange
  <2>5. \A q \in Queues : ~Break(q) /\ ~Repair(q) /\ ~Replay(StartReplay(q))
    BY <2>1 DEF Break, Repair, Replay, StartReplay
  <2>6. ~RestartNotification /\ ~Replay(ReplayStep) /\ ~ToolFault
    BY <2>1 DEF RestartNotification, Replay, ReplayStep, ToolFault, GetLetter,
       Republish, AckLetter, EndReplay, ReplayFails
  <2>. QED BY <2>2, <2>3, <2>4, <2>5, <2>6 DEF Next
<1>6. CASE \E r \in Events : Relay(r) \/ RelayAgain(r)
  BY <1>1, <1>2, <1>6
<1>7. CASE \E m \in Messages : Consume(m) \/ ConsumeAgain(m) \/ ConsumeAndReject(m)
  <2>1. PICK m \in Messages : e \in Published(m) /\ m.event \in sent
    BY <1>3, <1>7
  <2>2. m.event.order \in Orders
    BY MessagesAreRecords, EventsAreRecords
  <2>. QED BY <1>4, <2>1, <2>2, EventsAreRecords DEF EventTypes
<1>. QED BY <1>5, <1>6, <1>7

\* Services publish an event after the one that causes it, and one of the two
\* decisions only: what OrderTimeline assumes of the other services.
THEOREM ToldInOrder == Spec => ToldAsAssumed
<1>1. ASSUME IInv, [Next]_vars, NEW e \in sent' \ sent, e.type # "OrderCreated"
      PROVE  Timeline!MayTell(e)
  <2>1. /\ e \in Events /\ e.order \in Orders /\ e.type \in EventTypes
        /\ e = Event(e.type, e.order)
    BY <1>1, WhatIsSent, EventsAreRecords
  <2>2. ASSUME NEW t \in EventTypes \ {"OrderCreated"}
        PROVE  Timeline!Told(e.order, t) <=> Event(t, e.order) \in sent
    <3>1. [order |-> e.order, type |-> t]
            \in [order : Orders, type : EventTypes \ {"OrderCreated"}]
      BY <2>1
    <3>2. Event(t, e.order) = [order |-> e.order, type |-> t]
      BY DEF Event
    <3>. QED
      BY <3>1, <3>2 DEF Timeline!Told, Timeline!Events, Timeline!Types, EventTypes
  <2>3. CASE e.type = "PaymentAuthorized"
    BY <2>3 DEF Timeline!MayTell
  <2>4. CASE e.type = "DeliveryBooked"
    <3>1. Event("InventoryReserved", e.order) \in sent
      BY <1>1, <2>4, WhatIsSent
    <3>. QED BY <2>2, <2>4, <3>1 DEF Timeline!MayTell, EventTypes
  <2>5. CASE e.type \in {"InventoryReserved", "InventoryReservationFailed"}
    <3>1. e \in outbox
      BY <1>1, <2>5, WhatIsSent
    <3>2. decision[e.order] =
            IF e.type = "InventoryReserved" THEN "Reserved" ELSE "Rejected"
      BY <1>1, <2>1, <2>5, <3>1 DEF IInv, OutboxesAreTrue
    <3>3. /\ Event("PaymentAuthorized", e.order) \in sent
          /\ e.type = "InventoryReserved" =>
               Event("InventoryReservationFailed", e.order) \notin sent
          /\ e.type = "InventoryReservationFailed" =>
               Event("InventoryReserved", e.order) \notin sent
      BY <1>1, <2>1, <2>5, <3>2 DEF IInv, OutboxesAreTrue, CausesComeFirst
    <3>. QED BY <2>2, <2>5, <3>3 DEF Timeline!MayTell, EventTypes
  <2>. QED BY <1>1, <2>1, <2>3, <2>4, <2>5 DEF EventTypes
<1>2. IInv /\ [Next]_vars =>
        \A e \in sent' \ sent : e.type # "OrderCreated" => Timeline!MayTell(e)
  BY <1>1
<1>. QED BY <1>2, Invariance, PTL DEF Spec, ToldAsAssumed
-----------------------------------------------------------------------------
(* The system keeps its promise. *)

Stages == [o \in Orders |-> Stage(o)]
Outcomes == [o \in Orders |-> {t \in EventTypes : told[Event(t, o)] > 0}]

\* What an order's stage says of it.
LEMMA StagesAreFacts ==
  ASSUME IInv, NEW o \in Orders
  PROVE  /\ Stage(o) = "none" <=> o \notin orders
         /\ Event("PaymentAuthorized", o) \in sent => o \in orders
         /\ decision[o] # "none" => Event("PaymentAuthorized", o) \in sent
         /\ Event("DeliveryBooked", o) \in sent => decision[o] = "Reserved"
         /\ Event("DeliveryBooked", o) \in sent => Stage(o) = "DeliveryBooked"
         /\ Event("InventoryReservationFailed", o) \in sent =>
              Stage(o) = "InventoryReservationFailed"
<1>1. /\ decision[o] \in {"none", "Reserved", "Rejected"}
      /\ Event("PaymentAuthorized", o) \in sent => o \in orders
      /\ decision[o] # "none" => Event("PaymentAuthorized", o) \in sent
      /\ Event("DeliveryBooked", o) \in sent => decision[o] = "Reserved"
      /\ Event("InventoryReservationFailed", o) \in sent => decision[o] = "Rejected"
  BY DEF IInv, TypeOK, OutboxesAreTrue, CausesComeFirst
<1>. QED BY <1>1 DEF Stage

\* The customer hears of nothing else.
LEMMA OutcomesAreFinal ==
  ASSUME IInv, NEW o \in Orders, NEW t \in EventTypes, told[Event(t, o)] > 0
  PROVE  t = Stage(o) /\ t \in Promise!Final
<1>1. Event(t, o) \in sent /\ t \in {"DeliveryBooked", "InventoryReservationFailed"}
  BY EventsAreRecords DEF IInv, NotificationsAreCounted
<1>. QED BY <1>1, StagesAreFacts DEF Promise!Final

\* A step that changes no stage and tells nobody anything maps to a stutter.
LEMMA StutterMaps ==
  ASSUME UNCHANGED <<orders, decision, told, status>>,
         \A o \in Orders, t \in {"PaymentAuthorized", "DeliveryBooked"} :
           Event(t, o) \in sent' <=> Event(t, o) \in sent
  PROVE  UNCHANGED Promise!vars
<1>1. \A o \in Orders : Stage(o)' = Stage(o)
  BY DEF Stage
<1>. QED BY <1>1 DEF Promise!vars

\* A step that takes one order a stage further maps to that step.
LEMMA AdvanceMaps ==
  ASSUME NEW o \in Orders, Stage(o)' \in Promise!After(Stage(o)),
         \A p \in Orders \ {o} : Stage(p)' = Stage(p),
         UNCHANGED <<told, status>>
  PROVE  Promise!Next
<1>1. [p \in Orders |-> Stage(p)'] =
        [[p \in Orders |-> Stage(p)] EXCEPT ![o] = Stage(o)']
  OBVIOUS
<1>2. Promise!Advance(o)
  BY <1>1 DEF Promise!Advance
<1>. QED BY <1>2 DEF Promise!Next

\* What a handler does is a step of the promise, or none.
LEMMA HandlingMaps ==
  ASSUME IInv, IInv', NEW m \in Messages, m.event \in sent, Handle(m),
         sent' = sent \cup Published(m)
  PROVE  [Promise!Next]_Promise!vars
<1>. DEFINE o == m.event.order
<1>1. /\ m.event \in Events /\ o \in Orders /\ m.event.type \in EventTypes
      /\ m.event = Event(m.event.type, o)
  BY MessagesAreRecords, EventsAreRecords
<1>2. ASSUME NEW t \in {"PaymentAuthorized", "DeliveryBooked"},
             UNCHANGED services, sent' = sent \cup {Event(t, o)}
      PROVE  [Promise!Next]_Promise!vars
  <2>1. UNCHANGED <<orders, decision, told, status>>
    BY <1>2 DEF services
  <2>2. \A p \in Orders, u \in EventTypes :
          Event(u, p) \in sent' <=> Event(u, p) \in sent \/ (u = t /\ p = o)
    BY <1>1, <1>2, EventsAreRecords DEF EventTypes
  <2>3. CASE Event(t, o) \in sent
    <3>1. UNCHANGED Promise!vars
      BY <2>1, <2>2, <2>3, StutterMaps DEF EventTypes
    <3>. QED BY <3>1
  <2>4. CASE Event(t, o) \notin sent
    <3>1. \A p \in Orders \ {o} : Stage(p)' = Stage(p)
      BY <2>1, <2>2 DEF Stage, EventTypes
    <3>2. Stage(o)' \in Promise!After(Stage(o))
      <4>1. /\ Event("PaymentAuthorized", o) \in sent' => o \in orders
            /\ decision[o] # "none" => Event("PaymentAuthorized", o) \in sent
            /\ Event("DeliveryBooked", o) \in sent => decision[o] = "Reserved"
            /\ Event("DeliveryBooked", o) \in sent' => decision'[o] = "Reserved"
            /\ decision'[o] # "none" => Event("PaymentAuthorized", o) \in sent'
        BY <1>1, <2>1, StagesAreFacts DEF IInv, CausesComeFirst, OutboxesAreTrue
      <4>2. CASE t = "PaymentAuthorized"
        <5>1. /\ o \in orders /\ o \in orders' /\ decision[o] = "none"
              /\ decision'[o] = "none"
              /\ Event("PaymentAuthorized", o) \notin sent
              /\ Event("PaymentAuthorized", o) \in sent'
          BY <1>1, <2>1, <2>2, <2>4, <4>1, <4>2 DEF EventTypes
        <5>2. Stage(o) = "Created" /\ Stage(o)' = "PaymentAuthorized"
          BY <5>1 DEF Stage
        <5>. QED BY <5>2 DEF Promise!After
      <4>3. CASE t = "DeliveryBooked"
        <5>1. /\ o \in orders /\ o \in orders' /\ decision[o] = "Reserved"
              /\ decision'[o] = "Reserved"
              /\ Event("PaymentAuthorized", o) \in sent
              /\ Event("PaymentAuthorized", o) \in sent'
              /\ Event("DeliveryBooked", o) \notin sent
              /\ Event("DeliveryBooked", o) \in sent'
          BY <1>1, <2>1, <2>2, <2>4, <4>1, <4>3 DEF EventTypes
        <5>2. Stage(o) = "InventoryReserved" /\ Stage(o)' = "DeliveryBooked"
          BY <5>1 DEF Stage
        <5>. QED BY <5>2 DEF Promise!After
      <4>. QED BY <4>2, <4>3
    <3>3. Promise!Next
      BY <1>1, <2>1, <3>1, <3>2, AdvanceMaps
    <3>. QED BY <3>3
  <2>. QED BY <2>3, <2>4
<1>3. CASE m.queue = "payment"
  BY <1>2, <1>3 DEF Handle, PublishOnly, Published
<1>4. CASE m.queue = "delivery"
  BY <1>2, <1>4 DEF Handle, PublishOnly, Published
<1>5. CASE m.queue = "inventory"
  <2>1. /\ ReserveForPayment(o) /\ sent' = sent
        /\ Event("PaymentAuthorized", o) \in sent
        /\ UNCHANGED <<orders, told, status>>
    BY <1>1, <1>5, RoutingIsFixed DEF Handle, Published, ReserveForPayment
  <2>2. CASE decision[o] # "none"
    <3>1. UNCHANGED Promise!vars
      BY <2>1, <2>2, StutterMaps DEF ReserveForPayment
    <3>. QED BY <3>1
  <2>3. CASE decision[o] = "none"
    <3>1. /\ decision \in [Orders -> {"none", "Reserved", "Rejected"}]
          /\ o \in orders
          /\ Event("DeliveryBooked", o) \notin sent
      BY <1>1, <2>1, <2>3, StagesAreFacts DEF IInv, TypeOK
    <3>2. /\ decision'[o] \in {"Reserved", "Rejected"}
          /\ \A p \in Orders \ {o} : decision'[p] = decision[p]
      BY <1>1, <2>1, <2>3, <3>1 DEF ReserveForPayment
    <3>3. Stage(o) = "PaymentAuthorized"
      BY <2>1, <2>3, <3>1 DEF Stage
    <3>4. Stage(o)' \in {"InventoryReserved", "InventoryReservationFailed"}
      BY <2>1, <3>1, <3>2 DEF Stage
    <3>5. \A p \in Orders \ {o} : Stage(p)' = Stage(p)
      BY <2>1, <3>2 DEF Stage
    <3>6. Stage(o)' \in Promise!After(Stage(o))
      BY <3>3, <3>4 DEF Promise!After
    <3>7. Promise!Next
      BY <1>1, <2>1, <3>5, <3>6, AdvanceMaps
    <3>. QED BY <3>7
  <2>. QED BY <2>2, <2>3
<1>6. CASE m.queue = "notification"
  <2>1. /\ NotifyCustomer(m.event) /\ sent' = sent
        /\ m.event.type \in {"DeliveryBooked", "InventoryReservationFailed"}
        /\ UNCHANGED <<orders, decision, status>>
    BY <1>6, RoutingIsFixed DEF Handle, Published, NotifyCustomer
  <2>2. \A p \in Orders : Stage(p)' = Stage(p)
    BY <2>1 DEF Stage
  <2>3. CASE told' = told
    <3>1. UNCHANGED Promise!vars
      BY <2>1, <2>3, StutterMaps
    <3>. QED BY <3>1
  <2>4. CASE told' # told
    <3>1. /\ told \in [Events -> Nat]
          /\ told' = [told EXCEPT ![m.event] = @ + 1]
      BY <2>1, <2>4 DEF IInv, TypeOK, NotifyCustomer
    <3>2. /\ told'[m.event] > 0
          /\ \A e \in Events : e # m.event => told'[e] = told[e]
      BY <1>1, <3>1
    <3>3. Stage(o) = m.event.type /\ Stage(o) \in Promise!Final
      BY <1>1, <2>1, StagesAreFacts DEF Promise!Final
    <3>4. {t \in EventTypes : told'[Event(t, o)] > 0} = {Stage(o)}
      <4>1. \A t \in EventTypes : told[Event(t, o)] > 0 => t = Stage(o)
        BY <1>1, OutcomesAreFinal
      <4>2. \A t \in EventTypes : Event(t, o) \in Events
                                  /\ (Event(t, o) = m.event <=> t = m.event.type)
        BY <1>1, EventsAreRecords
      <4>. QED BY <1>1, <3>2, <3>3, <4>1, <4>2
    <3>5. \A p \in Orders \ {o}, t \in EventTypes :
            told'[Event(t, p)] = told[Event(t, p)]
      BY <1>1, <3>2, EventsAreRecords
    <3>6. Outcomes' = [Outcomes EXCEPT ![o] = {Stage(o)}]
      BY <1>1, <3>4, <3>5 DEF Outcomes
    <3>7. Promise!Notify(o)
      BY <1>1, <2>1, <2>2, <3>3, <3>6 DEF Promise!Notify, Outcomes
    <3>. QED BY <1>1, <3>7 DEF Promise!Next
  <2>. QED BY <2>3, <2>4
<1>7. CASE m.queue = "timeline"
  <2>1. /\ RecordWorkflowEvent(m.event) /\ sent' = sent
        /\ m.event.type \in EventTypes \ {"OrderCreated"}
        /\ UNCHANGED <<orders, decision, told>>
    BY <1>7, RoutingIsFixed DEF Handle, Published, RecordWorkflowEvent
  <2>2. CASE status' = status
    <3>1. UNCHANGED Promise!vars
      BY <2>1, <2>2, StutterMaps
    <3>. QED BY <3>1
  <2>3. CASE status' # status
    <3>1. /\ status \in [Orders -> (EventTypes \ {"OrderCreated"}) \cup {"Created"}]
          /\ status' = [status EXCEPT ![o] =
                          Timeline!ApplyWorkflowEvent(@, m.event.type)]
      BY <2>1, <2>3 DEF IInv, TypeOK, RecordWorkflowEvent
    <3>2. /\ status[o] # "InventoryReservationFailed"
          /\ ~(Timeline!Stage(m.event.type) <= Timeline!Stage(status[o]))
          /\ status' = [status EXCEPT ![o] = m.event.type]
      BY <1>1, <2>3, <3>1 DEF Timeline!ApplyWorkflowEvent
    <3>3. m.event.type \in Promise!Past(Stage(o))
      <4>1. /\ Event("PaymentAuthorized", o) \in sent
            /\ o \in orders
            /\ m.event.type = "InventoryReserved" => decision[o] = "Reserved"
            /\ m.event.type = "InventoryReservationFailed" => decision[o] = "Rejected"
            /\ m.event.type = "DeliveryBooked" => Stage(o) = "DeliveryBooked"
        BY <1>1, <2>1, StagesAreFacts
           DEF IInv, TypeOK, OutboxesAreTrue, CausesComeFirst, EventTypes
      <4>2. Stage(o) \in {"PaymentAuthorized", "InventoryReserved", "DeliveryBooked",
                          "InventoryReservationFailed"}
        BY <4>1 DEF Stage
      <4>3. /\ decision[o] = "Reserved" =>
                 Stage(o) \in {"InventoryReserved", "DeliveryBooked"}
            /\ decision[o] = "Rejected" => Stage(o) = "InventoryReservationFailed"
        BY <4>1 DEF Stage
      <4>. QED BY <2>1, <4>1, <4>2, <4>3 DEF Promise!Past, EventTypes
    <3>4. m.event.type \notin Promise!Past(status[o])
      <4>1. status[o] \in (EventTypes \ {"OrderCreated"}) \cup {"Created"}
        BY <1>1, <3>1
      <4>2. CASE status[o] = "Created"
        BY <2>1, <4>2 DEF Promise!Past, EventTypes
      <4>3. CASE status[o] = "PaymentAuthorized"
        BY <2>1, <3>2, <4>3 DEF Promise!Past, EventTypes, Timeline!Stage
      <4>4. CASE status[o] = "InventoryReserved"
        BY <2>1, <3>2, <4>4 DEF Promise!Past, EventTypes, Timeline!Stage
      <4>5. CASE status[o] = "DeliveryBooked"
        BY <2>1, <3>2, <4>5 DEF Promise!Past, EventTypes, Timeline!Stage
      <4>. QED BY <3>2, <4>1, <4>2, <4>3, <4>4, <4>5 DEF EventTypes
    <3>5. \A p \in Orders : Stage(p)' = Stage(p)
      BY <2>1 DEF Stage
    <3>6. Promise!Show(o)
      BY <1>1, <2>1, <3>2, <3>3, <3>4, <3>5 DEF Promise!Show
    <3>. QED BY <1>1, <3>6 DEF Promise!Next
  <2>. QED BY <2>2, <2>3
<1>. QED BY <1>3, <1>4, <1>5, <1>6, <1>7, RoutingIsFixed

\* Every step maps to a step of the promise or to a stutter.
LEMMA StepsMap == IInv /\ IInv' /\ [Next]_vars => [Promise!Next]_Promise!vars
<1>. SUFFICES ASSUME IInv, IInv', [Next]_vars PROVE [Promise!Next]_Promise!vars
  OBVIOUS
<1>1. ASSUME NEW m \in Messages, queue[m] > 0
      PROVE  m.event \in sent
  BY <1>1 DEF IInv, MessagesAreFollowed, Carried
<1>2. ASSUME NEW m \in Messages,
             Consume(m) \/ ConsumeAgain(m) \/ ConsumeAndReject(m)
      PROVE  [Promise!Next]_Promise!vars
  <2>1. queue[m] > 0 /\ Handle(m) /\ sent' = sent \cup Published(m)
    BY <1>2 DEF Consume, ConsumeAgain, ConsumeAndReject, Exchange
  <2>. QED BY <1>1, <2>1, HandlingMaps
<1>3. ASSUME NEW e \in Events, Relay(e) \/ RelayAgain(e)
      PROVE  UNCHANGED Promise!vars
  <2>1. /\ e \in outbox /\ sent' = sent \cup {e}
        /\ UNCHANGED <<orders, decision, told, status>>
    BY <1>3 DEF Relay, RelayAgain, Exchange, services
  <2>2. e.type \in {"OrderCreated", "InventoryReserved",
                    "InventoryReservationFailed"}
    BY <2>1 DEF IInv, OutboxesAreTrue
  <2>3. \A o \in Orders, t \in {"PaymentAuthorized", "DeliveryBooked"} :
          Event(t, o) \in sent' <=> Event(t, o) \in sent
    BY <2>1, <2>2, EventsAreRecords DEF EventTypes
  <2>. QED BY <2>1, <2>3, StutterMaps
<1>4. ASSUME NEW o \in Orders, Submit(o)
      PROVE  Promise!Next
  <2>1. /\ o \notin orders /\ orders' = orders \cup {o}
        /\ UNCHANGED <<sent, decision, told, status>>
    BY <1>4 DEF Submit
  <2>2. /\ Event("PaymentAuthorized", o) \notin sent
        /\ Stage(o) = "none"
    BY <2>1, StagesAreFacts
  <2>3. Stage(o)' = "Created"
    BY <2>1, <2>2 DEF Stage
  <2>4. \A p \in Orders \ {o} : Stage(p)' = Stage(p)
    BY <2>1 DEF Stage
  <2>5. Stage(o)' \in Promise!After(Stage(o))
    BY <2>2, <2>3 DEF Promise!After
  <2>. QED BY <2>1, <2>4, <2>5, AdvanceMaps
<1>5. ASSUME UNCHANGED <<sent, orders, decision, told, status>>
      PROVE  UNCHANGED Promise!vars
  BY <1>5, StutterMaps
<1>6. ASSUME NEW m \in Messages, Skip(m) \/ GiveUp(m)
      PROVE  UNCHANGED <<sent, orders, decision, told, status>>
  BY <1>6 DEF Skip, GiveUp, Exchange, services
<1>7. ASSUME NEW q \in Queues, Break(q) \/ Repair(q) \/ Replay(StartReplay(q))
      PROVE  UNCHANGED <<sent, orders, decision, told, status>>
  BY <1>7 DEF Break, Repair, Replay, StartReplay, services
<1>8. ASSUME RestartNotification \/ Replay(ReplayStep) \/ ToolFault
      PROVE  UNCHANGED <<sent, orders, decision, told, status>>
  BY <1>8 DEF RestartNotification, Replay, ReplayStep, ToolFault, GetLetter,
     Republish, AckLetter, EndReplay, ReplayFails, services
<1>9. CASE UNCHANGED vars
  BY <1>5, <1>9 DEF vars, services
<1>. QED
  BY <1>2, <1>3, <1>4, <1>5, <1>6, <1>7, <1>8, <1>9 DEF Next

\* Together the services keep the promise of WorkflowPromise: an order goes
\* through its stages once, its customer hears of the outcome that came about
\* and of no other, and its status follows.
THEOREM Implementation == Spec => PromiseKept
<1>1. Init => Promise!Init
  <2>. SUFFICES ASSUME Init PROVE Promise!Init
    OBVIOUS
  <2>1. /\ orders = {} /\ told = [e \in Events |-> 0]
        /\ status = [o \in Orders |-> "Created"]
    BY DEF Init
  <2>2. \A o \in Orders : Stage(o) = "none"
    BY <2>1, InitIsSafe, StagesAreFacts
  <2>3. \A o \in Orders, t \in EventTypes : ~(told[Event(t, o)] > 0)
    BY <2>1, EventsAreRecords
  <2>. QED BY <2>1, <2>2, <2>3 DEF Promise!Init
<1>2. IInv /\ IInv' /\ [Next]_vars => [Promise!Next]_Promise!vars
  BY StepsMap
<1>. QED BY <1>1, <1>2, Invariance, PTL DEF Spec, PromiseKept, Promise!Safe
=============================================================================
