------------------------- MODULE InventoryReservation -------------------------
(***************************************************************************)
(* The inventory service: concurrent deliveries of PaymentAuthorized, each *)
(* handled in one PostgreSQL transaction that takes the order's advisory   *)
(* lock, looks for an earlier decision, locks the stock rows of the order  *)
(* in product order, decides on the quantities it read, and commits the    *)
(* new stock, the reservation row and the outbox event together.           *)
(*                                                                         *)
(* A worker is one delivery in progress, in any process of the service;    *)
(* messages may be duplicated and are redelivered when they were not       *)
(* acknowledged.  The writes of a transaction become visible when it       *)
(* commits, so they are part of that step; the locks it waits for are      *)
(* steps of their own.  "faults" counts failed statements, lost            *)
(* connections, crashes and lost acknowledgements.  Dead-lettering after   *)
(* the last attempt is not part of this module.                            *)
(***************************************************************************)
EXTENDS Naturals, Sequences, FiniteSets, Quantities

CONSTANTS Orders,        \* order ids
          Products,      \* product ids, ordered as ORDER BY product_id does
          Stocked,       \* products that have a row in inventory_stock
          Items,         \* the lines of each order: a product and a quantity
          InitialStock,  \* the seeded quantities
          Workers,       \* deliveries handled at the same time
          NoOrder,       \* the order of a worker without a delivery
          MaxCopies,     \* bound on the copies sent of one event
          MaxFaults      \* bound on the faults of a behaviour

ASSUME ProductAssumption == Products \subseteq Nat /\ Stocked \subseteq Products
ASSUME QuantityAssumption ==
  /\ Items \in [Orders -> Seq([product : Products, quantity : Nat \ {0}])]
  /\ InitialStock \in [Stocked -> Nat]
ASSUME OrderAssumption == NoOrder \notin Orders
ASSUME BoundAssumption == MaxCopies \in Nat /\ MaxFaults \in Nat

\* aggregateQuantities: how many of each product the order asks for.
Requested == [o \in Orders |-> AggregateQuantities(Products, Items[o])]

VARIABLES
  stock,        \* inventory_stock.quantity
  reservation,  \* status of the row in inventory_reservations, or "none"
  events,       \* result events inserted into inventory_outbox, per order
  sent,         \* copies of PaymentAuthorized the broker accepted
  queue,        \* copies waiting in the service's queue
  pc,           \* where each worker is
  order,        \* the order of the worker's delivery
  rows,         \* stock rows the worker's transaction has locked
  seen,         \* quantities lockStock has returned
  faults        \* faults so far

messages == <<sent, queue>>
tables == <<stock, reservation, events>>
vars == <<stock, reservation, events, sent, queue, pc, order, rows, seen,
          faults>>

Statuses == {"Reserved", "Rejected"}

NothingSeen == [p \in Products |-> 0]

TypeOK ==
  /\ stock \in [Stocked -> Nat]
  /\ reservation \in [Orders -> Statuses \cup {"none"}]
  /\ events \in [Orders -> Seq(Statuses)]
  /\ sent \in [Orders -> Nat]
  /\ queue \in [Orders -> Nat]
  /\ pc \in [Workers -> {"idle", "order", "stock", "ack"}]
  /\ order \in [Workers -> Orders \cup {NoOrder}]
  /\ \A w \in Workers : order[w] = NoOrder <=> pc[w] = "idle"
  /\ rows \in [Workers -> SUBSET Stocked]
  /\ seen \in [Workers -> [Products -> Nat]]
  /\ faults \in Nat

Init ==
  /\ stock = InitialStock
  /\ reservation = [o \in Orders |-> "none"]
  /\ events = [o \in Orders |-> <<>>]
  /\ sent = [o \in Orders |-> 0]
  /\ queue = [o \in Orders |-> 0]
  /\ pc = [w \in Workers |-> "idle"]
  /\ order = [w \in Workers |-> NoOrder]
  /\ rows = [w \in Workers |-> {}]
  /\ seen = [w \in Workers |-> NothingSeen]
  /\ faults = 0
-----------------------------------------------------------------------------
(* Helpers. *)

\* A fault is one more of a bounded number of things that go wrong.
Fault == faults < MaxFaults /\ faults' = faults + 1

\* The products the order asks for.
Wanted(o) == {p \in Products : Requested[o][p] > 0}

\* Rows lockStock still has to lock for worker w.
Missing(w) == (Wanted(order[w]) \cap Stocked) \ rows[w]

\* Another transaction holds the advisory lock of worker w's order.
OrderLocked(w) ==
  \E v \in Workers \ {w} : pc[v] = "stock" /\ order[v] = order[w]

\* Faulty variant: lockStock without FOR UPDATE.
RowNotLocked(w, p) == FALSE

\* Another transaction has locked the row of product p.
RowLocked(w, p) == \E v \in Workers \ {w} : p \in rows[v]

\* Faulty variant: rows are locked in any order.
AnyRow(w, p) == p \in Missing(w)

\* ORDER BY product_id FOR UPDATE: the row lockStock comes to next.
NextRow(w, p) == p \in Missing(w) /\ \A q \in Missing(w) : p <= q

\* Faulty variant: the last unit is never sold.
UnavailableOrLast(w) ==
  {p \in Wanted(order[w]) : seen[w][p] <= Requested[order[w]][p]}

\* findUnavailableItems: a product without a row counts as 0.
Unavailable(w) ==
  {p \in Wanted(order[w]) : seen[w][p] < Requested[order[w]][p]}

Decision(w) == IF Unavailable(w) = {} THEN "Reserved" ELSE "Rejected"

\* decrementStock: UPDATE .. SET quantity = stock.quantity - requested.quantity
StockAfter(w) ==
  [p \in Stocked |-> stock[p] - Requested[order[w]][p]]

\* What the database or the row count would refuse: a second reservation row
\* of the order, a negative quantity, a product without a row to decrement.
Backstop(w) ==
  \/ reservation[order[w]] # "none"
  \/ /\ Decision(w) = "Reserved"
     /\ \/ \E p \in Stocked : stock[p] < Requested[order[w]][p]
        \/ ~(Wanted(order[w]) \subseteq Stocked)

\* The transaction is over: its locks are released.
Unlock(w) ==
  /\ rows' = [rows EXCEPT ![w] = {}]
  /\ seen' = [seen EXCEPT ![w] = NothingSeen]

\* Faulty variant: a failed delivery is acknowledged.
RetryOrDrop(w) ==
  \/ /\ pc' = [pc EXCEPT ![w] = "order"]
     /\ UNCHANGED <<order, queue>>
  \/ /\ pc' = [pc EXCEPT ![w] = "ack"]
     /\ UNCHANGED <<order, queue>>

\* The handler is tried again in place, or its message is redelivered.
RetryOrRequeue(w) ==
  \/ /\ pc' = [pc EXCEPT ![w] = "order"]
     /\ UNCHANGED <<order, queue>>
  \/ /\ pc' = [pc EXCEPT ![w] = "idle"]
     /\ order' = [order EXCEPT ![w] = NoOrder]
     /\ queue' = [queue EXCEPT ![order[w]] = @ + 1]
-----------------------------------------------------------------------------
(* Messages. *)

\* The payment service publishes an order's event, perhaps repeatedly.
Arrive(o) ==
  /\ sent[o] < MaxCopies
  /\ sent' = [sent EXCEPT ![o] = @ + 1]
  /\ queue' = [queue EXCEPT ![o] = @ + 1]
  /\ UNCHANGED <<tables, pc, order, rows, seen, faults>>

\* The broker hands a message to the consumer; its transaction begins.
Deliver(w, o) ==
  /\ pc[w] = "idle" /\ queue[o] > 0
  /\ queue' = [queue EXCEPT ![o] = @ - 1]
  /\ order' = [order EXCEPT ![w] = o]
  /\ pc' = [pc EXCEPT ![w] = "order"]
  /\ UNCHANGED <<tables, sent, rows, seen, faults>>

Ack(w) ==
  /\ pc[w] = "ack"
  /\ pc' = [pc EXCEPT ![w] = "idle"]
  /\ order' = [order EXCEPT ![w] = NoOrder]
  /\ UNCHANGED <<tables, messages, rows, seen, faults>>

\* The connection or the process is lost before the acknowledgement.
AckLost(w) ==
  /\ pc[w] = "ack" /\ Fault
  /\ pc' = [pc EXCEPT ![w] = "idle"]
  /\ order' = [order EXCEPT ![w] = NoOrder]
  /\ queue' = [queue EXCEPT ![order[w]] = @ + 1]
  /\ UNCHANGED <<tables, sent, rows, seen>>
-----------------------------------------------------------------------------
(* The transaction of reserveForPayment. *)

\* lockOrder gets the lock and finds no decision.
LockOrder(w) ==
  /\ pc[w] = "order" /\ ~OrderLocked(w)
  /\ reservation[order[w]] = "none"
  /\ pc' = [pc EXCEPT ![w] = "stock"]
  /\ UNCHANGED <<tables, messages, order, rows, seen, faults>>

\* lockOrder gets the lock and finds the order decided: the transaction ends
\* without a change and the handler returns.
Duplicate(w) ==
  /\ pc[w] = "order" /\ ~OrderLocked(w)
  /\ reservation[order[w]] # "none"
  /\ pc' = [pc EXCEPT ![w] = "ack"]
  /\ UNCHANGED <<tables, messages, order, rows, seen, faults>>

\* lockStock locks and reads one more row.
LockRow(w, p) ==
  /\ pc[w] = "stock" /\ NextRow(w, p) /\ ~RowLocked(w, p)
  /\ rows' = [rows EXCEPT ![w] = @ \cup {p}]
  /\ seen' = [seen EXCEPT ![w][p] = stock[p]]
  /\ UNCHANGED <<tables, messages, pc, order, faults>>

\* The writes of the transaction take effect.
Decide(w) ==
  /\ reservation' = [reservation EXCEPT ![order[w]] = Decision(w)]
  /\ events' = [events EXCEPT ![order[w]] = Append(@, Decision(w))]
  /\ stock' = IF Decision(w) = "Reserved" THEN StockAfter(w) ELSE stock

ReadyToDecide(w) == pc[w] = "stock" /\ Missing(w) = {}

\* COMMIT, and the handler returns; or the writes are refused: ROLLBACK and
\* another attempt.
Commit(w) ==
  /\ ReadyToDecide(w)
  /\ Unlock(w)
  /\ IF Backstop(w)
       THEN pc' = [pc EXCEPT ![w] = "order"] /\ UNCHANGED tables
       ELSE pc' = [pc EXCEPT ![w] = "ack"] /\ Decide(w)
  /\ UNCHANGED <<messages, order, faults>>

\* COMMIT takes effect, but the service sees an error.
CommitLost(w) ==
  /\ ReadyToDecide(w) /\ ~Backstop(w) /\ Fault
  /\ Decide(w)
  /\ Unlock(w)
  /\ RetryOrRequeue(w)
  /\ UNCHANGED sent

\* A statement fails, the connection breaks or the process dies: ROLLBACK.
Fail(w) ==
  /\ pc[w] \in {"order", "stock"} /\ Fault
  /\ Unlock(w)
  /\ RetryOrRequeue(w)
  /\ UNCHANGED <<tables, sent>>
-----------------------------------------------------------------------------
WorkerStep(w) ==
  \/ Ack(w) \/ LockOrder(w) \/ Duplicate(w) \/ Commit(w)
  \/ \E p \in Stocked : LockRow(w, p)
  \/ \E o \in Orders : Deliver(w, o)

WorkerFault(w) == AckLost(w) \/ CommitLost(w) \/ Fail(w)

Next ==
  \/ \E o \in Orders : Arrive(o)
  \/ \E w \in Workers : WorkerStep(w) \/ WorkerFault(w)

Spec == Init /\ [][Next]_vars

\* Each worker goes on whenever it can: statements return, and PostgreSQL grants
\* free locks.  There are finitely many messages, so nothing more need be assumed
\* of who gets which, or of the order of locks.
Fairness == \A w \in Workers : WF_vars(WorkerStep(w))

FairSpec == Spec /\ Fairness
-----------------------------------------------------------------------------
(* Properties. *)

\* The locks make the last lines of defence unnecessary: no transaction is
\* ever refused by the primary key of inventory_reservations, by the CHECK on
\* quantity or by decrementStock's row count, however deliveries overlap.
BackstopsNeverFire == \A w \in Workers : ReadyToDecide(w) => ~Backstop(w)

\* What worker w waits for is held by worker v.
WaitsFor(w, v) ==
  /\ v # w
  /\ \/ pc[w] = "order" /\ pc[v] = "stock" /\ order[v] = order[w]
     \/ pc[w] = "stock" /\ \E p \in rows[v] : NextRow(w, p)

\* Reservations of overlapping products never deadlock: in every group of
\* workers one waits for nobody else in the group.
NoWaitCycle ==
  \A G \in (SUBSET Workers) \ {{}} :
    \E w \in G : \A v \in G : ~WaitsFor(w, v)

\* No payment is forgotten: an event that is neither queued nor in the hands
\* of a worker was decided before it was acknowledged.
AckedIsDecided ==
  \A o \in Orders :
    (sent[o] > 0 /\ queue[o] = 0 /\ \A w \in Workers : order[w] # o)
      => reservation[o] # "none"

\* The stock table and the reservations agree: what is gone of a product is what
\* the reserved orders list, line by line.
StockMatchesReservations ==
  \A p \in Stocked :
    InitialStock[p] =
      stock[p] + SumFunctionOnSet([o \in Orders |-> ListedQuantity(Items[o], p)],
                                  {o \in Orders : reservation[o] = "Reserved"})

\* The service implements one-at-a-time reservations.
Promise == INSTANCE ReservationPromise WITH asked <- {o \in Orders : sent[o] > 0}

PromiseSafe == Promise!Safe
PromiseKept == Promise!Spec
=============================================================================
