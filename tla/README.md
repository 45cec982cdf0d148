# CommerceFlow: TLA+ specifications and proofs

CommerceFlow processes orders with five services that exchange events through
RabbitMQ. This directory specifies the parts of it whose correctness depends on
interleavings, failures and repetition, checks them with TLC on small instances
and proves the most important results with TLAPS.

## The system

```
 client --POST /orders--> Order --OrderCreated--> Payment --PaymentAuthorized-->
   Inventory --InventoryReserved--> Delivery --DeliveryBooked-->  (end)
             \-InventoryReservationFailed-->                      (end)
 the two (end) events --> Notification;  all but OrderCreated --> Order (timeline, status)
```

| Component | State | Operations | Interacts by |
|---|---|---|---|
| Order submission | `orders`, `order_outbox`, `order_timeline` (PostgreSQL) | `submitOrder` | HTTP with Idempotency-Key; `notify()` to the relay |
| Order timeline | `order_timeline`, `orders.status` | `recordWorkflowEvent`, `getOrderDetails` | queue `order-service.order-events`; HTTP |
| Outbox (Order, Inventory) | outbox rows; relay loop | claim, publish, mark, release | polling, confirms of the broker |
| Inventory | `inventory_stock`, `inventory_reservations`, `inventory_outbox` | `reserveForPayment` | queue `inventory-service.payment-authorized` |
| Payment, Delivery | none | one event in, one event out | queues; event ids derived from their cause |
| Notification | notifications made, in memory | one event in, a notification out | queue `notification-service.customer-events` |
| RabbitMQ client | connection, channel, consumers, deliveries in flight, recent event ids | connect, publish, subscribe, close; handle a delivery | AMQP; supervisor |
| Confirmed publisher | pending publications | publish; confirm and return callbacks | AMQP |
| Service host | server, background tasks, one shutdown | start, shutdown, fatal errors, signals | process |
| Migrations | history table | `migrateDatabase` | advisory lock |
| Dead-letter tool | none | inspect, replay | AMQP |

What is hard: transactions of several instances and of several deliveries of
one event interleave; a COMMIT or a publication may take effect without its
acknowledgement arriving; processes stop between publishing and recording;
messages are duplicated, redelivered and reordered; leases expire while their
owner still works. `PROJECT.json` lists the hazards at their lines in the code.

What makes each component correct:

- outbox: every committed event reaches the broker, none is recorded before
  that, a row is settled only by the claim that holds it, no wake-up is lost;
- inventory: one decision per order, never more taken than there is, stock and
  reservations agree, no deadlock, nothing acknowledged undecided;
- submission: one order per key, stored with its event or not at all, and all
  answers about it agree;
- timeline: the status is a function of the recorded events and only moves
  forward, and what is shown puts causes before effects;
- client: an acknowledged message was handled or dead-lettered, an abandoned one
  is redelivered, an event is published to queues that exist, no connection is
  forgotten and `close()` is final;
- confirmed publisher: what it tells is about the caller's own copy, and every
  publication ends;
- service host: one shutdown, in order, and an exit code that tells a failure;
- migrations: each is applied once, in order, whoever starts when;
- dead-letter replay: no dead letter is lost and the replay ends;
- all of them together: an accepted order is concluded, once and the same for its
  customer, its status and the stock.

## Modules

| Module | Contents |
|---|---|
| `OutboxPromise` | what an outbox promises: committed events are delivered, then recorded |
| `Outbox` | relays, rows, leases, notifications; implements `OutboxPromise` |
| `OutboxProofs` | theorems about `Outbox` |
| `ReservationPromise` | one-at-a-time, decide-once reservations |
| `InventoryReservation` | the transactions of the inventory, lock by lock; implements `ReservationPromise` |
| `Quantities` | `aggregateQuantities`: repeated product lines; used by `InventoryReservation` |
| `InventoryProofs` | theorems about `InventoryReservation` |
| `SubmissionPromise` | idempotent `POST /orders` |
| `OrderSubmission` | its transactions and retries; implements `SubmissionPromise` |
| `SubmissionProofs` | theorems about `OrderSubmission` |
| `OrderTimeline` | recording of events, status, reading of details |
| `TimelineView` | `buildOrderTimeline`: the order of the entries, and what it means |
| `OrderDetails` | what a reader of `OrderTimeline` is shown by `TimelineView` |
| `TimelineProofs` | theorems about `OrderTimeline` and `TimelineView` |
| `MessageDelivery` | deliveries of a queue, retries, dead letters, lost channels, `close()` |
| `DeliveryProofs` | theorems about `MessageDelivery` |
| `BrokerConnection` | `connect()` shared by publishers and supervisor, topology, lost connections, `close()` |
| `PublisherPromise` | what a caller of `publish()` is told about its copy |
| `ConfirmedPublisher` | concurrent publications of a channel: returns, confirms, timeouts; implements `PublisherPromise` |
| `ConnectionProofs` | theorems about `BrokerConnection` and `ConfirmedPublisher` |
| `Migrations` | `migrateDatabase`: transactions, advisory lock, history table |
| `ServiceHost` | `runService` of several instances that migrate one database: start, tasks, shutdown, exit code |
| `ServiceHostProofs` | theorems about `ServiceHost` and `Migrations` |
| `WorkflowPromise` | the stages of an order, and what its customer and its status may say about it |
| `EventRouting` | event types, queues, bindings, dead-letter queues |
| `DeadLetterReplay` | the tool that replays dead letters; extends `EventRouting` |
| `CommerceFlow` | the five services composed; extends `DeadLetterReplay`, implements `WorkflowPromise` |
| `CommerceFlowProofs` | theorems about `CommerceFlow` |
| `MC...` | instances for TLC |

Definitions marked "Faulty variant" are not part of the specifications: each is
a plausible bug in the definition that follows it, kept to demonstrate that a
property notices it (`mutants` in `PROJECT.json`).

### Outbox

Rows are numbered by `sequence_id`. A relay is one process: `pc` follows the
loop of `OutboxRelay.run`, `batch` and `token` are the rows it claimed and the
`attempts` it saw, `confirmed` and `failed` what its publications came to.
Claiming is two steps, because `FOR UPDATE SKIP LOCKED` makes the rows of an
uncommitted claim invisible to the other relay. Time is abstracted: `due` tells
whether `available_at` has passed, and `BecomeDue` may happen at any moment;
before the relay that has the lease is done with the row, that is a fault. `leases` is a history variable
for the exclusion property; `copies` counts what the broker accepted. Rows and faults
share one bound (`MaxTrouble`), so that one instance covers two rows with a fault and
one row with two.

Fairness, all of it weak: each relay keeps taking steps (its statements return and
publications are bounded by the publish timeout), a crashed process is restarted by the
orchestrator, as `serviceHost.ts` assumes (`RelayStep`), and every lease and delay ends
(`BecomeDue`). Nothing is assumed of `Notify`: polling must suffice.

### Inventory

`order`, `rows` and `seen` are the locals and locks of the transaction of one
delivery: the advisory lock of its order, the stock rows locked so far, and the
quantities read under the locks. `Backstop` is what the primary key, the CHECK
and the row count of the UPDATE would refuse; `BackstopsNeverFire` says that the
locks alone make them superfluous. A COMMIT either takes effect and is
acknowledged (`Commit`), takes effect although the service sees an error
(`CommitLost`), or does not (`Fail`); after an error the handler is retried in
place or the message comes again, which the model leaves open. The insert of the
reservation, the outbox row and the update of the stock are one step, since
they become visible with the COMMIT and the rows they touch are locked. Orders are
lists of lines (`Items`), which the loop of `Quantities` adds up (`Requested`), while
`StockMatchesReservations` compares the stock with the lines themselves.

### Order submission

A request is one client's order with its key, retried until it is answered; a
try is one HTTP request with ids of its own. The unique index makes an INSERT
wait while another transaction has inserted the same key (`KeyTaken`), after
which it finds the committed row or inserts. As many tries can be made as there
are faults, plus one.

### Order timeline

Producers send events in the causal order of the workflow (`MayTell`), and the
broker hands them to workers in any order. `Record` is the insert, the status
update and the COMMIT, all under the row lock of the order (`LockOrder`). An
event of an order the database never had is acknowledged without effect; such
events differ in nothing but their number, which `StrayTypes` bounds. A
reader reads the order first and its timeline later.

`TimelineView` is what becomes of such a reading. `OrderCausally` is the code's
algorithm, two sorts and a merge; `IsCausalView` says without any of them what the
result must be: every row once, no effect before its cause, and each retry before the
first of the steps, in the order in which they are shown, that was seen after it. So
nothing that is shown before a retry was seen after it; but a step that was seen before
the retry is shown behind it if its cause was seen later, as a payment is that was
recorded before a retry and its publication after it: causes come before times. A sort
is the list of the elements in an order (`InOrder`), with the places of the entries
deciding between equal ones, as in the stable sort of the language. `OrderDetails`
compares the two for every set of events a reader can have read (`ShownCausally`), with
all times of recording, of the publication and of up to `MaxRetries` retries on the
clock `Clock`.

Fairness, here and for Inventory: each worker goes on whenever it can. There are
finitely many messages, so nothing more is needed for all to be handled.

### Message delivery

A delivery is a message on a channel, so that a message that comes again on a
later channel is another delivery, and a handler that still runs for the
earlier one is not confused with it. `task` and `attempt` are the locals of
`handleDelivery`. Acknowledgements travel (`answers`) and are lost with their
connection; when the client closes a channel, the broker first reads what was
sent on it (`ChannelCloses`), then puts back what it has no answer to. `close()`
is four steps, because it waits in between: `Close` aborts the delays,
`CancelConsumers` stops new deliveries and takes the snapshot of handlers to
wait for (`awaited`), `Drain` closes the channel when those are done or
`drainTimeoutInMs` is over, and the process ends (`Exit`) or connects again
(`Reopen`). `Subscribe` is one step here: what can happen within is the
subject of `BrokerConnection`.

`AckedWasHandled` is about the event, not the message: a duplicate may be
acknowledged for the handler of another copy. Memory of recent events is small
and lost in a crash; nothing depends on it.

Fairness: as long as something can go on, it does. Handlers return or throw,
timers fire, the broker reads and delivers, the supervisor reconnects, `close()`
ends because its drain is bounded; each of these happens finitely often, so one
weak fairness condition on all of them (`Progress`) is enough.

### Broker connection

One service has one client, which the supervisor and all publications share.
`attempt` is the connection attempt of `connectWithRetry` with the await it is
at; `at` says who waits for it. `connection` and `channel` are the fields of
the client, `up` and `closing` what really is open: the difference between the
two is what `NoLeak` is about. `CloseResources` is the synchronous half of
`closeResources`, `CloseSession` the rest with its late close events. The owner
of an attempt awaits it to its end and its timeout aborts it for everybody,
while the others leave when they time out (`PublishTimeout`). Awaiting
the confirm of a publication is one step with publishing: confirms are the
subject of `ConfirmedPublisher`.

`Close` is the synchronous start of `close()`, which aborts the attempt and forgets the
consumer, and `Drained` the rest after its drain, whose handlers are those of
`MessageDelivery`. `closeCall.late` remembers that somebody began an attempt after
`close()` was called, as a handler that still runs may: the client has no
flag that forbids it, so `ClosedForGood` is about the calls before only. An attempt
that was under way may go on waiting for the broker when `close()` has returned; it is
aborted by then, and a session it opens goes into `closing` at once.

Fairness: awaits end, the supervisor polls, a broker closes what it was asked to
close. The broker may refuse connections for ever: that it accepts at last
(`BrokerReturns`) is a hypothesis of the properties about recovery. Nothing is
assumed of when publishers publish.

### Confirmed publisher

A publication is one call of the client's `publish()` on one channel, and its number is
its `x-publication-id`. `pending` and `returned` are the map of the
`ConfirmedPublisher` and its values; `outcome` is what the caller was told, who may
have left at the timeout while the entry stays. Frames travel in order both ways and
are lost with the channel; the library may or may not call the outstanding callbacks
then. The broker (external) takes the next message, puts it into a queue that exists at
that moment or returns it, and confirms or refuses it at any later time, in any order.
`PublisherPromise` knows nothing of frames and maps: a call is told once, that its own
copy is in a queue, that it is not, or that nobody knows.

Fairness: the timer of a publication fires, the broker answers, the client reconnects
(`Progress`); each happens finitely often. The timer frees the caller; the map is freed
by the broker's answer or the end of the channel, so a broker that blocks publishers
without closing the channel would make it grow, which no code of the client limits.

### Service host and migrations

`ServiceHost` extends `Migrations` (the database side) with the processes of
one service: several instances, perhaps of different releases (`Known`), that
are started, migrate the shared database within `start()`, listen, run their
tasks and stop. A step is what runs between two awaits that really wait; since
the server listens as soon as `listen()` is called, no signal can come between
that and the start of the tasks (`Listen`). `stop` follows `performShutdown`: it closes the
server, waits for the tasks it knows of (`awaited`) and releases the resources,
which cannot end while a client of the pool is in a transaction (`Released`).
A migration is rolled back when its process is gone (`Disconnect`), and a COMMIT
may take effect unanswered. `early` is a history variable: the shutdown began
before `start()` had returned.

Fairness: the orchestrator starts what failed or was never started, statements
and COMMITs return, and the timer of a shutdown fires. Requests, tasks and
`stop()` need not come to an end; the timer is there for that.

### Workflow

`CommerceFlow` connects the five services by the queues of `EventRouting`. A
component acts in one step here, the way its own module or promise shows it does:
an order is stored with its event (`StoredOnce` of `OrderSubmission`), an
outbox publishes at least once (`OutboxPromise`), the inventory decides once
(`ReservationPromise`), a message stays in its queue until it is acknowledged or
becomes a dead letter (`MessageDelivery`). The timeline's status is computed by
`ApplyWorkflowEvent` of `OrderTimeline`, and what `OrderTimeline` assumes of the other
services (`MayTell`) is the property `ToldAsAssumed` here, so the assumption is
discharged.

A service in `broken` fails all its attempts and turns its messages into dead
letters (`GiveUp`), until it is repaired. Its effect may also come about before its
attempts fail (`ConsumeAndReject`) or its acknowledgement is lost
(`ConsumeAgain`). `Skip` is the client's cache of recent event ids: it may
acknowledge a message whose effect came about, and need not. The notification
service remembers what it told in memory only; `restarts` counts how often
it forgot, which is how often a customer may hear of the same outcome again.

The replay tool is a process of the operator: it counts the dead letters, fetches one
(`letter`), publishes a copy to the queue itself, waits for the confirm
(`confirmed`) and acknowledges. It may end at any of these points
(`ReplayFails`), and then the fetched letter is a dead letter again. One tool runs
at a time.

Orders and faults share one bound (`MaxTrouble`). Fairness: as long as a relay, a
consumer, the tool, or an operator who replays the dead letters of services that
work can go on, one of them does (`Progress`); each of these happens finitely
often between two faults, so one weak fairness condition is enough. Clients need
not order, and nobody need repair anything: that services do not stay broken is the
hypothesis of `EveryOrderConcludes`.

## Findings

**The supervisor misses a reconnection by a publisher**
(`connection_resubscribes`). `RabbitMqSupervisor.run` initializes only when its
flag or the client says "not ready" at the moment of a poll. Between two polls the
channel can be lost and a `publish()` (of the relay, or of a handler that
outlived its channel) can connect the client again. Then both say "ready",
`subscribe()` is not called, and the service reports ready and publishes but
consumes nothing until the connection is lost once more. A timeout of a
publication that owns an attempt is enough, without any loss: the supervisor may
have subscribed already on the channel which the aborted attempt closes.
When only the supervisor makes connections, the service is subscribed again
(`ResubscribesAlone` in the run `connection`).
`docs/reliability.md` says "supervisor reconnects and resubscribes".

**A channel is used before the topology is declared**
(`connection_topology_first`). `connectWithRetry` assigns `this.channel` first
and declares the queues after that, and `connect()` returns at once when there
is a channel. On a new broker an event may be confirmed although one of the queues
of its key does not exist yet: that queue never gets it. README and the comment on
`topology` say the topology is declared before anything is published. Once all queues
exist they are durable, and the order does not matter any more.

**A shutdown during `start()` stops nothing** (`service_host_order`). A signal
or a fatal error while `start()` is pending finds no server and no tasks:
`closeServer(undefined)` and `Promise.allSettled([])` are over at once, and the
resources are released. Nothing tells `runService`: when `start()` returns, the
server listens and the tasks start, with a signal that is aborted already, while the
connections they need are closing or closed. The README of the repository says
that a service stops accepting requests, lets its tasks finish and only then
closes its connections. The exit code is not affected, which is why
`CleanExit` leaves the shutdowns out that began too early.

A remark on the documentation, without a run of its own since the code is right:
`docs/reliability.md` still says, in its diagram (line 108) and below it (line 115),
that a retried request is a new order, "a known limitation". That was so before orders
were stored with their `Idempotency-Key`: README (lines 206 to 220) describes the
key and no longer lists the limitation, and `StoredOnce` and `AnswersAreTrue` hold.

## Runs

| Run | Bounds | Shows |
|---|---|---|
| `outbox` | 2 relays, batches of 2; 2 rows and 1 fault, or 1 row and 2 faults | leases, fencing, wake-ups and marks survive every interleaving with crashes; `OutboxPromise` with liveness |
| `reservation` | 2 workers, 3 orders over 4 products (one without stock row, one repeated), 2 copies, 1 fault | locks suffice, no deadlock, books balance; `ReservationPromise` with liveness |
| `submission` | 4 requests on 2 keys, 2 faults | one order per key, true answers; `SubmissionPromise` with liveness |
| `timeline` | an order with all its events and a stray event, 2 workers, 1 reader, 1 fault; views on a clock of 4 values with up to 2 retries | status, timeline and what is shown agree, what is shown is in causal order; every event shows in the end |
| `delivery` | 4 messages (2 copies, 1 malformed), prefetch 2, 2 attempts, cache of 1, 1 fault | what is acknowledged was handled, only hopeless messages are dead letters, nothing is stuck, every message settles |
| `connection` | 2 publishers, 3 queues, 2 tries, 3 faults (a call of `close()` is one), a broker that may stay down | no connection leaks, channel and consumer are current, `close()` leaves nothing behind, nobody waits for ever, the topology is complete in the end |
| `confirms` | 3 publications of 2 events, 2 faults | outcomes are about the caller's own copy, told once and for good (`PublisherPromise`), every publication ends |
| `connection_resubscribes` | 1 publisher, 1 fault | violated: see Findings |
| `connection_topology_first` | 2 publishers, 1 fault | violated: see Findings |
| `service_host` | an instance of the old and one of the new release, 2 tasks, 3 faults | each migration once and in order, nobody serves before it, exit code 0 is honest, every instance serves or was stopped in the end |
| `service_host_order` | 1 instance, 1 signal | violated: see Findings |
| `workflow` | 2 orders and 1 fault, or 1 order and 2 faults; one piece in stock or none | no order is forgotten, customers are told once, a replay ends, every order is concluded; `WorkflowPromise` |

Why the bounds are enough to be interesting: two relays on two rows let each
have a batch of its own beside the other's, and two faults on a row let its lease
expire and the owner come back or crash after that. Three publications of two events are
two copies of one at the same time and a bystander, and a queue that appears between
them makes their fates differ. Two orders for the same products close a circle of
waits if the locks are not ordered (three workers and more are covered by the
theorem `DeadlockFree`), and they cannot both be served. Three requests on one
key give a winner, a retry and a reuse, each of which may lose its answer. Two
workers are the two transactions that a row lock tells apart. Three events and a
cache of one id evict an id that is needed, and a fault gives a message
a second channel while the handler on the first one still runs. An old and
a new release make one instance find migrations it does not know, or only a part of
its own; three faults are a failed start, a failed task and a signal or crash.
Two orders compete for the last piece, and two faults break a service and stop
the replay of what it left.
Two publishers
are an owner and a joiner of an attempt, and three queues let one of a key's two
exist without the other. The theorems cover all other bounds for the safety
properties.
No run uses symmetry, since each checks liveness too.
`CHECK_DEADLOCK FALSE` is set where the modelled work is finite: all messages
handled, all clients answered.

Faults are bounded (`MaxFaults`, `MaxChannelFaults`), as are the copies of a message (`MaxCopies`).
With infinitely many faults nothing is promised by the code either.

## Theorems

All proofs are checked by TLAPS for every value of the constants allowed by the
assumptions of the modules.

`OutboxProofs`: from an inductive invariant that says which rows the relay at
each point of its loop may hold and with which attempt: `TypeCorrect`, `NothingLost`
(what is recorded as published was accepted by the broker), `ExclusiveLeases`,
`WakeUpsAreKept`, `RetriesExplained`, `CopiesAreCounted`, `RowsAreFinal` and
`Implementation` (the safety half of `OutboxPromise`). The fencing by attempts is what
makes the invariant inductive: a token equal to the row's attempts belongs to the latest
claim only. `CopiesAreCounted` rests on each attempt paying for one copy, which the
broker had already or the relay of the claim is still to send.

`InventoryProofs`: `TypeCorrect`, `LocksSuffice`, `NoPaymentForgotten`,
`DeadlockFree`, `QuantitiesAddUp`, `StockBalances` and `Implementation`. The inductive invariant says that what a
worker has seen of a locked row is still the row's stock, and that the order
lock keeps the reservation undecided. Deadlock freedom is the classical
argument: in a circle of waits the worker that waits for the highest row waits for
somebody who has it and wants a higher one. It takes the highest with a theorem on
well-founded orders, for which it assumes an upper bound on the product numbers.
`QuantitiesAddUp` is about every list of lines: the loop's fold is a function that is
defined by recursion over sets of lines, which exists (`FoldExists`), and by induction
over the number of lines its result is the sum. `StockBalances` adds that a commit
takes from the stock what the lines of its order add up to.

`DeliveryProofs`: `TypeCorrect`, `AcksAreHonest`, `OnlyHopelessAreDead`,
`NothingGetsStuck` and `ClosingIsQuiet`. The inductive invariant follows the
messages: each is in one place (`MessagesAreOnce`), an unacknowledged delivery
is on the present channel or on one that closes, and a handler of the present
channel has not been answered yet (`ChannelsAreKnown`). So a handler that
outlives its channel cannot answer for the redelivered message, and what makes
a delivery hopeless is not changed afterwards. The number of channels is bounded
because each one but the first follows a fault (`ChannelsAreCounted`).

`ConnectionProofs`: `TypeCorrect`, `NothingLeaks`, `SessionsAreCurrent` and
`CloseIsFinal`. The inductive invariant adds what holds at each await of
an attempt (`AttemptIsSound`): while one connects, cleans up or pauses, the
client has no connection that a new one could overwrite. That is why an aborted
or failed try must let go of its connection before it waits for anything. `CloseIsSound`
says what is left at each phase of `close()`: an attempt that was under way is aborted,
and when the connection has been closed there is none. With `NoLeak` that leaves no
session open that is not being closed.
The same module has `PublisherTypeCorrect`, `OutcomesHold` and
`PublisherImplementation` (`PublisherPromise`) about `ConfirmedPublisher`, which has
names of its own (`PublisherSpec`, `PublisherInit`, ...) for that reason. The invariant
(`PublisherInv`) follows each publication from the channel to its confirm: what was sent
is new to the broker (`SentIsNew`), a return goes before its confirm and the confirm is
the last frame about a publication (`AnswersFollow`), which has an entry until then
(`EntriesAreOpen`). So a confirm is never taken for a message that was returned.

`ServiceHostProofs`: `TypeCorrect`, `SchemasAreSound`, `SchemaFirst` and
`ExitsAreHonest`. The inductive invariant says that whoever
reads the history or applies migrations has the lock, that the tables always hold the
migrations 1 to n and an open transaction the next ones, so that what is left is
an interval too (`PendingIsTheRest`); and of the process, that what still runs
when its signal is aborted is among the tasks it waits for (`Quiet`), unless the
shutdown began too early.

`SubmissionProofs`: `TypeCorrect`, `StoredOnceForAll` (from `OneOrderForAKey` and
`CommittedTogether`), `AnswersHold` and `Implementation` (the safety half of `SubmissionPromise`). Here
the requests are assumed to be finitely many (`FiniteAssumption`), since retries
are counted. The inductive invariant says that the id of a try that has
not committed is new (`IdsAreFresh`, because tries are counted), that who inserts
a key is alone with it and finds no order (`KeysAreLocked`), that what a try is
about to answer is true already (`OutcomesAreTrue`), and that the rows of an order
are there together (`RowsAreTogether`). Orders are never changed or removed, which
is why an answer stays true however late it arrives.

`TimelineProofs`: `TypeCorrect`, `StatusIsFunction`, `DetailsExplained` and
`ForwardOnly`. `StatusReflectsTimeline` speaks of the furthest event, which is
unique only because the inventory decides once (`StatusIsFurthest`); so the invariant
carries that from the events that are told (`ToldOnce`) to those that are
recorded (`OnlyTold`), and says that a transaction with the lock still knows
the status (`RowsAreLocked`). A reader is safe because events are only added
(`ReadersAreTrue`).

The rest of the module is about what `buildOrderTimeline` computes.
`HistoriesAreShownCausally` says that the view of every history is causal, whatever its
length, its rows' order and its times; all that is assumed of a history is that the
order was accepted once and no retry is dated before that (`IsHistory`: the database
gives both times, the second one when it has seen the first committed). `ViewsAreCausal`
(`ShownCausally`) follows, since the rows of `OrderDetails` are histories. The argument
follows the code: `InOrderLists` shows that a sort lists every element once and in
order, `DueRetries` what the inner loop has taken when it stops, and `PlaceKeeps` that a
round of the outer loop keeps its invariant (`IsView`): the view and the remaining
retries together have every entry (`AreComplete`), its steps are in their stages after
the accepted order (`IsCausal`), all before a retry in it had been seen by then and the
step after it was seen later (`IsPlaced`), and the remaining ones are not earlier than
anything in it (`AreLater`). That the accepted order comes first whatever the clocks say
is the code's own rule (`index > 0`); the assumption on the retries' times is what makes
their places behind it true as well.

`CommerceFlowProofs`: `TypeCorrect`, `NoOrderForgotten`, `ToldOnce`,
`ToldInOrder` and `Implementation` (`PromiseKept`, the safety half of
`WorkflowPromise`). The inductive invariant says that an outbox has what its service
decided (`OutboxesAreTrue`), that each event follows its cause
(`CausesComeFirst`), and that a message of a sent event is carried by somebody
until its effect is there, and never by anybody before the event was sent
(`MessagesAreFollowed`). The tool is safe because the letter it holds counts as
carried until its copy is confirmed, and the copy after that.

The type invariants are theorems (`TypeCorrect`), so that no run repeats them.

Induction principles of the library that take a predicate are of no use to the installed
provers. Where a proof needs induction it is stated for a set of numbers or a set of
subsets (`SetInduction`, `SubsetInduction`), from the theorem that `<` on the natural
numbers is well-founded.

Only model-checked: everything about liveness (the temporal reasoning under
fairness is beyond the proof system).
Proved only, with no run of their own: `RetriesExplained`, `RowsAreFinal`, `ForwardOnly`, and
what `QuantitiesAddUp` and `HistoriesAreShownCausally` say of inputs of any length.

## Not modelled, and plan

Not modelled, and why: the tool that lists dead letters, which fetches them and puts
them back when its channel closes and changes nothing else; the backoff of relay, client
and supervisor, of which the models only use that every delay ends; logging,
configuration, the public page, the demo and status tools, which print, parse and start
processes; and the in-memory stores, which serialise every operation and stand in
for the modelled ones in tests.

Beside the findings, reading the code for the models raised questions that the
properties do not judge, because nothing in the repository says what should happen:

- a handler that outlives the drain of `close()` may publish and so connect the client
  again, and nothing closes that connection but the end of the process
  (`closeCall.late`);
- the timeline may show an order's `OrderCreated` as waiting in the outbox although its
  payment is authorized, when the relay could not record what the broker confirmed;
- a fatal error after a shutdown has begun does not change its exit code.
