# A verification project for the event-driven order engine

TLA+ models of the order engine, the TLC configurations that check them and the
TLAPS proofs about them. Paths are relative to the repository (`src/` is its root:
the modules are in `src/modules/<module>/src/`, the documents in `src/docs/`).

1. [The system](#1-the-system)
2. [The modules](#2-the-modules)
3. [What is checked](#3-what-is-checked)
4. [Fairness](#4-fairness)
5. [What is proved](#5-what-is-proved)
6. [Where code and documents differ](#6-where-code-and-documents-differ)
7. [What is not modelled](#7-what-is-not-modelled)
8. [Plan](#8-plan)
9. [Running it](#9-running-it)

## 1. The system

Five NestJS modules (order, inventory, payment, shipping, notification), each with
its own PostgreSQL schema, work through an order as a choreographed saga. A module
never calls another one. It stores an event in its **outbox** table in the
transaction of the change; a **relay** process (`dispatch-messages`) publishes the
rows to the module's topic exchange in RabbitMQ; every interested module has a
queue bound to that exchange and a **consumer** process (`handle-messages`) which
calls the handler for the event; the handler's transaction also inserts a row into
the module's **inbox**, whose unique key stops a second execution.

    POST /orders -> OrderPlaced -> Inventory -> InventoryReserved -> Payment
        -> PaymentCompleted -> Order (PAID), Shipping -> ShipmentCreated
        -> Order (SHIPPED) ... -> ShipmentDelivered -> Order (DELIVERED)
    InventoryReservationFailed, PaymentFailed -> Order cancels
    POST /orders/:id/cancel -> Order cancels
    OrderCancelled -> Inventory releases, Payment refunds, Shipping cancels

### Inventory of components

| Component | State | Operations | What makes it correct | Hard because |
|---|---|---|---|---|
| Order module | `orders` rows (status) | place, cancel (HTTP); handlers of PaymentCompleted, ShipmentCreated, ShipmentDelivered, PaymentFailed, InventoryReservationFailed | status moves only as the entity allows; every order ends; the four modules agree when it has | rows are read without lock or version; events overtake each other; cancel at any time, repeatedly |
| Inventory module | `products` (stock, reserved), `inventory_reservations` | handlers of OrderPlaced, OrderCancelled; add product, update stock (HTTP) | counters stay non-negative and add up; a reservation is backed by stock; nothing stays reserved for nobody | absolute values written from stale reads; several products per transaction; a catch block that commits |
| Payment module | `payments` | handlers of InventoryReserved, OrderCancelled | one payment per order; refunded iff undone | cancellation may arrive before the payment |
| Shipping module | `shipments` | handlers of PaymentCompleted, OrderCancelled; ship, deliver (HTTP) | ships only paid orders | dispatch races cancellation |
| Outbox relay | `outbox_messages`, a row lock per selected row, a channel | `dispatchMessages`, in a loop with `--continuous`, several processes per schema | no stored event is lost; copies only after failures; progress | crash, broken connection, full buffer or failed commit between any two awaits; no publisher confirms |
| Inbox consumer | `inbox_messages`, unacknowledged deliveries, primary, retry and error queues | consume callback, immediate retries, delayed retries, dead-lettering | effects exactly once; no message lost; every message settles | concurrent callbacks on one channel, redelivery, reconnection under running callbacks |
| RabbitMQ connection service | connection, channel, reconnect timer, try counter | connect, close/error handlers, reconnect, closeChannel, onModuleDestroy | reconnects or exits; callers return; connections do not multiply; closed stays closed | overlapping timers, fields overwritten by concurrent connects |
| Broker topology | exchanges, queues, bindings | declared by publishers and consumers at start | an event reaches every subscriber once, a retry only the one that failed | retry queues re-enter through the topic exchange; half-declared topologies; overrides that all modules share |
| Event destinations and signatures | constant tables | none | producers and handlers match | fixed at start |
| Notification module | `notifications`, WebSocket rooms | eight processors, list, subscribe | one row and at most one broadcast per message; subscribers hear of it | broadcast after the commit, in another process than the gateway |
| Read queries | none; read `orders`, `payments`, `shipments`, `notifications` | paged lists | a client that pages to the end has seen every row | two queries per page; rows commit out of `createdAt` order and leave a filter |
| Product seeder | `seeds`, `products` | seed once | seeds once | two transactions |
| CLI bootstrap, HTTP layer | none that lasts | parse, delegate | | |

Components interact through (a) outbox rows that relays of the same schema share,
(b) messages in RabbitMQ queues, at least once and in no order, (c) rows of one
schema touched by concurrent transactions: HTTP handlers and up to `prefetch`
callbacks per consumer process, (d) the connection service that a relay or a
consumer uses while its event handlers reconnect it.

The hazards that follow from this are listed with their lines in `PROJECT.json`.

## 2. The modules

| Module | Models | Composed from |
|---|---|---|
| `Events` | who publishes and who handles which event | |
| `OrderLifecycle` | abstract: the status machine of the `Order` entity | |
| `Saga` | the four business modules with outbox, broker and inbox reduced to what handlers can tell apart | EXTENDS `Events`; refines `OrderLifecycle` |
| `Inventory` | stock counters under concurrent transactions, row by row | |
| `AtLeastOnce` | abstract: what an outbox promises | |
| `OutboxRelay` | relays of one schema | refines `AtLeastOnce` |
| `Mailbox` | abstract: what a consumer promises the senders of messages | |
| `InboxConsumer` | consumers of one module, its queues and inbox | refines `Mailbox` |
| `Topology` | what is declared at the broker, and routing through it | EXTENDS `Events` |
| `Connection` | `RabbitmqConnectionService` in one process | |
| `ReadSide` | notifications, WebSocket rooms, and paging through lists | |
| `MCInventory`, `MCReadSide` | symmetry for TLC | EXTEND their module |
| `SagaProofs`, `OutboxRelayProofs`, `InventoryProofs`, `InboxConsumerProofs`, `TopologyProofs`, `ConnectionProofs`, `ReadSideProofs` | theorems | EXTEND their module and TLAPS |
| `SagaOutcomeProofs` | theorems about where an order ends | EXTENDS `SagaProofs` |

The layers are checked apart, and each takes from the one below what that one shows:
`Saga` uses a queue that may deliver a message again (`PublishUnmarked`; that a relay
does this, and loses no row while its connections hold, is `OutboxRelay`) and an inbox that makes effects happen
once (`Fresh`; that the consumer's retries, redeliveries and crashes come to this is
`InboxConsumer`, which refines `Mailbox`). `Inventory` opens up the one step
`InventoryReserve` / `InventoryRefuse` of `Saga`. `ReadSide` takes for granted only
that a message may be handled again, by a callback of any process. `OutboxRelay` and
`InboxConsumer` say what a process does with its channel, `Connection` how it gets it.
`PROJECT.json` maps every definition to the lines it models.

Mutated definitions (`Mut...`, next to the original) stand for plausible bugs; no
action uses them. They are substituted for the original to see that a property
notices.

### Saga

State: the status of the order, reservation, payment and shipment of each order;
`emitted` counts outbox rows by event and order, so `Message(type, o, n)` is the
n-th one and its identity the messageId; `published`, `queue`, `inbox`, `dead`
follow the message; `txs` holds open transactions.

Transactions run at READ COMMITTED and MikroORM reads without a lock or a version
column, then writes by primary key. A handler that updates a row is therefore two
actions: *Begin* (the SELECT and the entity's guard) and *Commit* (the UPDATE with
whatever the read implied, the outbox row, the inbox row). Between them any other
transaction may commit. A handler that only inserts is one action. An inbox key held
by an open transaction blocks another execution of the same message (`Fresh`), as
the unique index does. The entity's guards throw: such a message is not taken and
stays queued (its retries are `InboxConsumer`'s). `cancel()` on a cancelled order
changes nothing but still stores an event, and so does the model.

`cart` is the part of an order handlers tell apart: it has items, its total ends in
.99 (the payment is declined), or it has no items.

### Inventory

State: the products that exist with both counters, the orders' reservations, and per
worker or administrator the open transaction with its identity map (`copy`), changed
rows (`dirty`) and written, locked rows (`locked`). `ReserveItem`/`ReleaseItem` are one
round of the handlers' loops; `Flush` writes a changed row and waits for a transaction
that holds its lock (MikroORM may flush before the handler's save, so any time after
the change); the commit makes written rows visible. Rows are written with absolute
values. The catch block of the OrderPlaced handler keeps earlier items changed, and
they are committed with the failure event; a product that does not exist (yet) is
refused like a shortage. `Rollback` is a crash, a database error, or PostgreSQL
breaking a deadlock.

`crossed` is a history variable: it records that two callbacks, or an adjustment and
another transaction, have been open at the same time. The properties that concurrency
breaks are stated up to that moment, so one instance shows what holds always and what
holds only without overlap.

### OutboxRelay

State: per relay its phase in `dispatchMessages`, the selected batch (locked until
the transaction ends) and its channels; globally the stored and processed rows, copies
at the broker, and rows that went with a connection (`cut`). Each await is a step of
its own.

The channel is a field of the connection service (`link`, `channel`), not the round's.
A round opens a connection and closes only its channel, so connections are left over
(`spare`); every connection that breaks sets off a reconnect (`redials`), whose
`connect()` may return at any later time and puts another channel into the field, also
while a round has written to the one before (`Reconnect`, `Replace`). `pipe[p][n]` is what
was written to channel n of p and not received; the number changes where a channel
that is not drained is replaced. `shaken` is a history variable: the relays that have
lost a connection since they were started.

`closeChannel` asks the channel that the field holds *then* (`AskClose`, `"closing"`) and
returns when it has drained, or at once when it is dead, because the error is swallowed.
If the connection breaks while it waits, nothing answers: the relay hangs with its
transaction open (phase `"hung"`, as when `connect()` never returns, `ConnectHangs`) until
somebody kills it (`Crash`).

`AtLeastOnce` is what is left of this for the rest of the system: a sender marks only
stored rows that it has sent and that are not sent again afterwards; as long as its
connections hold they have arrived; after it has lost one they may also be on their
way, or gone with a connection.

### InboxConsumer

State: copies of each (message, redelivery_count) in the primary and the retry
queue, the error queue, unacknowledged deliveries by tag, the callbacks under way
(`jobs`) with their position and remaining immediate retries, inbox rows, and how
often effects were committed. A job remembers the tag it was delivered under, and
`Ack` uses it on whatever channel the service has *now*: that is the code's
`this.channel.ack(message)`. `misacked` records the messages of which a delivery was
acknowledged by a job that had another one in hand. A tag unknown to the channel is a
channel error. Where nothing handles it the process dies and is started again
(`Throw`); where it ends up with the connection's `'error'` listener the process goes on
without that callback and with a new channel, which is a `Drop` among the run's faults
(the theorems hold for any number of them). The lookup of the inbox row is its own step, outside the handler's transaction.

`Mailbox` says the same without deliveries: a published message stays queued until it
is handled, parked, unwanted, or given up for another, and is handled at most once.
The refinement maps `queued` to the messages of which the broker has a copy anywhere
(`Held`), `parked` to the error queue and `lost` to `misacked`.

### Topology

State: declared exchanges and bindings, queue contents, each consumer's position in
`consumerTopologyConfigurer`, and which events were published while which consumer
had been set up (`owed`). Routing is modelled with the topic wildcard
(`<module>.*`), including its use as the literal routing key of expired retries.

`shared` is the subset of three overrides that is set: `RABBITMQ_TOPIC_EXCHANGE`,
`RABBITMQ_DIRECT_EXCHANGE`, `RABBITMQ_ERROR_QUEUE_ROUTING_KEY`, each of which gives
every module the same name. Relays publish to the exchange that the registry names
(`Destination`, never overridden) but declare the one that the configuration names
(`Topic`); while no consumer has declared the former, the broker refuses
by closing the channel. `closeChannel` ignores the error of that, the row is marked
processed and the event is lost, unless the round fails for another reason and is
repeated (`PublishRefused`).

### Connection

State: the connection objects of the process (also those the fields no longer name),
the one that `connection` holds, whose channel `channel` holds, pending timers with
"the process waits for this one", the try counter, and how far `onModuleDestroy` is.
One action is what runs between two awaits. `clearTimeout` removes the timer that the
field `timeout` names and never settles the promise of the `reconnect()` that made it.
`handleClose` and `handleError` return once `isShuttingDown` is set; `connect()` and
the timer's callback do not look at it.

### ReadSide

State: the notifications (or orders, payments, shipments) that are committed, with
`createdAt`; those that match the filter of the list; the callbacks under way; the
WebSocket room of the order; what each client was told; and one client's pass through
the list. `createdAt` is taken when the entity is made, before the commit, so rows
appear out of its order, and it has millisecond resolution, so rows may share it: the
database then returns them in any order, in each query anew (`Heads`, `Page`). The two
queries of `findAndCount` are two actions. `serving` says whether the process that
handles messages has the WebSocket server: true in the end-to-end test
(`test/app.e2e-spec.ts:268`), false in the deployment.

## 3. What is checked

Passing runs: all properties hold in all reachable states of the instance.

| Run | Instance | States | Shows |
|---|---|---|---|
| `saga_cancel` | 1 order, 1 client, 1 cancellation, rollbacks, messages given up | 1.0 M | `NothingUnpaidShips`: paid, shipped, delivered orders have the rows they need, whatever the interleaving; `UndoHasCause`: nothing is undone without an announced cancellation; `NoLimbo`: when all of an order's messages are handled it is neither PLACED nor PAID; `SettledIsFinal` |
| `saga_auto` | 1 order nobody cancels, rollbacks, repeated publication | 37 k | `StepsOnce`: at-least-once delivery has exactly-once effects; `ModulesAgree`: in the end fulfilled everywhere or reversed everywhere; `FollowsLifecycle`: refines `OrderLifecycle`; `OrdersResolve`, `CancellationCompletes` (liveness) |
| `relay` | 2 rows, 2 relays, batch of 2, two faults of any kind, reconnects at any time | 97 k | `CopiesHaveCause`: duplicates only after failures; `KeepsPromise`: refines `AtLeastOnce`, so only relays that have lost a connection mark rows the broker has not received; `EventuallyPublished`: every row gets out (liveness), unless a hanging relay has it locked or all relays hang |
| `consumer` | 1 message with a handler, 1 without, prefetch 2, 1 immediate and 1 delayed retry, one fault of any kind | 649 k | `ExactlyOnce`; `NothingLost`: lost only by a wrong acknowledgement; `AttemptsBounded`; `ServesMailbox`: refines `Mailbox`; `Drains` (liveness) |
| `inventory` | 2 products, 2 orders, 2 concurrent callbacks, 1 administrator, 2 cancellations per order | 2.6 M | `NonNegative` always; `Conservation` until an adjustment overlaps something; `Backed`: reservations are covered, and `OnlyRefusalsStrand`: only refused orders leave stock reserved, until two callbacks overlap |
| `topology` | inventory and payment consumers, 2 events, 1 crash, 2 delayed retries, all 8 sets of overrides | 117 k | `OfflineIsSafe`, `OneCopy`, `RetriesStayHome`; `RefusedAtFirstOnly`: a relay is refused, and the event lost, at most until one consumer of it was set up; `OwedIsServed` (liveness) |
| `connection` | 3 calls, 5 failed attempts, 4 broken connections, limit 3, closed at any time | 906 k | `NoMoreThanCalls`, `GivesUpLate`, `StaysDown`: closed in quiet it stays without connection and timer; `Recovers` (liveness) |
| `timeline` | 3 messages, 3 times, 2 callbacks, 1 client, pages of 1 row, one fault; with and without a server; timeline and status lists | 752 k | `OneNotification`: one row, at most one broadcast and never before the row; `Informed`: who is in the room is told, unless the process died or lost the database's answer after the commit; `Complete`: paging to the end misses no row that was there at the beginning, except in the ways named |

Each run also checks the type invariant of its module (`saga_cancel` for `Saga`).

Violated runs (a counterexample is the expected outcome; section 6):
`saga_standing`, `consumer_reconnect`, `inventory_oversell`, `connection_hang`.

Every property of a passing run has a mutant in `PROJECT.json`: a mapped definition
changed the way a bug would change it, which makes the run fail.

### Bounds

* **One order in `Saga`.** Orders share no row in `Saga` (stock is in `Inventory`),
  every action names one order, and the properties are about one order each. The
  theorems are for any set of orders. One client suffices for a cancellation
  racing the saga and a dispatch racing the cancellation: client and handlers are
  concurrent. `MaxCancels` bounds the OrderCancelled events up to which clients may
  ask; compensation may store one more, so the passing run sees repeated ones.
* **Two relays, two rows, batch of two**: a batch of one row, with the other left for the
  other relay, and a full batch, of which part has arrived and part has not. Two
  faults: one during the clean-up of another, and what a replaced channel needs: one
  that sets off the reconnect, one that ends the connection or the process with the
  rows on it.
* **Consumer**: an ignored message is enough to move the delivery tags of a new
  channel, and after a reconnection two callbacks of one message run at once, with
  a retry of it in the second slot. One fault at a time; `consumer_reconnect` takes
  two. One immediate and one delayed retry: the first, the last, and the error queue
  are all reached. More messages, processes, copies and faults are covered by the
  proofs.
* **Inventory**: two products and two orders of up to two items give lock cycles,
  the same product twice in one order, and a refusal after the first item. Stock 0
  or 1, quantity 1 and adjustments of -1 to 1 give the boundary on both sides; one
  administrator meets every position of either callback.
* **Topology**: inventory publishes what payment handles and handles what another
  module publishes, so wildcard, signature and retry bindings meet on one exchange.
* **Connection**: more calls, failures and drops than `maxReconnectTries`, so the
  limit is reached by each, and reset in between.
* **ReadSide**: with pages of one row, three rows are three pages: a row can come
  before, at and behind the position of the pass, three times give every order of
  `createdAt` and ties, two callbacks every order of commits.

Every safety property that a passing run checks is also proved for all values of the
constants, or for those named with it (section 5): the bounds above limit what is known of the liveness
properties, and of `ModulesAgree` and `FollowsLifecycle` beyond one client and without cancellations.

`CHECK_DEADLOCK FALSE` everywhere but in `timeline`: the instances stop when bounded clients and
faults are used up (in the system: when nobody orders anything), and a process that
exited stays so. That the work itself is done by then is what the liveness
properties say.

Products, orders and callbacks of `Inventory`, and messages, callbacks and clients of
`ReadSide`, are interchangeable; those two runs use symmetry and check safety only.

## 4. Fairness

* `Saga`: weak fairness of publishing, handling and acknowledging as a whole: relays
  loop and each module runs a consumer; neither chooses its message fairly,
  and the model does not assume it. Strong fairness of committing: a transaction
  that fails is retried, so not every attempt rolls back. None for clients, none
  for a particular message. A message whose guard refuses it stays queued until the
  guard holds; the code parks it in the error queue after its delayed retries, so
  `OrdersResolve` is about orders none of whose messages is given up (`NoLimbo` is not:
  there messages are given up at any time).
* `OutboxRelay`: weak fairness of a relay's steps and of the broker reading its
  socket. It stands for `--continuous` under a supervisor. What hangs takes no step: a
  `connect()` that never returns (`ConnectHangs`, the subject of `connection_hang`) and a
  close that is never answered are states without a way on, and `EventuallyPublished`
  names them (`Stalled`). Nothing is assumed of reconnects.
* `InboxConsumer`: weak fairness of starting processes, of taking messages, of
  callbacks, and of TTLs. **None that a handler succeeds**: `Drains` holds for a
  handler that always throws.
* `Topology`: weak fairness per consumer of setting up, of handling, of expiry.
* `Connection`: a dialled connection is answered or refused, timers fire. None that
  dialling succeeds (failures are bounded by `MaxFails`, beyond the limit of tries)
  and none that the process calls or is closed.
* `Inventory` and `ReadSide` are checked for safety only: what is to happen in the end
  to their messages is what `InboxConsumer` says.

## 5. What is proved

By TLAPS, for every value of the constants: every invariant and every action property
of the passing runs, and the three refinements. The only assumptions are the named
`ASSUME`s of the modules (types of bounds, finiteness of `Relays`, workers and
administrators are different processes, clients are no messages), and two hypotheses
on constants, each named below with the behaviour that makes it necessary.

* **Saga** (`SagaProofs`). `TypeCorrect`, `UnpaidNeverShips`, `ExactlyOnceSteps`,
  `UndoneOnlyIfCancelled`, `SettledForGood`. The inductive invariant is
  `TypeOK /\ InFlight /\ Ledger /\ TxsReady /\ UndoHasCause`. None of the properties
  is inductive: they talk of rows, and the next row is written because of a message
  or by a transaction that read long ago. `InFlight`: a message in a queue is an
  outbox row. `Ledger`: which rows and events an order's other rows and events
  presuppose, counting events against rows. `TxsReady`: what a transaction read is
  still implied when it commits, although the row may have changed. Lemmas
  `FactsRequest`, `FactsReserve`, `FactsPayment`, `FactsShipping`,
  `FactsHandleBegin`, `FactsCommit` take the actions in turn.
* **How an order ends** (`SagaOutcomeProofs`). `NoOrderInLimbo`: `NoLimbo`, whoever
  cancels and whatever is lost on the way, rolled back or repeated. A row alone does
  not say that something is still under way; the invariant `Outcome` therefore adds
  to the one of `SagaProofs`: a published message is queued, given up or handled in
  each of its modules (`Accounted`); the unique inbox key keeps transactions about one
  message apart (`TxsKeyed`); what a handled message did stays done, although stale
  transactions commit after it (`Effects`); and a row that is not where the order ends
  has stored the event that takes it further (`Causes`, `TxsCaused`).
  `LifecycleFollowed`: the order row implements `OrderLifecycle`, if clients ask for no
  cancellation (`MaxCancels = 0`). With cancellations it does not: `pay()` and
  `cancel()` overwrite one another (hazard at `order.repository.ts:14`).
  `AgreementReached`: `ModulesAgree`, if clients ask for no cancellation and there is
  one of them. The second hypothesis is needed as well, as TLC shows with two: two
  requests to ship one order read the shipment PENDING, one commits, the shipment is
  delivered, then the other writes SHIPPED over DELIVERED.
* **OutboxRelay** (`OutboxRelayProofs`). `TypeCorrect`; with it, that channels do not run
  out of numbers, since each reconnect has had a break of its own (`Numbered`).
  `FewCopies` (at most one copy more than there were faults): locks are exclusive
  (`Exclusive`), and a row's copies plus the channels that still carry it are covered by
  the faults (`Accounted`), counted by cardinality. `ImplementsAtLeastOnce`: the
  refinement, from `Kept`: what a relay has written to mark is somewhere, that is received,
  on a channel or cut (`Somewhere`); and of a relay that is not `shaken` it is received or on
  the channel that the field holds, so closing that channel means that it has arrived
  (`Sure`). A relay without a break has no reconnect under way, which is why nothing can
  take that channel from it. `ConnectedLosesNothing`: if connections do not break, every
  processed row reached the broker, whatever crashes, full buffers and database errors
  do.
* **Inventory** (`InventoryProofs`). `TypeCorrect`; `NeverBelowZero`; `StockConserved`;
  `ReservationsBacked` (`Backed`); `OnlyRefusalsLeaveStock` (`OnlyRefusalsStrand`).
  The invariant says of every open transaction that its copies of rows are
  non-negative (`Sound`) and, while no adjustment has overlapped another transaction,
  have the product's supply as their sum (`Balanced`): a lost update replaces one
  balanced row by another. An adjustment changes one counter, so a transaction that
  overlaps it may write back a row whose sum is out of date: that is where the
  property ends as well.
  What orders ask for is a sum over items; it is stated as the number of elements of a
  set (`Units`: one triple of order, item and unit for each piece), so that it grows by a
  lemma about cardinality (`AskedMore`, `AskedLess`, `FirstNext`) and not by induction. While
  callbacks do not overlap (`Quiet`), the invariant `Tended` says: there is one callback's
  transaction at most (`Alone`); it has moved each reserved counter, in its copy, by what
  the items behind it ask for, and has every other counter as the table does (`Ledger`);
  and a reserved counter lies between what active reservations ask for and that plus
  what refused orders asked for (`Covered`). A release then never meets the clamp of
  `Product.releaseStock`, nor a product that does not exist (`EnoughReserved`).
* **InboxConsumer** (`InboxConsumerProofs`), for any messages, processes, prefetch,
  retries and faults. `HandledOnce`: `ExactlyOnce`, from the agreement between inbox rows
  and counted effects (`OneWrite`). `TypeCorrect`, with `Channels`: a channel has finitely
  many deliveries, and a closed one none. `NoMessageLost`: `NothingLost`. A callback
  acknowledges after it has seen an inbox row (`Seen`) or has passed the message on
  (`Passed`), but the copy that it passed on may be settled, passed on again or
  wrongly acknowledged in the meantime; what is invariant is `Safe(m, n)`: m is
  settled, or a copy is left whose redelivery count is n or more. A callback that lets
  go of a copy with count n has made m safe at n + 1, so letting go never costs the
  last copy. `ImplementsMailbox`: every step is one of `Mailbox` or a stutter, from the
  same invariant and `Known` (what is anywhere has been published).
  `RetriesAreBounded`: `AttemptsBounded`. Every copy and every callback has a number of
  attempts ahead of it, by its redelivery count and its remaining immediate retries
  (`Weight`); while nothing breaks, the attempts made and those ahead never exceed what the
  copies published so far came with (`Budget`), and no two callbacks have one delivery in
  hand (`Orderly`).
* **Topology** (`TopologyProofs`), for every setting of the overrides. `TypeCorrect`;
  `RetriesReturn`; `RefusalsEnd`; `NothingOwedIsLost`; `CopiesAreSingle`. They rest on
  lemmas about where the broker can route a publication: the names of queues and
  keys keep the modules apart even when exchanges are shared. A message in c's queues
  has been put there by c's own retries or by its event's publication (`Home`); what a
  consumer has declared stays declared and is what its phase says (`Declared`); what it is
  owed is in one of its queues (`OwedIsHeld`), and only once (`Single`).
* **Connection** (`ConnectionProofs`). `TypeCorrect`; `ReconnectingNeverMultiplies`;
  `ExitsForFailures`; `DestroyedStaysDown`. The properties count what there is now, what
  is invariant counts what can still come: every pending timer dials when it fires, but
  for the newest, which the next `connect()` clears (`Pending`). Connections plus pending
  timers are at most the calls (`Budget`); with one connection, each attempt made or
  pending is paid by a failure since the last success (`Paid`).
* **ReadSide** (`ReadSideProofs`), for any messages, clients, callbacks, page size and
  faults. `TypeCorrect`, including that no page is asked for beyond the rows there are
  (`OnPage`); `NotifiedOnce`; `StayersAreTold`; `PassesAreComplete`: a row that a steady pass has
  not seen is in the list with at least as many rows before it as the pass has been
  through (`Behind`), so it is still to come, until the pass ends (`Unmissed`).

Only model-checked: the liveness properties `OrdersResolve`, `CancellationCompletes`,
`EventuallyPublished`, `Drains`, `OwedIsServed`, `Recovers` (fairness and ENABLED are out
of the prover's reach), and the fairness part of the refinements.

## 6. Where code and documents differ

With a run that shows it:

* `saga_standing`. *"User cancels: Release inventory → Refund → Cancel shipment"*
  (`docs/01-product-requirements.md:156`). `OrderCancelled` travels on its own outbox
  row: it can reach Payment before `InventoryReserved` and Shipping before
  `PaymentCompleted`, finds nothing to undo, and the step happens afterwards. Or the
  shipment is dispatched meanwhile and the processor leaves it. Run `saga_auto` shows
  that cancellations by the system itself do complete.
* `consumer_reconnect`. *"Zero message loss even during broker restart"* (US-17,
  `docs/01-product-requirements.md:143`). A callback that outlives its channel
  acknowledges its tag on the next one, where it can name another message; if the
  process then dies before that one is done, it is lost.
* `inventory_oversell`. *"product `stock_quantity` down, `reserved_quantity` up"*
  (`docs/08-event-flow-saga-map.md:204`). Two reservations read the same row; the
  second overwrites the first. Both are RESERVED, the counters show one.
* `connection_hang`. *"When `--continuous` is passed, the relay loops indefinitely"*
  (`docs/rabbitmq-setup.md:938`). A connection that breaks while its channel is being
  opened sets two timers; the first one's `connect()` clears the second, whose
  promise the caller awaits.

Met while modelling, and part of what the passing runs show or presuppose:

* Publisher confirms are documented as enabled (`docs/02-technical-requirements.md:325`,
  `docs/08-event-flow-saga-map.md:221`); the code uses a plain channel. What protects
  rows is that closing the channel waits for the broker, and that fails in two ways. The
  connection breaks, and the error of the close is swallowed. Or a reconnect that an
  earlier break set off, of this round's predecessor or of a connection that a round
  left open, puts a new channel into the field while the round's own is open and not
  drained: `closeChannel` then closes the wrong one, and the COMMIT marks rows that are
  on their way and are lost if the process or that connection ends first.
  `KeepsPromise` names both, and that they need a connection that broke since the relay
  was started; `ConnectedLosesNothing` shows that while connections hold there is no way.
* A relay can hang for ever with its rows locked: besides `connection_hang`, when the
  connection breaks while `closeChannel` waits for its answer (`Stalled`).
* A cancellation asked for twice can release twice: two callbacks find the reservation
  active, and the second gives back what is set aside for another order
  (`order-cancelled.processor.ts:58`). `NeverOversold` is violated by this as well, also when
  no two placements overlap; the shorter trace of `inventory_oversell` has two placements.
* A refused order should reserve nothing: stock is checked *"for ALL items"* first
  (`docs/03-app-flow.md:275`). The catch block keeps the items before the one
  that failed, for good, since there is no reservation row to release
  (`OnlyRefusalsStrand` allows exactly that much).
* The relay reads without ORDER BY (`docs/03-app-flow.md:398` has one).
* Retries: 4 immediate attempts × 4 deliveries = 16 by default, the documents say 5
  (`docs/02-technical-requirements.md:329`, `docs/05-implementation-plan.md:318`);
  prefetch is 10, not 1 (`docs/02-technical-requirements.md:327`).
* `CHECK >= 0` on stock (`docs/04-backend-schema.md:149`) is in no migration;
  `NonNegative` holds without it.
* Payments are declined when the total ends in .99, not at random in 20 %
  (`docs/03-app-flow.md:297`).
* An event published before a subscriber's first start matches no binding and is
  discarded, while its row is marked processed: the publisher declares only the
  exchange. `OfflineIsSafe` is about subscribers that have been set up once.
* A relay leaves a connection open per round; their failures count against the try
  limit (`GivesUpLate` is stated for a process with one connection).
* *"WebSocket clients receive instant notifications"* (`docs/05-implementation-plan.md:277`).
  Notifications are consumed by a CLI process, whose gateway has no server, and
  `broadcastToOrder` returns early there: in the deployment nobody is told (`Informed` is
  about `serving` processes). Where both are one process, what was stored when the
  process died, or when the COMMIT's answer was lost, is never broadcast.
* *"Notifications auto-generated for every lifecycle event"* (US-15,
  `docs/01-product-requirements.md:141`), and the event map names Notification as a
  consumer of InventoryReleased (`docs/08-event-flow-saga-map.md:206`); the module does not
  subscribe to it (`NotificationHandles`).
* Pages: a client that reads the pages until `totalPages` can miss a row that was there
  all the time. A row that is inserted further up (in the timeline: one that was made
  earlier and commits later) between the count and the items of the last page moves
  the last row to a page that the client was not told of; rows of the same
  millisecond may change places between queries; and rows that leave a filtered list
  move the others up. `Complete` shows that there is no other way.
* With `RABBITMQ_TOPIC_EXCHANGE` set, as `.env.example:41` suggests, relays
  declare an exchange to which nothing is published: until a consumer has
  declared the default exchange an event is refused by the broker and lost, its row
  marked processed (`PublishRefused`, `RefusedAtFirstOnly`). With both
  `RABBITMQ_DIRECT_EXCHANGE` and `RABBITMQ_ERROR_QUEUE_ROUTING_KEY` set, a dead letter is
  copied to the error queue of every module (`OwnErrorQueues`).
* Variables without effect: `RABBITMQ_PREFETCH_COUNT`, `RABBITMQ_MAX_RETRIES`,
  `OUTBOX_POLLING_INTERVAL_MS`, `OUTBOX_BATCH_SIZE` (`.env.example:32-35`);
  `RABBITMQ_CONSUME_MESSAGE_LIMIT` and `RABBITMQ_DISPATCH_MESSAGE_LIMIT`
  (`.env.example:50-51`) are overridden by the command line's default of 10.
* `RABBITMQ_IMMEDIATE_RETRIES` or `RABBITMQ_DELAYED_RETRIES` set to nothing is NaN: messages
  are then acknowledged unhandled, or retried for ever. The models assume
  natural numbers.

## 7. What is not modelled

* **Product seeder**: a command that developers run by hand. The products it inserts are
  those of `AddProduct`. That seeding and recording the seed are two transactions, so that
  a crash in between makes the next run seed again, is listed as a hazard.
* **HTTP layer, CLI bootstrap**: translation and delegation without lasting state. The
  handlers behind the controllers are in `Saga`, `Inventory` and `ReadSide`.
* `deductReservedStock`, `InventoryReservation.deduct`, `ProducerService.publishMessages` and
  `NotificationRepository` have no caller. Queries for one row, or for all products, are one
  SELECT.
* Overrides of one module's queues and keys, by `RABBITMQ_<MODULE>_*` or on the command
  line, rename what only that module uses; `Topology` has the default names for them.
* Malformed JSON: what a consumer parses is what a relay has stringified. (The repair
  never throws; `{}` in its place would be logged and acknowledged by the handlers of
  Notification.)
* Amounts, addresses, wording.
* SIGTERM to a relay ends its loop between rounds; to a consumer it is a crash.
* Clocks: a TTL or timer fires at any time after it was set.

## 8. Plan

Done, in this order: `Saga` with `OrderLifecycle`, `OutboxRelay` with `AtLeastOnce`,
`InboxConsumer`, `Inventory`, `Topology`, `Connection`; proofs of the first four; then
`Mailbox` with the proof that consumers keep it, `Inventory` with added products
and administrators beside concurrent callbacks, the overrides in `Topology`,
shutdown in `Connection`, and `ReadSide`; then the proofs of all safety properties that
were only checked: `Topology`, `Connection`, `ReadSide`, how an order ends in `Saga`,
`AttemptsBounded`, `Backed` and `OnlyRefusalsStrand`.

Next:

1. `Saga`: what is left of `FollowsLifecycle` when clients cancel (which moves of the order
   row a stale transaction can make, and no others), and of `ModulesAgree` with several
   clients (the order, payment and reservation agree all the same), as properties and theorems.
2. `InboxConsumer`: `ExactlyOnce` and `NothingLost` as one refinement of the queue and inbox that
   `Saga` assumes (`Fresh`, `Acknowledge`), so that the layers are linked by a theorem.
3. `OutboxRelay`: the same for `PublishUnmarked`.

## 9. Running it

    tlc -workers 2 -config saga_cancel.cfg Saga
    tlapm SagaProofs.tla

Each `.cfg` names its bounds; `PROJECT.json` says which module it belongs to. All
passing runs together take about six minutes on two cores.
