-------------------------------- MODULE Saga --------------------------------
(***************************************************************************)
(* The order saga: the Order, Inventory, Payment and Shipping modules, each *)
(* with its own PostgreSQL schema, joined by an outbox, a message broker    *)
(* and an inbox.                                                           *)
(*                                                                         *)
(* A handler runs in one database transaction (@Transactional).  A handler  *)
(* that only INSERTs rows is one action.  A handler that UPDATEs an         *)
(* existing row is two: Begin reads the row (a plain SELECT, no lock, no    *)
(* version column), Commit writes the status that follows from what Begin   *)
(* read.  Other transactions may commit in between (READ COMMITTED).        *)
(*                                                                         *)
(* Stock levels, connections and retry counters belong to other modules     *)
(* of this project: here a reservation may always succeed or fail, and a    *)
(* message that keeps failing may be moved to the error queue at any time.  *)
(***************************************************************************)
EXTENDS Naturals, Events

CONSTANTS
    Orders,      \* order ids
    Clients,     \* concurrent callers of the HTTP API
    MaxCancels,  \* bound: cancel requests are accepted below this many
                 \* OrderCancelled events of the order
    Faults       \* which of FaultKinds may happen

FaultKinds == {"rollback", "republish", "deadletter"}

ASSUME MaxCancelsAssumption == MaxCancels \in Nat
ASSUME FaultsAssumption == Faults \subseteq FaultKinds

VARIABLES
    cart,         \* what the client ordered, as far as handlers tell it apart
    order,        \* status of the order row, "NONE" when there is none
    reservation,  \* status shared by the order's reservation rows
    payment,      \* status of the payment row
    shipment,     \* status of the shipment row
    emitted,      \* emitted[e][o]: outbox rows of event e about order o
    published,    \* outbox rows marked processed
    queue,        \* queue[c]: messages in the primary queue of module c
    inbox,        \* <<c, m>>: module c's inbox row for message m
    dead,         \* <<c, m>>: m was moved to module c's error queue
    txs           \* transactions that have read their row and not committed

vars == <<cart, order, reservation, payment, shipment,
          emitted, published, queue, inbox, dead, txs>>

rows == <<order, reservation, payment, shipment>>

-----------------------------------------------------------------------------
(* Data *)

Carts == {"normal", "declined", "empty"}

OrderStatus == {"PLACED", "PAID", "CANCELLED", "SHIPPED", "DELIVERED"}
ReservationStatus == {"RESERVED", "RELEASED"}
PaymentStatus == {"COMPLETED", "FAILED", "REFUNDED"}
ShipmentStatus == {"PENDING", "SHIPPED", "DELIVERED", "CANCELLED"}

Modules == {"order", "inventory", "payment", "shipping"}

Consumers == [e \in EventTypes |-> {c \in Modules : e \in Handles[c]}]

\* The n-th event of a type about an order; its id is the messageId.
Message(type, o, n) == [type |-> type, order |-> o, n |-> n]
Messages == [type : EventTypes, order : Orders, n : Nat \ {0}]

\* A transaction works for a message or for a client, never for both.
ASSUME ClientsAssumption == Clients \cap Messages = {}

\* m is a row of some module's outbox table.
Stored(m) == m.n \in 1..emitted[m.type][m.order]

\* storeOutboxMessage, in the transaction of the action that uses it.
Emit(type, o) == emitted' = [emitted EXCEPT ![type][o] = @ + 1]

-----------------------------------------------------------------------------
(* Transactions that update an existing row *)

OrderOps == {"pay", "ship", "deliver", "cancel"}
ShipmentOps == {"dispatch", "handover", "void"}
Ops == OrderOps \cup ShipmentOps \cup {"release", "refund"}

\* ship() that forgets to ask for a paid order.
MutOrderAllows(op, status) ==
    \/ op = "pay"     /\ status = "PLACED"
    \/ op = "ship"    /\ status \in {"PLACED", "PAID"}
    \/ op = "deliver" /\ status = "SHIPPED"
    \/ op = "cancel"  /\ status \in {"PLACED", "PAID", "CANCELLED"}

\* The guards of Order.pay, ship, deliver and cancel: elsewhere they throw.
OrderAllows(op, status) ==
    \/ op = "pay"     /\ status = "PLACED"
    \/ op = "ship"    /\ status = "PAID"
    \/ op = "deliver" /\ status = "SHIPPED"
    \/ op = "cancel"  /\ status \in {"PLACED", "PAID", "CANCELLED"}

OrderTarget ==
    [pay |-> "PAID", ship |-> "SHIPPED", deliver |-> "DELIVERED",
     cancel |-> "CANCELLED"]

\* Only the API handler stores the OrderCancelled event.
MutAnnounces(t) == t.op = "cancel" /\ t.by \in Clients

\* Cancelling always stores an OrderCancelled event, even when the order was
\* already CANCELLED.
Announces(t) == t.op = "cancel"

\* A delivered shipment given a status of another entity.
MutShipmentTarget ==
    [dispatch |-> "SHIPPED", handover |-> "COMPLETED", void |-> "CANCELLED"]

\* The guards of Shipment.ship, deliver and cancel.
ShipmentAllows(op, status) ==
    \/ op \in {"dispatch", "void"} /\ status = "PENDING"
    \/ op = "handover"             /\ status = "SHIPPED"

ShipmentTarget ==
    [dispatch |-> "SHIPPED", handover |-> "DELIVERED", void |-> "CANCELLED"]

\* "seen" is the status the transaction read; "by" is the message or the
\* client it works for.
Txs == [op : Ops, order : Orders, seen : OrderStatus \cup ReservationStatus
            \cup PaymentStatus \cup ShipmentStatus,
        by : Messages \cup Clients]

Begin(op, o, seen, by) ==
    txs' = txs \cup {[op |-> op, order |-> o, seen |-> seen, by |-> by]}

\* The module whose schema the transaction works in.
ModuleOf(op) ==
    CASE op \in OrderOps    -> "order"
      [] op \in ShipmentOps -> "shipping"
      [] op = "release"     -> "inventory"
      [] op = "refund"      -> "payment"

\* No duplicate check and no unique key: every copy is handled.
MutFresh(c, m) ==
    /\ m \in queue[c]
    /\ \A t \in txs : t.by # m \/ ModuleOf(t.op) # c

\* A handler may start on m: a copy is in the queue, there is no inbox row,
\* and no open transaction holds the unique inbox key of (m, handler).
Fresh(c, m) ==
    /\ m \in queue[c]
    /\ <<c, m>> \notin inbox
    /\ \A t \in txs : t.by # m \/ ModuleOf(t.op) # c

Handled(c, m) == inbox' = inbox \cup {<<c, m>>}

\* Commit t: its inbox row becomes visible with its other writes.
Close(t) ==
    /\ txs' = txs \ {t}
    /\ inbox' = IF t.by \in Clients THEN inbox
                ELSE inbox \cup {<<ModuleOf(t.op), t.by>>}

Idle(client) == \A t \in txs : t.by # client

-----------------------------------------------------------------------------
Init ==
    /\ cart = [o \in Orders |-> "none"]
    /\ order = [o \in Orders |-> "NONE"]
    /\ reservation = [o \in Orders |-> "NONE"]
    /\ payment = [o \in Orders |-> "NONE"]
    /\ shipment = [o \in Orders |-> "NONE"]
    /\ emitted = [e \in EventTypes |-> [o \in Orders |-> 0]]
    /\ published = {}
    /\ queue = [c \in Modules |-> {}]
    /\ inbox = {}
    /\ dead = {}
    /\ txs = {}

-----------------------------------------------------------------------------
(* Order *)

PlaceOrder(o, kind) ==
    /\ order[o] = "NONE"
    /\ order' = [order EXCEPT ![o] = "PLACED"]
    /\ cart' = [cart EXCEPT ![o] = kind]
    /\ Emit("OrderPlaced", o)
    /\ UNCHANGED <<reservation, payment, shipment, published, queue, inbox,
                   dead, txs>>

\* POST /orders/:id/cancel up to the entity's guard.
CancelOrder(client, o) ==
    /\ Idle(client)
    /\ emitted["OrderCancelled"][o] < MaxCancels
    /\ OrderAllows("cancel", order[o])
    /\ Begin("cancel", o, order[o], client)
    /\ UNCHANGED <<cart, rows, emitted, published, queue, inbox, dead>>

\* What the five order processors have in common, up to the entity's guard.
\* When the guard throws the transaction rolls back and the message stays to
\* be retried.
OrderHandle(m, op) ==
    /\ Fresh("order", m)
    /\ OrderAllows(op, order[m.order])
    /\ Begin(op, m.order, order[m.order], m)
    /\ UNCHANGED <<cart, rows, emitted, published, queue, inbox, dead>>

OrderPaymentCompleted(m)  == m.type = "PaymentCompleted"  /\ OrderHandle(m, "pay")
OrderShipmentCreated(m)   == m.type = "ShipmentCreated"   /\ OrderHandle(m, "ship")
OrderShipmentDelivered(m) == m.type = "ShipmentDelivered" /\ OrderHandle(m, "deliver")
OrderPaymentFailed(m)     == m.type = "PaymentFailed"     /\ OrderHandle(m, "cancel")
OrderReservationFailed(m) ==
    m.type = "InventoryReservationFailed" /\ OrderHandle(m, "cancel")

\* cancel() on a CANCELLED order changes no field, so no UPDATE is issued.
OrderCommit(t) ==
    /\ t.op \in OrderOps
    /\ order' = IF t.seen = OrderTarget[t.op] THEN order
                ELSE [order EXCEPT ![t.order] = OrderTarget[t.op]]
    /\ IF Announces(t) THEN Emit("OrderCancelled", t.order)
       ELSE UNCHANGED emitted
    /\ Close(t)
    /\ UNCHANGED <<cart, reservation, payment, shipment, published, queue, dead>>

-----------------------------------------------------------------------------
(* Inventory *)

\* All items are reserved, or the catch block reports the failure.  An order
\* without items has no reservation rows and cannot fail.
InventoryReserve(m) ==
    /\ Fresh("inventory", m)
    /\ m.type = "OrderPlaced"
    /\ reservation' = IF cart[m.order] = "empty" THEN reservation
                      ELSE [reservation EXCEPT ![m.order] = "RESERVED"]
    /\ Emit("InventoryReserved", m.order)
    /\ Handled("inventory", m)
    /\ UNCHANGED <<cart, order, payment, shipment, published, queue, dead, txs>>

InventoryRefuse(m) ==
    /\ Fresh("inventory", m)
    /\ m.type = "OrderPlaced"
    /\ cart[m.order] # "empty"
    /\ Emit("InventoryReservationFailed", m.order)
    /\ Handled("inventory", m)
    /\ UNCHANGED <<cart, rows, published, queue, dead, txs>>

\* No active reservation: the handler logs and returns, its inbox row commits.
InventoryNothingToRelease(m) ==
    /\ Fresh("inventory", m)
    /\ m.type = "OrderCancelled"
    /\ reservation[m.order] # "RESERVED"
    /\ Handled("inventory", m)
    /\ UNCHANGED <<cart, rows, emitted, published, queue, dead, txs>>

InventoryRelease(m) ==
    /\ Fresh("inventory", m)
    /\ m.type = "OrderCancelled"
    /\ reservation[m.order] = "RESERVED"
    /\ Begin("release", m.order, reservation[m.order], m)
    /\ UNCHANGED <<cart, rows, emitted, published, queue, inbox, dead>>

InventoryReleaseCommit(t) ==
    /\ t.op = "release"
    /\ reservation' = [reservation EXCEPT ![t.order] = "RELEASED"]
    /\ Emit("InventoryReleased", t.order)
    /\ Close(t)
    /\ UNCHANGED <<cart, order, payment, shipment, published, queue, dead>>

-----------------------------------------------------------------------------
(* Payment *)

\* The completed event chosen without looking at the outcome.
MutPaymentHandleReserved(m) ==
    /\ Fresh("payment", m)
    /\ m.type = "InventoryReserved"
    /\ IF payment[m.order] # "NONE"
       THEN UNCHANGED <<payment, emitted>>
       ELSE /\ payment' = [payment EXCEPT ![m.order] =
                            IF cart[m.order] = "declined" THEN "FAILED" ELSE "COMPLETED"]
            /\ Emit("PaymentCompleted", m.order)
    /\ Handled("payment", m)
    /\ UNCHANGED <<cart, order, reservation, shipment, published, queue, dead, txs>>

\* Skipped when the order has a payment; otherwise the payment is created and
\* settled in one transaction: declined when the total ends in .99.
PaymentHandleReserved(m) ==
    /\ Fresh("payment", m)
    /\ m.type = "InventoryReserved"
    /\ IF payment[m.order] # "NONE"
       THEN UNCHANGED <<payment, emitted>>
       ELSE IF cart[m.order] = "declined"
            THEN /\ payment' = [payment EXCEPT ![m.order] = "FAILED"]
                 /\ Emit("PaymentFailed", m.order)
            ELSE /\ payment' = [payment EXCEPT ![m.order] = "COMPLETED"]
                 /\ Emit("PaymentCompleted", m.order)
    /\ Handled("payment", m)
    /\ UNCHANGED <<cart, order, reservation, shipment, published, queue, dead, txs>>

PaymentNothingToRefund(m) ==
    /\ Fresh("payment", m)
    /\ m.type = "OrderCancelled"
    /\ payment[m.order] # "COMPLETED"
    /\ Handled("payment", m)
    /\ UNCHANGED <<cart, rows, emitted, published, queue, dead, txs>>

PaymentRefund(m) ==
    /\ Fresh("payment", m)
    /\ m.type = "OrderCancelled"
    /\ payment[m.order] = "COMPLETED"
    /\ Begin("refund", m.order, payment[m.order], m)
    /\ UNCHANGED <<cart, rows, emitted, published, queue, inbox, dead>>

PaymentRefundCommit(t) ==
    /\ t.op = "refund"
    /\ payment' = [payment EXCEPT ![t.order] = "REFUNDED"]
    /\ Close(t)
    /\ UNCHANGED <<cart, order, reservation, shipment, emitted, published,
                   queue, dead>>

-----------------------------------------------------------------------------
(* Shipping *)

ShippingHandlePaid(m) ==
    /\ Fresh("shipping", m)
    /\ m.type = "PaymentCompleted"
    /\ IF shipment[m.order] # "NONE"
       THEN UNCHANGED <<shipment, emitted>>
       ELSE /\ shipment' = [shipment EXCEPT ![m.order] = "PENDING"]
            /\ Emit("ShipmentCreated", m.order)
    /\ Handled("shipping", m)
    /\ UNCHANGED <<cart, order, reservation, payment, published, queue, dead, txs>>

\* No shipment, or one that is no longer PENDING: the handler logs and returns.
ShippingNothingToCancel(m) ==
    /\ Fresh("shipping", m)
    /\ m.type = "OrderCancelled"
    /\ ~ShipmentAllows("void", shipment[m.order])
    /\ Handled("shipping", m)
    /\ UNCHANGED <<cart, rows, emitted, published, queue, dead, txs>>

ShippingCancel(m) ==
    /\ Fresh("shipping", m)
    /\ m.type = "OrderCancelled"
    /\ ShipmentAllows("void", shipment[m.order])
    /\ Begin("void", m.order, shipment[m.order], m)
    /\ UNCHANGED <<cart, rows, emitted, published, queue, inbox, dead>>

\* The API handlers of a shipment, up to the entity's guard.
ShipmentRequest(client, o, op) ==
    /\ Idle(client)
    /\ ShipmentAllows(op, shipment[o])
    /\ Begin(op, o, shipment[o], client)
    /\ UNCHANGED <<cart, rows, emitted, published, queue, inbox, dead>>

ShipShipment(client, o) == ShipmentRequest(client, o, "dispatch")
DeliverShipment(client, o) == ShipmentRequest(client, o, "handover")

ShipmentCommit(t) ==
    /\ t.op \in ShipmentOps
    /\ shipment' = [shipment EXCEPT ![t.order] = ShipmentTarget[t.op]]
    /\ IF t.op = "handover" THEN Emit("ShipmentDelivered", t.order)
       ELSE UNCHANGED emitted
    /\ Close(t)
    /\ UNCHANGED <<cart, order, reservation, payment, published, queue, dead>>

-----------------------------------------------------------------------------
(* Transactions, relay and broker *)

\* A crash or a database error before the commit undoes the transaction.
Rollback(t) ==
    /\ "rollback" \in Faults
    /\ txs' = txs \ {t}
    /\ UNCHANGED <<cart, rows, emitted, published, queue, inbox, dead>>

Route(m) ==
    queue' = [c \in Modules |-> IF c \in Consumers[m.type]
                                THEN queue[c] \cup {m} ELSE queue[c]]

\* The relay publishes an outbox row, in no particular order, and marks it.
Publish(m) ==
    /\ Stored(m)
    /\ m \notin published
    /\ Route(m)
    /\ published' = published \cup {m}
    /\ UNCHANGED <<cart, rows, emitted, inbox, dead, txs>>

\* The relay fails after publishing: its transaction rolls back, the row
\* stays unprocessed and will be published again.
PublishUnmarked(m) ==
    /\ "republish" \in Faults
    /\ Stored(m)
    /\ m \notin published
    /\ Route(m)
    /\ UNCHANGED <<cart, rows, emitted, published, inbox, dead, txs>>

\* The consumer acknowledges a message its handler has an inbox row for: the
\* end of the successful attempt, or a redelivery ignored as a duplicate.
Ack(c, m) ==
    /\ m \in queue[c]
    /\ <<c, m>> \in inbox
    /\ queue' = [queue EXCEPT ![c] = @ \ {m}]
    /\ UNCHANGED <<cart, rows, emitted, published, inbox, dead, txs>>

\* All immediate and delayed retries failed.
DeadLetter(c, m) ==
    /\ "deadletter" \in Faults
    /\ Fresh(c, m)
    /\ dead' = dead \cup {<<c, m>>}
    /\ queue' = [queue EXCEPT ![c] = @ \ {m}]
    /\ UNCHANGED <<cart, rows, emitted, published, inbox, txs>>

-----------------------------------------------------------------------------
Handle(c, m) ==
    \/ /\ c = "order"
       /\ \/ OrderPaymentCompleted(m)
          \/ OrderShipmentCreated(m)
          \/ OrderShipmentDelivered(m)
          \/ OrderPaymentFailed(m)
          \/ OrderReservationFailed(m)
    \/ /\ c = "inventory"
       /\ \/ InventoryReserve(m)
          \/ InventoryRefuse(m)
          \/ InventoryNothingToRelease(m)
          \/ InventoryRelease(m)
    \/ /\ c = "payment"
       /\ \/ PaymentHandleReserved(m)
          \/ PaymentNothingToRefund(m)
          \/ PaymentRefund(m)
    \/ /\ c = "shipping"
       /\ \/ ShippingHandlePaid(m)
          \/ ShippingNothingToCancel(m)
          \/ ShippingCancel(m)

Commit(t) ==
    \/ OrderCommit(t)
    \/ InventoryReleaseCommit(t)
    \/ PaymentRefundCommit(t)
    \/ ShipmentCommit(t)

Request ==
    \/ \E o \in Orders, kind \in Carts : PlaceOrder(o, kind)
    \/ \E client \in Clients, o \in Orders :
          \/ CancelOrder(client, o)
          \/ ShipShipment(client, o)
          \/ DeliverShipment(client, o)

Next ==
    \/ Request
    \/ \E c \in Modules : \E m \in queue[c] :
          Handle(c, m) \/ Ack(c, m) \/ DeadLetter(c, m)
    \/ \E t \in txs : Commit(t) \/ Rollback(t)
    \/ \E type \in EventTypes, o \in Orders : \E n \in 1..emitted[type][o] :
          LET m == Message(type, o, n) IN Publish(m) \/ PublishUnmarked(m)

Spec == Init /\ [][Next]_vars

PublishSome ==
    \E type \in EventTypes, o \in Orders : \E n \in 1..emitted[type][o] :
        Publish(Message(type, o, n))
HandleSome == \E c \in Modules : \E m \in queue[c] : Handle(c, m)
AckSome == \E c \in Modules : \E m \in queue[c] : Ack(c, m)
CommitSome == \E t \in txs : Commit(t)

\* The relays loop and every module runs a consumer, so they do not idle while
\* there is an outbox row to publish or a message to handle or acknowledge.
\* Failed attempts are retried, so transactions that could commit again and
\* again are not rolled back every time.  Clients owe nothing.
Fairness ==
    /\ WF_vars(PublishSome)
    /\ WF_vars(HandleSome)
    /\ WF_vars(AckSome)
    /\ SF_vars(CommitSome)

FairSpec == Spec /\ Fairness

-----------------------------------------------------------------------------
(* Properties *)

\* The types of the variables; in particular each module's handlers leave its
\* rows in the statuses its own entities know.
TypeOK ==
    /\ cart \in [Orders -> Carts \cup {"none"}]
    /\ order \in [Orders -> OrderStatus \cup {"NONE"}]
    /\ reservation \in [Orders -> ReservationStatus \cup {"NONE"}]
    /\ payment \in [Orders -> PaymentStatus \cup {"NONE"}]
    /\ shipment \in [Orders -> ShipmentStatus \cup {"NONE"}]
    /\ emitted \in [EventTypes -> [Orders -> Nat]]
    /\ published \in SUBSET Messages
    /\ queue \in [Modules -> SUBSET Messages]
    /\ inbox \in SUBSET (Modules \X Messages)
    /\ dead \in SUBSET (Modules \X Messages)
    /\ txs \in SUBSET Txs

\* Whatever is duplicated, reordered, cancelled or rolled back: an order is
\* PAID or further only if its payment was collected, SHIPPED or further only
\* if it has a shipment, a shipment exists only for a collected payment, and a
\* payment is collected only for stock that was reserved (or for no items).
NothingUnpaidShips ==
    \A o \in Orders :
        /\ order[o] \in {"PAID", "SHIPPED", "DELIVERED"}
              => payment[o] \in {"COMPLETED", "REFUNDED"}
        /\ order[o] \in {"SHIPPED", "DELIVERED"} => shipment[o] # "NONE"
        /\ shipment[o] # "NONE" => payment[o] \in {"COMPLETED", "REFUNDED"}
        /\ payment[o] # "NONE" => cart[o] = "empty" \/ reservation[o] # "NONE"

\* At-least-once delivery has exactly-once effects: each forward step of the
\* saga is announced at most once per order, and never both ways.
StepsOnce ==
    \A o \in Orders :
        /\ emitted["OrderPlaced"][o] <= 1
        /\ emitted["InventoryReserved"][o]
              + emitted["InventoryReservationFailed"][o] <= 1
        /\ emitted["PaymentCompleted"][o] + emitted["PaymentFailed"][o] <= 1
        /\ emitted["ShipmentCreated"][o] <= 1

\* Nothing is undone unless the Order module announced a cancellation.
UndoHasCause ==
    \A o \in Orders :
        \/ order[o] = "CANCELLED"
        \/ reservation[o] = "RELEASED"
        \/ payment[o] = "REFUNDED"
        \/ shipment[o] = "CANCELLED"
        => emitted["OrderCancelled"][o] > 0

\* The operation of the entity that an order processor needs for its event.
OrderOpOf ==
    [PaymentCompleted           |-> "pay",
     ShipmentCreated            |-> "ship",
     ShipmentDelivered          |-> "deliver",
     PaymentFailed              |-> "cancel",
     InventoryReservationFailed |-> "cancel"]

\* Nothing about o is under way: no open transaction, no unpublished outbox
\* row, no message given up, and none waiting, unless for the Order module
\* where the entity refuses it.
Quiet(o) ==
    /\ \A t \in txs : t.order # o
    /\ \A type \in EventTypes : \A n \in 1..emitted[type][o] :
          Message(type, o, n) \in published
    /\ \A e \in dead : e[2].order # o
    /\ \A c \in Modules : \A m \in queue[c] :
          m.order = o => c = "order" /\ ~OrderAllows(OrderOpOf[m.type], order[o])

Fulfilled(o) ==
    /\ \/ order[o] = "SHIPPED"   /\ shipment[o] \in {"PENDING", "SHIPPED"}
       \/ order[o] = "DELIVERED" /\ shipment[o] = "DELIVERED"
    /\ payment[o] = "COMPLETED"
    /\ reservation[o] = (IF cart[o] = "empty" THEN "NONE" ELSE "RESERVED")

Reversed(o) ==
    /\ order[o] = "CANCELLED"
    /\ reservation[o] # "RESERVED"
    /\ payment[o] # "COMPLETED"
    /\ shipment[o] \in {"NONE", "CANCELLED"}

\* Once everything about an order has been delivered, the four modules agree:
\* it is fulfilled everywhere or reversed everywhere.
ModulesAgree ==
    \A o \in Orders :
        Quiet(o) /\ order[o] # "NONE" => Fulfilled(o) \/ Reversed(o)

\* Whoever cancels and whenever: an order is not left half way.  Once all its
\* messages have been handled it is neither PLACED nor PAID.
NoLimbo ==
    \A o \in Orders : Quiet(o) => order[o] \notin {"PLACED", "PAID"}

\* "User cancels": release inventory, refund, cancel the shipment
\* (docs/01-product-requirements.md:156).  Once everything about an order whose
\* cancellation was announced has been handled, nothing of it is left standing.
CancelReverses ==
    \A o \in Orders :
        Quiet(o) /\ emitted["OrderCancelled"][o] > 0 => Reversed(o)

\* A settled decision is never taken back: stock once released, money once
\* refused or refunded.
SettledIsFinal ==
    [][\A o \in Orders :
        /\ reservation[o] = "RELEASED" => reservation'[o] = "RELEASED"
        /\ payment[o] \in {"FAILED", "REFUNDED"} => payment'[o] = payment[o]]_vars

\* Without client cancellations, concurrent transactions on the order row
\* still move it only the ways the entity allows.
Lifecycle == INSTANCE OrderLifecycle WITH status <- order
FollowsLifecycle == Lifecycle!Spec

\* Every order that was placed is eventually shipped or cancelled.
OrdersResolve ==
    \A o \in Orders :
        order[o] = "PLACED" ~> order[o] \in {"SHIPPED", "DELIVERED", "CANCELLED"}

\* Every cancelled or refused order is eventually reversed in every module.
CancellationCompletes ==
    \A o \in Orders : order[o] = "CANCELLED" ~> Reversed(o)

=============================================================================
