------------------------- MODULE SagaOutcomeProofs -------------------------
(***************************************************************************)
(* Theorems about where an order ends: what holds of it once everything     *)
(* that was stored about it has been handled.                              *)
(*                                                                         *)
(* The argument has three parts.  No message is lost between the outbox and *)
(* the inbox; a message in an inbox has had its effect on the rows, which   *)
(* no stale transaction undoes; and a row that is not where the order ends  *)
(* has stored an event that takes it further.                              *)
(***************************************************************************)
EXTENDS SagaProofs

\* Module c has an inbox row for the order's one event of the type.
Done(c, type, o) == <<c, Message(type, o, 1)>> \in inbox

\* A published message is waiting, given up or handled in each of its modules.
Accounted ==
    \A m \in published : \A c \in Consumers[m.type] :
        m \in queue[c] \/ <<c, m>> \in dead \/ <<c, m>> \in inbox

\* The events that the transactions of each operation handle.
ByEvent ==
    [pay |-> {"PaymentCompleted"}, ship |-> {"ShipmentCreated"},
     deliver |-> {"ShipmentDelivered"},
     cancel |-> {"PaymentFailed", "InventoryReservationFailed"},
     release |-> {"OrderCancelled"}, refund |-> {"OrderCancelled"},
     void |-> {"OrderCancelled"}, dispatch |-> {}, handover |-> {}]

\* The unique inbox key: a message has one open transaction in a module, and
\* none once it has an inbox row.
Keyed(t) ==
    /\ t.by \in Clients => t.op \in {"cancel", "dispatch", "handover"}
    /\ t.by \notin Clients =>
          /\ t.by.type \in ByEvent[t.op]
          /\ t.by.order = t.order
          /\ Stored(t.by)
          /\ <<ModuleOf(t.op), t.by>> \notin inbox
          /\ \A u \in txs : u.by = t.by /\ ModuleOf(u.op) = ModuleOf(t.op) => u = t

TxsKeyed == \A t \in txs : Keyed(t)

\* What a handled message has done stays done.
Effect(c, m) ==
    /\ c = "payment" /\ m.type = "InventoryReserved" => payment[m.order] # "NONE"
    /\ c = "shipping" /\ m.type = "PaymentCompleted" => shipment[m.order] # "NONE"
    /\ c = "order" => order[m.order] \notin {"NONE", "PLACED"}
    /\ c = "order" /\ m.type = "ShipmentCreated" =>
          order[m.order] # "PAID" /\ Done("order", "PaymentCompleted", m.order)
    /\ c = "order" /\ m.type = "ShipmentDelivered" =>
          order[m.order] \notin {"PAID", "SHIPPED"} /\ Done("order", "ShipmentCreated", m.order)

Effects == \A c \in Modules, m \in Messages : <<c, m>> \in inbox => Effect(c, m)

\* What the status of the order row, or an empty cart, tells of the inbox and
\* of the other modules.
Cause(o) ==
    /\ order[o] \in {"PAID", "SHIPPED", "DELIVERED"} => Done("order", "PaymentCompleted", o)
    /\ order[o] \in {"SHIPPED", "DELIVERED"} => Done("order", "ShipmentCreated", o)
    /\ order[o] = "DELIVERED" => emitted["ShipmentDelivered"][o] > 0
    /\ cart[o] = "empty" => reservation[o] = "NONE"

Causes == \A o \in Orders : Cause(o)

\* What the status that a transaction on the order read tells of it.
TxCause(t) ==
    /\ t.op \in OrderOps => OrderAllows(t.op, t.seen)
    /\ t.op \in {"ship", "deliver"} => Done("order", "PaymentCompleted", t.order)
    /\ t.op = "deliver" => Done("order", "ShipmentCreated", t.order)
    /\ t.op = "cancel" /\ t.seen = "CANCELLED" => order[t.order] # "PLACED"

TxsCaused == \A t \in txs : TxCause(t)

\* The invariant of SagaProofs with what the end of an order rests on.
Outcome == IInv /\ Accounted /\ TxsKeyed /\ Effects /\ Causes /\ TxsCaused

-----------------------------------------------------------------------------
(* The kinds of steps *)

\* A transaction reads the row it will update.
Begins(t) ==
    /\ t \in Txs
    /\ txs' = txs \cup {t}
    /\ UNCHANGED <<cart, rows, emitted, published, queue, inbox, dead>>
    /\ t.op \in OrderOps => OrderAllows(t.op, order[t.order]) /\ t.seen = order[t.order]
    /\ t.op \in ShipmentOps => ShipmentAllows(t.op, shipment[t.order])
    /\ \/ /\ t.by \in Clients
          /\ Idle(t.by)
          /\ t.op \in {"cancel", "dispatch", "handover"}
          /\ t.op = "cancel" => emitted["OrderCancelled"][t.order] < MaxCancels
       \/ /\ t.by \in Messages
          /\ Fresh(ModuleOf(t.op), t.by)
          /\ t.by.type \in ByEvent[t.op]
          /\ t.by.order = t.order

\* A handler that only inserts rows, or has nothing to do.
Records(c, m) ==
    /\ c # "order"
    /\ m \in Messages
    /\ Fresh(c, m)
    /\ Handled(c, m)
    /\ UNCHANGED <<cart, order, published, queue, dead, txs>>
    /\ \A o \in Orders :
          /\ payment[o] # "NONE" => payment'[o] # "NONE"
          /\ shipment[o] # "NONE" => shipment'[o] = shipment[o]
          /\ shipment'[o] # shipment[o] => shipment'[o] = "PENDING"
          /\ cart[o] = "empty" => reservation'[o] = reservation[o]
          /\ ReserveTried(o) => reservation'[o] = reservation[o]
          /\ emitted'["OrderCancelled"][o] = emitted["OrderCancelled"][o]
          /\ emitted'["ShipmentDelivered"][o] = emitted["ShipmentDelivered"][o]
    /\ c = "payment" /\ m.type = "InventoryReserved" => payment'[m.order] # "NONE"
    /\ c = "shipping" /\ m.type = "PaymentCompleted" => shipment'[m.order] # "NONE"
    /\ c = "inventory" /\ m.type = "OrderCancelled" =>
          reservation' = reservation /\ reservation[m.order] # "RESERVED"

\* The relay, the broker, the consumer's acknowledgement, a rollback.
Delivers ==
    /\ txs' \subseteq txs
    /\ UNCHANGED <<cart, rows, emitted, inbox>>

LEMMA BegunFact ==
    ASSUME TypeOK, NEW op \in Ops, NEW o \in Orders, NEW by \in Messages \cup Clients,
           NEW seen \in OrderStatus \cup ReservationStatus \cup PaymentStatus
                        \cup ShipmentStatus,
           Begin(op, o, seen, by)
    PROVE  \E t \in Txs : /\ t.op = op /\ t.order = o /\ t.seen = seen /\ t.by = by
                          /\ txs' = txs \cup {t}
<1> DEFINE t == [op |-> op, order |-> o, seen |-> seen, by |-> by]
<1>1. t \in Txs /\ t.op = op /\ t.order = o /\ t.seen = seen /\ t.by = by
    BY DEF Txs
<1>2. txs' = txs \cup {t}
    BY DEF Begin
<1> QED BY <1>1, <1>2

LEMMA RequestKind ==
    ASSUME IInv, NEW client \in Clients, NEW o \in Orders,
           CancelOrder(client, o) \/ ShipShipment(client, o) \/ DeliverShipment(client, o)
    PROVE  \E t : Begins(t)
<1> USE DEF IInv
<1>1. CASE CancelOrder(client, o)
  <2>1. "cancel" \in Ops /\ order[o] \in OrderStatus
      BY <1>1 DEF CancelOrder, OrderAllows, Ops, OrderOps, OrderStatus
  <2>2. PICK t \in Txs : /\ t.op = "cancel" /\ t.order = o /\ t.seen = order[o] /\ t.by = client
                         /\ txs' = txs \cup {t}
      BY <1>1, <2>1, BegunFact DEF CancelOrder
  <2>3. Begins(t)
      BY <1>1, <2>2 DEF CancelOrder, Begins, OrderOps, ShipmentOps
  <2> QED BY <2>3
<1>2. ASSUME NEW op \in {"dispatch", "handover"}, ShipmentRequest(client, o, op)
      PROVE  \E t : Begins(t)
  <2>1. op \in Ops /\ shipment[o] \in ShipmentStatus
      BY <1>2 DEF ShipmentRequest, ShipmentAllows, Ops, ShipmentOps, ShipmentStatus
  <2>2. PICK t \in Txs : /\ t.op = op /\ t.order = o /\ t.seen = shipment[o] /\ t.by = client
                         /\ txs' = txs \cup {t}
      BY <1>2, <2>1, BegunFact DEF ShipmentRequest
  <2>3. Begins(t)
      BY <1>2, <2>2 DEF ShipmentRequest, Begins, OrderOps, ShipmentOps
  <2> QED BY <2>3
<1> QED BY <1>1, <1>2 DEF ShipShipment, DeliverShipment

LEMMA ModuleNames ==
    /\ \A op \in OrderOps : ModuleOf(op) = "order"
    /\ \A op \in ShipmentOps : ModuleOf(op) = "shipping"
    /\ ModuleOf("release") = "inventory" /\ ModuleOf("refund") = "payment"
BY DEF ModuleOf, OrderOps, ShipmentOps

\* The handlers that begin a transaction, with the event each is for.
LEMMA HandleBegins ==
    ASSUME IInv, NEW c \in Modules, NEW m \in queue[c], Handle(c, m), c = "order" \/
           InventoryRelease(m) \/ PaymentRefund(m) \/ ShippingCancel(m)
    PROVE  \E t : Begins(t)
<1> USE DEF IInv
<1>1. m \in Messages /\ m.order \in Orders
    BY DEF TypeOK, Messages
<1>2. ASSUME NEW op \in OrderOps, OrderHandle(m, op), m.type \in ByEvent[op]
      PROVE  \E t : Begins(t)
  <2>1. op \in Ops /\ order[m.order] \in OrderStatus
      BY <1>2 DEF OrderHandle, OrderAllows, Ops, OrderStatus
  <2>2. PICK t \in Txs : /\ t.op = op /\ t.order = m.order /\ t.seen = order[m.order]
                         /\ t.by = m /\ txs' = txs \cup {t}
      BY <1>1, <1>2, <2>1, BegunFact DEF OrderHandle
  <2>3. op \notin ShipmentOps /\ ModuleOf(op) = "order"
      BY ModuleNames DEF OrderOps, ShipmentOps
  <2>4. Begins(t)
      BY <1>1, <1>2, <2>2, <2>3 DEF OrderHandle, Begins
  <2> QED BY <2>4
<1>3. CASE Handle("order", m)
  <2>1. \E op \in OrderOps : OrderHandle(m, op) /\ m.type \in ByEvent[op]
      BY <1>3 DEF Handle, OrderPaymentCompleted, OrderShipmentCreated, OrderShipmentDelivered,
                  OrderPaymentFailed, OrderReservationFailed, OrderOps, ByEvent
  <2> QED BY <1>2, <2>1
<1>4. CASE InventoryRelease(m)
  <2>1. "release" \in Ops /\ reservation[m.order] \in ReservationStatus
      BY <1>4 DEF InventoryRelease, Ops, ReservationStatus
  <2>2. PICK t \in Txs : /\ t.op = "release" /\ t.order = m.order
                         /\ t.by = m /\ txs' = txs \cup {t}
      BY <1>1, <1>4, <2>1, BegunFact DEF InventoryRelease
  <2>3. Begins(t)
      BY <1>1, <1>4, <2>2, ModuleNames
      DEF InventoryRelease, Begins, OrderOps, ShipmentOps, ByEvent
  <2> QED BY <2>3
<1>5. CASE PaymentRefund(m)
  <2>1. "refund" \in Ops /\ payment[m.order] \in PaymentStatus
      BY <1>5 DEF PaymentRefund, Ops, PaymentStatus
  <2>2. PICK t \in Txs : /\ t.op = "refund" /\ t.order = m.order
                         /\ t.by = m /\ txs' = txs \cup {t}
      BY <1>1, <1>5, <2>1, BegunFact DEF PaymentRefund
  <2>3. Begins(t)
      BY <1>1, <1>5, <2>2, ModuleNames
      DEF PaymentRefund, Begins, OrderOps, ShipmentOps, ByEvent
  <2> QED BY <2>3
<1>6. CASE ShippingCancel(m)
  <2>1. "void" \in Ops /\ "void" \in ShipmentOps /\ shipment[m.order] \in ShipmentStatus
      BY <1>6 DEF ShippingCancel, ShipmentAllows, Ops, ShipmentOps, ShipmentStatus
  <2>2. PICK t \in Txs : /\ t.op = "void" /\ t.order = m.order
                         /\ t.by = m /\ txs' = txs \cup {t}
      BY <1>1, <1>6, <2>1, BegunFact DEF ShippingCancel
  <2>3. Begins(t)
      BY <1>1, <1>6, <2>1, <2>2, ModuleNames
      DEF ShippingCancel, Begins, OrderOps, ByEvent
  <2> QED BY <2>3
<1> QED BY <1>3, <1>4, <1>5, <1>6


\* The handlers that need no second step.
LEMMA HandleRecords ==
    ASSUME IInv, NEW c \in Modules, NEW m \in queue[c],
           \/ c = "inventory" /\ (\/ InventoryReserve(m) \/ InventoryRefuse(m)
                                  \/ InventoryNothingToRelease(m))
           \/ c = "payment" /\ (PaymentHandleReserved(m) \/ PaymentNothingToRefund(m))
           \/ c = "shipping" /\ (ShippingHandlePaid(m) \/ ShippingNothingToCancel(m))
    PROVE  Records(c, m)
<1> USE DEF IInv, rows
<1>1. m \in Messages /\ m.order \in Orders
    BY DEF TypeOK, Messages
<1>2. ASSUME NEW type \in EventTypes, type \notin {"OrderCancelled", "ShipmentDelivered"},
             Emit(type, m.order)
      PROVE  \A o \in Orders :
                /\ emitted'["OrderCancelled"][o] = emitted["OrderCancelled"][o]
                /\ emitted'["ShipmentDelivered"][o] = emitted["ShipmentDelivered"][o]
    BY <1>1, <1>2, EmitFact, EventNames
<1>3. CASE c = "inventory" /\ InventoryReserve(m)
  <2>1. Emit("InventoryReserved", m.order) /\ "InventoryReserved" \in EventTypes
      BY <1>3, EventNames DEF InventoryReserve
  <2>2. /\ UNCHANGED <<cart, order, payment, shipment, published, queue, dead, txs>>
        /\ Fresh(c, m) /\ Handled(c, m) /\ m.type = "OrderPlaced"
        /\ \A o \in Orders : cart[o] = "empty" \/ o # m.order
                                => reservation'[o] = reservation[o]
      BY <1>1, <1>3 DEF InventoryReserve, TypeOK
  <2>3. ~ReserveTried(m.order)
      BY <1>3, <2>2, FirstReserve
  <2> QED BY <1>1, <1>2, <1>3, <2>1, <2>2, <2>3 DEF Records
<1>4. CASE c = "inventory" /\ InventoryRefuse(m)
  <2>1. /\ Emit("InventoryReservationFailed", m.order)
        /\ "InventoryReservationFailed" \in EventTypes
      BY <1>4, EventNames DEF InventoryRefuse
  <2> QED BY <1>1, <1>2, <1>4, <2>1 DEF Records, InventoryRefuse
<1>5. CASE c = "inventory" /\ InventoryNothingToRelease(m)
    BY <1>1, <1>5 DEF Records, InventoryNothingToRelease
<1>6. CASE c = "payment" /\ PaymentHandleReserved(m)
  <2>1. \A o \in Orders :
           /\ emitted'["OrderCancelled"][o] = emitted["OrderCancelled"][o]
           /\ emitted'["ShipmentDelivered"][o] = emitted["ShipmentDelivered"][o]
      BY <1>2, <1>6, EventNames DEF PaymentHandleReserved
  <2>2. /\ UNCHANGED <<cart, order, reservation, shipment, published, queue, dead, txs>>
        /\ Fresh(c, m) /\ Handled(c, m) /\ payment'[m.order] # "NONE"
        /\ \A o \in Orders : payment[o] # "NONE" => payment'[o] # "NONE"
      BY <1>1, <1>6 DEF PaymentHandleReserved, TypeOK
  <2> QED BY <1>1, <1>6, <2>1, <2>2 DEF Records
<1>7. CASE c = "payment" /\ PaymentNothingToRefund(m)
    BY <1>1, <1>7 DEF Records, PaymentNothingToRefund
<1>8. CASE c = "shipping" /\ ShippingHandlePaid(m)
  <2>1. \A o \in Orders :
           /\ emitted'["OrderCancelled"][o] = emitted["OrderCancelled"][o]
           /\ emitted'["ShipmentDelivered"][o] = emitted["ShipmentDelivered"][o]
      BY <1>2, <1>8, EventNames DEF ShippingHandlePaid
  <2>2. /\ UNCHANGED <<cart, order, reservation, payment, published, queue, dead, txs>>
        /\ Fresh(c, m) /\ Handled(c, m) /\ shipment'[m.order] # "NONE"
        /\ \A o \in Orders : /\ shipment[o] # "NONE" => shipment'[o] = shipment[o]
                             /\ shipment'[o] # shipment[o] => shipment'[o] = "PENDING"
      BY <1>1, <1>8 DEF ShippingHandlePaid, TypeOK
  <2> QED BY <1>1, <1>8, <2>1, <2>2 DEF Records
<1>9. CASE c = "shipping" /\ ShippingNothingToCancel(m)
    BY <1>1, <1>9 DEF Records, ShippingNothingToCancel
<1> QED BY <1>3, <1>4, <1>5, <1>6, <1>7, <1>8, <1>9

LEMMA StepKinds ==
    ASSUME IInv, [Next]_vars
    PROVE  \/ \E o \in Orders, kind \in Carts : PlaceOrder(o, kind)
           \/ \E t : Begins(t)
           \/ \E c \in Modules, m \in Messages : Records(c, m)
           \/ \E t \in txs : Commit(t)
           \/ Delivers
<1> USE DEF rows
<1>1. CASE Request
    BY <1>1, RequestKind DEF Request
<1>2. ASSUME NEW c \in Modules, NEW m \in queue[c], Ack(c, m) \/ DeadLetter(c, m)
      PROVE  Delivers
    BY <1>2 DEF Ack, DeadLetter, Delivers
<1>3. ASSUME NEW c \in Modules, NEW m \in queue[c], Handle(c, m)
      PROVE  (\E t : Begins(t)) \/ Records(c, m)
    BY <1>3, HandleBegins, HandleRecords DEF Handle
<1>4. ASSUME NEW t \in txs, Rollback(t) PROVE Delivers
    BY <1>4 DEF Rollback, Delivers
<1>5. ASSUME NEW m, Publish(m) \/ PublishUnmarked(m) PROVE Delivers
    BY <1>5 DEF Publish, PublishUnmarked, Delivers
<1>6. CASE UNCHANGED vars
    BY <1>6 DEF vars, Delivers
<1>7. \A c \in Modules : \A m \in queue[c] : m \in Messages
    BY DEF IInv, TypeOK
<1> QED BY <1>1, <1>2, <1>3, <1>4, <1>5, <1>6, <1>7 DEF Next

-----------------------------------------------------------------------------
(* No message is lost *)

LEMMA AccountedStep == ASSUME IInv, Accounted, [Next]_vars PROVE Accounted'
<1> USE DEF IInv, rows
<1>1. ASSUME \A m \in published', c \in Modules :
                m \in published /\ (m \in queue[c] \/ <<c, m>> \in dead \/ <<c, m>> \in inbox)
                   => m \in queue'[c] \/ <<c, m>> \in dead' \/ <<c, m>> \in inbox',
             \A m \in published' : m \notin published => \A c \in Consumers[m.type] : m \in queue'[c]
      PROVE  Accounted'
  <2>1. TypeOK'
      BY TypeStep
  <2>2. \A m \in published' : Consumers[m.type] \subseteq Modules
      BY <2>1 DEF TypeOK, Messages, Consumers
  <2> QED BY <1>1, <2>2 DEF Accounted
<1>2. CASE UNCHANGED <<published, queue, dead>> /\ inbox \subseteq inbox'
    BY <1>1, <1>2
<1>3. ASSUME NEW c \in Modules, NEW m \in queue[c], Ack(c, m) \/ DeadLetter(c, m)
      PROVE  Accounted'
    BY <1>1, <1>3 DEF Ack, DeadLetter, TypeOK
<1>4. ASSUME NEW type \in EventTypes, NEW o \in Orders, NEW n \in 1..emitted[type][o],
             Publish(Message(type, o, n)) \/ PublishUnmarked(Message(type, o, n))
      PROVE  Accounted'
  <2>1. Message(type, o, n) \in Messages
      BY StoredMessage
  <2>2. \A c \in Modules : queue[c] \subseteq queue'[c]
      BY <1>4 DEF Publish, PublishUnmarked, Route
  <2>3. \A c \in Consumers[Message(type, o, n).type] : Message(type, o, n) \in queue'[c]
      BY <1>4, <2>1 DEF Publish, PublishUnmarked, Route, Consumers, Messages
  <2> QED BY <1>1, <1>4, <2>2, <2>3 DEF Publish, PublishUnmarked
<1>5. CASE Request
    BY <1>2, <1>5 DEF Request, PlaceOrder, CancelOrder, ShipShipment, DeliverShipment,
                      ShipmentRequest
<1>6. ASSUME NEW c \in Modules, NEW m \in queue[c], Handle(c, m) PROVE Accounted'
  <2>1. (\E t : Begins(t)) \/ Records(c, m)
      BY <1>6, HandleBegins, HandleRecords DEF Handle
  <2> QED BY <1>2, <2>1 DEF Begins, Records, Handled
<1>7. ASSUME NEW t \in txs, Commit(t) \/ Rollback(t) PROVE Accounted'
    BY <1>2, <1>7 DEF Commit, Rollback, OrderCommit, InventoryReleaseCommit,
                      PaymentRefundCommit, ShipmentCommit, Close
<1>8. CASE UNCHANGED vars
    BY <1>2, <1>8 DEF vars
<1> QED BY <1>3, <1>4, <1>5, <1>6, <1>7, <1>8 DEF Next


-----------------------------------------------------------------------------
(* What no step takes back *)

\* The status of an order after a transaction on it.
LEMMA OrderCommitFact ==
    ASSUME IInv, NEW t \in txs, OrderCommit(t)
    PROVE  /\ t.order \in Orders /\ t.op \in OrderOps
           /\ order'[t.order] = IF t.seen = OrderTarget[t.op] THEN order[t.order]
                                ELSE OrderTarget[t.op]
           /\ \A o \in Orders : o # t.order => order'[o] = order[o]
           /\ OrderTarget[t.op] \in {"PAID", "SHIPPED", "DELIVERED", "CANCELLED"}
<1>1. t.order \in Orders /\ order \in [Orders -> OrderStatus \cup {"NONE"}]
    BY DEF IInv, TypeOK, Txs
<1>2. t.op \in OrderOps
    BY DEF OrderCommit
<1> QED BY <1>1, <1>2 DEF OrderCommit, OrderTarget, OrderOps

LEMMA CommitFact ==
    ASSUME IInv, NEW t \in txs, Commit(t)
    PROVE  /\ Close(t)
           /\ UNCHANGED <<cart, published, queue, dead>>
           /\ t.op \in OrderOps => OrderCommit(t)
           /\ t.op \notin OrderOps => UNCHANGED order
           /\ t.op # "release" => UNCHANGED reservation
           /\ t.op # "refund" => UNCHANGED payment
           /\ t.op \notin ShipmentOps => UNCHANGED shipment
BY DEF Commit, OrderCommit, InventoryReleaseCommit, PaymentRefundCommit, ShipmentCommit,
       OrderOps, ShipmentOps

LEMMA Grows ==
    ASSUME IInv, [Next]_vars
    PROVE  /\ inbox \subseteq inbox'
           /\ \A m \in Messages : Stored(m) => Stored(m)'
           /\ \A o \in Orders :
                 /\ order[o] \notin {"NONE", "PLACED"} => order'[o] \notin {"NONE", "PLACED"}
                 /\ payment[o] # "NONE" => payment'[o] # "NONE"
                 /\ shipment[o] # "NONE" => shipment'[o] # "NONE"
<1> USE DEF IInv, rows
<1>1. \A m \in Messages : Stored(m) => Stored(m)'
  <2> SUFFICES ASSUME NEW m \in Messages, Stored(m) PROVE Stored(m)'
      OBVIOUS
  <2>1. m.type \in EventTypes /\ m.order \in Orders /\ m.n \in Nat
      BY DEF Messages
  <2>2. emitted[m.type][m.order] \in Nat /\ emitted'[m.type][m.order] \in Nat
        /\ emitted'[m.type][m.order] >= emitted[m.type][m.order]
      BY <2>1, OneEvent, OnwardEmit DEF TypeOK
  <2> QED BY <2>1, <2>2 DEF Stored
<1>2. ASSUME NEW o \in Orders
      PROVE  /\ order[o] \notin {"NONE", "PLACED"} => order'[o] \notin {"NONE", "PLACED"}
             /\ payment[o] # "NONE" => payment'[o] # "NONE"
             /\ shipment[o] # "NONE" => shipment'[o] # "NONE"
  <2>1. ASSUME NEW p \in Orders, NEW kind \in Carts, PlaceOrder(p, kind)
        PROVE  /\ order[o] # "NONE" => order'[o] = order[o]
               /\ UNCHANGED <<payment, shipment>>
      BY <2>1 DEF PlaceOrder, TypeOK
  <2>2. ASSUME NEW t, Begins(t) PROVE UNCHANGED <<order, payment, shipment>>
      BY <2>2 DEF Begins
  <2>3. ASSUME NEW c \in Modules, NEW m \in Messages, Records(c, m)
        PROVE  /\ UNCHANGED order
               /\ payment[o] # "NONE" => payment'[o] # "NONE"
               /\ shipment[o] # "NONE" => shipment'[o] # "NONE"
      BY <2>3 DEF Records
  <2>4. ASSUME NEW t \in txs, Commit(t)
        PROVE  /\ order[o] \notin {"NONE", "PLACED"} => order'[o] \notin {"NONE", "PLACED"}
               /\ payment[o] # "NONE" => payment'[o] # "NONE"
               /\ shipment[o] # "NONE" => shipment'[o] # "NONE"
    <3>1. order[o] \notin {"NONE", "PLACED"} => order'[o] \notin {"NONE", "PLACED"}
        BY <2>4, CommitFact, OrderCommitFact
    <3>2. CASE t.op = "refund"
        BY <2>4, <3>1, <3>2
        DEF Commit, OrderCommit, InventoryReleaseCommit, PaymentRefundCommit, ShipmentCommit,
            OrderOps, ShipmentOps, TypeOK
    <3>3. CASE t.op \in ShipmentOps
      <4>1. ShipmentCommit(t) /\ ShipmentTarget[t.op] # "NONE" /\ t.op # "refund"
          BY <2>4, <3>3
          DEF Commit, OrderCommit, InventoryReleaseCommit, PaymentRefundCommit, ShipmentCommit,
              OrderOps, ShipmentOps, ShipmentTarget
      <4>2. \A p \in Orders : shipment[p] # "NONE" => shipment'[p] # "NONE"
          BY <4>1 DEF ShipmentCommit, TypeOK
      <4> QED BY <2>4, <3>1, <4>1, <4>2, CommitFact
    <3> QED BY <2>4, <3>1, <3>2, <3>3, CommitFact
  <2> QED BY <2>1, <2>2, <2>3, <2>4, StepKinds DEF Delivers
<1>3. inbox \subseteq inbox'
    BY StepKinds, CommitFact DEF PlaceOrder, Begins, Records, Handled, Delivers, Close
<1> QED BY <1>1, <1>2, <1>3

\* What a transaction knows of its message.
LEMMA KeyedFact ==
    ASSUME IInv, NEW t \in txs, Keyed(t)
    PROVE  /\ t.op \in {"pay", "ship", "deliver"} =>
                 /\ t.by \notin Clients /\ t.by \in Messages /\ t.by.order = t.order
                 /\ t.op = "pay" => t.by = Message("PaymentCompleted", t.order, 1)
                 /\ t.op = "ship" => t.by = Message("ShipmentCreated", t.order, 1)
                 /\ t.op = "deliver" => t.by.type = "ShipmentDelivered"
           /\ t.op \in {"dispatch", "handover"} => t.by \in Clients
<1>1. t \in Txs /\ t.by \in Messages \cup Clients /\ t.order \in Orders
    BY DEF IInv, TypeOK, Txs
<1>2. ASSUME t.op \in {"pay", "ship", "deliver"}
      PROVE  /\ t.by \notin Clients /\ t.by \in Messages /\ t.by.order = t.order
             /\ t.by.type \in ByEvent[t.op] /\ Stored(t.by)
    BY <1>1, <1>2 DEF Keyed
<1>3. /\ emitted["PaymentCompleted"][t.order] \in {0, 1}
      /\ emitted["ShipmentCreated"][t.order] \in {0, 1}
    BY <1>1 DEF IInv, Ledger
<1>4. ASSUME t.op \in {"pay", "ship"} PROVE t.by.n = 1
    BY <1>2, <1>3, <1>4 DEF Stored, Messages, ByEvent
<1>5. ASSUME t.op \in {"pay", "ship"} PROVE t.by = Message(t.by.type, t.order, 1)
    BY <1>2, <1>4, <1>5 DEF Message, Messages
<1>6. t.op \in {"dispatch", "handover"} => t.by \in Clients
    BY DEF Keyed, ByEvent
<1> QED BY <1>2, <1>5, <1>6 DEF ByEvent


-----------------------------------------------------------------------------
(* The unique inbox key *)

\* A transaction keeps its key while no other one takes it.
LEMMA KeyedKept ==
    ASSUME IInv, [Next]_vars, NEW u \in txs, Keyed(u),
           u.by \notin Clients =>
              /\ <<ModuleOf(u.op), u.by>> \notin inbox'
              /\ \A v \in txs' : v.by = u.by /\ ModuleOf(v.op) = ModuleOf(u.op) => v \in txs
    PROVE  Keyed(u)'
<1>1. u.by \notin Clients => u.by \in Messages
    BY DEF IInv, TypeOK, Txs
<1>2. u.by \notin Clients => Stored(u.by)'
    BY <1>1, Grows DEF Keyed
<1> QED BY <1>2 DEF Keyed

LEMMA TxsKeyedStep == ASSUME IInv, TxsKeyed, [Next]_vars PROVE TxsKeyed'
<1>1. \A u \in txs : Keyed(u) /\ (u.by \notin Clients => u.by \in Messages)
    BY DEF TxsKeyed, IInv, TypeOK, Txs
<1>2. ASSUME txs' \subseteq txs, UNCHANGED inbox PROVE TxsKeyed'
  <2> SUFFICES ASSUME NEW u \in txs' PROVE Keyed(u)'
      BY DEF TxsKeyed
  <2>1. u \in txs /\ (u.by \notin Clients => <<ModuleOf(u.op), u.by>> \notin inbox')
      BY <1>1, <1>2 DEF Keyed
  <2> QED BY <1>1, <1>2, <2>1, KeyedKept
<1>3. ASSUME NEW o \in Orders, NEW kind \in Carts, PlaceOrder(o, kind) PROVE TxsKeyed'
    BY <1>2, <1>3 DEF PlaceOrder
<1>4. ASSUME NEW t, Begins(t) PROVE TxsKeyed'
  <2> SUFFICES ASSUME NEW u \in txs' PROVE Keyed(u)'
      BY DEF TxsKeyed
  <2>1. txs' = txs \cup {t} /\ UNCHANGED <<inbox, emitted>>
      BY <1>4 DEF Begins
  <2>2. ASSUME NEW v \in txs, t.by \notin Clients
        PROVE  v.by # t.by \/ ModuleOf(v.op) # ModuleOf(t.op)
      BY <1>4, <2>2 DEF Begins, Fresh
  <2>3. CASE u \in txs
    <3>1. ASSUME u.by \notin Clients, t.by = u.by, ModuleOf(t.op) = ModuleOf(u.op) PROVE FALSE
        BY <2>2, <2>3, <3>1
    <3> QED BY <1>1, <2>1, <2>3, <3>1, KeyedKept DEF Keyed
  <2>4. CASE u = t
    <3>1. CASE t.by \in Clients
        BY <1>4, <2>4, <3>1, ClientsAssumption DEF Begins, Keyed
    <3>2. CASE t.by \notin Clients
      <4>1. /\ Fresh(ModuleOf(t.op), t.by) /\ t.by.type \in ByEvent[t.op]
            /\ t.by.order = t.order
          BY <1>4, <3>2 DEF Begins
      <4>2. ModuleOf(t.op) \in Modules
          BY <1>4 DEF Begins, Txs, ModuleOf, Ops, OrderOps, ShipmentOps, Modules
      <4>3. Stored(t.by)'
          BY <2>1, <4>1, <4>2 DEF Fresh, IInv, InFlight, Stored
      <4>4. <<ModuleOf(t.op), t.by>> \notin inbox'
          BY <2>1, <4>1 DEF Fresh
      <4> QED BY <2>1, <2>2, <2>4, <3>2, <4>1, <4>3, <4>4 DEF Keyed
    <3> QED BY <3>1, <3>2
  <2> QED BY <2>1, <2>3, <2>4
<1>5. ASSUME NEW c \in Modules, NEW m \in Messages, Records(c, m) PROVE TxsKeyed'
  <2> SUFFICES ASSUME NEW u \in txs PROVE Keyed(u)'
      BY <1>5 DEF TxsKeyed, Records
  <2>1. u.by \notin Clients => <<ModuleOf(u.op), u.by>> \notin inbox'
      BY <1>1, <1>5 DEF Keyed, Records, Handled, Fresh
  <2> QED BY <1>1, <1>5, <2>1, KeyedKept DEF Records
<1>6. ASSUME NEW t \in txs, Commit(t) PROVE TxsKeyed'
  <2>1. /\ txs' = txs \ {t}
        /\ inbox' = IF t.by \in Clients THEN inbox
                    ELSE inbox \cup {<<ModuleOf(t.op), t.by>>}
      BY <1>6, CommitFact DEF Close
  <2> SUFFICES ASSUME NEW u \in txs, u # t PROVE Keyed(u)'
      BY <2>1 DEF TxsKeyed
  <2>2. u.by \notin Clients => <<ModuleOf(u.op), u.by>> \notin inbox'
      BY <1>1, <2>1 DEF Keyed
  <2> QED BY <1>1, <2>1, <2>2, KeyedKept
<1> QED BY <1>2, <1>3, <1>4, <1>5, <1>6, StepKinds DEF Delivers

-----------------------------------------------------------------------------
(* Causes *)

LEMMA CausesStep ==
    ASSUME IInv, TxsKeyed, Causes, TxsCaused, [Next]_vars
    PROVE  Causes'
<1> SUFFICES ASSUME NEW o \in Orders PROVE Cause(o)'
    BY DEF Causes
<1>1. Cause(o) /\ inbox \subseteq inbox'
    BY Grows DEF Causes
<1>2. emitted["ShipmentDelivered"][o] > 0 => emitted'["ShipmentDelivered"][o] > 0
  <2>1. "ShipmentDelivered" \in EventTypes /\ emitted["ShipmentDelivered"][o] \in Nat
      BY EventNames DEF IInv, TypeOK
  <2>2. emitted'["ShipmentDelivered"][o] \in Nat
        /\ emitted'["ShipmentDelivered"][o] >= emitted["ShipmentDelivered"][o]
      BY <2>1, OneEvent, OnwardEmit DEF IInv
  <2> QED BY <2>1, <2>2
<1>3. ASSUME order'[o] = order[o], cart'[o] = "empty" => reservation'[o] = "NONE"
      PROVE  Cause(o)'
    BY <1>1, <1>2, <1>3 DEF Cause, Done
<1>4. ASSUME NEW p \in Orders, NEW kind \in Carts, PlaceOrder(p, kind) PROVE Cause(o)'
  <2>1. CASE p # o
      BY <1>1, <1>3, <1>4, <2>1 DEF PlaceOrder, Cause, IInv, TypeOK
  <2>2. CASE p = o
    <3>1. order'[o] = "PLACED" /\ order[o] = "NONE" /\ UNCHANGED reservation
        BY <1>4, <2>2 DEF PlaceOrder, IInv, TypeOK
    <3>2. reservation[o] = "NONE"
      <4>1. /\ emitted["InventoryReserved"][o] \in Nat
            /\ emitted["InventoryReservationFailed"][o] \in Nat
          BY EventNames DEF IInv, TypeOK
      <4> QED BY <3>1, <4>1 DEF IInv, Ledger
    <3> QED BY <3>1, <3>2 DEF Cause
  <2> QED BY <2>1, <2>2
<1>5. ASSUME NEW t, Begins(t) PROVE Cause(o)'
    BY <1>1, <1>3, <1>5 DEF Begins, Cause, rows
<1>6. ASSUME NEW c \in Modules, NEW m \in Messages, Records(c, m) PROVE Cause(o)'
    BY <1>1, <1>3, <1>6 DEF Records, Cause
<1>7. ASSUME NEW t \in txs, Commit(t) PROVE Cause(o)'
  <2>1. cart'[o] = "empty" => reservation'[o] = "NONE"
    <3>1. CASE t.op = "release"
      <4>1. /\ reservation' = [reservation EXCEPT ![t.order] = "RELEASED"]
            /\ UNCHANGED cart
          BY <1>7, <3>1 DEF Commit, OrderCommit, InventoryReleaseCommit, PaymentRefundCommit,
                            ShipmentCommit, OrderOps, ShipmentOps
      <4>2. reservation[t.order] # "NONE"
          BY <3>1 DEF IInv, TxsReady, TxReady
      <4> QED BY <1>1, <4>1, <4>2 DEF Cause, IInv, TypeOK
    <3> QED BY <1>1, <1>7, <3>1, CommitFact DEF Cause
  <2>2. CASE t.op \in OrderOps /\ t.order = o
    <3>1. order'[o] = IF t.seen = OrderTarget[t.op] THEN order[o] ELSE OrderTarget[t.op]
        BY <1>7, <2>2, CommitFact, OrderCommitFact
    <3>2. CASE t.seen = OrderTarget[t.op]
        BY <1>3, <2>1, <3>1, <3>2
    <3>3. CASE t.op = "cancel"
        BY <1>3, <2>1, <3>1, <3>3 DEF Cause, OrderTarget
    <3>4. CASE t.op \in {"pay", "ship", "deliver"} /\ t.seen # OrderTarget[t.op]
      <4>1. Keyed(t) /\ TxCause(t)
          BY DEF TxsKeyed, TxsCaused
      <4>2. t.by \notin Clients /\ <<"order", t.by>> \in inbox'
          BY <1>7, <2>2, <3>4, <4>1, KeyedFact, CommitFact, ModuleNames DEF Close
      <4>3. CASE t.op = "pay"
        <5>1. Done("order", "PaymentCompleted", o)'
            BY <2>2, <4>1, <4>2, <4>3, KeyedFact DEF Done
        <5> QED BY <2>1, <3>1, <3>4, <4>3, <5>1 DEF Cause, OrderTarget
      <4>4. CASE t.op = "ship"
        <5>1. Done("order", "ShipmentCreated", o)' /\ Done("order", "PaymentCompleted", o)'
            BY <1>1, <2>2, <4>1, <4>2, <4>4, KeyedFact DEF Done, TxCause
        <5> QED BY <2>1, <3>1, <3>4, <4>4, <5>1 DEF Cause, OrderTarget
      <4>5. CASE t.op = "deliver"
        <5>1. Done("order", "ShipmentCreated", o)' /\ Done("order", "PaymentCompleted", o)'
            BY <1>1, <2>2, <4>1, <4>5 DEF Done, TxCause
        <5>2. emitted["ShipmentDelivered"][o] > 0
          <6>1. Stored(t.by) /\ t.by.type = "ShipmentDelivered" /\ t.by.order = o
              BY <2>2, <4>1, <4>2, <4>5, KeyedFact DEF Keyed
          <6>2. emitted["ShipmentDelivered"][o] \in Nat
              BY EventNames DEF IInv, TypeOK
          <6> QED BY <6>1, <6>2 DEF Stored
        <5> QED BY <1>2, <2>1, <3>1, <3>4, <4>5, <5>1, <5>2 DEF Cause, OrderTarget
      <4> QED BY <3>4, <4>3, <4>4, <4>5
    <3> QED BY <2>2, <3>2, <3>3, <3>4 DEF OrderOps
  <2>3. CASE t.op \notin OrderOps \/ t.order # o
      BY <1>3, <1>7, <2>1, <2>3, CommitFact, OrderCommitFact
  <2> QED BY <2>2, <2>3
<1>8. CASE Delivers
    BY <1>1, <1>3, <1>8 DEF Delivers, Cause, rows
<1> QED BY <1>4, <1>5, <1>6, <1>7, <1>8, StepKinds


LEMMA TxCauseKept ==
    ASSUME IInv, [Next]_vars, NEW t \in txs, TxCause(t)
    PROVE  TxCause(t)'
<1>1. t.order \in Orders /\ (t.op = "cancel" => order[t.order] # "NONE")
    BY DEF IInv, TypeOK, Txs, TxsReady, TxReady, OrderOps
<1> QED BY <1>1, Grows DEF TxCause, Done

LEMMA TxsCausedStep ==
    ASSUME IInv, Causes, TxsCaused, [Next]_vars
    PROVE  TxsCaused'
<1> SUFFICES ASSUME NEW t \in txs', t \notin txs PROVE TxCause(t)'
    BY TxCauseKept DEF TxsCaused
<1>1. Begins(t)
  <2>1. ASSUME NEW u, Begins(u) PROVE u = t
      BY <2>1 DEF Begins
  <2> QED BY <2>1, StepKinds, CommitFact DEF PlaceOrder, Records, Close, Delivers
<1>2. t.order \in Orders /\ Cause(t.order)
    BY <1>1 DEF Begins, Txs, Causes
<1>3. UNCHANGED <<order, inbox>>
    BY <1>1 DEF Begins, rows
<1>4. t.op \in OrderOps => OrderAllows(t.op, order[t.order]) /\ t.seen = order[t.order]
    BY <1>1 DEF Begins
<1> QED BY <1>2, <1>3, <1>4 DEF TxCause, Cause, OrderAllows, OrderOps, Done

-----------------------------------------------------------------------------
(* Effects *)

\* The order handlers' effects are not undone by transactions that are stale.
LEMMA OrderStays ==
    ASSUME IInv, TxsKeyed, Causes, TxsCaused, [Next]_vars, NEW o \in Orders,
           order[o] \notin {"NONE", "PLACED", "PAID"}, Done("order", "PaymentCompleted", o)
    PROVE  /\ order'[o] # "PAID"
           /\ order[o] # "SHIPPED" /\ Done("order", "ShipmentCreated", o) => order'[o] # "SHIPPED"
<1>1. ASSUME NEW t \in txs, OrderCommit(t), t.order = o
      PROVE  /\ order'[o] # "PAID"
             /\ order[o] # "SHIPPED" /\ Done("order", "ShipmentCreated", o)
                   => order'[o] # "SHIPPED"
  <2>1. order'[o] = IF t.seen = OrderTarget[t.op] THEN order[o] ELSE OrderTarget[t.op]
      BY <1>1, OrderCommitFact
  <2>2. t.op \in {"pay", "ship"} => t.by \notin Clients /\ <<"order", t.by>> \notin inbox
      BY KeyedFact, ModuleNames DEF TxsKeyed, Keyed, OrderOps
  <2>3. t.op # "pay"
      BY <1>1, <2>2, KeyedFact DEF TxsKeyed, Done
  <2>4. Done("order", "ShipmentCreated", o) => t.op # "ship"
      BY <1>1, <2>2, KeyedFact DEF TxsKeyed, Done
  <2>5. t.op \in OrderOps
      BY <1>1 DEF OrderCommit
  <2> QED BY <2>1, <2>3, <2>4, <2>5 DEF OrderTarget, OrderOps
<1>2. ASSUME NEW t \in txs, Commit(t), t.order # o \/ t.op \notin OrderOps
      PROVE  order'[o] = order[o]
    BY <1>2, CommitFact, OrderCommitFact
<1>3. ASSUME NEW p \in Orders, NEW kind \in Carts, PlaceOrder(p, kind)
      PROVE  order'[o] = order[o]
    BY <1>3 DEF PlaceOrder, IInv, TypeOK
<1>4. ASSUME NEW t \in txs, Commit(t)
      PROVE  order'[o] = order[o] \/ (OrderCommit(t) /\ t.order = o)
    BY <1>2, <1>4, CommitFact
<1>5. \/ order'[o] = order[o]
      \/ \E t \in txs : OrderCommit(t) /\ t.order = o
    BY <1>3, <1>4, StepKinds DEF Begins, Records, Delivers, rows
<1> QED BY <1>1, <1>5

LEMMA EffectKept ==
    ASSUME IInv, TxsKeyed, Causes, TxsCaused, Effects, [Next]_vars,
           NEW c \in Modules, NEW m \in Messages, <<c, m>> \in inbox
    PROVE  Effect(c, m)'
<1>1. Effect(c, m) /\ m.order \in Orders
    BY DEF Effects, Messages
<1>2. /\ order[m.order] \notin {"NONE", "PLACED"} => order'[m.order] \notin {"NONE", "PLACED"}
      /\ payment[m.order] # "NONE" => payment'[m.order] # "NONE"
      /\ shipment[m.order] # "NONE" => shipment'[m.order] # "NONE"
      /\ inbox \subseteq inbox'
    BY <1>1, Grows
<1>3. ASSUME c = "order", m.type = "ShipmentCreated" PROVE order'[m.order] # "PAID"
    BY <1>1, <1>3, OrderStays DEF Effect
<1>4. ASSUME c = "order", m.type = "ShipmentDelivered"
      PROVE  order'[m.order] \notin {"PAID", "SHIPPED"}
  <2>1. /\ order[m.order] \notin {"NONE", "PLACED", "PAID", "SHIPPED"}
        /\ Done("order", "ShipmentCreated", m.order)
      BY <1>1, <1>4 DEF Effect
  <2>2. Done("order", "PaymentCompleted", m.order)
    <3> DEFINE s == Message("ShipmentCreated", m.order, 1)
    <3>1. s \in Messages /\ s.type = "ShipmentCreated" /\ s.order = m.order
        BY <1>1, MessageType, EventNames
    <3> QED BY <2>1, <3>1 DEF Done, Effects, Effect, Modules
  <2> QED BY <1>1, <2>1, <2>2, OrderStays
<1> QED BY <1>1, <1>2, <1>3, <1>4 DEF Effect, Done

\* The inbox row that a step adds is that of the message it handles.
LEMMA NewEntry ==
    ASSUME IInv, TxsKeyed, [Next]_vars,
           NEW c \in Modules, NEW m \in Messages, <<c, m>> \in inbox', <<c, m>> \notin inbox
    PROVE  \/ Records(c, m)
           \/ \E t \in txs : /\ Commit(t) /\ c = ModuleOf(t.op)
                             /\ t.by = m /\ t.by \notin Clients
<1>1. ASSUME NEW d \in Modules, NEW x \in Messages, Records(d, x) PROVE d = c /\ x = m
    BY <1>1 DEF Records, Handled
<1>2. ASSUME NEW t \in txs, Commit(t)
      PROVE  c = ModuleOf(t.op) /\ t.by = m /\ t.by \notin Clients
    BY <1>2, CommitFact DEF Close
<1>3. ~Delivers /\ ~(\E t : Begins(t)) /\ ~(\E o \in Orders, kind \in Carts : PlaceOrder(o, kind))
    BY DEF Delivers, Begins, PlaceOrder
<1> QED BY <1>1, <1>2, <1>3, StepKinds

LEMMA EffectNew ==
    ASSUME IInv, TxsKeyed, Causes, TxsCaused, [Next]_vars,
           NEW t \in txs, Commit(t), t.by \notin Clients
    PROVE  Effect(ModuleOf(t.op), t.by)'
<1>1. /\ t.by \in Messages /\ t.by.order = t.order /\ t.order \in Orders
      /\ t.by.type \in ByEvent[t.op] /\ t.op \in Ops
    BY DEF TxsKeyed, Keyed, IInv, TypeOK, Txs
<1>2. CASE t.op \notin OrderOps
  <2>1. ModuleOf(t.op) # "order" /\ t.by.type = "OrderCancelled"
      BY <1>1, <1>2, ModuleNames DEF Ops, OrderOps, ShipmentOps, ByEvent, ModuleOf
  <2> QED BY <2>1 DEF Effect
<1>3. CASE t.op \in OrderOps
  <2>1. order'[t.order] = IF t.seen = OrderTarget[t.op] THEN order[t.order]
                          ELSE OrderTarget[t.op]
      BY <1>3, CommitFact, OrderCommitFact
  <2>2. ModuleOf(t.op) = "order" /\ TxCause(t)
      BY <1>3, ModuleNames DEF TxsCaused
  <2>3. inbox \subseteq inbox' /\ order[t.order] # "NONE"
      BY <1>3, Grows DEF IInv, TxsReady, TxReady
  <2>4. CASE t.op = "cancel"
    <3>1. order'[t.order] \notin {"NONE", "PLACED"}
        BY <2>1, <2>2, <2>3, <2>4 DEF TxCause, OrderTarget
    <3>2. t.by.type \notin {"ShipmentCreated", "ShipmentDelivered"}
        BY <1>1, <2>4 DEF ByEvent
    <3> QED BY <1>1, <2>2, <3>1, <3>2 DEF Effect
  <2>5. CASE t.op \in {"pay", "ship", "deliver"}
    <3>1. t.seen # OrderTarget[t.op] /\ order'[t.order] = OrderTarget[t.op]
        BY <1>3, <2>1, <2>2, <2>5 DEF TxCause, OrderAllows, OrderTarget
    <3>2. t.by.type = CASE t.op = "pay" -> "PaymentCompleted"
                        [] t.op = "ship" -> "ShipmentCreated"
                        [] t.op = "deliver" -> "ShipmentDelivered"
        BY <1>1, <2>5 DEF ByEvent
    <3>3. t.op \in {"ship", "deliver"} => Done("order", "PaymentCompleted", t.order)'
        BY <2>2, <2>3 DEF TxCause, Done
    <3>4. t.op = "deliver" => Done("order", "ShipmentCreated", t.order)'
        BY <2>2, <2>3 DEF TxCause, Done
    <3> QED BY <1>1, <2>2, <2>5, <3>1, <3>2, <3>3, <3>4 DEF Effect, OrderTarget
  <2> QED BY <1>3, <2>4, <2>5 DEF OrderOps
<1> QED BY <1>2, <1>3

LEMMA EffectsStep ==
    ASSUME IInv, TxsKeyed, Causes, TxsCaused, Effects, [Next]_vars
    PROVE  Effects'
<1> SUFFICES ASSUME NEW c \in Modules, NEW m \in Messages, <<c, m>> \in inbox'
             PROVE  Effect(c, m)'
    BY DEF Effects
<1>1. CASE <<c, m>> \in inbox
    BY <1>1, EffectKept
<1>2. CASE Records(c, m)
    BY <1>2 DEF Records, Effect
<1>3. ASSUME NEW t \in txs, Commit(t), c = ModuleOf(t.op), t.by = m, t.by \notin Clients
      PROVE  Effect(c, m)'
    BY <1>3, EffectNew
<1> QED BY <1>1, <1>2, <1>3, NewEntry


-----------------------------------------------------------------------------
(* Where an order ends *)

LEMMA OutcomeInit == Init => Outcome
<1> SUFFICES ASSUME Init PROVE Outcome
    OBVIOUS
<1>1. Accounted /\ TxsKeyed /\ Effects /\ TxsCaused
    BY DEF Init, Accounted, TxsKeyed, Effects, TxsCaused
<1>2. Causes
    BY DEF Init, Causes, Cause
<1> QED BY <1>1, <1>2, IInvInit DEF Outcome

LEMMA OutcomeStep == Outcome /\ [Next]_vars => Outcome'
BY IInvStep, AccountedStep, TxsKeyedStep, EffectsStep, CausesStep, TxsCausedStep DEF Outcome

\* No message gets lost between outbox and inbox, what a handled message did is
\* not undone by a transaction that read before, and an order that is not yet
\* where it ends has stored the event that takes it further.
THEOREM OutcomeInvariance == Spec => []Outcome
BY OutcomeInit, OutcomeStep, PTL DEF Spec

\* Of a quiet order every stored event has been handled by each of its modules,
\* or the order entity refuses it.
LEMMA Heard ==
    ASSUME IInv, Accounted, NEW o \in Orders, Quiet(o), NEW type \in EventTypes,
           NEW n \in 1..emitted[type][o], NEW c \in Consumers[type]
    PROVE  \/ <<c, Message(type, o, n)>> \in inbox
           \/ c = "order" /\ ~OrderAllows(OrderOpOf[type], order[o])
<1> DEFINE m == Message(type, o, n)
<1>1. m \in Messages /\ m.type = type /\ m.order = o
    BY StoredMessage DEF IInv, Message
<1>2. m \in published
    BY DEF Quiet
<1>3. <<c, m>> \notin dead
  <2>1. <<c, m>>[2].order = o
      BY <1>1
  <2> QED BY <2>1 DEF Quiet
<1>4. c \in Modules
    BY DEF Consumers
<1>5. m \in queue[c] \/ <<c, m>> \in inbox
    BY <1>1, <1>2, <1>3 DEF Accounted
<1> QED BY <1>1, <1>4, <1>5 DEF Quiet

LEMMA HeardOnce ==
    ASSUME IInv, Accounted, NEW o \in Orders, Quiet(o), NEW type \in EventTypes,
           emitted[type][o] > 0, NEW c \in Consumers[type]
    PROVE  \/ Done(c, type, o)
           \/ c = "order" /\ ~OrderAllows(OrderOpOf[type], order[o])
<1>1. 1 \in 1..emitted[type][o]
    BY DEF IInv, TypeOK
<1> QED BY <1>1, Heard DEF Done

LEMMA DoneEffect ==
    ASSUME Effects, NEW c \in Modules, NEW type \in EventTypes, NEW o \in Orders,
           Done(c, type, o)
    PROVE  /\ c = "payment" /\ type = "InventoryReserved" => payment[o] # "NONE"
           /\ c = "shipping" /\ type = "PaymentCompleted" => shipment[o] # "NONE"
           /\ c = "order" => order[o] \notin {"NONE", "PLACED"}
           /\ c = "order" /\ type = "ShipmentCreated" => order[o] # "PAID"
           /\ c = "order" /\ type = "ShipmentDelivered" => order[o] # "SHIPPED"
<1> DEFINE m == Message(type, o, 1)
<1>1. m \in Messages /\ m.type = type /\ m.order = o
    BY MessageType
<1>2. Effect(c, m)
    BY <1>1 DEF Effects, Done
<1> QED BY <1>1, <1>2 DEF Effect

LEMMA ConsumerNames ==
    /\ "inventory" \in Consumers["OrderPlaced"]
    /\ "inventory" \in Consumers["OrderCancelled"]
    /\ "payment" \in Consumers["InventoryReserved"]
    /\ "shipping" \in Consumers["PaymentCompleted"]
    /\ \A type \in {"InventoryReservationFailed", "PaymentCompleted", "PaymentFailed",
                    "ShipmentCreated", "ShipmentDelivered"} : "order" \in Consumers[type]
BY EventNames DEF Consumers, Modules, Handles, OrderHandles, InventoryHandles, PaymentHandles,
                  ShippingHandles

LEMMA QuietIsDecided ==
    ASSUME Outcome, NEW o \in Orders, Quiet(o) PROVE order[o] \notin {"PLACED", "PAID"}
<1> USE DEF Outcome
<1>1. /\ emitted["OrderPlaced"][o] = IF order[o] = "NONE" THEN 0 ELSE 1
      /\ emitted["InventoryReserved"][o] + emitted["InventoryReservationFailed"][o]
            = IF ReserveTried(o) THEN 1 ELSE 0
      /\ emitted["PaymentCompleted"][o] = IF Collected(o) THEN 1 ELSE 0
      /\ emitted["PaymentFailed"][o] = IF payment[o] = "FAILED" THEN 1 ELSE 0
      /\ emitted["ShipmentCreated"][o] = IF shipment[o] = "NONE" THEN 0 ELSE 1
      /\ order[o] \in {"PAID", "SHIPPED", "DELIVERED"} => Collected(o)
    BY DEF IInv, Ledger
<1>2. \A type \in EventTypes : emitted[type][o] \in Nat
    BY DEF IInv, TypeOK
<1>3. payment[o] \in PaymentStatus \cup {"NONE"}
    BY DEF IInv, TypeOK
<1>4. Modules = {"order", "inventory", "payment", "shipping"}
    BY DEF Modules
<1>5. ASSUME order[o] = "PAID" PROVE FALSE
  <2>1. Collected(o) /\ emitted["PaymentCompleted"][o] = 1
      BY <1>1, <1>5
  <2>2. Done("shipping", "PaymentCompleted", o)
      BY <2>1, HeardOnce, ConsumerNames, EventNames
  <2>3. shipment[o] # "NONE" /\ emitted["ShipmentCreated"][o] = 1
      BY <1>1, <1>4, <2>2, DoneEffect, EventNames
  <2>4. OrderOpOf["ShipmentCreated"] = "ship" /\ OrderAllows("ship", order[o])
      BY <1>5 DEF OrderOpOf, OrderAllows
  <2>5. Done("order", "ShipmentCreated", o)
      BY <2>3, <2>4, HeardOnce, ConsumerNames, EventNames
  <2> QED BY <1>4, <1>5, <2>5, DoneEffect, EventNames
<1>6. ASSUME order[o] = "PLACED" PROVE FALSE
  <2>1. ASSUME NEW type \in {"InventoryReservationFailed", "PaymentCompleted", "PaymentFailed"},
               emitted[type][o] > 0
        PROVE  FALSE
    <3>1. OrderAllows(OrderOpOf[type], order[o]) /\ type \in EventTypes
        BY <1>6, EventNames DEF OrderOpOf, OrderAllows
    <3>2. Done("order", type, o)
        BY <2>1, <3>1, HeardOnce, ConsumerNames
    <3> QED BY <1>4, <1>6, <3>1, <3>2, DoneEffect
  <2>2. ReserveTried(o)
    <3>1. Done("inventory", "OrderPlaced", o)
        BY <1>1, <1>6, HeardOnce, ConsumerNames, EventNames
    <3> QED BY <3>1 DEF Done, ReserveTried
  <2>3. emitted["InventoryReserved"][o] > 0
      BY <1>1, <1>2, <2>1, <2>2, EventNames
  <2>4. payment[o] # "NONE"
    <3>1. Done("payment", "InventoryReserved", o)
        BY <2>3, HeardOnce, ConsumerNames, EventNames
    <3> QED BY <1>4, <3>1, DoneEffect, EventNames
  <2>5. emitted["PaymentCompleted"][o] > 0 \/ emitted["PaymentFailed"][o] > 0
      BY <1>1, <1>3, <2>4 DEF Collected, PaymentStatus
  <2> QED BY <2>1, <2>5
<1> QED BY <1>5, <1>6

\* An order is never left half way: whatever was cancelled, duplicated, delayed
\* or rolled back, and whichever transaction was stale, when nothing about it is
\* under way any more it is neither PLACED nor PAID.
THEOREM NoOrderInLimbo == Spec => []NoLimbo
<1>1. Outcome => NoLimbo
    BY QuietIsDecided DEF NoLimbo
<1> QED BY <1>1, OutcomeInvariance, PTL


-----------------------------------------------------------------------------
(* Without cancel requests *)

Failed(o) ==
    emitted["InventoryReservationFailed"][o] > 0 \/ emitted["PaymentFailed"][o] > 0

\* Nobody cancels but the handlers of the two failures, and what was cancelled
\* before it was reserved is not reserved afterwards.
OnlyFailures ==
    /\ \A t \in txs : t.op = "cancel" => Failed(t.order)
    /\ \A o \in Orders :
          order[o] = "CANCELLED" \/ emitted["OrderCancelled"][o] > 0 => Failed(o)
    /\ \A m \in Messages :
          <<"inventory", m>> \in inbox /\ m.type = "OrderCancelled"
             => Failed(m.order) /\ reservation[m.order] # "RESERVED"

LEMMA FailedFact ==
    ASSUME IInv, NEW o \in Orders, Failed(o)
    PROVE  ~Collected(o) /\ ReserveTried(o)
<1>1. /\ emitted["InventoryReserved"][o] + emitted["InventoryReservationFailed"][o]
            = IF ReserveTried(o) THEN 1 ELSE 0
      /\ emitted["PaymentFailed"][o] = IF payment[o] = "FAILED" THEN 1 ELSE 0
      /\ payment[o] # "NONE" => emitted["InventoryReserved"][o] > 0
    BY DEF IInv, Ledger
<1>2. /\ emitted["InventoryReserved"][o] \in Nat
      /\ emitted["InventoryReservationFailed"][o] \in Nat
      /\ emitted["PaymentFailed"][o] \in Nat
    BY EventNames DEF IInv, TypeOK
<1> QED BY <1>1, <1>2 DEF Failed, Collected

LEMMA FailedKept ==
    ASSUME IInv, [Next]_vars, NEW o \in Orders, Failed(o) PROVE Failed(o)'
<1>1. \A e \in {"InventoryReservationFailed", "PaymentFailed"} :
         /\ emitted[e][o] \in Nat /\ emitted'[e][o] \in Nat
         /\ emitted'[e][o] >= emitted[e][o]
    BY EventNames, OneEvent, OnwardEmit DEF IInv, TypeOK
<1> QED BY <1>1 DEF Failed

\* The events that commits store.
LEMMA CommitEmits ==
    ASSUME IInv, NEW t \in txs, Commit(t), NEW o \in Orders
    PROVE  /\ emitted'["OrderCancelled"][o] # emitted["OrderCancelled"][o]
                 => t.op = "cancel" /\ o = t.order
           /\ emitted'["ShipmentDelivered"][o] # emitted["ShipmentDelivered"][o]
                 => t.op = "handover" /\ o = t.order
           /\ t.op = "handover" => emitted'["ShipmentDelivered"][t.order] > 0
<1>1. t.order \in Orders
    BY DEF IInv, TypeOK, Txs
<1>2. emitted["ShipmentDelivered"][t.order] \in Nat
    BY <1>1, EventNames DEF IInv, TypeOK
<1>3. CASE UNCHANGED emitted /\ t.op # "handover"
    BY <1>3
<1>4. CASE t.op = "cancel" /\ Emit("OrderCancelled", t.order)
    BY <1>1, <1>4, EmitFact, EventNames DEF IInv
<1>5. CASE t.op = "release" /\ Emit("InventoryReleased", t.order)
    BY <1>1, <1>5, EmitFact, EventNames DEF IInv
<1>6. CASE t.op = "handover" /\ Emit("ShipmentDelivered", t.order)
    BY <1>1, <1>2, <1>6, EmitFact, EventNames DEF IInv
<1> QED BY <1>3, <1>4, <1>5, <1>6
    DEF Commit, OrderCommit, InventoryReleaseCommit, PaymentRefundCommit, ShipmentCommit,
        Announces, OrderOps, ShipmentOps

LEMMA OnlyFailuresStep ==
    ASSUME MaxCancels = 0, Outcome, OnlyFailures, [Next]_vars
    PROVE  OnlyFailures'
<1> USE DEF Outcome
<1>1. ASSUME NEW t \in txs', t.op = "cancel" PROVE Failed(t.order)'
  <2>1. CASE t \in txs
    <3>1. t.order \in Orders
        BY <2>1 DEF IInv, TypeOK, Txs
    <3> QED BY <1>1, <2>1, <3>1, FailedKept DEF OnlyFailures
  <2>2. CASE t \notin txs
    <3>1. Begins(t)
      <4>1. ASSUME NEW u, Begins(u) PROVE u = t
          BY <2>2, <4>1 DEF Begins
      <4> QED BY <2>2, <4>1, StepKinds, CommitFact DEF PlaceOrder, Records, Close, Delivers
    <3>2. t.order \in Orders /\ emitted["OrderCancelled"][t.order] \in Nat
        BY <3>1, EventNames DEF Begins, Txs, IInv, TypeOK
    <3>3. /\ t.by \in Messages /\ Fresh(ModuleOf(t.op), t.by)
          /\ t.by.type \in ByEvent[t.op] /\ t.by.order = t.order
        BY <1>1, <3>1, <3>2 DEF Begins
    <3>4. Stored(t.by) /\ t.by.type \in {"InventoryReservationFailed", "PaymentFailed"}
        BY <1>1, <3>3, ModuleNames DEF Fresh, IInv, InFlight, ByEvent, OrderOps, Modules
    <3>5. Failed(t.order)
      <4>1. t.by.n \in 1..emitted[t.by.type][t.order] /\ emitted[t.by.type][t.order] \in Nat
          BY <3>2, <3>3, <3>4, EventNames DEF Stored, IInv, TypeOK
      <4> QED BY <3>4, <4>1 DEF Failed
    <3> QED BY <3>2, <3>5, FailedKept
  <2> QED BY <2>1, <2>2
<1>2. ASSUME NEW o \in Orders, order'[o] = "CANCELLED" \/ emitted'["OrderCancelled"][o] > 0
      PROVE  Failed(o)'
  <2>1. CASE order'[o] = order[o] /\ emitted'["OrderCancelled"][o] = emitted["OrderCancelled"][o]
      BY <1>2, <2>1, FailedKept DEF OnlyFailures
  <2>2. ASSUME NEW t \in txs, Commit(t) PROVE Failed(o)'
    <3>1. CASE t.op = "cancel" /\ t.order = o
        BY <3>1, FailedKept DEF OnlyFailures
    <3>2. CASE ~(t.op = "cancel" /\ t.order = o)
      <4>1. emitted'["OrderCancelled"][o] = emitted["OrderCancelled"][o]
          BY <2>2, <3>2, CommitEmits
      <4>2. order'[o] = "CANCELLED" => order[o] = "CANCELLED"
        <5>1. CASE t.op \in OrderOps /\ t.order = o
            BY <2>2, <3>2, <5>1, CommitFact, OrderCommitFact DEF OrderTarget, OrderOps
        <5> QED BY <2>2, <5>1, CommitFact, OrderCommitFact
      <4> QED BY <1>2, <4>1, <4>2, FailedKept DEF OnlyFailures
    <3> QED BY <3>1, <3>2
  <2>3. ASSUME NEW p \in Orders, NEW kind \in Carts, PlaceOrder(p, kind) PROVE Failed(o)'
    <3>1. emitted'["OrderCancelled"][o] = emitted["OrderCancelled"][o]
        BY <2>3, EmitFact, EventNames DEF PlaceOrder, IInv
    <3>2. order'[o] = "CANCELLED" => order[o] = "CANCELLED"
        BY <2>3 DEF PlaceOrder, IInv, TypeOK
    <3> QED BY <1>2, <3>1, <3>2, FailedKept DEF OnlyFailures
  <2> QED BY <2>1, <2>2, <2>3, StepKinds DEF Begins, Records, Delivers, rows
<1>3. ASSUME NEW m \in Messages, <<"inventory", m>> \in inbox', m.type = "OrderCancelled"
      PROVE  Failed(m.order)' /\ reservation'[m.order] # "RESERVED"
  <2>1. m.order \in Orders /\ "inventory" \in Modules
      BY DEF Messages, Modules
  <2>2. ASSUME ReserveTried(m.order), reservation[m.order] # "RESERVED"
        PROVE  reservation'[m.order] # "RESERVED"
    <3>1. ASSUME NEW t \in txs, Commit(t) PROVE reservation'[m.order] # "RESERVED"
      <4>1. CASE t.op = "release"
        <5>1. reservation' = [reservation EXCEPT ![t.order] = "RELEASED"]
            BY <3>1, <4>1 DEF Commit, OrderCommit, InventoryReleaseCommit, PaymentRefundCommit,
                              ShipmentCommit, OrderOps, ShipmentOps
        <5> QED BY <2>1, <2>2, <5>1 DEF IInv, TypeOK
      <4> QED BY <2>2, <3>1, <4>1, CommitFact
    <3> QED BY <2>1, <2>2, <3>1, StepKinds DEF PlaceOrder, Begins, Records, Delivers, rows
  <2>3. ASSUME Stored(m) PROVE Failed(m.order)
    <3>1. emitted["OrderCancelled"][m.order] \in Nat
        BY <2>1, EventNames DEF IInv, TypeOK
    <3> QED BY <1>3, <2>1, <2>3, <3>1 DEF Stored, OnlyFailures
  <2>4. CASE <<"inventory", m>> \in inbox
      BY <1>3, <2>1, <2>2, <2>4, FailedFact, FailedKept DEF OnlyFailures
  <2>5. CASE Records("inventory", m)
    <3>1. Stored(m)
        BY <2>1, <2>5 DEF Records, Fresh, IInv, InFlight
    <3> QED BY <1>3, <2>1, <2>3, <2>5, <3>1, FailedKept DEF Records
  <2>6. ASSUME NEW t \in txs, Commit(t), "inventory" = ModuleOf(t.op), t.by = m,
               t.by \notin Clients
        PROVE  Failed(m.order)' /\ reservation'[m.order] # "RESERVED"
    <3>1. Stored(m) /\ m.order = t.order
        BY <2>6 DEF TxsKeyed, Keyed
    <3>2. t.op = "release"
        BY <2>6 DEF ModuleOf, IInv, TypeOK, Txs, Ops, OrderOps, ShipmentOps
    <3>3. reservation' = [reservation EXCEPT ![t.order] = "RELEASED"]
        BY <2>6, <3>2 DEF Commit, OrderCommit, InventoryReleaseCommit, PaymentRefundCommit,
                          ShipmentCommit, OrderOps, ShipmentOps
    <3> QED BY <2>1, <2>3, <3>1, <3>3, FailedKept DEF IInv, TypeOK
  <2> QED BY <1>3, <2>1, <2>4, <2>5, <2>6, NewEntry
<1> QED BY <1>1, <1>2, <1>3 DEF OnlyFailures


LEMMA OnlyFailuresInit == Init => OnlyFailures
BY EventNames DEF Init, OnlyFailures

\* A transaction on the order row that changes it moves it as the entity would
\* have moved the row that is now there, although it read an earlier one.
LEMMA CommitMoves ==
    ASSUME Outcome, OnlyFailures, NEW t \in txs, OrderCommit(t)
    PROVE  [Lifecycle!Next]_order
<1> USE DEF Outcome
<1> DEFINE o == t.order
<1>1. /\ o \in Orders /\ t.op \in OrderOps
      /\ order \in [Orders -> OrderStatus \cup {"NONE"}]
    BY OrderCommitFact DEF IInv, TypeOK
<1>2. /\ Keyed(t) /\ TxCause(t) /\ TxReady(t) /\ Cause(o)
      /\ order[o] # "NONE" /\ order[o] \in OrderStatus
    BY <1>1 DEF TxsKeyed, TxsCaused, Causes, IInv, TxsReady, TxReady
<1>3. order[o] = "CANCELLED" => ~Collected(o)
    BY <1>1, FailedFact DEF OnlyFailures
<1>4. \A type \in {"PaymentCompleted", "ShipmentCreated"} :
         t.by = Message(type, o, 1) /\ t.by \notin Clients => ~Done("order", type, o)
    BY <1>1, <1>2, ModuleNames DEF Keyed, Done
<1>5. ASSUME NEW type \in {"PaymentCompleted", "ShipmentCreated"}, Done("order", type, o)
      PROVE  order[o] # "PLACED" /\ (type = "ShipmentCreated" => order[o] # "PAID")
    BY <1>1, <1>5, DoneEffect, EventNames DEF Modules
<1>6. CASE t.seen = OrderTarget[t.op]
    BY <1>6 DEF OrderCommit
<1>7. CASE t.seen # OrderTarget[t.op]
  <2>1. order' = [order EXCEPT ![o] = OrderTarget[t.op]]
      BY <1>7 DEF OrderCommit
  <2>2. CASE t.op = "pay"
    <3>1. order[o] = "PLACED"
        BY <1>2, <1>3, <1>4, <2>2, KeyedFact DEF Cause, TxReady, OrderStatus
    <3>2. Lifecycle!Pay(o)
        BY <2>1, <2>2, <3>1 DEF OrderTarget, Lifecycle!Pay, Lifecycle!Move
    <3> QED BY <1>1, <3>2 DEF Lifecycle!Next
  <2>3. CASE t.op = "ship"
    <3>1. order[o] = "PAID"
        BY <1>2, <1>3, <1>4, <1>5, <2>3, KeyedFact DEF Cause, TxCause, TxReady, OrderStatus
    <3>2. Lifecycle!Ship(o)
        BY <2>1, <2>3, <3>1 DEF OrderTarget, Lifecycle!Ship, Lifecycle!Move
    <3> QED BY <1>1, <3>2 DEF Lifecycle!Next
  <2>4. CASE t.op = "deliver"
    <3>1. order[o] \in {"SHIPPED", "DELIVERED"}
        BY <1>2, <1>3, <1>5, <2>4 DEF TxCause, TxReady, OrderStatus
    <3>2. Lifecycle!Deliver(o) \/ UNCHANGED order
        BY <1>1, <2>1, <2>4, <3>1 DEF OrderTarget, Lifecycle!Deliver, Lifecycle!Move
    <3> QED BY <1>1, <3>2 DEF Lifecycle!Next
  <2>5. CASE t.op = "cancel"
    <3>1. ~Collected(o)
        BY <1>1, <2>5, FailedFact DEF OnlyFailures
    <3>2. order[o] \in {"PLACED", "CANCELLED"}
        BY <1>1, <1>2, <3>1 DEF IInv, Ledger, OrderStatus
    <3>3. Lifecycle!Cancel(o) \/ UNCHANGED order
        BY <1>1, <2>1, <2>5, <3>2 DEF OrderTarget, Lifecycle!Cancel, Lifecycle!Move
    <3> QED BY <1>1, <3>3 DEF Lifecycle!Next
  <2> QED BY <1>1, <2>2, <2>3, <2>4, <2>5 DEF OrderOps
<1> QED BY <1>6, <1>7

LEMMA LifecycleStep ==
    ASSUME Outcome, OnlyFailures, [Next]_vars PROVE [Lifecycle!Next]_order
<1>1. ASSUME NEW o \in Orders, NEW kind \in Carts, PlaceOrder(o, kind)
      PROVE  Lifecycle!Next
    BY <1>1 DEF PlaceOrder, Lifecycle!Next, Lifecycle!Place, Lifecycle!Move
<1>2. ASSUME NEW t \in txs, Commit(t) PROVE [Lifecycle!Next]_order
    BY <1>2, CommitFact, CommitMoves DEF Outcome
<1> QED BY <1>1, <1>2, StepKinds DEF Begins, Records, Delivers, rows, Outcome

\* Without cancel requests of clients the saga implements the Order entity's
\* life cycle: however late a transaction on the order row commits, and whatever
\* committed since it read the row, the row moves only as the entity allows.
THEOREM LifecycleFollowed ==
    ASSUME MaxCancels = 0 PROVE Spec => FollowsLifecycle
<1>1. Init => Lifecycle!Init
    BY DEF Init, Lifecycle!Init
<1>2. Outcome /\ OnlyFailures /\ [Next]_vars => OnlyFailures' /\ [Lifecycle!Next]_order
    BY OnlyFailuresStep, LifecycleStep
<1> QED BY <1>1, <1>2, OnlyFailuresInit, OutcomeInvariance, PTL
    DEF Spec, FollowsLifecycle, Lifecycle!Spec


-----------------------------------------------------------------------------
(* One client at a time *)

\* With two clients a ship() that read PENDING can commit after the delivery and
\* overwrite it, and the modules then disagree.  One client's transaction still
\* finds the shipment as it read it.
OneAtATime ==
    /\ \A o \in Orders : emitted["ShipmentDelivered"][o] > 0 <=> shipment[o] = "DELIVERED"
    /\ \A t \in txs : /\ t.op = "dispatch" => shipment[t.order] = "PENDING"
                      /\ t.op = "handover" => shipment[t.order] = "SHIPPED"
    /\ \A t, u \in txs : t.by \in Clients /\ u.by \in Clients => t = u

LEMMA OneAtATimeInit == Init => OneAtATime
BY EventNames DEF Init, OneAtATime

\* Nothing is undone of an order that was paid for.
LEMMA PaidIsKept ==
    ASSUME Outcome, OnlyFailures, NEW o \in Orders, Collected(o)
    PROVE  /\ emitted["OrderCancelled"][o] = 0
           /\ order[o] # "CANCELLED" /\ reservation[o] # "RELEASED"
           /\ payment[o] = "COMPLETED" /\ shipment[o] # "CANCELLED"
           /\ \A t \in txs : t.order = o => t.op # "void"
<1> USE DEF Outcome
<1>1. ~Failed(o)
    BY FailedFact
<1>2. emitted["OrderCancelled"][o] \in Nat
    BY EventNames DEF IInv, TypeOK
<1>3. emitted["OrderCancelled"][o] = 0 /\ order[o] # "CANCELLED"
    BY <1>1, <1>2 DEF OnlyFailures
<1>4. reservation[o] # "RELEASED" /\ payment[o] # "REFUNDED" /\ shipment[o] # "CANCELLED"
    BY <1>3 DEF IInv, UndoHasCause
<1>5. \A t \in txs : t.order = o => t.op # "void"
    BY <1>3 DEF IInv, TxsReady, TxReady
<1> QED BY <1>3, <1>4, <1>5 DEF Collected

LEMMA OneAtATimeStep ==
    ASSUME \A a, b \in Clients : a = b, Outcome, OnlyFailures, OneAtATime, [Next]_vars
    PROVE  OneAtATime'
<1> USE DEF Outcome
<1>1. ASSUME UNCHANGED shipment, txs' \subseteq txs,
             \A o \in Orders :
                emitted'["ShipmentDelivered"][o] = emitted["ShipmentDelivered"][o]
      PROVE  OneAtATime'
    BY <1>1 DEF OneAtATime
<1>2. \A t \in txs : /\ t.order \in Orders
                     /\ t.op \in {"dispatch", "handover"} => t.by \in Clients
    BY KeyedFact DEF TxsKeyed, IInv, TypeOK, Txs
<1>3. ASSUME NEW o \in Orders, NEW kind \in Carts, PlaceOrder(o, kind) PROVE OneAtATime'
  <2>1. \A p \in Orders :
           emitted'["ShipmentDelivered"][p] = emitted["ShipmentDelivered"][p]
      BY <1>3, EmitFact, EventNames DEF PlaceOrder, IInv
  <2> QED BY <1>1, <1>3, <2>1 DEF PlaceOrder
<1>4. ASSUME NEW t, Begins(t) PROVE OneAtATime'
  <2>1. /\ txs' = txs \cup {t} /\ UNCHANGED <<shipment, emitted>>
      BY <1>4 DEF Begins, rows
  <2>2. /\ t.op = "dispatch" => shipment[t.order] = "PENDING"
        /\ t.op = "handover" => shipment[t.order] = "SHIPPED"
      BY <1>4 DEF Begins, ShipmentOps, ShipmentAllows
  <2>3. ASSUME t.by \in Clients, NEW u \in txs, u.by \in Clients PROVE FALSE
      BY <1>4, <2>3, ClientsAssumption DEF Begins, Idle
  <2> QED BY <2>1, <2>2, <2>3 DEF OneAtATime
<1>5. ASSUME NEW c \in Modules, NEW m \in Messages, Records(c, m) PROVE OneAtATime'
    BY <1>2, <1>5 DEF Records, OneAtATime
<1>6. ASSUME NEW t \in txs, Commit(t) PROVE OneAtATime'
  <2>1. txs' = txs \ {t}
      BY <1>6, CommitFact DEF Close
  <2>2. CASE t.op \notin ShipmentOps
    <3>1. UNCHANGED shipment
        BY <1>6, <2>2, CommitFact
    <3>2. \A o \in Orders :
             emitted'["ShipmentDelivered"][o] = emitted["ShipmentDelivered"][o]
        BY <1>6, <2>2, CommitEmits DEF ShipmentOps
    <3> QED BY <1>1, <2>1, <3>1, <3>2
  <2>3. CASE t.op \in ShipmentOps
    <3>1. shipment' = [shipment EXCEPT ![t.order] = ShipmentTarget[t.op]]
        BY <1>6, <2>3
        DEF Commit, OrderCommit, InventoryReleaseCommit, PaymentRefundCommit, ShipmentCommit,
            OrderOps, ShipmentOps
    <3>2. t.op \in {"dispatch", "handover"}
      <4>1. Collected(t.order)
          BY <1>2, <2>3 DEF IInv, TxsReady, TxReady, Ledger
      <4> QED BY <1>2, <2>3, <4>1, PaidIsKept DEF ShipmentOps
    <3>3. \A u \in txs' : u.op \notin {"dispatch", "handover"} /\ u \in txs
        BY <1>2, <2>1, <3>2 DEF OneAtATime
    <3>4. ASSUME NEW o \in Orders
          PROVE  emitted'["ShipmentDelivered"][o] > 0 <=> shipment'[o] = "DELIVERED"
      <4>1. CASE o # t.order
        <5>1. emitted'["ShipmentDelivered"][o] = emitted["ShipmentDelivered"][o]
            BY <1>6, <4>1, CommitEmits
        <5>2. shipment'[o] = shipment[o]
            BY <3>1, <4>1 DEF IInv, TypeOK
        <5> QED BY <5>1, <5>2 DEF OneAtATime
      <4>2. CASE o = t.order /\ t.op = "dispatch"
        <5>1. emitted'["ShipmentDelivered"][o] = emitted["ShipmentDelivered"][o]
            BY <1>6, <4>2, CommitEmits
        <5>2. shipment[o] = "PENDING" /\ shipment'[o] = "SHIPPED"
            BY <3>1, <4>2 DEF IInv, TypeOK, OneAtATime, ShipmentTarget
        <5> QED BY <5>1, <5>2 DEF OneAtATime
      <4>3. CASE o = t.order /\ t.op = "handover"
        <5>1. shipment'[o] = "DELIVERED"
            BY <3>1, <4>3 DEF IInv, TypeOK, ShipmentTarget
        <5> QED BY <1>6, <4>3, <5>1, CommitEmits
      <4> QED BY <3>2, <4>1, <4>2, <4>3
    <3> QED BY <3>3, <3>4, <2>1 DEF OneAtATime
  <2> QED BY <2>2, <2>3
<1>7. CASE Delivers
    BY <1>1, <1>7 DEF Delivers, rows
<1> QED BY <1>3, <1>4, <1>5, <1>6, <1>7, StepKinds

\* An order that nothing is under way of was carried out by every module, or
\* undone by every module.
LEMMA QuietAgrees ==
    ASSUME Outcome, OnlyFailures, OneAtATime, NEW o \in Orders, Quiet(o), order[o] # "NONE"
    PROVE  Fulfilled(o) \/ Reversed(o)
<1> USE DEF Outcome
<1>1. order[o] \in {"CANCELLED", "SHIPPED", "DELIVERED"}
    BY QuietIsDecided DEF IInv, TypeOK, OrderStatus
<1>2. CASE order[o] = "CANCELLED"
  <2>1. Failed(o)
      BY <1>2 DEF OnlyFailures
  <2>2. ~Collected(o) /\ shipment[o] = "NONE"
      BY <2>1, FailedFact DEF IInv, Ledger
  <2>3. emitted["OrderCancelled"][o] > 0
      BY <1>2 DEF IInv, UndoHasCause
  <2>4. Done("inventory", "OrderCancelled", o)
      BY <2>3, HeardOnce, ConsumerNames, EventNames
  <2>5. reservation[o] # "RESERVED"
    <3> DEFINE m == Message("OrderCancelled", o, 1)
    <3>1. m \in Messages /\ m.type = "OrderCancelled" /\ m.order = o
        BY MessageType, EventNames
    <3> QED BY <2>4, <3>1 DEF Done, OnlyFailures
  <2> QED BY <1>2, <2>2, <2>5 DEF Reversed, Collected
<1>3. CASE order[o] \in {"SHIPPED", "DELIVERED"}
  <2>1. Collected(o) /\ shipment[o] # "NONE"
      BY <1>3 DEF IInv, Ledger
  <2>2. /\ reservation[o] # "RELEASED" /\ payment[o] = "COMPLETED"
        /\ shipment[o] \in {"PENDING", "SHIPPED", "DELIVERED"}
      BY <2>1, PaidIsKept DEF IInv, TypeOK, ShipmentStatus
  <2>3. reservation[o] = (IF cart[o] = "empty" THEN "NONE" ELSE "RESERVED")
    <3>1. cart[o] = "empty" \/ reservation[o] # "NONE"
        BY <2>2 DEF IInv, Ledger
    <3> QED BY <2>2, <3>1 DEF Causes, Cause, IInv, TypeOK, ReservationStatus
  <2>4. order[o] = "DELIVERED" <=> shipment[o] = "DELIVERED"
    <3>1. ASSUME order[o] = "DELIVERED" PROVE shipment[o] = "DELIVERED"
        BY <3>1 DEF Causes, Cause, OneAtATime
    <3>2. ASSUME shipment[o] = "DELIVERED", order[o] = "SHIPPED" PROVE FALSE
      <4>1. emitted["ShipmentDelivered"][o] > 0
          BY <3>2 DEF OneAtATime
      <4>2. OrderAllows(OrderOpOf["ShipmentDelivered"], order[o])
          BY <3>2 DEF OrderAllows, OrderOpOf
      <4>3. Done("order", "ShipmentDelivered", o)
          BY <4>1, <4>2, HeardOnce, ConsumerNames, EventNames
      <4> QED BY <3>2, <4>3, DoneEffect, EventNames DEF Modules
    <3> QED BY <1>3, <3>1, <3>2
  <2> QED BY <1>3, <2>2, <2>3, <2>4 DEF Fulfilled
<1> QED BY <1>1, <1>2, <1>3

\* Without cancel requests, and with one client at a time, the four modules
\* agree on every order that nothing is under way of, whatever was duplicated,
\* delayed, reordered or rolled back: it is fulfilled everywhere or reversed
\* everywhere.
THEOREM AgreementReached ==
    ASSUME MaxCancels = 0, \A a, b \in Clients : a = b
    PROVE  Spec => []ModulesAgree
<1>1. Outcome /\ OnlyFailures /\ OneAtATime /\ [Next]_vars => OnlyFailures' /\ OneAtATime'
    BY OnlyFailuresStep, OneAtATimeStep
<1>2. Outcome /\ OnlyFailures /\ OneAtATime => ModulesAgree
    BY QuietAgrees DEF ModulesAgree
<1> QED BY <1>1, <1>2, OnlyFailuresInit, OneAtATimeInit, OutcomeInvariance, PTL DEF Spec

=============================================================================
