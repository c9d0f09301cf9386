----------------------------- MODULE SagaProofs -----------------------------
(***************************************************************************)
(* Theorems about the saga for every set of orders and clients, every bound *)
(* on cancellations and every choice of faults.                            *)
(*                                                                         *)
(* The stated properties are not inductive: a handler acts on what its      *)
(* message says, so one has to know what a stored message, or a transaction *)
(* that has read its row, implies about the rows of the other modules.      *)
(***************************************************************************)
EXTENDS Saga, TLAPS

Collected(o) == payment[o] \in {"COMPLETED", "REFUNDED"}

\* A message in a queue comes from an outbox row and its module handles it.
InFlight ==
    \A c \in Modules : \A m \in queue[c] : Stored(m) /\ c \in Consumers[m.type]

\* The order's one OrderPlaced message has been handled by Inventory.
ReserveTried(o) == <<"inventory", Message("OrderPlaced", o, 1)>> \in inbox

\* The outbox tables tell what happened to the rows.
Ledger ==
    \A o \in Orders :
        /\ emitted["OrderPlaced"][o] = IF order[o] = "NONE" THEN 0 ELSE 1
        /\ emitted["InventoryReserved"][o] + emitted["InventoryReservationFailed"][o]
              = IF ReserveTried(o) THEN 1 ELSE 0
        /\ order[o] = "NONE" => ~ReserveTried(o)
        /\ reservation[o] # "NONE" => emitted["InventoryReserved"][o] > 0
        /\ emitted["InventoryReserved"][o] > 0
              => cart[o] = "empty" \/ reservation[o] # "NONE"
        /\ emitted["PaymentCompleted"][o] = IF Collected(o) THEN 1 ELSE 0
        /\ emitted["PaymentFailed"][o] = IF payment[o] = "FAILED" THEN 1 ELSE 0
        /\ payment[o] # "NONE" => emitted["InventoryReserved"][o] > 0
        /\ emitted["ShipmentCreated"][o] = IF shipment[o] = "NONE" THEN 0 ELSE 1
        /\ shipment[o] # "NONE" => Collected(o)
        /\ order[o] \in {"PAID", "SHIPPED", "DELIVERED"} => Collected(o)
        /\ order[o] \in {"SHIPPED", "DELIVERED"} => shipment[o] # "NONE"

\* What a transaction may rely on between its read and its commit, although
\* the row it read may have changed.
TxReady(t) ==
    /\ t.op \in OrderOps => order[t.order] # "NONE"
    /\ t.op \in {"pay", "ship", "deliver"} => Collected(t.order)
    /\ t.op \in {"ship", "deliver"} => shipment[t.order] # "NONE"
    /\ t.op \in ShipmentOps => shipment[t.order] # "NONE"
    /\ t.op = "refund" => Collected(t.order)
    /\ t.op = "release" => /\ t.by.type = "OrderCancelled"
                           /\ reservation[t.order] # "NONE"
    /\ t.op \in {"release", "refund", "void"} => emitted["OrderCancelled"][t.order] > 0

TxsReady == \A t \in txs : TxReady(t)

IInv == TypeOK /\ InFlight /\ Ledger /\ TxsReady /\ UndoHasCause

-----------------------------------------------------------------------------
(* What the building blocks of the actions do *)

LEMMA EventNames ==
    EventTypes = {"OrderPlaced", "OrderCancelled", "InventoryReserved",
                  "InventoryReservationFailed", "InventoryReleased",
                  "PaymentCompleted", "PaymentFailed", "ShipmentCreated",
                  "ShipmentDelivered"}
BY DEF EventTypes, OrderPublishes, InventoryPublishes, PaymentPublishes,
       ShippingPublishes

\* Storing an event adds one row to one outbox and changes no other count.
LEMMA EmitFact ==
    ASSUME TypeOK, NEW type \in EventTypes, NEW o \in Orders, Emit(type, o)
    PROVE  /\ emitted' \in [EventTypes -> [Orders -> Nat]]
           /\ emitted'[type][o] = emitted[type][o] + 1
           /\ \A e \in EventTypes, p \in Orders :
                 e # type \/ p # o => emitted'[e][p] = emitted[e][p]
BY DEF TypeOK, Emit

\* The order processors differ in the operation they call.
LEMMA OrderSteps ==
    ASSUME NEW m, Handle("order", m)
    PROVE  \E op \in OrderOps :
              /\ OrderHandle(m, op)
              /\ op = "pay" => m.type = "PaymentCompleted"
              /\ op = "ship" => m.type = "ShipmentCreated"
BY DEF Handle, OrderPaymentCompleted, OrderShipmentCreated, OrderShipmentDelivered,
       OrderPaymentFailed, OrderReservationFailed, OrderOps

LEMMA MessageType ==
    ASSUME NEW type \in EventTypes, NEW o \in Orders, NEW n \in Nat \ {0}
    PROVE  /\ Message(type, o, n) \in Messages
           /\ Message(type, o, n).type = type
           /\ Message(type, o, n).order = o
           /\ Message(type, o, n).n = n
BY DEF Message, Messages

\* A transaction that begins is well formed.
LEMMA BeginType ==
    ASSUME TypeOK, NEW op \in Ops, NEW o \in Orders, NEW by \in Messages \cup Clients,
           NEW seen \in OrderStatus \cup ReservationStatus \cup PaymentStatus
                        \cup ShipmentStatus,
           Begin(op, o, seen, by)
    PROVE  txs' \in SUBSET Txs
BY DEF TypeOK, Begin, Txs

LEMMA CloseType ==
    ASSUME TypeOK, NEW t \in txs, Close(t)
    PROVE  /\ txs' \in SUBSET Txs
           /\ inbox' \in SUBSET (Modules \X Messages)
<1>1. t \in Txs
  BY DEF TypeOK
<1>2. ModuleOf(t.op) \in Modules
  BY <1>1 DEF Txs, ModuleOf, Ops, OrderOps, ShipmentOps, Modules
<1>3. t.by \notin Clients => t.by \in Messages
  BY <1>1 DEF Txs
<1> QED
  BY <1>2, <1>3 DEF Close, TypeOK

-----------------------------------------------------------------------------
(* Type correctness *)

LEMMA TypeInit == Init => TypeOK
BY EventNames DEF Init, TypeOK, Modules, Messages

LEMMA TypeRequest == ASSUME TypeOK, Request PROVE TypeOK'
<1> USE DEF vars, rows
<1>1. ASSUME NEW o \in Orders, NEW kind \in Carts, PlaceOrder(o, kind)
      PROVE  TypeOK'
  <2>1. emitted' \in [EventTypes -> [Orders -> Nat]]
    BY <1>1, EmitFact, EventNames DEF PlaceOrder
  <2> QED
    BY <1>1, <2>1 DEF PlaceOrder, TypeOK, OrderStatus
<1>2. ASSUME NEW client \in Clients, NEW o \in Orders, CancelOrder(client, o)
      PROVE  TypeOK'
  <2>1. "cancel" \in Ops /\ order[o] \in OrderStatus
    BY <1>2 DEF CancelOrder, OrderAllows, Ops, OrderOps, OrderStatus
  <2>2. txs' \in SUBSET Txs
    BY <1>2, <2>1, BeginType DEF CancelOrder
  <2> QED
    BY <1>2, <2>2 DEF CancelOrder, TypeOK
<1>3. ASSUME NEW client \in Clients, NEW o \in Orders, NEW op \in {"dispatch", "handover"},
             ShipmentRequest(client, o, op)
      PROVE  TypeOK'
  <2>1. op \in Ops /\ shipment[o] \in ShipmentStatus
    BY <1>3 DEF ShipmentRequest, ShipmentAllows, Ops, ShipmentOps, ShipmentStatus
  <2>2. txs' \in SUBSET Txs
    BY <1>3, <2>1, BeginType DEF ShipmentRequest
  <2> QED
    BY <1>3, <2>2 DEF ShipmentRequest, TypeOK
<1> QED
  BY <1>1, <1>2, <1>3 DEF Request, ShipShipment, DeliverShipment

LEMMA TypeHandle ==
    ASSUME TypeOK, InFlight, NEW c \in Modules, NEW m \in queue[c], Handle(c, m)
    PROVE  TypeOK'
<1> USE DEF rows
<1>1. /\ m \in Messages /\ m.type \in EventTypes /\ m.order \in Orders
      /\ c \in Consumers[m.type]
      /\ <<c, m>> \in Modules \X Messages
  BY DEF TypeOK, InFlight, Messages
<1>2. ASSUME NEW op \in OrderOps, OrderHandle(m, op) PROVE TypeOK'
  <2>1. op \in Ops /\ order[m.order] \in OrderStatus
    BY <1>2 DEF Ops, OrderHandle, OrderAllows, OrderStatus
  <2>2. txs' \in SUBSET Txs
    BY <1>1, <1>2, <2>1, BeginType DEF OrderHandle
  <2> QED
    BY <1>2, <2>2 DEF OrderHandle, TypeOK
<1>3. CASE c = "inventory" /\ InventoryReserve(m)
  <2>1. emitted' \in [EventTypes -> [Orders -> Nat]]
    BY <1>1, <1>3, EmitFact, EventNames DEF InventoryReserve
  <2> QED
    BY <1>1, <1>3, <2>1 DEF InventoryReserve, Handled, TypeOK, ReservationStatus
<1>4. CASE c = "inventory" /\ InventoryRefuse(m)
  <2>1. emitted' \in [EventTypes -> [Orders -> Nat]]
    BY <1>1, <1>4, EmitFact, EventNames DEF InventoryRefuse
  <2> QED
    BY <1>1, <1>4, <2>1 DEF InventoryRefuse, Handled, TypeOK
<1>5. CASE c = "inventory" /\ InventoryNothingToRelease(m)
  BY <1>1, <1>5 DEF InventoryNothingToRelease, Handled, TypeOK
<1>6. CASE c = "inventory" /\ InventoryRelease(m)
  <2>1. txs' \in SUBSET Txs
    BY <1>1, <1>6, BeginType DEF InventoryRelease, Ops, ReservationStatus
  <2> QED
    BY <1>6, <2>1 DEF InventoryRelease, TypeOK
<1>7. CASE c = "payment" /\ PaymentHandleReserved(m)
  <2>1. emitted' \in [EventTypes -> [Orders -> Nat]]
    BY <1>1, <1>7, EmitFact, EventNames DEF PaymentHandleReserved, TypeOK
  <2> QED
    BY <1>1, <1>7, <2>1 DEF PaymentHandleReserved, Handled, TypeOK, PaymentStatus
<1>8. CASE c = "payment" /\ PaymentNothingToRefund(m)
  BY <1>1, <1>8 DEF PaymentNothingToRefund, Handled, TypeOK
<1>9. CASE c = "payment" /\ PaymentRefund(m)
  <2>1. txs' \in SUBSET Txs
    BY <1>1, <1>9, BeginType DEF PaymentRefund, Ops, PaymentStatus
  <2> QED
    BY <1>9, <2>1 DEF PaymentRefund, TypeOK
<1>10. CASE c = "shipping" /\ ShippingHandlePaid(m)
  <2>1. emitted' \in [EventTypes -> [Orders -> Nat]]
    BY <1>1, <1>10, EmitFact, EventNames DEF ShippingHandlePaid, TypeOK
  <2> QED
    BY <1>1, <1>10, <2>1 DEF ShippingHandlePaid, Handled, TypeOK, ShipmentStatus
<1>11. CASE c = "shipping" /\ ShippingNothingToCancel(m)
  BY <1>1, <1>11 DEF ShippingNothingToCancel, Handled, TypeOK
<1>12. CASE c = "shipping" /\ ShippingCancel(m)
  <2>1. "void" \in Ops /\ shipment[m.order] \in ShipmentStatus
    BY <1>12 DEF ShippingCancel, ShipmentAllows, Ops, ShipmentOps, ShipmentStatus
  <2>2. txs' \in SUBSET Txs
    BY <1>1, <1>12, <2>1, BeginType DEF ShippingCancel
  <2> QED
    BY <1>12, <2>2 DEF ShippingCancel, TypeOK
<1> QED
  BY <1>2, <1>3, <1>4, <1>5, <1>6, <1>7, <1>8, <1>9, <1>10, <1>11, <1>12, OrderSteps
  DEF Handle

LEMMA TypeCommit == ASSUME TypeOK, NEW t \in txs, Commit(t) PROVE TypeOK'
<1>1. t \in Txs /\ t.op \in Ops /\ t.order \in Orders
  BY DEF TypeOK, Txs
<1>2. ASSUME Close(t)
      PROVE  txs' \in SUBSET Txs /\ inbox' \in SUBSET (Modules \X Messages)
  BY <1>2, CloseType
<1>3. CASE OrderCommit(t)
  <2>1. emitted' \in [EventTypes -> [Orders -> Nat]]
    BY <1>1, <1>3, EmitFact, EventNames DEF OrderCommit, TypeOK
  <2>2. OrderTarget[t.op] \in OrderStatus
    BY <1>3 DEF OrderCommit, OrderTarget, OrderOps, OrderStatus
  <2> QED
    BY <1>2, <1>3, <2>1, <2>2 DEF OrderCommit, TypeOK
<1>4. CASE InventoryReleaseCommit(t)
  <2>1. emitted' \in [EventTypes -> [Orders -> Nat]]
    BY <1>1, <1>4, EmitFact, EventNames DEF InventoryReleaseCommit
  <2> QED
    BY <1>2, <1>4, <2>1 DEF InventoryReleaseCommit, TypeOK, ReservationStatus
<1>5. CASE PaymentRefundCommit(t)
  BY <1>2, <1>5 DEF PaymentRefundCommit, TypeOK, PaymentStatus
<1>6. CASE ShipmentCommit(t)
  <2>1. emitted' \in [EventTypes -> [Orders -> Nat]]
    BY <1>1, <1>6, EmitFact, EventNames DEF ShipmentCommit, TypeOK
  <2>2. ShipmentTarget[t.op] \in ShipmentStatus
    BY <1>6 DEF ShipmentCommit, ShipmentTarget, ShipmentOps, ShipmentStatus
  <2> QED
    BY <1>2, <1>6, <2>1, <2>2 DEF ShipmentCommit, TypeOK
<1> QED
  BY <1>3, <1>4, <1>5, <1>6 DEF Commit

LEMMA TypeDelivery ==
    /\ \A t \in txs : TypeOK /\ Rollback(t) => TypeOK'
    /\ \A m \in Messages : TypeOK /\ (Publish(m) \/ PublishUnmarked(m)) => TypeOK'
    /\ \A c \in Modules, m \in Messages :
          TypeOK /\ (Ack(c, m) \/ DeadLetter(c, m)) => TypeOK'
<1> USE DEF rows
<1>1. ASSUME NEW t \in txs, TypeOK, Rollback(t) PROVE TypeOK'
  BY <1>1 DEF Rollback, TypeOK
<1>2. ASSUME NEW m \in Messages, TypeOK, Route(m)
      PROVE  queue' \in [Modules -> SUBSET Messages]
  BY <1>2 DEF Route, TypeOK
<1>3. ASSUME NEW m \in Messages, TypeOK, Publish(m) PROVE TypeOK'
  BY <1>2, <1>3 DEF Publish, TypeOK
<1>4. ASSUME NEW m \in Messages, TypeOK, PublishUnmarked(m) PROVE TypeOK'
  BY <1>2, <1>4 DEF PublishUnmarked, TypeOK
<1>5. ASSUME NEW c \in Modules, NEW m \in Messages, TypeOK, Ack(c, m) PROVE TypeOK'
  BY <1>5 DEF Ack, TypeOK
<1>6. ASSUME NEW c \in Modules, NEW m \in Messages, TypeOK, DeadLetter(c, m)
      PROVE  TypeOK'
  BY <1>6 DEF DeadLetter, TypeOK
<1> QED
  BY <1>1, <1>3, <1>4, <1>5, <1>6

\* The message of an outbox row that a relay may publish.
LEMMA StoredMessage ==
    ASSUME TypeOK, NEW type \in EventTypes, NEW o \in Orders,
           NEW n \in 1..emitted[type][o]
    PROVE  Message(type, o, n) \in Messages
<1>1. emitted[type][o] \in Nat
  BY DEF TypeOK
<1>2. n \in Nat \ {0}
  BY <1>1
<1> QED
  BY <1>2, MessageType

LEMMA TypeStep == ASSUME TypeOK, InFlight, [Next]_vars PROVE TypeOK'
<1>1. CASE Request
  BY <1>1, TypeRequest
<1>2. ASSUME NEW c \in Modules, NEW m \in queue[c],
             Handle(c, m) \/ Ack(c, m) \/ DeadLetter(c, m)
      PROVE  TypeOK'
  <2>1. m \in Messages
    BY DEF TypeOK
  <2> QED
    BY <1>2, <2>1, TypeHandle, TypeDelivery
<1>3. ASSUME NEW t \in txs, Commit(t) \/ Rollback(t) PROVE TypeOK'
  BY <1>3, TypeCommit, TypeDelivery
<1>4. ASSUME NEW type \in EventTypes, NEW o \in Orders, NEW n \in 1..emitted[type][o],
             Publish(Message(type, o, n)) \/ PublishUnmarked(Message(type, o, n))
      PROVE  TypeOK'
  BY <1>4, StoredMessage, TypeDelivery
<1>5. CASE UNCHANGED vars
  BY <1>5 DEF vars, rows, TypeOK
<1> QED
  BY <1>1, <1>2, <1>3, <1>4, <1>5 DEF Next

-----------------------------------------------------------------------------
(* What no step takes back *)

\* Rows are never deleted, collected payments stay collected or are refunded,
\* and the outbox tables only grow.
Onward ==
    \A o \in Orders :
        /\ order[o] # "NONE" => order'[o] # "NONE"
        /\ reservation[o] # "NONE" => reservation'[o] # "NONE"
        /\ shipment[o] # "NONE" => shipment'[o] # "NONE"
        /\ Collected(o) => Collected(o)'
        /\ \A e \in EventTypes :
              emitted'[e][o] \in Nat /\ emitted'[e][o] >= emitted[e][o]

LEMMA OnwardSame ==
    ASSUME TypeOK, UNCHANGED <<order, reservation, payment, shipment, emitted>>
    PROVE  Onward
BY DEF Onward, TypeOK, Collected

LEMMA OnwardEmit ==
    ASSUME TypeOK, NEW type \in EventTypes, NEW o \in Orders, Emit(type, o)
    PROVE  \A e \in EventTypes, p \in Orders :
              emitted'[e][p] \in Nat /\ emitted'[e][p] >= emitted[e][p]
BY EmitFact DEF TypeOK

\* What a transaction relies on survives the steps of others.
LEMMA ReadyKept ==
    ASSUME TypeOK, NEW t \in txs, TxReady(t), Onward
    PROVE  TxReady(t)'
<1>1. t.order \in Orders
  BY DEF TypeOK, Txs
<1>2. emitted["OrderCancelled"][t.order] \in Nat /\ "OrderCancelled" \in EventTypes
  BY <1>1, EventNames DEF TypeOK
<1>3. emitted["OrderCancelled"][t.order] > 0 => emitted'["OrderCancelled"][t.order] > 0
  BY <1>1, <1>2 DEF Onward
<1> QED
  BY <1>1, <1>3 DEF Onward, TxReady

\* A step that writes no row and no event keeps what the outbox tables tell.
LEMMA LedgerSame ==
    ASSUME Ledger, UNCHANGED <<cart, order, reservation, payment, shipment, emitted>>,
           \A o \in Orders : ReserveTried(o)' = ReserveTried(o)
    PROVE  Ledger'
BY DEF Ledger, Collected

LEMMA UndoSame ==
    ASSUME UndoHasCause, UNCHANGED <<order, reservation, payment, shipment, emitted>>
    PROVE  UndoHasCause'
BY DEF UndoHasCause

\* Only Inventory's handling of an OrderPlaced message counts as reserving.
LEMMA TriedByOthers ==
    ASSUME NEW c \in Modules, NEW m \in Messages, Handled(c, m),
           c # "inventory" \/ m.type # "OrderPlaced"
    PROVE  \A o \in Orders : ReserveTried(o)' = ReserveTried(o)
<1>1. \A o \in Orders : Message("OrderPlaced", o, 1).type = "OrderPlaced"
  BY DEF Message
<1> QED
  BY <1>1 DEF Handled, ReserveTried

LEMMA TriedByCommit ==
    ASSUME TypeOK, NEW t \in txs, TxReady(t), Close(t)
    PROVE  \A o \in Orders : ReserveTried(o)' = ReserveTried(o)
<1>1. \A o \in Orders : Message("OrderPlaced", o, 1).type = "OrderPlaced"
  BY DEF Message
<1>2. t.op \in Ops
  BY DEF TypeOK, Txs
<1>3. ModuleOf(t.op) = "inventory" => t.by.type = "OrderCancelled"
  BY <1>2 DEF ModuleOf, Ops, OrderOps, ShipmentOps, TxReady
<1> QED
  BY <1>1, <1>3 DEF Close, ReserveTried

-----------------------------------------------------------------------------
(* The invariant, part by part *)

Facts == Ledger /\ TxsReady /\ UndoHasCause

\* A transaction that only read its row keeps the facts, if it is ready.
LEMMA FactsBegin ==
    ASSUME IInv, NEW t, TxReady(t)', txs' = txs \cup {t},
           UNCHANGED <<cart, order, reservation, payment, shipment, emitted, inbox>>
    PROVE  Facts'
<1>1. Onward
  BY OnwardSame DEF IInv
<1>2. TxsReady'
  BY <1>1, ReadyKept DEF IInv, TxsReady
<1>3. Ledger'
  BY LedgerSame DEF IInv, ReserveTried
<1> QED
  BY <1>2, <1>3, UndoSame DEF IInv, Facts

\* So does a handler that only records its message.
LEMMA FactsSkip ==
    ASSUME IInv, NEW c \in Modules, NEW m \in Messages, Handled(c, m),
           c # "inventory" \/ m.type # "OrderPlaced",
           UNCHANGED <<cart, order, reservation, payment, shipment, emitted, txs>>
    PROVE  Facts'
<1>1. Onward
  BY OnwardSame DEF IInv
<1>2. TxsReady'
  BY <1>1, ReadyKept DEF IInv, TxsReady
<1>3. Ledger'
  BY LedgerSame, TriedByOthers DEF IInv
<1> QED
  BY <1>2, <1>3, UndoSame DEF IInv, Facts

LEMMA FactsPlaceOrder ==
    ASSUME IInv, NEW o \in Orders, NEW kind \in Carts, PlaceOrder(o, kind)
    PROVE  Facts'
<1> USE DEF IInv
<1>1. "OrderPlaced" \in EventTypes /\ Emit("OrderPlaced", o)
  BY EventNames DEF PlaceOrder
<1>2. Onward
  BY <1>1, OnwardEmit DEF PlaceOrder, Onward, TypeOK, Collected
<1>3. TxsReady'
  BY <1>2, ReadyKept DEF TxsReady, PlaceOrder
<1>4. Ledger'
  BY <1>1, EmitFact, EventNames
  DEF PlaceOrder, Ledger, Collected, ReserveTried, TypeOK
<1>5. UndoHasCause'
  BY <1>1, EmitFact, EventNames DEF PlaceOrder, UndoHasCause, TypeOK
<1> QED
  BY <1>3, <1>4, <1>5 DEF Facts

LEMMA FactsRequest == ASSUME IInv, Request PROVE Facts'
<1> USE DEF rows, IInv
<1>1. ASSUME NEW client \in Clients, NEW o \in Orders, CancelOrder(client, o)
      PROVE  Facts'
  <2> DEFINE t == [op |-> "cancel", order |-> o, seen |-> order[o], by |-> client]
  <2>1. txs' = txs \cup {t}
    BY <1>1 DEF CancelOrder, Begin
  <2>2. TxReady(t)'
    BY <1>1 DEF CancelOrder, OrderAllows, TxReady, OrderOps, ShipmentOps
  <2> QED
    BY <1>1, <2>1, <2>2, FactsBegin DEF CancelOrder
<1>2. ASSUME NEW client \in Clients, NEW o \in Orders, NEW op \in {"dispatch", "handover"},
             ShipmentRequest(client, o, op)
      PROVE  Facts'
  <2> DEFINE t == [op |-> op, order |-> o, seen |-> shipment[o], by |-> client]
  <2>1. txs' = txs \cup {t}
    BY <1>2 DEF ShipmentRequest, Begin
  <2>2. TxReady(t)'
    BY <1>2 DEF ShipmentRequest, ShipmentAllows, TxReady, OrderOps, ShipmentOps
  <2> QED
    BY <1>2, <2>1, <2>2, FactsBegin DEF ShipmentRequest
<1> QED
  BY <1>1, <1>2, FactsPlaceOrder DEF Request, ShipShipment, DeliverShipment

\* The first message of OrderPlaced is the only one, and it reserves once.
LEMMA FirstReserve ==
    ASSUME IInv, NEW m \in queue["inventory"], Fresh("inventory", m),
           m.type = "OrderPlaced", Handled("inventory", m)
    PROVE  /\ ~ReserveTried(m.order) /\ ReserveTried(m.order)'
           /\ order[m.order] # "NONE"
           /\ \A p \in Orders : p # m.order => ReserveTried(p)' = ReserveTried(p)
<1>1. m \in Messages /\ Stored(m)
  BY DEF IInv, TypeOK, InFlight, Modules
<1>2. /\ emitted["OrderPlaced"][m.order] = IF order[m.order] = "NONE" THEN 0 ELSE 1
      /\ m.order \in Orders
  BY <1>1 DEF IInv, Ledger, Messages
<1>3. m.n = 1 /\ order[m.order] # "NONE"
  BY <1>1, <1>2 DEF Stored
<1>4. m = Message("OrderPlaced", m.order, 1)
  BY <1>1, <1>3 DEF Message, Messages
<1>5. ~ReserveTried(m.order) /\ ReserveTried(m.order)'
  BY <1>4 DEF Fresh, Handled, ReserveTried
<1>6. ASSUME NEW p \in Orders, p # m.order
      PROVE  ReserveTried(p)' = ReserveTried(p)
  <2>1. Message("OrderPlaced", p, 1).order = p
    BY DEF Message
  <2> QED
    BY <1>6, <2>1 DEF Handled, ReserveTried
<1> QED
  BY <1>3, <1>5, <1>6

LEMMA FactsReserve ==
    ASSUME IInv, NEW m \in queue["inventory"], InventoryReserve(m) \/ InventoryRefuse(m)
    PROVE  Facts'
<1> USE DEF IInv, rows
<1>1. m \in Messages /\ m.order \in Orders
  BY DEF TypeOK, Modules, Messages
<1>2. /\ ~ReserveTried(m.order) /\ ReserveTried(m.order)'
      /\ order[m.order] # "NONE"
      /\ \A p \in Orders : p # m.order => ReserveTried(p)' = ReserveTried(p)
  BY FirstReserve DEF InventoryReserve, InventoryRefuse
<1>3. CASE InventoryReserve(m)
  <2>1. "InventoryReserved" \in EventTypes /\ Emit("InventoryReserved", m.order)
    BY <1>3, EventNames DEF InventoryReserve
  <2>2. Onward
    BY <1>1, <1>3, <2>1, OnwardEmit DEF InventoryReserve, Onward, TypeOK, Collected
  <2>3. TxsReady'
    BY <1>3, <2>2, ReadyKept DEF TxsReady, InventoryReserve
  <2>4. Ledger'
    BY <1>1, <1>2, <1>3, <2>1, EmitFact, EventNames
    DEF InventoryReserve, Ledger, Collected, TypeOK
  <2>5. UndoHasCause'
    BY <1>1, <1>3, <2>1, EmitFact, EventNames DEF InventoryReserve, UndoHasCause, TypeOK
  <2> QED
    BY <2>3, <2>4, <2>5 DEF Facts
<1>4. CASE InventoryRefuse(m)
  <2>1. /\ "InventoryReservationFailed" \in EventTypes
        /\ Emit("InventoryReservationFailed", m.order)
    BY <1>4, EventNames DEF InventoryRefuse
  <2>2. Onward
    BY <1>1, <1>4, <2>1, OnwardEmit DEF InventoryRefuse, Onward, TypeOK, Collected
  <2>3. TxsReady'
    BY <1>4, <2>2, ReadyKept DEF TxsReady, InventoryRefuse
  <2>4. Ledger'
    <3>1. /\ emitted'["InventoryReservationFailed"][m.order]
                = emitted["InventoryReservationFailed"][m.order] + 1
          /\ \A e \in EventTypes, p \in Orders :
                e # "InventoryReservationFailed" \/ p # m.order
                   => emitted'[e][p] = emitted[e][p]
      BY <1>1, <2>1, EmitFact
    <3>2. ASSUME NEW o \in Orders
          PROVE  emitted'["InventoryReserved"][o] + emitted'["InventoryReservationFailed"][o]
                    = IF ReserveTried(o)' THEN 1 ELSE 0
      <4>1. emitted["InventoryReserved"][o] \in Nat
            /\ emitted["InventoryReservationFailed"][o] \in Nat
        BY EventNames DEF TypeOK
      <4>2. emitted["InventoryReserved"][o] + emitted["InventoryReservationFailed"][o]
               = IF ReserveTried(o) THEN 1 ELSE 0
        BY DEF Ledger
      <4>3. emitted'["InventoryReserved"][o] = emitted["InventoryReserved"][o]
        BY <3>1, EventNames
      <4>4. CASE o = m.order
        BY <1>2, <3>1, <4>1, <4>2, <4>3, <4>4
      <4>5. CASE o # m.order
        BY <1>2, <3>1, <4>2, <4>3, <4>5, EventNames
      <4> QED
        BY <4>4, <4>5
    <3> QED
      BY <1>1, <1>2, <1>4, <3>1, <3>2, EventNames
      DEF InventoryRefuse, Ledger, Collected
  <2>5. UndoHasCause'
    BY <1>1, <1>4, <2>1, EmitFact, EventNames DEF InventoryRefuse, UndoHasCause, TypeOK
  <2> QED
    BY <2>3, <2>4, <2>5 DEF Facts
<1> QED
  BY <1>3, <1>4

LEMMA FactsPayment ==
    ASSUME IInv, NEW m \in queue["payment"], PaymentHandleReserved(m)
    PROVE  Facts'
<1> USE DEF IInv, rows
<1>1. /\ m \in Messages /\ m.order \in Orders /\ Stored(m)
      /\ m.type = "InventoryReserved" /\ Handled("payment", m)
  BY DEF TypeOK, InFlight, Modules, Messages, PaymentHandleReserved
<1>2. \A o \in Orders : ReserveTried(o)' = ReserveTried(o)
  BY <1>1, TriedByOthers DEF Modules
<1>3. emitted["InventoryReserved"][m.order] > 0
  BY <1>1, EventNames DEF Stored, TypeOK
<1>4. CASE payment[m.order] # "NONE"
  BY <1>1, <1>4, FactsSkip DEF PaymentHandleReserved, Modules
<1>5. CASE payment[m.order] = "NONE" /\ cart[m.order] = "declined"
  <2>1. "PaymentFailed" \in EventTypes /\ Emit("PaymentFailed", m.order)
    BY <1>5, EventNames DEF PaymentHandleReserved
  <2>2. Onward
    BY <1>1, <1>5, <2>1, OnwardEmit DEF PaymentHandleReserved, Onward, TypeOK, Collected
  <2>3. TxsReady'
    BY <1>5, <2>2, ReadyKept DEF TxsReady, PaymentHandleReserved
  <2>4. Ledger'
    BY <1>1, <1>2, <1>3, <1>5, <2>1, EmitFact, EventNames
    DEF PaymentHandleReserved, Ledger, Collected, TypeOK
  <2>5. UndoHasCause'
    BY <1>1, <1>5, <2>1, EmitFact, EventNames
    DEF PaymentHandleReserved, UndoHasCause, TypeOK
  <2> QED
    BY <2>3, <2>4, <2>5 DEF Facts
<1>6. CASE payment[m.order] = "NONE" /\ cart[m.order] # "declined"
  <2>1. "PaymentCompleted" \in EventTypes /\ Emit("PaymentCompleted", m.order)
    BY <1>6, EventNames DEF PaymentHandleReserved
  <2>2. Onward
    BY <1>1, <1>6, <2>1, OnwardEmit DEF PaymentHandleReserved, Onward, TypeOK, Collected
  <2>3. TxsReady'
    BY <1>6, <2>2, ReadyKept DEF TxsReady, PaymentHandleReserved
  <2>4. Ledger'
    BY <1>1, <1>2, <1>3, <1>6, <2>1, EmitFact, EventNames
    DEF PaymentHandleReserved, Ledger, Collected, TypeOK
  <2>5. UndoHasCause'
    BY <1>1, <1>6, <2>1, EmitFact, EventNames
    DEF PaymentHandleReserved, UndoHasCause, TypeOK
  <2> QED
    BY <2>3, <2>4, <2>5 DEF Facts
<1> QED
  BY <1>4, <1>5, <1>6

LEMMA FactsShipping ==
    ASSUME IInv, NEW m \in queue["shipping"], ShippingHandlePaid(m)
    PROVE  Facts'
<1> USE DEF IInv, rows
<1>1. /\ m \in Messages /\ m.order \in Orders /\ Stored(m)
      /\ m.type = "PaymentCompleted" /\ Handled("shipping", m)
  BY DEF TypeOK, InFlight, Modules, Messages, ShippingHandlePaid
<1>2. \A o \in Orders : ReserveTried(o)' = ReserveTried(o)
  BY <1>1, TriedByOthers DEF Modules
<1>3. Collected(m.order)
  BY <1>1 DEF Stored, Ledger
<1>4. CASE shipment[m.order] # "NONE"
  BY <1>1, <1>4, FactsSkip DEF ShippingHandlePaid, Modules
<1>5. CASE shipment[m.order] = "NONE"
  <2>1. "ShipmentCreated" \in EventTypes /\ Emit("ShipmentCreated", m.order)
    BY <1>5, EventNames DEF ShippingHandlePaid
  <2>2. Onward
    BY <1>1, <1>5, <2>1, OnwardEmit DEF ShippingHandlePaid, Onward, TypeOK, Collected
  <2>3. TxsReady'
    BY <1>5, <2>2, ReadyKept DEF TxsReady, ShippingHandlePaid
  <2>4. Ledger'
    BY <1>1, <1>2, <1>3, <1>5, <2>1, EmitFact, EventNames
    DEF ShippingHandlePaid, Ledger, Collected, TypeOK
  <2>5. UndoHasCause'
    BY <1>1, <1>5, <2>1, EmitFact, EventNames
    DEF ShippingHandlePaid, UndoHasCause, TypeOK
  <2> QED
    BY <2>3, <2>4, <2>5 DEF Facts
<1> QED
  BY <1>4, <1>5

\* The handlers that read a row they will update.
LEMMA FactsHandleBegin ==
    /\ \A m \in queue["order"] : IInv /\ Handle("order", m) => Facts'
    /\ \A m \in queue["inventory"] : IInv /\ InventoryRelease(m) => Facts'
    /\ \A m \in queue["payment"] : IInv /\ PaymentRefund(m) => Facts'
    /\ \A m \in queue["shipping"] : IInv /\ ShippingCancel(m) => Facts'
<1> USE DEF rows
<1>1. ASSUME IInv, NEW c \in Modules, NEW m \in queue[c]
      PROVE  /\ m \in Messages /\ m.order \in Orders /\ m.type \in EventTypes
             /\ Stored(m) /\ c \in Consumers[m.type]
             /\ emitted[m.type][m.order] > 0
  <2>1. m \in Messages /\ Stored(m) /\ c \in Consumers[m.type]
    BY <1>1 DEF IInv, TypeOK, InFlight
  <2>2. m.order \in Orders /\ m.type \in EventTypes
    BY <2>1 DEF Messages
  <2>3. emitted[m.type][m.order] > 0
    BY <1>1, <2>1, <2>2 DEF Stored, IInv, TypeOK
  <2> QED
    BY <2>1, <2>2, <2>3
<1>2. ASSUME IInv, NEW m \in queue["order"], Handle("order", m) PROVE Facts'
  <2>1. PICK op \in OrderOps :
           /\ OrderHandle(m, op)
           /\ op = "pay" => m.type = "PaymentCompleted"
           /\ op = "ship" => m.type = "ShipmentCreated"
    BY <1>2, OrderSteps
  <2> DEFINE t == [op |-> op, order |-> m.order, seen |-> order[m.order], by |-> m]
  <2>2. txs' = txs \cup {t}
    BY <2>1 DEF OrderHandle, Begin
  <2>3. m.order \in Orders /\ emitted[m.type][m.order] > 0
    BY <1>1, <1>2 DEF Modules
  <2>4. /\ order[m.order] # "NONE"
        /\ op = "deliver" => order[m.order] = "SHIPPED"
    BY <2>1 DEF OrderHandle, OrderAllows
  <2>5. op = "pay" => Collected(m.order)
    BY <1>2, <2>1, <2>3 DEF IInv, Ledger
  <2>6. op \in {"ship", "deliver"} => shipment[m.order] # "NONE"
    BY <1>2, <2>1, <2>3, <2>4 DEF IInv, Ledger
  <2>7. op \in {"ship", "deliver"} => Collected(m.order)
    BY <1>2, <2>3, <2>6 DEF IInv, Ledger
  <2>8. TxReady(t)'
    BY <2>1, <2>4, <2>5, <2>6, <2>7
    DEF TxReady, OrderHandle, OrderOps, ShipmentOps, Collected
  <2> QED
    BY <1>2, <2>1, <2>2, <2>8, FactsBegin DEF OrderHandle
<1>3. ASSUME IInv, NEW m \in queue["inventory"], InventoryRelease(m) PROVE Facts'
  <2> DEFINE t == [op |-> "release", order |-> m.order,
                   seen |-> reservation[m.order], by |-> m]
  <2>1. txs' = txs \cup {t}
    BY <1>3 DEF InventoryRelease, Begin
  <2>2. m.order \in Orders /\ emitted["OrderCancelled"][m.order] > 0
    BY <1>1, <1>3 DEF Modules, InventoryRelease
  <2>3. TxReady(t)'
    BY <1>3, <2>2 DEF TxReady, InventoryRelease, OrderOps, ShipmentOps
  <2> QED
    BY <1>3, <2>1, <2>3, FactsBegin DEF InventoryRelease
<1>4. ASSUME IInv, NEW m \in queue["payment"], PaymentRefund(m) PROVE Facts'
  <2> DEFINE t == [op |-> "refund", order |-> m.order, seen |-> payment[m.order], by |-> m]
  <2>1. txs' = txs \cup {t}
    BY <1>4 DEF PaymentRefund, Begin
  <2>2. m.order \in Orders /\ emitted["OrderCancelled"][m.order] > 0
    BY <1>1, <1>4 DEF Modules, PaymentRefund
  <2>3. TxReady(t)'
    BY <1>4, <2>2 DEF TxReady, PaymentRefund, OrderOps, ShipmentOps, Collected
  <2> QED
    BY <1>4, <2>1, <2>3, FactsBegin DEF PaymentRefund
<1>5. ASSUME IInv, NEW m \in queue["shipping"], ShippingCancel(m) PROVE Facts'
  <2> DEFINE t == [op |-> "void", order |-> m.order, seen |-> shipment[m.order], by |-> m]
  <2>1. txs' = txs \cup {t}
    BY <1>5 DEF ShippingCancel, Begin
  <2>2. m.order \in Orders /\ emitted["OrderCancelled"][m.order] > 0
    BY <1>1, <1>5 DEF Modules, ShippingCancel
  <2>3. TxReady(t)'
    BY <1>5, <2>2 DEF TxReady, ShippingCancel, ShipmentAllows, OrderOps, ShipmentOps
  <2> QED
    BY <1>5, <2>1, <2>3, FactsBegin DEF ShippingCancel
<1> QED
  BY <1>2, <1>3, <1>4, <1>5

LEMMA FactsHandle ==
    ASSUME IInv, NEW c \in Modules, NEW m \in queue[c], Handle(c, m)
    PROVE  Facts'
<1> USE DEF rows
<1>1. m \in Messages
  BY DEF IInv, TypeOK
<1>2. CASE c = "inventory" /\ InventoryNothingToRelease(m)
  BY <1>1, <1>2, FactsSkip DEF InventoryNothingToRelease
<1>3. CASE c = "payment" /\ PaymentNothingToRefund(m)
  BY <1>1, <1>3, FactsSkip DEF PaymentNothingToRefund
<1>4. CASE c = "shipping" /\ ShippingNothingToCancel(m)
  BY <1>1, <1>4, FactsSkip DEF ShippingNothingToCancel
<1> QED
  BY <1>2, <1>3, <1>4, FactsHandleBegin, FactsReserve, FactsPayment, FactsShipping
  DEF Handle

LEMMA FactsCommit == ASSUME IInv, NEW t \in txs, Commit(t) PROVE Facts'
<1> USE DEF IInv
<1>1. t \in Txs /\ t.op \in Ops /\ t.order \in Orders /\ TxReady(t)
  BY DEF TypeOK, Txs, TxsReady
<1>2. ASSUME Close(t)
      PROVE  txs' \subseteq txs /\ \A o \in Orders : ReserveTried(o)' = ReserveTried(o)
  BY <1>1, <1>2, TriedByCommit DEF Close
<1>3. CASE OrderCommit(t) /\ t.op = "cancel"
  <2>1. "OrderCancelled" \in EventTypes /\ Emit("OrderCancelled", t.order)
    BY <1>3, EventNames DEF OrderCommit, Announces
  <2>2. Onward
    BY <1>1, <1>3, <2>1, OnwardEmit DEF OrderCommit, OrderTarget, Onward, TypeOK, Collected
  <2>3. TxsReady'
    BY <1>2, <1>3, <2>2, ReadyKept DEF TxsReady, OrderCommit
  <2>4. Ledger'
    BY <1>1, <1>2, <1>3, <2>1, EmitFact, EventNames
    DEF OrderCommit, OrderTarget, OrderOps, TxReady, Ledger, Collected, TypeOK
  <2>5. UndoHasCause'
    BY <1>1, <1>3, <2>1, EmitFact, EventNames DEF OrderCommit, UndoHasCause, TypeOK
  <2> QED
    BY <2>3, <2>4, <2>5 DEF Facts
<1>4. CASE OrderCommit(t) /\ t.op # "cancel"
  <2>1. UNCHANGED <<emitted, cart, reservation, payment, shipment>>
    BY <1>4 DEF OrderCommit, Announces
  <2>2. /\ OrderTarget[t.op] \in {"PAID", "SHIPPED", "DELIVERED"}
        /\ OrderTarget[t.op] \in {"SHIPPED", "DELIVERED"} => t.op \in {"ship", "deliver"}
    BY <1>4 DEF OrderCommit, OrderTarget, OrderOps
  <2>3. Onward
    BY <1>1, <1>4, <2>1, <2>2 DEF OrderCommit, Onward, TypeOK, Collected
  <2>4. TxsReady'
    BY <1>2, <1>4, <2>3, ReadyKept DEF TxsReady, OrderCommit
  <2>5. Ledger'
    BY <1>1, <1>2, <1>4, <2>1, <2>2
    DEF OrderCommit, OrderOps, TxReady, Ledger, Collected, TypeOK
  <2>6. UndoHasCause'
    BY <1>1, <1>4, <2>1, <2>2 DEF OrderCommit, UndoHasCause, TypeOK
  <2> QED
    BY <2>4, <2>5, <2>6 DEF Facts
<1>5. CASE InventoryReleaseCommit(t)
  <2>1. "InventoryReleased" \in EventTypes /\ Emit("InventoryReleased", t.order)
    BY <1>5, EventNames DEF InventoryReleaseCommit
  <2>2. Onward
    BY <1>1, <1>5, <2>1, OnwardEmit DEF InventoryReleaseCommit, Onward, TypeOK, Collected
  <2>3. TxsReady'
    BY <1>2, <1>5, <2>2, ReadyKept DEF TxsReady, InventoryReleaseCommit
  <2>4. Ledger'
    BY <1>1, <1>2, <1>5, <2>1, EmitFact, EventNames
    DEF InventoryReleaseCommit, TxReady, Ledger, Collected, TypeOK
  <2>5. UndoHasCause'
    BY <1>1, <1>5, <2>1, EmitFact, EventNames
    DEF InventoryReleaseCommit, TxReady, UndoHasCause, TypeOK
  <2> QED
    BY <2>3, <2>4, <2>5 DEF Facts
<1>6. CASE PaymentRefundCommit(t)
  <2>1. Onward
    BY <1>1, <1>6 DEF PaymentRefundCommit, Onward, TypeOK, Collected
  <2>2. TxsReady'
    BY <1>2, <1>6, <2>1, ReadyKept DEF TxsReady, PaymentRefundCommit
  <2>3. Ledger'
    BY <1>1, <1>2, <1>6 DEF PaymentRefundCommit, TxReady, Ledger, Collected, TypeOK
  <2>4. UndoHasCause'
    BY <1>1, <1>6 DEF PaymentRefundCommit, TxReady, UndoHasCause, TypeOK
  <2> QED
    BY <2>2, <2>3, <2>4 DEF Facts
<1>7. CASE ShipmentCommit(t)
  <2>1. t.op \in ShipmentOps /\ ShipmentTarget[t.op] # "NONE"
    BY <1>7 DEF ShipmentCommit, ShipmentTarget, ShipmentOps
  <2>2. \A e \in EventTypes, p \in Orders :
           /\ e # "ShipmentDelivered" => emitted'[e][p] = emitted[e][p]
           /\ emitted'[e][p] \in Nat /\ emitted'[e][p] >= emitted[e][p]
    BY <1>1, <1>7, EmitFact, OnwardEmit, EventNames DEF ShipmentCommit, TypeOK
  <2>3. Onward
    BY <1>1, <1>7, <2>1, <2>2 DEF ShipmentCommit, Onward, TypeOK, Collected
  <2>4. TxsReady'
    BY <1>2, <1>7, <2>3, ReadyKept DEF TxsReady, ShipmentCommit
  <2>5. Ledger'
    BY <1>1, <1>2, <1>7, <2>1, <2>2, EventNames
    DEF ShipmentCommit, TxReady, Ledger, Collected, TypeOK
  <2>6. UndoHasCause'
    BY <1>1, <1>7, <2>1, <2>2, EventNames
    DEF ShipmentCommit, ShipmentTarget, ShipmentOps, TxReady, UndoHasCause, TypeOK
  <2> QED
    BY <2>4, <2>5, <2>6 DEF Facts
<1> QED
  BY <1>3, <1>4, <1>5, <1>6, <1>7 DEF Commit

\* Every step adds to one outbox table at most.
LEMMA OneEvent ==
    ASSUME TypeOK, InFlight, [Next]_vars
    PROVE  \/ UNCHANGED emitted
           \/ \E type \in EventTypes, o \in Orders : Emit(type, o)
<1> USE DEF rows
<1>1. CASE Request
  BY <1>1, EventNames DEF Request, PlaceOrder, CancelOrder, ShipShipment,
  DeliverShipment, ShipmentRequest
<1>2. ASSUME NEW c \in Modules, NEW m \in queue[c],
             Handle(c, m) \/ Ack(c, m) \/ DeadLetter(c, m)
      PROVE  \/ UNCHANGED emitted
             \/ \E type \in EventTypes, o \in Orders : Emit(type, o)
  <2>1. m.order \in Orders
    BY DEF TypeOK, Messages
  <2>2. CASE Ack(c, m) \/ DeadLetter(c, m)
    BY <2>2 DEF Ack, DeadLetter
  <2>3. CASE Handle(c, m)
    BY <2>1, <2>3, EventNames
    DEF Handle, OrderPaymentCompleted, OrderShipmentCreated, OrderShipmentDelivered,
        OrderPaymentFailed, OrderReservationFailed, OrderHandle, InventoryReserve, InventoryRefuse,
        InventoryNothingToRelease, InventoryRelease, PaymentHandleReserved,
        PaymentNothingToRefund, PaymentRefund, ShippingHandlePaid,
        ShippingNothingToCancel, ShippingCancel
  <2> QED
    BY <1>2, <2>2, <2>3
<1>3. ASSUME NEW t \in txs, Commit(t) \/ Rollback(t)
      PROVE  \/ UNCHANGED emitted
             \/ \E type \in EventTypes, o \in Orders : Emit(type, o)
  <2>1. t.order \in Orders
    BY DEF TypeOK, Txs
  <2> QED
    BY <1>3, <2>1, EventNames
    DEF Commit, Rollback, OrderCommit, InventoryReleaseCommit,
        PaymentRefundCommit, ShipmentCommit
<1>4. ASSUME NEW m, Publish(m) \/ PublishUnmarked(m) PROVE UNCHANGED emitted
  BY <1>4 DEF Publish, PublishUnmarked
<1>5. CASE UNCHANGED vars
  BY <1>5 DEF vars
<1> QED
  BY <1>1, <1>2, <1>3, <1>4, <1>5 DEF Next

\* A message enters a queue only from its outbox row.
LEMMA QueueStep ==
    ASSUME [Next]_vars, NEW c \in Modules, NEW m \in queue'[c], TypeOK
    PROVE  m \in queue[c] \/ (Stored(m) /\ c \in Consumers[m.type])
<1> USE DEF rows
<1>1. CASE Request
  BY <1>1 DEF Request, PlaceOrder, CancelOrder, ShipShipment,
  DeliverShipment, ShipmentRequest
<1>2. ASSUME NEW d \in Modules, NEW x \in queue[d],
             Handle(d, x) \/ Ack(d, x) \/ DeadLetter(d, x)
      PROVE  m \in queue[c]
  <2>1. CASE Ack(d, x) \/ DeadLetter(d, x)
    BY <2>1 DEF Ack, DeadLetter, TypeOK
  <2>2. CASE Handle(d, x)
    BY <2>2
    DEF Handle, OrderPaymentCompleted, OrderShipmentCreated, OrderShipmentDelivered,
        OrderPaymentFailed, OrderReservationFailed, OrderHandle, InventoryReserve, InventoryRefuse,
        InventoryNothingToRelease, InventoryRelease, PaymentHandleReserved,
        PaymentNothingToRefund, PaymentRefund, ShippingHandlePaid,
        ShippingNothingToCancel, ShippingCancel
  <2> QED
    BY <1>2, <2>1, <2>2
<1>3. ASSUME NEW t \in txs, Commit(t) \/ Rollback(t) PROVE m \in queue[c]
  BY <1>3 DEF Commit, Rollback, OrderCommit, InventoryReleaseCommit,
              PaymentRefundCommit, ShipmentCommit
<1>4. ASSUME NEW x, Publish(x) \/ PublishUnmarked(x)
      PROVE  m \in queue[c] \/ (Stored(m) /\ c \in Consumers[m.type])
  BY <1>4 DEF Publish, PublishUnmarked, Route
<1>5. CASE UNCHANGED vars
  BY <1>5 DEF vars
<1> QED
  BY <1>1, <1>2, <1>3, <1>4, <1>5 DEF Next

LEMMA InFlightStep == ASSUME TypeOK, InFlight, [Next]_vars PROVE InFlight'
<1> SUFFICES ASSUME NEW c \in Modules, NEW m \in queue'[c]
             PROVE  Stored(m)' /\ c \in Consumers[m.type]
  BY DEF InFlight
<1>1. Stored(m) /\ c \in Consumers[m.type]
  BY QueueStep DEF InFlight
<1>2. TypeOK'
  BY TypeStep
<1>3. m.type \in EventTypes /\ m.order \in Orders
  BY <1>2 DEF TypeOK, Messages
<1>4. emitted'[m.type][m.order] \in Nat
      /\ emitted'[m.type][m.order] >= emitted[m.type][m.order]
  BY <1>3, OneEvent, OnwardEmit DEF TypeOK
<1>5. emitted[m.type][m.order] \in Nat
  BY <1>3 DEF TypeOK
<1> QED
  BY <1>1, <1>4, <1>5 DEF Stored

\* Steps of the relay, the broker and the consumer change no row; a redelivered
\* message and a rolled back transaction leave no trace in them.
LEMMA FactsDelivery ==
    ASSUME IInv, txs' \subseteq txs, UNCHANGED inbox,
           UNCHANGED <<cart, order, reservation, payment, shipment, emitted>>
    PROVE  Facts'
<1>1. Onward
  BY OnwardSame DEF IInv
<1>2. TxsReady'
  BY <1>1, ReadyKept DEF IInv, TxsReady
<1>3. Ledger'
  BY LedgerSame DEF IInv, ReserveTried
<1> QED
  BY <1>2, <1>3, UndoSame DEF IInv, Facts

LEMMA IInvInit == Init => IInv
<1> SUFFICES ASSUME Init PROVE IInv
  OBVIOUS
<1>1. TypeOK
  BY TypeInit
<1>2. InFlight
  BY DEF Init, InFlight
<1>3. Ledger
  <2> SUFFICES ASSUME NEW o \in Orders PROVE Ledger!(o)
    BY DEF Ledger
  <2>1. ~ReserveTried(o) /\ ~Collected(o)
    BY DEF Init, ReserveTried, Collected
  <2>2. /\ emitted["OrderPlaced"][o] = 0 /\ emitted["InventoryReserved"][o] = 0
        /\ emitted["InventoryReservationFailed"][o] = 0
        /\ emitted["PaymentCompleted"][o] = 0 /\ emitted["PaymentFailed"][o] = 0
        /\ emitted["ShipmentCreated"][o] = 0
    BY EventNames DEF Init
  <2> QED
    BY <2>1, <2>2 DEF Init
<1>4. TxsReady
  BY DEF Init, TxsReady
<1>5. UndoHasCause
  BY DEF Init, UndoHasCause
<1> QED
  BY <1>1, <1>2, <1>3, <1>4, <1>5 DEF IInv

LEMMA IInvStep == IInv /\ [Next]_vars => IInv'
<1> SUFFICES ASSUME IInv, [Next]_vars PROVE IInv'
  OBVIOUS
<1> USE DEF rows
<1>1. TypeOK' /\ InFlight'
  BY TypeStep, InFlightStep DEF IInv
<1>2. CASE Request
  BY <1>1, <1>2, FactsRequest DEF IInv, Facts
<1>3. ASSUME NEW c \in Modules, NEW m \in queue[c],
             Handle(c, m) \/ Ack(c, m) \/ DeadLetter(c, m)
      PROVE  Facts'
  <2>1. CASE Handle(c, m)
    BY <2>1, FactsHandle
  <2>2. CASE Ack(c, m)
    BY <2>2, FactsDelivery DEF Ack
  <2>3. CASE DeadLetter(c, m)
    BY <2>3, FactsDelivery DEF DeadLetter
  <2> QED
    BY <1>3, <2>1, <2>2, <2>3
<1>4. ASSUME NEW t \in txs, Commit(t) \/ Rollback(t) PROVE Facts'
  <2>1. CASE Rollback(t)
    BY <2>1, FactsDelivery DEF Rollback
  <2> QED
    BY <1>4, <2>1, FactsCommit
<1>5. ASSUME NEW m, Publish(m) \/ PublishUnmarked(m) PROVE Facts'
  BY <1>5, FactsDelivery DEF Publish, PublishUnmarked
<1>6. ASSUME UNCHANGED vars PROVE Facts'
  BY <1>6, FactsDelivery DEF vars
<1> QED
  BY <1>1, <1>2, <1>3, <1>4, <1>5, <1>6 DEF Next, IInv, Facts

\* The inductive invariant holds in every state the saga can reach; the theorems
\* below follow from it.
THEOREM Invariance == Spec => []IInv
BY IInvInit, IInvStep, PTL DEF Spec

-----------------------------------------------------------------------------
(* Theorems *)

\* Every variable of the saga keeps its type, whatever the modules do.
THEOREM TypeCorrect == Spec => []TypeOK
<1>1. IInv => TypeOK
  BY DEF IInv
<1> QED
  BY <1>1, Invariance, PTL

\* No order is paid without a collected payment, none is shipped without a
\* shipment, no shipment exists for uncollected money, and no payment is asked
\* for unreserved stock: for any number of orders, clients, cancellations and
\* faults.
THEOREM UnpaidNeverShips == Spec => []NothingUnpaidShips
<1>1. IInv => NothingUnpaidShips
  BY DEF IInv, Ledger, Collected, NothingUnpaidShips
<1> QED
  BY <1>1, Invariance, PTL

\* The inbox makes at-least-once delivery harmless: no forward step of the saga
\* is announced twice, nor announced both done and failed.
THEOREM ExactlyOnceSteps == Spec => []StepsOnce
<1>1. ASSUME IInv, NEW o \in Orders
      PROVE  /\ emitted["OrderPlaced"][o] <= 1
             /\ emitted["InventoryReserved"][o]
                   + emitted["InventoryReservationFailed"][o] <= 1
             /\ emitted["PaymentCompleted"][o] + emitted["PaymentFailed"][o] <= 1
             /\ emitted["ShipmentCreated"][o] <= 1
  BY <1>1 DEF IInv, Ledger, Collected
<1>2. IInv => StepsOnce
  BY <1>1 DEF StepsOnce
<1> QED
  BY <1>2, Invariance, PTL

\* Stock is released, money refunded and a shipment cancelled only after an
\* OrderCancelled event was stored with the cancelled order.
THEOREM UndoneOnlyIfCancelled == Spec => []UndoHasCause
<1>1. IInv => UndoHasCause
  BY DEF IInv
<1> QED
  BY <1>1, Invariance, PTL

Kept(o) ==
    /\ reservation[o] = "RELEASED" => reservation'[o] = "RELEASED"
    /\ payment[o] \in {"FAILED", "REFUNDED"} => payment'[o] = payment[o]

LEMMA KeptStep == ASSUME IInv, [Next]_vars, NEW o \in Orders PROVE Kept(o)
<1> USE DEF IInv, rows
<1>1. CASE Request
  BY <1>1 DEF Request, PlaceOrder, CancelOrder, ShipShipment,
  DeliverShipment, ShipmentRequest, Kept
<1>2. ASSUME NEW c \in Modules, NEW m \in queue[c],
             Handle(c, m) \/ Ack(c, m) \/ DeadLetter(c, m)
      PROVE  Kept(o)
  <2>1. CASE Ack(c, m) \/ DeadLetter(c, m)
    BY <2>1 DEF Ack, DeadLetter, Kept
  <2>2. CASE c = "inventory" /\ InventoryReserve(m)
    <3>1. ~ReserveTried(m.order)
      BY <2>2, FirstReserve DEF InventoryReserve
    <3>2. /\ emitted["InventoryReserved"][o] \in Nat
          /\ emitted["InventoryReservationFailed"][o] \in Nat
      BY EventNames DEF TypeOK
    <3>3. o = m.order => reservation[o] = "NONE"
      BY <3>1, <3>2 DEF Ledger
    <3> QED
      BY <2>2, <3>3 DEF InventoryReserve, TypeOK, Kept
  <2>3. CASE c = "payment" /\ PaymentHandleReserved(m)
    BY <2>3 DEF PaymentHandleReserved, TypeOK, Kept
  <2>4. CASE Handle(c, m) /\ c \in {"order", "shipping"}
    BY <2>4, OrderSteps DEF Handle, OrderHandle, ShippingHandlePaid, ShippingNothingToCancel,
                ShippingCancel, Kept
  <2>5. CASE \/ InventoryRefuse(m) \/ InventoryNothingToRelease(m)
             \/ InventoryRelease(m) \/ PaymentNothingToRefund(m) \/ PaymentRefund(m)
    BY <2>5 DEF InventoryRefuse, InventoryNothingToRelease, InventoryRelease,
                PaymentNothingToRefund, PaymentRefund, Kept
  <2> QED
    BY <1>2, <2>1, <2>2, <2>3, <2>4, <2>5 DEF Handle, Modules
<1>3. ASSUME NEW t \in txs, Commit(t) \/ Rollback(t) PROVE Kept(o)
  <2>1. t.op = "refund" => Collected(t.order)
    BY DEF TxsReady, TxReady
  <2>2. CASE PaymentRefundCommit(t)
    BY <2>1, <2>2 DEF PaymentRefundCommit, Ledger, Collected, TypeOK, Kept
  <2>3. CASE InventoryReleaseCommit(t)
    BY <2>3 DEF InventoryReleaseCommit, TypeOK, Kept
  <2> QED
    BY <1>3, <2>2, <2>3 DEF Commit, Rollback, OrderCommit, ShipmentCommit, Kept
<1>4. ASSUME NEW m, Publish(m) \/ PublishUnmarked(m) PROVE Kept(o)
  BY <1>4 DEF Publish, PublishUnmarked, Kept
<1>5. CASE UNCHANGED vars
  BY <1>5 DEF vars, Kept
<1> QED
  BY <1>1, <1>2, <1>3, <1>4, <1>5 DEF Next

\* Compensation happens once: no later step, however late or concurrent, takes
\* stock back that was released or changes a payment refused or refunded.
THEOREM SettledForGood == Spec => SettledIsFinal
<1>1. IInv /\ [Next]_vars
         => [\A o \in Orders :
               /\ reservation[o] = "RELEASED" => reservation'[o] = "RELEASED"
               /\ payment[o] \in {"FAILED", "REFUNDED"} => payment'[o] = payment[o]]_vars
  BY KeptStep DEF Kept
<1> QED
  BY <1>1, Invariance, PTL DEF Spec, SettledIsFinal

=============================================================================
