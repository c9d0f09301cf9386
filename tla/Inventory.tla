----------------------------- MODULE Inventory -----------------------------
(***************************************************************************)
(* Stock in the Inventory module: products with two counters, reservation   *)
(* rows, and the transactions that change them.                            *)
(*                                                                         *)
(* A transaction reads a product with a plain SELECT, computes both         *)
(* counters in memory and writes their values, not a difference: there is   *)
(* no version column and no lock on reading.  An UPDATE locks the row until *)
(* the transaction ends, and others see it after the commit.  MikroORM      *)
(* keeps one copy of a row in a transaction, and writes a changed one when  *)
(* the handler saves it or before.                                          *)
(***************************************************************************)
EXTENDS Integers, Sequences, FiniteSetsExt

CONSTANTS
    Products,        \* product rows
    Orders,          \* orders placed
    Workers,         \* callbacks of the consumers that can run at a time
    Admins,          \* concurrent callers of PATCH /products/:id/stock
    MaxAdjustment,   \* bound: size of an adjustment
    MaxStock,        \* bound: stock of a product when it is added
    MaxQuantity,     \* bound: quantity of an item
    MaxItems,        \* bound: items of an order
    MaxCancels,      \* bound: OrderCancelled messages about one order
    MaxAdjustments   \* bound: adjustments made

ASSUME BoundsAssumption ==
    /\ MaxStock \in Nat /\ MaxQuantity \in Nat /\ MaxItems \in Nat
    /\ MaxCancels \in Nat /\ MaxAdjustments \in Nat /\ MaxAdjustment \in Nat
ASSUME CallersAssumption == Workers \cap Admins = {}

VARIABLES
    listed,       \* products that exist
    cart,         \* the items of each order, in the order of the message
    stock,        \* stock_quantity of each product
    reserved,     \* reserved_quantity of each product
    status,       \* status of the reservation rows of each order
    outcome,      \* the event stored for each order: reserved or failed
    handled,      \* messages with an inbox row
    supply,       \* what was ever added to each product's stock
    adjustments,  \* adjustments made so far
    txs,          \* the open transaction of each worker and admin
    crossed       \* what ever ran concurrently: two "workers", or an
                  \* "adjustment" and another transaction

vars == <<listed, cart, stock, reserved, status, outcome, handled, supply,
          adjustments, txs, crossed>>

Item == [product : Products, quantity : 1..MaxQuantity]
Carts == UNION {[1..n -> Item] : n \in 0..MaxItems}

Messages == [type : {"OrderPlaced"}, order : Orders, n : {1}]
            \cup [type : {"OrderCancelled"}, order : Orders, n : 1..MaxCancels]

Row == [stock : Int, reserved : Int]
Request == [product : Products, adjustment : Int]
NoRow == [stock |-> 0, reserved |-> 0]

\* next: the item to look at; copy: the rows in the identity map; dirty: those
\* changed and not written; locked: those written.
NoTx == [kind |-> "none"]
Tx(kind, by) ==
    [kind |-> kind, by |-> by, next |-> 1, loaded |-> {},
     copy |-> [p \in Products |-> NoRow], dirty |-> {}, locked |-> {}]

TxState == [kind : {"reserve", "refuse", "release", "update"},
            by : Messages \cup Request, next : Nat \ {0},
            loaded : SUBSET Products, copy : [Products -> Row],
            dirty : SUBSET Products, locked : SUBSET Products]

Init ==
    /\ listed = {}
    /\ cart \in [Orders -> Carts]
    /\ supply = [p \in Products |-> 0]
    /\ stock = [p \in Products |-> 0]
    /\ reserved = [p \in Products |-> 0]
    /\ status = [o \in Orders |-> "NONE"]
    /\ outcome = [o \in Orders |-> "none"]
    /\ handled = {}
    /\ adjustments = 0
    /\ txs = [w \in Workers \cup Admins |-> NoTx]
    /\ crossed = {}

\* The row as the transaction sees it.
Seen(t, p) ==
    IF p \in t.loaded THEN t.copy[p]
    ELSE [stock |-> stock[p], reserved |-> reserved[p]]

\* t after changing its copy of p.
Changed(t, p, row) ==
    [t EXCEPT !.loaded = @ \cup {p}, !.copy[p] = row,
              !.dirty = IF row = Seen(t, p) THEN @ ELSE @ \cup {p}]

\* t at the next item.
Onward(t) == [t EXCEPT !.next = @ + 1]

table == <<listed, stock, reserved>>

\* The written rows become visible.
WriteRows(t) ==
    /\ stock' = [p \in Products |-> IF p \in t.locked THEN t.copy[p].stock ELSE stock[p]]
    /\ reserved' = [p \in Products |->
                       IF p \in t.locked THEN t.copy[p].reserved ELSE reserved[p]]

\* w begins t; what it overlaps with is remembered.
Open(w, t) ==
    LET others == {v \in Workers \cup Admins : v # w /\ txs[v] # NoTx}
    IN  /\ txs' = [txs EXCEPT ![w] = t]
        /\ crossed' = crossed
              \cup (IF w \in Workers /\ others \cap Workers # {} THEN {"workers"} ELSE {})
              \cup (IF others # {} /\ (others \cup {w}) \cap Admins # {}
                    THEN {"adjustment"} ELSE {})

End(w) == txs' = [txs EXCEPT ![w] = NoTx] /\ UNCHANGED crossed

\* No inbox row for m, and no open transaction that has inserted one.
Fresh(m) ==
    /\ m \notin handled
    /\ \A w \in Workers : txs[w] # NoTx => txs[w].by # m

-----------------------------------------------------------------------------
(* Product *)

\* reserveStock without the check.
MutAvailable(row, quantity) == TRUE

Available(row, quantity) == row.stock >= quantity

\* The reserved counter is forgotten.
MutTaken(row, quantity) == [row EXCEPT !.stock = @ - quantity]

Taken(row, quantity) ==
    [stock |-> row.stock - quantity, reserved |-> row.reserved + quantity]

\* The clamp is applied to one counter only.
MutReturned(row, quantity) ==
    [stock |-> row.stock + quantity, reserved |-> row.reserved - Min({row.reserved, quantity})]

\* The reserved counter is not lowered.
MutReturnedStock(row, quantity) ==
    [row EXCEPT !.stock = @ + Min({row.reserved, quantity})]

\* releaseStock returns no more than is reserved.
Returned(row, quantity) ==
    LET n == Min({row.reserved, quantity})
    IN  [stock |-> row.stock + n, reserved |-> row.reserved - n]

-----------------------------------------------------------------------------
(* OrderPlacedProcessor *)

BeginReserve(w, m) ==
    /\ txs[w] = NoTx
    /\ m.type = "OrderPlaced"
    /\ Fresh(m)
    /\ Open(w, Tx("reserve", m))
    /\ UNCHANGED <<cart, table, status, outcome, handled, supply, adjustments>>

\* One round of the loop over the items.  ProductNotFoundException is caught
\* like InsufficientStockException.
ReserveItem(w) ==
    LET t == txs[w]
        items == cart[t.by.order]
        p == items[t.next].product
        q == items[t.next].quantity
    IN  /\ t.kind = "reserve"
        /\ t.next <= Len(items)
        /\ txs' = [txs EXCEPT ![w] =
                      IF p \in listed /\ Available(Seen(t, p), q)
                      THEN Onward(Changed(t, p, Taken(Seen(t, p), q)))
                      ELSE [t EXCEPT !.kind = "refuse"]]
        /\ UNCHANGED <<cart, table, status, outcome, handled, supply, adjustments, crossed>>

\* The catch block throws away nothing: items reserved before the one that
\* failed are flushed and committed with the failure event.
CommitReserve(w) ==
    LET t == txs[w]
        o == t.by.order
    IN  /\ \/ t.kind = "reserve" /\ t.next > Len(cart[o])
           \/ t.kind = "refuse"
        /\ t.dirty = {}
        /\ WriteRows(t)
        /\ IF t.kind = "refuse"
           THEN outcome' = [outcome EXCEPT ![o] = "failed"] /\ UNCHANGED status
           ELSE /\ outcome' = [outcome EXCEPT ![o] = "reserved"]
                /\ status' = [status EXCEPT ![o] = IF cart[o] = <<>> THEN @ ELSE "RESERVED"]
        /\ handled' = handled \cup {t.by}
        /\ End(w)
        /\ UNCHANGED <<listed, cart, supply, adjustments>>

-----------------------------------------------------------------------------
(* OrderCancelledProcessor *)

\* No active reservation: only the inbox row is committed.
ReleaseNothing(w, m) ==
    /\ txs[w] = NoTx
    /\ m.type = "OrderCancelled"
    /\ Fresh(m)
    /\ status[m.order] # "RESERVED"
    /\ handled' = handled \cup {m}
    /\ UNCHANGED <<cart, table, status, outcome, supply, adjustments, txs, crossed>>

BeginRelease(w, m) ==
    /\ txs[w] = NoTx
    /\ m.type = "OrderCancelled"
    /\ Fresh(m)
    /\ status[m.order] = "RESERVED"
    /\ Open(w, Tx("release", m))
    /\ UNCHANGED <<cart, table, status, outcome, handled, supply, adjustments>>

\* One round of the loop; the one before has saved its product.  A product that
\* does not exist is passed over.
ReleaseItem(w) ==
    LET t == txs[w]
        items == cart[t.by.order]
        p == items[t.next].product
        q == items[t.next].quantity
    IN  /\ t.kind = "release"
        /\ t.next <= Len(items)
        /\ t.dirty = {}
        /\ txs' = [txs EXCEPT ![w] =
                      Onward(IF p \in listed THEN Changed(t, p, Returned(Seen(t, p), q)) ELSE t)]
        /\ UNCHANGED <<cart, table, status, outcome, handled, supply, adjustments, crossed>>

\* release() sets the wrong status.
MutReleased == "DEDUCTED"

Released == "RELEASED"

CommitRelease(w) ==
    LET t == txs[w]
        o == t.by.order
    IN  /\ t.kind = "release"
        /\ t.next > Len(cart[o])
        /\ t.dirty = {}
        /\ WriteRows(t)
        /\ status' = [status EXCEPT ![o] = Released]
        /\ handled' = handled \cup {t.by}
        /\ End(w)
        /\ UNCHANGED <<listed, cart, outcome, supply, adjustments>>

-----------------------------------------------------------------------------
(* AddProductHandler, UpdateStockHandler *)

\* One INSERT; a known SKU throws.
AddProduct(p, n) ==
    /\ p \notin listed
    /\ listed' = listed \cup {p}
    /\ stock' = [stock EXCEPT ![p] = n]
    /\ supply' = [supply EXCEPT ![p] = n]
    /\ UNCHANGED <<cart, reserved, status, outcome, handled, adjustments, txs, crossed>>

\* Only stock_quantity changes.  A missing product and a negative result throw.
BeginUpdate(a, p, adjustment) ==
    LET t == Tx("update", [product |-> p, adjustment |-> adjustment])
    IN  /\ txs[a] = NoTx
        /\ adjustments < MaxAdjustments
        /\ p \in listed
        /\ stock[p] + adjustment >= 0
        /\ Open(a, Changed(t, p, [Seen(t, p) EXCEPT !.stock = @ + adjustment]))
        /\ UNCHANGED <<cart, table, status, outcome, handled, supply, adjustments>>

CommitUpdate(a) ==
    LET t == txs[a]
    IN  /\ t.kind = "update"
        /\ t.dirty = {}
        /\ stock' = [stock EXCEPT ![t.by.product] = t.copy[t.by.product].stock]
        /\ supply' = [supply EXCEPT ![t.by.product] = @ + t.by.adjustment]
        /\ adjustments' = adjustments + 1
        /\ End(a)
        /\ UNCHANGED <<listed, cart, reserved, status, outcome, handled>>

-----------------------------------------------------------------------------
(* Any transaction *)

\* The UPDATE of a changed row waits for a transaction that has written it.
Flush(w, p) ==
    /\ txs[w] # NoTx
    /\ p \in txs[w].dirty
    /\ \A v \in Workers \cup Admins : v # w /\ txs[v] # NoTx => p \notin txs[v].locked
    /\ txs' = [txs EXCEPT ![w].dirty = @ \ {p}, ![w].locked = @ \cup {p}]
    /\ UNCHANGED <<cart, table, status, outcome, handled, supply, adjustments, crossed>>

\* A crash, a database error, or PostgreSQL breaking a deadlock.
Rollback(w) ==
    /\ txs[w] # NoTx
    /\ End(w)
    /\ UNCHANGED <<cart, table, status, outcome, handled, supply, adjustments>>

Handle(w) ==
    \/ \E m \in Messages : BeginReserve(w, m) \/ ReleaseNothing(w, m) \/ BeginRelease(w, m)
    \/ ReserveItem(w) \/ CommitReserve(w)
    \/ ReleaseItem(w) \/ CommitRelease(w)

Update(a) ==
    \/ \E p \in Products, adjustment \in -MaxAdjustment..MaxAdjustment : BeginUpdate(a, p, adjustment)
    \/ CommitUpdate(a)

Next ==
    \/ \E w \in Workers : Handle(w)
    \/ \E a \in Admins : Update(a)
    \/ \E p \in Products, n \in 0..MaxStock : AddProduct(p, n)
    \/ \E w \in Workers \cup Admins : Rollback(w) \/ \E p \in Products : Flush(w, p)

Spec == Init /\ [][Next]_vars

-----------------------------------------------------------------------------
(* Properties *)

\* The types of the variables; a reservation row is never DEDUCTED, since
\* nothing calls deduct().
TypeOK ==
    /\ listed \subseteq Products
    /\ cart \in [Orders -> Carts]
    /\ stock \in [Products -> Int]
    /\ reserved \in [Products -> Int]
    /\ supply \in [Products -> Int]
    /\ status \in [Orders -> {"NONE", "RESERVED", "RELEASED"}]
    /\ outcome \in [Orders -> {"none", "reserved", "failed"}]
    /\ handled \subseteq Messages
    /\ adjustments \in Nat
    /\ txs \in [Workers \cup Admins -> TxState \cup {NoTx}]
    /\ \A w \in Workers : txs[w] # NoTx => txs[w].kind # "update" /\ txs[w].by \in Messages
    /\ \A a \in Admins : txs[a] # NoTx => txs[a].kind = "update" /\ txs[a].by \in Request
    /\ crossed \subseteq {"workers", "adjustment"}

\* However transactions interleave, overwrite one another and roll back, no
\* counter goes below 0 (the CHECK of docs/04-backend-schema.md:149, which no
\* migration creates).
NonNegative == \A p \in Products : stock[p] >= 0 /\ reserved[p] >= 0

\* However reservations and releases interleave, overwrite one another and
\* roll back, and whatever is added and adjusted in between: the two counters of a
\* product add up to what was supplied.  Only an adjustment concurrent with
\* another transaction can lose an update in a way that changes the sum.
Conservation ==
    "adjustment" \notin crossed =>
        \A p \in Products : stock[p] + reserved[p] = supply[p]

\* The units of p that the items of a set of orders ask for, one by one.
Units(p, os) ==
    {u \in os \X (1..MaxItems) \X (1..MaxQuantity) :
        /\ u[2] <= Len(cart[u[1]])
        /\ cart[u[1]][u[2]].product = p
        /\ u[3] <= cart[u[1]][u[2]].quantity}

\* How much of p they ask for.
Asked(p, os) == Cardinality(Units(p, os))

\* What active reservation rows say is set aside of p.
Claimed(p) == Asked(p, {o \in Orders : status[o] = "RESERVED"})

\* Every active reservation is backed by reserved stock: nothing is promised
\* twice ("product `stock_quantity` down, `reserved_quantity` up",
\* docs/08-event-flow-saga-map.md:204).
NeverOversold == \A p \in Products : Claimed(p) <= reserved[p]

\* What the code guarantees of it: reservations are backed while callbacks do
\* not overlap, whatever adjustments and rollbacks come in between.
Backed == "workers" \notin crossed => NeverOversold

\* Reserved stock that no active reservation claims is what a refused order
\* left behind: a refusal keeps the items it took before the one it could not
\* (order-placed.processor.ts, catch block), and nothing else strands stock
\* while callbacks do not overlap.
OnlyRefusalsStrand ==
    "workers" \notin crossed =>
        \A p \in Products :
            reserved[p] <= Claimed(p) + Asked(p, {o \in Orders : outcome[o] = "failed"})

=============================================================================
