-------------------------- MODULE InventoryProofs --------------------------
(***************************************************************************)
(* Proofs about Inventory for any products, orders, workers and bounds.     *)
(*                                                                         *)
(* What a transaction will write is as good as what is in the table: every  *)
(* copy has counters that are not negative (Sound) and, until an adjustment *)
(* has overlapped with another transaction, add up to the supply            *)
(* (Balanced).  So it does not matter in which order the consumers'         *)
(* transactions overwrite one another.                                     *)
(*                                                                         *)
(* That reservations are backed holds only while callbacks do not overlap.  *)
(* Then there is one callback's transaction at most; it has moved each      *)
(* counter by what the items behind it ask for (Ledger), and the table's    *)
(* counters lie between what active reservations ask for and that plus      *)
(* what refused orders asked for (Covered).  What orders ask for is counted *)
(* unit by unit, as the cardinality of a set.                              *)
(***************************************************************************)
EXTENDS Inventory, SequenceTheorems, FiniteSetTheorems, TLAPS

LEMMA MinOfTwo ==
    ASSUME NEW a \in Int, NEW b \in Int
    PROVE  /\ Min({a, b}) \in {a, b}
           /\ Min({a, b}) <= a
           /\ Min({a, b}) <= b
<1>1. \E x \in {a, b} : \A y \in {a, b} : x <= y
    OBVIOUS
<1> QED BY <1>1 DEF Min

LEMMA CartItems ==
    ASSUME NEW c \in Carts, NEW i \in Nat \ {0}, i <= Len(c)
    PROVE  c[i].product \in Products /\ c[i].quantity \in Nat
<1>1. PICK n \in 0..MaxItems : c \in [1..n -> Item]
    BY DEF Carts
<1>2. c \in Seq(Item)
    BY <1>1, BoundsAssumption, SeqDef
<1>3. c[i] \in Item
    BY <1>2
<1> QED BY <1>3, BoundsAssumption DEF Item

-----------------------------------------------------------------------------
(* Types *)

LEMMA NoTxFacts == NoTx.kind = "none" /\ NoTx \notin TxState
BY DEF NoTx, TxState

LEMMA SeenType ==
    ASSUME TypeOK, NEW t \in TxState, NEW p \in Products
    PROVE  Seen(t, p) \in Row
BY DEF TypeOK, TxState, Seen, Row

\* What Changed does to a transaction.
LEMMA ChangedFacts ==
    ASSUME NEW t \in TxState, NEW p \in Products, NEW row \in Row
    PROVE  /\ Changed(t, p, row) \in TxState
           /\ Changed(t, p, row).kind = t.kind
           /\ Changed(t, p, row).by = t.by
           /\ Changed(t, p, row).next = t.next
           /\ Changed(t, p, row).locked = t.locked
           /\ Changed(t, p, row).loaded = t.loaded \cup {p}
           /\ Changed(t, p, row).dirty \subseteq t.dirty \cup {p}
           /\ Changed(t, p, row).copy = [t.copy EXCEPT ![p] = row]
BY DEF Changed, TxState

LEMMA TxFacts ==
    ASSUME NEW kind \in {"reserve", "release", "update"}, NEW by \in Messages \cup Request
    PROVE  /\ Tx(kind, by) \in TxState
           /\ Tx(kind, by).kind = kind
           /\ Tx(kind, by).by = by
           /\ Tx(kind, by).loaded = {}
           /\ Tx(kind, by).dirty = {}
           /\ Tx(kind, by).locked = {}
           /\ Tx(kind, by).copy = [p \in Products |-> NoRow]
BY DEF Tx, TxState, NoRow, Row

LEMMA ProductRows ==
    ASSUME NEW row \in Row, NEW q \in Nat
    PROVE  /\ Taken(row, q) \in Row
           /\ Returned(row, q) \in Row
           /\ Taken(row, q).stock + Taken(row, q).reserved = row.stock + row.reserved
           /\ Returned(row, q).stock + Returned(row, q).reserved = row.stock + row.reserved
           /\ row.stock >= 0 /\ row.reserved >= 0 =>
                 /\ Available(row, q) => Taken(row, q).stock >= 0 /\ Taken(row, q).reserved >= 0
                 /\ Returned(row, q).stock >= 0 /\ Returned(row, q).reserved >= 0
<1> DEFINE n == Min({row.reserved, q})
<1>1. row.stock \in Int /\ row.reserved \in Int
    BY DEF Row
<1>2. n \in {row.reserved, q} /\ n <= row.reserved /\ n <= q
    BY <1>1, MinOfTwo
<1>3. /\ Returned(row, q).stock = row.stock + n
      /\ Returned(row, q).reserved = row.reserved - n
      /\ Returned(row, q) = [stock |-> row.stock + n, reserved |-> row.reserved - n]
    BY DEF Returned
<1> HIDE DEF n
<1> QED BY <1>1, <1>2, <1>3 DEF Taken, Available, Row

\* The item that a transaction about an order looks at.
LEMMA CurrentItem ==
    ASSUME TypeOK, NEW w \in Workers, txs[w] # NoTx,
           txs[w].next \in Nat \ {0}, txs[w].next <= Len(cart[txs[w].by.order])
    PROVE  /\ cart[txs[w].by.order][txs[w].next].product \in Products
           /\ cart[txs[w].by.order][txs[w].next].quantity \in Nat
<1>1. txs[w].by.order \in Orders
    BY DEF TypeOK, Messages
<1>2. cart[txs[w].by.order] \in Carts
    BY <1>1 DEF TypeOK
<1> QED BY <1>2, CartItems

-----------------------------------------------------------------------------
(* The invariant *)

\* A product that does not exist has no stock; transactions have read others.
Unlisted ==
    /\ \A p \in Products \ listed : reserved[p] = 0
    /\ \A w \in Workers \cup Admins : txs[w] # NoTx => txs[w].loaded \subseteq listed

\* No counter is negative, in the table or in a transaction's copy.
Sound ==
    /\ NonNegative
    /\ \A w \in Workers \cup Admins : txs[w] # NoTx =>
          \A p \in Products : txs[w].copy[p].stock >= 0 /\ txs[w].copy[p].reserved >= 0

\* What a transaction changed it has read.
Reads ==
    \A w \in Workers \cup Admins : txs[w] # NoTx =>
        txs[w].dirty \cup txs[w].locked \subseteq txs[w].loaded

\* No adjustment ever overlapped with another transaction.
Undisturbed == "adjustment" \notin crossed

\* An undisturbed adjustment is alone.
Solo ==
    Undisturbed => \A a \in Admins, v \in Workers \cup Admins :
                      txs[a] # NoTx /\ txs[v] # NoTx => v = a

\* The counters add up, in the copies a transaction of a consumer has read.
AddsUp(u) == \A p \in u.loaded : u.copy[p].stock + u.copy[p].reserved = supply[p]

\* An adjustment will write what the table holds, adjusted.
Adjusts(u) ==
    /\ u.by.product \in listed
    /\ u.copy[u.by.product].stock = stock[u.by.product] + u.by.adjustment

\* The counters add up, in the table and in what will be written.
Balanced ==
    Undisturbed =>
        /\ \A p \in Products : stock[p] + reserved[p] = supply[p]
        /\ \A w \in Workers : txs[w] # NoTx => AddsUp(txs[w])
        /\ \A a \in Admins : txs[a] # NoTx => Adjusts(txs[a])

IInv == TypeOK /\ Unlisted /\ Sound /\ Reads /\ Solo /\ Balanced

\* The invariant's demands on a transaction of w.
WellTyped(w, u) ==
    /\ u \in TxState
    /\ w \in Workers => u.kind # "update" /\ u.by \in Messages
    /\ w \in Admins => u.kind = "update" /\ u.by \in Request
    /\ u.loaded \subseteq listed
    /\ u.dirty \cup u.locked \subseteq u.loaded

NeverNegative(u) ==
    \A p \in Products : u.copy[p].stock >= 0 /\ u.copy[p].reserved >= 0

Good(w, u) ==
    u # NoTx =>
        /\ WellTyped(w, u)
        /\ NeverNegative(u)
        /\ Undisturbed => (w \in Workers => AddsUp(u)) /\ (w \in Admins => Adjusts(u))

\* A step that only replaces the transaction of w by u keeps the invariant if u
\* is as good as the transactions of the invariant.
LEMMA Replace ==
    ASSUME IInv, NEW w \in Workers \cup Admins, NEW u, Good(w, u),
           txs' = [txs EXCEPT ![w] = u],
           UNCHANGED <<cart, table, status, outcome, supply, adjustments>>,
           handled' \subseteq Messages,
           crossed \subseteq crossed', crossed' \subseteq {"workers", "adjustment"},
           Solo'
    PROVE  IInv'
<1>1. /\ cart' = cart /\ stock' = stock /\ reserved' = reserved /\ status' = status
      /\ outcome' = outcome /\ supply' = supply /\ adjustments' = adjustments
      /\ listed' = listed
    BY DEF table
<1>2. \A v \in Workers \cup Admins : txs'[v] = IF v = w THEN u ELSE txs[v]
    BY DEF IInv, TypeOK
<1>3. txs' \in [Workers \cup Admins -> TxState \cup {NoTx}]
    <2>1. txs \in [Workers \cup Admins -> TxState \cup {NoTx}]
        BY DEF IInv, TypeOK
    <2>2. u \in TxState \cup {NoTx}
        BY DEF Good, WellTyped
    <2> QED BY <2>1, <2>2
<1>4. ASSUME NEW v \in Workers \cup Admins, txs'[v] # NoTx
      PROVE  WellTyped(v, txs'[v]) /\ NeverNegative(txs'[v])
    <2>1. CASE v = w
        BY <1>2, <1>4, <2>1 DEF Good
    <2>2. CASE v # w
        BY <1>2, <1>4, <2>2
           DEF IInv, TypeOK, Unlisted, Sound, Reads, WellTyped, NeverNegative
    <2> QED BY <2>1, <2>2
<1>5. TypeOK'
    BY <1>1, <1>3, <1>4 DEF IInv, TypeOK, WellTyped
<1>6. Unlisted'
    BY <1>1, <1>4 DEF IInv, Unlisted, WellTyped
<1>7. Sound'
    BY <1>1, <1>4 DEF IInv, Sound, NonNegative, NeverNegative
<1>8. Reads'
    BY <1>4 DEF Reads, WellTyped
<1>9. ASSUME Undisturbed' PROVE Balanced'
    <2>1. Undisturbed
        BY <1>9 DEF Undisturbed
    <2>2. \A p \in Products : stock'[p] + reserved'[p] = supply'[p]
        BY <1>1, <2>1 DEF IInv, Balanced
    <2>3. ASSUME NEW v \in Workers, txs'[v] # NoTx PROVE AddsUp(txs[v])'
        <3>1. CASE v = w
            BY <1>1, <1>2, <2>1, <2>3, <3>1 DEF Good, AddsUp
        <3>2. CASE v # w
            BY <1>1, <1>2, <2>1, <2>3, <3>2 DEF IInv, Balanced, AddsUp
        <3> QED BY <3>1, <3>2
    <2>4. ASSUME NEW v \in Admins, txs'[v] # NoTx PROVE Adjusts(txs[v])'
        <3>1. CASE v = w
            BY <1>1, <1>2, <2>1, <2>4, <3>1 DEF Good, Adjusts
        <3>2. CASE v # w
            BY <1>1, <1>2, <2>1, <2>4, <3>2 DEF IInv, Balanced, Adjusts
        <3> QED BY <3>1, <3>2
    <2> QED BY <2>2, <2>3, <2>4 DEF Balanced
<1>10. Balanced'
    BY <1>9 DEF Balanced
<1> QED BY <1>5, <1>6, <1>7, <1>8, <1>10 DEF IInv

\* Nothing new overlaps when a transaction goes on or ends.
LEMMA SoloStays ==
    ASSUME IInv, NEW w \in Workers \cup Admins, NEW u, u # NoTx => txs[w] # NoTx,
           txs' = [txs EXCEPT ![w] = u], UNCHANGED crossed
    PROVE  /\ Solo'
           /\ crossed \subseteq crossed' /\ crossed' \subseteq {"workers", "adjustment"}
<1>1. \A v \in Workers \cup Admins : txs'[v] # NoTx => txs[v] # NoTx
    BY DEF IInv, TypeOK
<1> QED BY <1>1 DEF IInv, TypeOK, Solo, Undisturbed

\* Beginning a transaction records what it overlaps with.
LEMMA SoloOpens ==
    ASSUME IInv, NEW w \in Workers \cup Admins, NEW u, Open(w, u)
    PROVE  /\ txs' = [txs EXCEPT ![w] = u]
           /\ Solo'
           /\ crossed \subseteq crossed' /\ crossed' \subseteq {"workers", "adjustment"}
<1> DEFINE others == {v \in Workers \cup Admins : v # w /\ txs[v] # NoTx}
<1>1. /\ txs' = [txs EXCEPT ![w] = u]
      /\ crossed \subseteq crossed' /\ crossed' \subseteq {"workers", "adjustment"}
    BY DEF Open, IInv, TypeOK
<1>2. Undisturbed' => others = {} \/ (others \cup {w}) \cap Admins = {}
    BY DEF Open, Undisturbed
<1>3. ASSUME Undisturbed', NEW a \in Admins, NEW v \in Workers \cup Admins,
             txs'[a] # NoTx, txs'[v] # NoTx
      PROVE  v = a
    <2>1. Undisturbed
        BY <1>1, <1>3 DEF Undisturbed
    <2>2. \A x \in Workers \cup Admins : x # w => txs'[x] = txs[x]
        BY <1>1 DEF IInv, TypeOK
    <2>3. \A x \in Workers \cup Admins : txs'[x] # NoTx /\ x # w => x \in others
        BY <2>2
    <2>4. CASE others = {}
        BY <1>3, <2>3, <2>4
    <2>5. CASE (others \cup {w}) \cap Admins = {}
        BY <1>3, <2>3, <2>5
    <2> QED BY <1>2, <1>3, <2>4, <2>5
<1> QED BY <1>1, <1>3 DEF Solo

\* The transaction that begins has read nothing.
LEMMA BeginStep ==
    ASSUME IInv, NEW w \in Workers, NEW m \in Messages,
           BeginReserve(w, m) \/ BeginRelease(w, m)
    PROVE  IInv'
<1>1. PICK kind \in {"reserve", "release"} : Open(w, Tx(kind, m))
    BY DEF BeginReserve, BeginRelease
<1>2. w \notin Admins
    BY CallersAssumption
<1>3. handled' \subseteq Messages
    BY DEF BeginReserve, BeginRelease, IInv, TypeOK
<1>4. UNCHANGED <<cart, table, status, outcome, supply, adjustments>>
    BY DEF BeginReserve, BeginRelease
<1>5. \A p \in Products : /\ Tx(kind, m).copy[p].stock >= 0
                         /\ Tx(kind, m).copy[p].reserved >= 0
    BY TxFacts DEF NoRow
<1>6. Good(w, Tx(kind, m))
    BY <1>2, <1>5, TxFacts DEF Good, WellTyped, NeverNegative, AddsUp
<1> QED BY <1>1, <1>3, <1>4, <1>6, SoloOpens, Replace

\* A transaction that goes on without touching what it has read.
LEMMA OnlyGoesOn ==
    ASSUME IInv, NEW w \in Workers, txs[w] # NoTx, NEW u \in TxState,
           u.kind # "update", u.by = txs[w].by, u.copy = txs[w].copy,
           u.loaded = txs[w].loaded, u.dirty = txs[w].dirty, u.locked = txs[w].locked,
           txs' = [txs EXCEPT ![w] = u],
           UNCHANGED <<cart, table, status, outcome, handled, supply, adjustments, crossed>>
    PROVE  IInv'
<1>1. WellTyped(w, u)
    BY CallersAssumption DEF WellTyped, IInv, TypeOK, Unlisted, Reads
<1>2. NeverNegative(u)
    BY DEF NeverNegative, IInv, Sound
<1>3. Undisturbed => AddsUp(u)
    BY DEF AddsUp, IInv, Balanced
<1>4. Good(w, u)
    BY <1>1, <1>2, <1>3, CallersAssumption DEF Good
<1>5. Solo' /\ crossed \subseteq crossed' /\ crossed' \subseteq {"workers", "adjustment"}
    BY SoloStays
<1> QED BY <1>4, <1>5, Replace DEF IInv, TypeOK

\* A changed copy is as good as the row it was computed from.
LEMMA ChangedStep ==
    ASSUME IInv, NEW w \in Workers, txs[w] # NoTx, NEW p \in listed, NEW row \in Row,
           row.stock >= 0 /\ row.reserved >= 0,
           row.stock + row.reserved = Seen(txs[w], p).stock + Seen(txs[w], p).reserved,
           txs' = [txs EXCEPT ![w] = Onward(Changed(txs[w], p, row))],
           UNCHANGED <<cart, table, status, outcome, handled, supply, adjustments, crossed>>
    PROVE  IInv'
<1> DEFINE t == txs[w]
           c == Changed(t, p, row)
           u == Onward(c)
<1>1. t \in TxState /\ t.by \in Messages /\ t.kind # "update" /\ w \notin Admins
    BY CallersAssumption DEF IInv, TypeOK
<1>2. p \in Products
    BY DEF IInv, TypeOK
<1>3. c \in TxState
    BY <1>1, <1>2, ChangedFacts
<1>4. u \in TxState
    BY <1>3 DEF TxState, Onward
<1>5. /\ u.kind = c.kind /\ u.by = c.by /\ u.copy = c.copy
      /\ u.loaded = c.loaded /\ u.dirty = c.dirty /\ u.locked = c.locked
    BY <1>3 DEF TxState, Onward
<1>6. /\ u.kind = t.kind /\ u.by = t.by /\ u.locked = t.locked
      /\ u.loaded = t.loaded \cup {p} /\ u.dirty \subseteq t.dirty \cup {p}
      /\ u.copy = [t.copy EXCEPT ![p] = row]
    BY <1>1, <1>2, <1>5, ChangedFacts
<1> HIDE DEF c, u
<1>7. NeverNegative(u)
    BY <1>1, <1>2, <1>6 DEF IInv, Sound, TxState, NeverNegative
<1>8. ASSUME Undisturbed PROVE AddsUp(u)
    <2>1. /\ \A q \in Products : stock[q] + reserved[q] = supply[q]
          /\ AddsUp(t)
        BY <1>8 DEF IInv, Balanced
    <2>2. Seen(t, p).stock + Seen(t, p).reserved = supply[p]
        BY <1>2, <2>1 DEF Seen, AddsUp
    <2>3. t.loaded \subseteq Products /\ t.copy \in [Products -> Row]
        BY <1>1 DEF TxState
    <2> QED BY <1>2, <1>6, <2>1, <2>2, <2>3 DEF AddsUp
<1>9. txs' = [txs EXCEPT ![w] = u]
    BY DEF u, c
<1>10. WellTyped(w, u)
    <2>1. t.loaded \subseteq listed /\ t.dirty \cup t.locked \subseteq t.loaded
        BY DEF IInv, Unlisted, Reads
    <2> QED BY <1>1, <1>4, <1>6, <2>1 DEF WellTyped
<1>11. Good(w, u)
    BY <1>1, <1>7, <1>8, <1>10 DEF Good
<1>12. Solo' /\ crossed \subseteq crossed' /\ crossed' \subseteq {"workers", "adjustment"}
    BY <1>9, SoloStays
<1> QED BY <1>9, <1>11, <1>12, Replace DEF IInv, TypeOK

LEMMA SeenSound ==
    ASSUME IInv, NEW w \in Workers, txs[w] # NoTx, NEW p \in Products
    PROVE  Seen(txs[w], p).stock >= 0 /\ Seen(txs[w], p).reserved >= 0
BY DEF IInv, Sound, NonNegative, Seen

-----------------------------------------------------------------------------
(* One lemma for each action *)

LEMMA ReserveItemStep ==
    ASSUME IInv, NEW w \in Workers, ReserveItem(w)
    PROVE  IInv'
<1>1. PICK t : t = txs[w]
    OBVIOUS
<1>2. PICK p : p = cart[t.by.order][t.next].product
    OBVIOUS
<1>3. PICK q : q = cart[t.by.order][t.next].quantity
    OBVIOUS
<1>4. t # NoTx /\ t \in TxState /\ w \notin Admins
    BY Zenon, <1>1, NoTxFacts, CallersAssumption DEF ReserveItem, IInv, TypeOK
<1>5. t.next \in Nat \ {0} /\ t.next <= Len(cart[t.by.order])
    BY <1>1, <1>4 DEF ReserveItem, TxState
<1>6. p \in Products /\ q \in Nat
    BY <1>1, <1>2, <1>3, <1>4, <1>5, CurrentItem DEF IInv
<1>7. PICK s \in Row : s = Seen(t, p) /\ s.stock >= 0 /\ s.reserved >= 0
    BY <1>1, <1>4, <1>6, SeenType, SeenSound DEF IInv
<1>8. UNCHANGED <<cart, table, status, outcome, handled, supply, adjustments, crossed>>
    BY Zenon DEF ReserveItem
<1>9. CASE p \in listed /\ Available(s, q)
    <2>1. PICK row : row = Taken(s, q)
        OBVIOUS
    <2>2. /\ row \in Row /\ row.stock >= 0 /\ row.reserved >= 0
          /\ row.stock + row.reserved = s.stock + s.reserved
        BY <1>6, <1>7, <1>9, <2>1, ProductRows
    <2>3. txs' = [txs EXCEPT ![w] = Onward(Changed(t, p, row))]
        BY Zenon, <1>1, <1>2, <1>3, <1>7, <1>9, <2>1 DEF ReserveItem
    <2> QED BY <1>1, <1>4, <1>7, <1>8, <1>9, <2>2, <2>3, ChangedStep
<1>10. CASE ~(p \in listed /\ Available(s, q))
    <2>1. PICK u : u = [t EXCEPT !.kind = "refuse"]
        OBVIOUS
    <2>2. txs' = [txs EXCEPT ![w] = u]
        BY Zenon, <1>1, <1>2, <1>3, <1>7, <1>10, <2>1 DEF ReserveItem
    <2>3. /\ u \in TxState /\ u.kind = "refuse" /\ u.by = t.by /\ u.copy = t.copy
          /\ u.loaded = t.loaded /\ u.dirty = t.dirty /\ u.locked = t.locked
        BY <1>4, <2>1 DEF TxState
    <2> QED BY <1>1, <1>4, <1>8, <2>2, <2>3, OnlyGoesOn
<1> QED BY <1>9, <1>10

LEMMA ReleaseItemStep ==
    ASSUME IInv, NEW w \in Workers, ReleaseItem(w)
    PROVE  IInv'
<1>1. PICK t : t = txs[w]
    OBVIOUS
<1>2. PICK p : p = cart[t.by.order][t.next].product
    OBVIOUS
<1>3. PICK q : q = cart[t.by.order][t.next].quantity
    OBVIOUS
<1>4. t # NoTx /\ t \in TxState /\ w \notin Admins /\ t.kind = "release"
    BY Zenon, <1>1, NoTxFacts, CallersAssumption DEF ReleaseItem, IInv, TypeOK
<1>5. t.next \in Nat \ {0} /\ t.next <= Len(cart[t.by.order])
    BY <1>1, <1>4 DEF ReleaseItem, TxState
<1>6. p \in Products /\ q \in Nat
    BY <1>1, <1>2, <1>3, <1>4, <1>5, CurrentItem DEF IInv
<1>7. PICK s \in Row : s = Seen(t, p) /\ s.stock >= 0 /\ s.reserved >= 0
    BY <1>1, <1>4, <1>6, SeenType, SeenSound DEF IInv
<1>8. UNCHANGED <<cart, table, status, outcome, handled, supply, adjustments, crossed>>
    BY Zenon DEF ReleaseItem
<1>9. CASE p \in listed
    <2>1. PICK row : row = Returned(s, q)
        OBVIOUS
    <2>2. /\ row \in Row /\ row.stock >= 0 /\ row.reserved >= 0
          /\ row.stock + row.reserved = s.stock + s.reserved
        BY <1>6, <1>7, <2>1, ProductRows
    <2>3. txs' = [txs EXCEPT ![w] = Onward(Changed(t, p, row))]
        BY Zenon, <1>1, <1>2, <1>3, <1>7, <1>9, <2>1 DEF ReleaseItem
    <2> QED BY <1>1, <1>4, <1>7, <1>8, <1>9, <2>2, <2>3, ChangedStep
<1>10. CASE p \notin listed
    <2>1. PICK u : u = Onward(t)
        OBVIOUS
    <2>2. txs' = [txs EXCEPT ![w] = u]
        BY Zenon, <1>1, <1>2, <1>10, <2>1 DEF ReleaseItem
    <2>3. /\ u \in TxState /\ u.kind = "release" /\ u.by = t.by /\ u.copy = t.copy
          /\ u.loaded = t.loaded /\ u.dirty = t.dirty /\ u.locked = t.locked
        BY <1>4, <2>1 DEF TxState, Onward
    <2> QED BY <1>1, <1>4, <1>8, <2>2, <2>3, OnlyGoesOn
<1> QED BY <1>9, <1>10

LEMMA FlushStep ==
    ASSUME IInv, NEW w \in Workers \cup Admins, NEW p \in Products, Flush(w, p)
    PROVE  IInv'
<1> DEFINE t == txs[w]
           u == [t EXCEPT !.dirty = @ \ {p}, !.locked = @ \cup {p}]
<1>1. t # NoTx /\ t \in TxState /\ p \in t.dirty
    BY DEF Flush, IInv, TypeOK
<1>2. txs' = [txs EXCEPT ![w] = u]
    BY <1>1 DEF Flush, IInv, TypeOK, TxState
<1>3. /\ u \in TxState /\ u.kind = t.kind /\ u.by = t.by /\ u.copy = t.copy
      /\ u.loaded = t.loaded /\ u.dirty = t.dirty \ {p} /\ u.locked = t.locked \cup {p}
    BY <1>1 DEF TxState
<1> HIDE DEF u
<1>4. WellTyped(w, u)
    BY <1>1, <1>3 DEF WellTyped, IInv, TypeOK, Unlisted, Reads
<1>5. NeverNegative(u)
    BY <1>1, <1>3 DEF NeverNegative, IInv, Sound
<1>6. Undisturbed => (w \in Workers => AddsUp(u)) /\ (w \in Admins => Adjusts(u))
    BY <1>1, <1>3 DEF AddsUp, Adjusts, IInv, Balanced
<1>7. Good(w, u)
    BY <1>4, <1>5, <1>6 DEF Good
<1>8. UNCHANGED <<cart, table, status, outcome, handled, supply, adjustments, crossed>>
    BY DEF Flush
<1>9. Solo' /\ crossed \subseteq crossed' /\ crossed' \subseteq {"workers", "adjustment"}
    BY <1>1, <1>2, <1>8, SoloStays
<1> QED BY <1>2, <1>7, <1>8, <1>9, Replace DEF IInv, TypeOK

LEMMA RollbackStep ==
    ASSUME IInv, NEW w \in Workers \cup Admins, Rollback(w)
    PROVE  IInv'
<1>1. Good(w, NoTx)
    BY DEF Good
<1>2. Solo' /\ crossed \subseteq crossed' /\ crossed' \subseteq {"workers", "adjustment"}
    BY SoloStays DEF Rollback, End
<1> QED BY <1>1, <1>2, Replace DEF Rollback, End, IInv, TypeOK

LEMMA ReleaseNothingStep ==
    ASSUME IInv, NEW w \in Workers, NEW m \in Messages, ReleaseNothing(w, m)
    PROVE  IInv'
<1>1. Good(w, NoTx) /\ txs' = [txs EXCEPT ![w] = NoTx]
    BY DEF Good, ReleaseNothing, IInv, TypeOK
<1>2. handled' \subseteq Messages
    BY DEF ReleaseNothing, IInv, TypeOK
<1>3. Solo' /\ crossed \subseteq crossed' /\ crossed' \subseteq {"workers", "adjustment"}
    BY <1>1, SoloStays DEF ReleaseNothing
<1> QED BY <1>1, <1>2, <1>3, Replace DEF ReleaseNothing

\* A commit makes the rows of its transaction those of the table.
LEMMA WriteStep ==
    ASSUME IInv, NEW w \in Workers, txs[w] # NoTx, WriteRows(txs[w]), End(w),
           UNCHANGED <<listed, cart, supply, adjustments>>,
           status' \in [Orders -> {"NONE", "RESERVED", "RELEASED"}],
           outcome' \in [Orders -> {"none", "reserved", "failed"}],
           handled' \subseteq Messages
    PROVE  IInv'
<1> DEFINE t == txs[w]
<1>1. t \in TxState /\ t.loaded \subseteq listed /\ t.locked \subseteq t.loaded
    BY DEF IInv, TypeOK, Unlisted, Reads
<1>2. \A p \in Products : t.copy[p] \in Row
    BY <1>1 DEF TxState
<1>3. \A v \in Workers \cup Admins :
         txs'[v] # NoTx => v # w /\ txs'[v] = txs[v]
    BY DEF End, IInv, TypeOK
<1>4. \A p \in Products :
         \/ stock'[p] = stock[p] /\ reserved'[p] = reserved[p]
         \/ /\ p \in t.locked
            /\ stock'[p] = t.copy[p].stock /\ reserved'[p] = t.copy[p].reserved
    BY DEF WriteRows
<1>5. TypeOK'
    <2>1. stock' \in [Products -> Int] /\ reserved' \in [Products -> Int]
        BY <1>2 DEF WriteRows, Row, IInv, TypeOK
    <2>2. txs' \in [Workers \cup Admins -> TxState \cup {NoTx}]
        BY DEF End, IInv, TypeOK
    <2> QED BY <1>3, <2>1, <2>2 DEF End, IInv, TypeOK
<1>6. Unlisted'
    <2>1. \A p \in Products \ listed' : reserved'[p] = 0
        BY <1>1, <1>4 DEF IInv, Unlisted
    <2> QED BY <1>3, <2>1 DEF IInv, Unlisted
<1>7. Sound'
    <2>1. NonNegative'
        BY <1>4 DEF IInv, Sound, NonNegative
    <2> QED BY <1>3, <2>1 DEF IInv, Sound
<1>8. Reads'
    BY <1>3 DEF IInv, Reads
<1>9. Solo'
    BY SoloStays DEF End
<1>10. ASSUME Undisturbed' PROVE Balanced'
    <2>1. Undisturbed /\ supply' = supply /\ listed' = listed
        BY <1>10 DEF Undisturbed, End
    <2>2. \A p \in Products : stock'[p] + reserved'[p] = supply'[p]
        BY <1>1, <1>4, <2>1 DEF IInv, Balanced, AddsUp
    <2>3. \A v \in Workers : txs'[v] # NoTx => AddsUp(txs[v])'
        BY <1>3, <2>1 DEF IInv, Balanced, AddsUp
    <2>4. \A a \in Admins : txs'[a] = NoTx
        BY <1>3, <2>1, CallersAssumption DEF IInv, Solo
    <2> QED BY <2>2, <2>3, <2>4 DEF Balanced
<1> QED BY <1>5, <1>6, <1>7, <1>8, <1>9, <1>10 DEF IInv, Balanced

LEMMA CommitReserveStep ==
    ASSUME IInv, NEW w \in Workers, CommitReserve(w)
    PROVE  IInv'
<1>1. txs[w] # NoTx
    BY NoTxFacts DEF CommitReserve
<1>2. /\ status' \in [Orders -> {"NONE", "RESERVED", "RELEASED"}]
      /\ outcome' \in [Orders -> {"none", "reserved", "failed"}]
    BY DEF CommitReserve, IInv, TypeOK
<1>3. handled' \subseteq Messages
    BY <1>1 DEF CommitReserve, IInv, TypeOK
<1> QED BY <1>1, <1>2, <1>3, WriteStep DEF CommitReserve

LEMMA CommitReleaseStep ==
    ASSUME IInv, NEW w \in Workers, CommitRelease(w)
    PROVE  IInv'
<1>1. txs[w] # NoTx
    BY NoTxFacts DEF CommitRelease
<1>2. /\ status' \in [Orders -> {"NONE", "RESERVED", "RELEASED"}]
      /\ outcome' \in [Orders -> {"none", "reserved", "failed"}]
    BY DEF CommitRelease, Released, IInv, TypeOK
<1>3. handled' \subseteq Messages
    BY <1>1 DEF CommitRelease, IInv, TypeOK
<1> QED BY <1>1, <1>2, <1>3, WriteStep DEF CommitRelease

\* A product that did not exist has no reserved stock and nobody has read it.
LEMMA AddProductStep ==
    ASSUME IInv, NEW p \in Products, NEW n \in 0..MaxStock, AddProduct(p, n)
    PROVE  IInv'
<1>1. n \in Nat
    BY BoundsAssumption
<1>2. /\ p \notin listed /\ listed' = listed \cup {p}
      /\ stock' = [stock EXCEPT ![p] = n] /\ supply' = [supply EXCEPT ![p] = n]
      /\ UNCHANGED <<cart, reserved, status, outcome, handled, adjustments, txs, crossed>>
    BY DEF AddProduct
<1>3. TypeOK'
    BY <1>1, <1>2 DEF IInv, TypeOK
<1>4. Unlisted'
    BY <1>2 DEF IInv, Unlisted
<1>5. Sound'
    BY <1>1, <1>2 DEF IInv, TypeOK, Sound, NonNegative
<1>6. Reads'
    BY <1>2 DEF IInv, Reads
<1>7. Solo'
    BY <1>2 DEF IInv, Solo, Undisturbed
<1>8. ASSUME Undisturbed' PROVE Balanced'
    <2>1. Undisturbed
        BY <1>2, <1>8 DEF Undisturbed
    <2>2. \A q \in Products : stock'[q] + reserved'[q] = supply'[q]
        BY <1>1, <1>2, <2>1 DEF IInv, TypeOK, Unlisted, Balanced
    <2>3. ASSUME NEW v \in Workers, txs[v] # NoTx PROVE AddsUp(txs[v])'
        <3>1. p \notin txs[v].loaded /\ txs[v].loaded \subseteq Products
            BY <1>2, <2>3 DEF IInv, TypeOK, Unlisted
        <3> QED BY <1>2, <2>1, <2>3, <3>1 DEF IInv, TypeOK, Balanced, AddsUp
    <2>4. ASSUME NEW a \in Admins, txs[a] # NoTx PROVE Adjusts(txs[a])'
        <3>1. Adjusts(txs[a])
            BY <2>1, <2>4 DEF IInv, Balanced
        <3> QED BY <1>2, <3>1 DEF IInv, TypeOK, Adjusts
    <2> QED BY <1>2, <2>2, <2>3, <2>4 DEF Balanced
<1> QED BY <1>3, <1>4, <1>5, <1>6, <1>7, <1>8 DEF IInv, Balanced

LEMMA BeginUpdateStep ==
    ASSUME IInv, NEW a \in Admins, NEW p \in Products,
           NEW adjustment \in -MaxAdjustment..MaxAdjustment,
           BeginUpdate(a, p, adjustment)
    PROVE  IInv'
<1> DEFINE by == [product |-> p, adjustment |-> adjustment]
           t == Tx("update", by)
           row == [Seen(t, p) EXCEPT !.stock = @ + adjustment]
           u == Changed(t, p, row)
<1>1. adjustment \in Int /\ by \in Request /\ a \notin Workers /\ p \in listed
    BY BoundsAssumption, CallersAssumption DEF Request, BeginUpdate
<1>2. /\ t \in TxState /\ t.kind = "update" /\ t.by = by
      /\ t.loaded = {} /\ t.dirty = {} /\ t.locked = {}
      /\ t.copy = [r \in Products |-> NoRow]
    BY <1>1, TxFacts
<1>3. Seen(t, p) = [stock |-> stock[p], reserved |-> reserved[p]]
    BY <1>2 DEF Seen
<1>4. /\ row = [stock |-> stock[p] + adjustment, reserved |-> reserved[p]]
      /\ stock[p] + adjustment >= 0
    BY <1>3 DEF BeginUpdate
<1>5. row \in Row /\ row.stock >= 0 /\ row.reserved >= 0 /\ row.stock = stock[p] + adjustment
    BY <1>1, <1>4 DEF IInv, TypeOK, Sound, NonNegative, Row
<1>6. Open(a, u)
    BY DEF BeginUpdate
<1>7. by.product = p /\ by.adjustment = adjustment
    OBVIOUS
<1> HIDE DEF by, t, row
<1>8. /\ u \in TxState /\ u.kind = "update" /\ u.by = by
      /\ u.copy = [t.copy EXCEPT ![p] = row]
      /\ u.loaded = {p} /\ u.dirty \subseteq {p} /\ u.locked = {}
    BY <1>2, <1>5, ChangedFacts
<1> HIDE DEF u
<1>9. NeverNegative(u)
    BY <1>2, <1>5, <1>8 DEF NeverNegative, NoRow
<1>10. Adjusts(u)
    BY <1>1, <1>2, <1>5, <1>7, <1>8 DEF Adjusts
<1>11. Good(a, u)
    BY <1>1, <1>8, <1>9, <1>10 DEF Good, WellTyped
<1> QED BY <1>6, <1>11, SoloOpens, Replace DEF BeginUpdate, IInv, TypeOK

LEMMA CommitUpdateStep ==
    ASSUME IInv, NEW a \in Admins, CommitUpdate(a)
    PROVE  IInv'
<1> DEFINE t == txs[a]
           p == t.by.product
<1>1. t # NoTx /\ t \in TxState /\ t.by \in Request
    BY NoTxFacts DEF CommitUpdate, IInv, TypeOK
<1>2. p \in Products /\ t.by.adjustment \in Int /\ t.copy[p] \in Row /\ t.copy[p].stock >= 0
    BY <1>1 DEF Request, TxState, IInv, Sound
<1>3. \A v \in Workers \cup Admins :
         txs'[v] # NoTx => v # a /\ txs'[v] = txs[v]
    BY DEF CommitUpdate, End, IInv, TypeOK
<1>4. TypeOK'
    <2>1. stock' \in [Products -> Int] /\ supply' \in [Products -> Int]
        BY <1>2 DEF CommitUpdate, Row, IInv, TypeOK
    <2>2. txs' \in [Workers \cup Admins -> TxState \cup {NoTx}]
        BY DEF CommitUpdate, End, IInv, TypeOK
    <2> QED BY <1>3, <2>1, <2>2 DEF CommitUpdate, End, IInv, TypeOK
<1>5. Unlisted' /\ Reads'
    BY <1>3 DEF CommitUpdate, IInv, Unlisted, Reads
<1>6. Sound'
    <2>1. NonNegative'
        BY <1>2 DEF CommitUpdate, IInv, TypeOK, Sound, NonNegative
    <2> QED BY <1>3, <2>1 DEF IInv, Sound
<1>7. Solo'
    BY SoloStays DEF CommitUpdate, End
<1>8. ASSUME Undisturbed' PROVE Balanced'
    <2>1. Undisturbed
        BY <1>8 DEF Undisturbed, CommitUpdate, End
    <2>2. t.copy[p].stock = stock[p] + t.by.adjustment
        BY <1>1, <2>1 DEF IInv, Balanced, Adjusts
    <2>3. \A q \in Products : stock'[q] + reserved'[q] = supply'[q]
        BY <1>2, <2>1, <2>2 DEF CommitUpdate, IInv, TypeOK, Balanced
    <2>4. \A v \in Workers \cup Admins : txs'[v] = NoTx
        BY <1>1, <1>3, <2>1 DEF IInv, Solo
    <2> QED BY <2>3, <2>4 DEF Balanced
<1> QED BY <1>4, <1>5, <1>6, <1>7, <1>8 DEF IInv, Balanced

-----------------------------------------------------------------------------
LEMMA IInvInit == Init => IInv
<1> SUFFICES ASSUME Init PROVE IInv
    OBVIOUS
<1>1. \A w \in Workers \cup Admins : txs[w] = NoTx
    BY DEF Init
<1>2. TypeOK
    BY <1>1 DEF Init, TypeOK
<1>3. Unlisted /\ Reads /\ Solo
    BY <1>1 DEF Init, Unlisted, Reads, Solo
<1>4. Sound
    BY <1>1 DEF Init, Sound, NonNegative
<1>5. Balanced
    BY <1>1 DEF Init, Balanced
<1> QED BY <1>2, <1>3, <1>4, <1>5 DEF IInv

LEMMA IInvStep == IInv /\ [Next]_vars => IInv'
<1> SUFFICES ASSUME IInv, [Next]_vars PROVE IInv'
    OBVIOUS
<1>1. ASSUME NEW w \in Workers, Handle(w) PROVE IInv'
    BY <1>1, BeginStep, ReleaseNothingStep, ReserveItemStep, CommitReserveStep,
       ReleaseItemStep, CommitReleaseStep DEF Handle
<1>2. ASSUME NEW a \in Admins, Update(a) PROVE IInv'
    BY <1>2, BeginUpdateStep, CommitUpdateStep DEF Update
<1>3. ASSUME NEW w \in Workers \cup Admins,
             Rollback(w) \/ \E p \in Products : Flush(w, p)
      PROVE  IInv'
    BY <1>3, RollbackStep, FlushStep
<1>4. ASSUME NEW p \in Products, NEW n \in 0..MaxStock, AddProduct(p, n) PROVE IInv'
    BY <1>4, AddProductStep
<1>5. CASE UNCHANGED vars
    <2>1. TypeOK'
        BY <1>5 DEF vars, IInv, TypeOK
    <2>2. Unlisted' /\ Sound' /\ Reads' /\ Solo'
        BY <1>5 DEF vars, IInv, Unlisted, Sound, NonNegative, Reads, Solo, Undisturbed
    <2>3. Balanced'
        BY <1>5 DEF vars, IInv, Balanced, Undisturbed, AddsUp, Adjusts
    <2> QED BY <2>1, <2>2, <2>3 DEF IInv
<1> QED BY <1>1, <1>2, <1>3, <1>4, <1>5 DEF Next

\* The types of the variables hold in every state.
THEOREM TypeCorrect == Spec => []TypeOK
<1>1. IInv => TypeOK
    BY DEF IInv
<1> QED BY <1>1, IInvInit, IInvStep, PTL DEF Spec

\* No interleaving of orders, cancellations, new products and adjustments, and no
\* lost update, makes a stock counter negative.
THEOREM NeverBelowZero == Spec => []NonNegative
<1>1. IInv => NonNegative
    BY DEF IInv, Sound
<1> QED BY <1>1, IInvInit, IInvStep, PTL DEF Spec

\* Lost updates of concurrent reservations and releases never create or destroy
\* stock: the counters of a product add up to its supply until an adjustment
\* overlaps with another transaction.
THEOREM StockConserved == Spec => []Conservation
<1>1. IInv => Conservation
    BY DEF IInv, Balanced, Undisturbed, Conservation
<1> QED BY <1>1, IInvInit, IInvStep, PTL DEF Spec

-----------------------------------------------------------------------------
(* Counting units *)

LEMMA FiniteTriples ==
    ASSUME NEW A, NEW B, NEW C, IsFiniteSet(A), IsFiniteSet(B), IsFiniteSet(C)
    PROVE  IsFiniteSet(A \X B \X C)
<1> DEFINE f == [x \in A \X B \X C |-> <<x[1], <<x[2], x[3]>>>>]
<1>1. IsFiniteSet(A \X (B \X C))
    BY FS_Product
<1>2. f \in [A \X B \X C -> A \X (B \X C)]
    OBVIOUS
<1>3. ASSUME NEW x \in A \X B \X C, NEW y \in A \X B \X C, f[x] = f[y] PROVE x = y
  <2>1. f[x] = <<x[1], <<x[2], x[3]>>>> /\ f[y] = <<y[1], <<y[2], y[3]>>>>
      OBVIOUS
  <2>2. x[1] = y[1] /\ x[2] = y[2] /\ x[3] = y[3]
      BY <1>3, <2>1
  <2> QED BY <2>2
<1>4. f \in Injection(A \X B \X C, A \X (B \X C))
    BY <1>2, <1>3 DEF Injection, IsInjective
<1> QED BY <1>1, <1>4, FS_Injection

LEMMA UnitsAreFinite ==
    ASSUME NEW p, NEW os, IsFiniteSet(os)
    PROVE  IsFiniteSet(Units(p, os))
<1>1. IsFiniteSet(1..MaxItems) /\ IsFiniteSet(1..MaxQuantity)
    BY FS_Interval, BoundsAssumption
<1>2. IsFiniteSet(os \X (1..MaxItems) \X (1..MaxQuantity))
    BY <1>1, FiniteTriples
<1>3. Units(p, os) \subseteq os \X (1..MaxItems) \X (1..MaxQuantity)
    BY DEF Units
<1> QED BY <1>2, <1>3, FS_Subset

\* What one more order asks for comes on top.
LEMMA AskedMore ==
    ASSUME NEW p, NEW os, NEW o, o \notin os, IsFiniteSet(Units(p, os))
    PROVE  /\ IsFiniteSet(Units(p, os \cup {o}))
           /\ Asked(p, os \cup {o}) = Asked(p, os) + Asked(p, {o})
<1>1. Units(p, os \cup {o}) = Units(p, os) \cup Units(p, {o})
    BY DEF Units
<1>2. Units(p, os) \cap Units(p, {o}) = {}
    BY DEF Units
<1>3. IsFiniteSet(Units(p, {o}))
    BY FS_Singleton, UnitsAreFinite
<1>4. Cardinality(Units(p, os) \cap Units(p, {o})) = 0
    BY <1>2, FS_EmptySet
<1>5. /\ IsFiniteSet(Units(p, os) \cup Units(p, {o}))
      /\ Cardinality(Units(p, os) \cup Units(p, {o}))
             = Cardinality(Units(p, os)) + Cardinality(Units(p, {o}))
                   - Cardinality(Units(p, os) \cap Units(p, {o}))
    BY <1>3, FS_Union
<1>6. Cardinality(Units(p, os)) \in Nat /\ Cardinality(Units(p, {o})) \in Nat
    BY <1>3, FS_CardinalityType
<1>7. Cardinality(Units(p, os) \cup Units(p, {o}))
          = Cardinality(Units(p, os)) + Cardinality(Units(p, {o}))
    BY <1>4, <1>5, <1>6
<1> QED BY <1>1, <1>5, <1>7 DEF Asked

LEMMA AskedLess ==
    ASSUME NEW p, NEW os, NEW o \in os, IsFiniteSet(Units(p, os))
    PROVE  /\ IsFiniteSet(Units(p, os \ {o}))
           /\ Asked(p, os) = Asked(p, os \ {o}) + Asked(p, {o})
<1>1. Units(p, os \ {o}) \subseteq Units(p, os)
    BY DEF Units
<1>2. IsFiniteSet(Units(p, os \ {o}))
    BY <1>1, FS_Subset
<1>3. (os \ {o}) \cup {o} = os /\ o \notin os \ {o}
    OBVIOUS
<1> QED BY <1>2, <1>3, AskedMore

LEMMA AskedNat ==
    ASSUME NEW p, NEW os, IsFiniteSet(Units(p, os))
    PROVE  Asked(p, os) \in Nat
BY FS_CardinalityType DEF Asked

\* The units that the first n items of an order ask for.
First(p, o, n) == {u \in Units(p, {o}) : u[2] <= n}

LEMMA FirstFinite ==
    ASSUME NEW p, NEW o, NEW n
    PROVE  IsFiniteSet(First(p, o, n)) /\ Cardinality(First(p, o, n)) \in Nat
<1>1. IsFiniteSet(Units(p, {o}))
    BY FS_Singleton, UnitsAreFinite
<1>2. First(p, o, n) \subseteq Units(p, {o})
    BY DEF First
<1> QED BY <1>1, <1>2, FS_Subset, FS_CardinalityType

LEMMA FirstNone ==
    ASSUME NEW p, NEW o
    PROVE  Cardinality(First(p, o, 0)) = 0
<1>1. First(p, o, 0) = {}
    BY DEF First, Units
<1> QED BY <1>1, FS_EmptySet

LEMMA CartFacts ==
    ASSUME NEW c \in Carts
    PROVE  /\ Len(c) \in 0..MaxItems
           /\ \A i \in 1..Len(c) : c[i] \in Item
<1>1. PICK n \in 0..MaxItems : c \in [1..n -> Item]
    BY DEF Carts
<1>2. n \in Nat
    BY <1>1, BoundsAssumption
<1>3. c \in Seq(Item) /\ Len(c) = n
    BY <1>1, <1>2, SeqDef
<1> QED BY <1>1, <1>3

\* All items together ask for what the order asks for.
LEMMA FirstAll ==
    ASSUME NEW p, NEW o \in Orders, cart[o] \in Carts
    PROVE  Cardinality(First(p, o, Len(cart[o]))) = Asked(p, {o})
<1>1. First(p, o, Len(cart[o])) = Units(p, {o})
    BY DEF First, Units
<1> QED BY <1>1 DEF Asked

LEMMA FirstPart ==
    ASSUME NEW p, NEW o, NEW n
    PROVE  Cardinality(First(p, o, n)) <= Asked(p, {o})
<1>1. IsFiniteSet(Units(p, {o}))
    BY FS_Singleton, UnitsAreFinite
<1>2. First(p, o, n) \subseteq Units(p, {o})
    BY DEF First
<1> QED BY <1>1, <1>2, FS_Subset DEF Asked

\* One item more asks for its quantity of its product and of nothing else.
LEMMA FirstNext ==
    ASSUME NEW p, NEW o \in Orders, cart[o] \in Carts, NEW n \in Nat \ {0},
           n <= Len(cart[o])
    PROVE  Cardinality(First(p, o, n)) =
               Cardinality(First(p, o, n - 1))
               + (IF cart[o][n].product = p THEN cart[o][n].quantity ELSE 0)
<1> DEFINE q == cart[o][n].quantity
           own == {u \in Units(p, {o}) : u[2] = n}
<1>1. /\ Len(cart[o]) \in 0..MaxItems /\ MaxItems \in Nat /\ MaxQuantity \in Nat
      /\ n \in 1..MaxItems /\ cart[o][n] \in Item
    BY CartFacts, BoundsAssumption
<1>2. q \in 1..MaxQuantity
    BY <1>1 DEF Item
<1>3. First(p, o, n) = First(p, o, n - 1) \cup own
  <2>1. ASSUME NEW u \in Units(p, {o}) PROVE u[2] <= n <=> u[2] <= n - 1 \/ u[2] = n
    <3>1. u[2] \in Int
        BY DEF Units
    <3> QED BY <3>1
  <2> QED BY <2>1 DEF First
<1>4. First(p, o, n - 1) \cap own = {}
  <2>1. ASSUME NEW u \in Units(p, {o}), u[2] <= n - 1, u[2] = n PROVE FALSE
      BY <2>1
  <2> QED BY <2>1 DEF First
<1>5. CASE cart[o][n].product = p
  <2> DEFINE f == [k \in 1..q |-> <<o, n, k>>]
  <2>1. own = {<<o, n, k>> : k \in 1..q}
    <3>1. ASSUME NEW u \in own PROVE u \in {<<o, n, k>> : k \in 1..q}
      <4>1. /\ u = <<u[1], u[2], u[3]>> /\ u[1] = o /\ u[2] = n /\ u[3] \in 1..MaxQuantity
            /\ u[3] <= q
          BY DEF Units
      <4>2. u[3] \in 1..q
          BY <1>1, <1>2, <4>1
      <4> QED BY <4>1, <4>2
    <3>2. ASSUME NEW k \in 1..q PROVE <<o, n, k>> \in own
      <4>1. k \in 1..MaxQuantity /\ k <= q
          BY <1>1, <1>2
      <4>2. <<o, n, k>> \in {o} \X (1..MaxItems) \X (1..MaxQuantity)
          BY <1>1, <4>1
      <4> QED BY <1>5, <4>1, <4>2 DEF Units
    <3> QED BY <3>1, <3>2
  <2>2. f \in Bijection(1..q, own)
    <3>1. f \in [1..q -> own]
        BY <2>1
    <3>2. \A k, l \in 1..q : f[k] = f[l] => k = l
        OBVIOUS
    <3>3. \A u \in own : \E k \in 1..q : f[k] = u
        BY <2>1
    <3> HIDE DEF f, own
    <3>4. f \in Injection(1..q, own)
        BY <3>1, <3>2 DEF Injection, IsInjective
    <3>5. f \in Surjection(1..q, own)
        BY <3>1, <3>3 DEF Surjection
    <3> QED BY <3>4, <3>5 DEF Bijection
  <2>3. IsFiniteSet(1..q) /\ Cardinality(1..q) = q
    <3>1. q \in Int /\ 1 \in Int /\ ~(1 > q) /\ q - 1 + 1 = q
        BY <1>1, <1>2
    <3> HIDE DEF q
    <3> QED BY <3>1, FS_Interval
  <2>4. IsFiniteSet(own) /\ Cardinality(own) = q
      BY <2>2, <2>3, FS_Bijection DEF ExistsBijection
  <2>5. Cardinality(First(p, o, n - 1) \cap own) = 0
      BY <1>4, FS_EmptySet
  <2>6. Cardinality(First(p, o, n)) = Cardinality(First(p, o, n - 1)) + q
    <3> HIDE DEF own
    <3>1. Cardinality(First(p, o, n - 1) \cup own)
              = Cardinality(First(p, o, n - 1)) + Cardinality(own)
                    - Cardinality(First(p, o, n - 1) \cap own)
        BY <2>4, FirstFinite, FS_Union
    <3>2. Cardinality(First(p, o, n - 1)) \in Nat
        BY FirstFinite
    <3> QED BY <1>1, <1>2, <1>3, <2>4, <2>5, <3>1, <3>2
  <2> QED BY <1>5, <2>6
<1>6. CASE cart[o][n].product # p
  <2>1. own = {}
      BY <1>6 DEF Units
  <2>2. First(p, o, n) = First(p, o, n - 1)
      BY <1>3, <2>1
  <2> QED BY <1>6, <2>2, FirstFinite
<1> QED BY <1>5, <1>6

-----------------------------------------------------------------------------
(* Reservations and what backs them *)

\* No two callbacks ever overlapped.
Quiet == "workers" \notin crossed

Alone == \A v, w \in Workers : txs[v] # NoTx /\ txs[w] # NoTx => v = w

PlacedOf(o) == [type |-> "OrderPlaced", order |-> o, n |-> 1]

\* What became of an order's reservation came of its one message.
Recorded ==
    \A o \in Orders :
        status[o] # "NONE" \/ outcome[o] # "none" => PlacedOf(o) \in handled

\* The reserved counter of p as a transaction sees it.
SeenReserved(u, p) == IF p \in u.loaded THEN u.copy[p].reserved ELSE reserved[p]

\* A callback's transaction is the first about its message; it has added to or
\* taken from the counters what the items it is done with ask for, and what it
\* has not changed it has as the table does.
OnTrack(u) ==
    /\ u.kind # "release" => u.by.type = "OrderPlaced"
    /\ u.kind = "release" => status[u.by.order] = "RESERVED"
    /\ u.by \notin handled
    /\ \A p \in u.loaded : p \notin u.dirty \cup u.locked => u.copy[p].reserved = reserved[p]
    /\ u.next <= Len(cart[u.by.order]) + 1
    /\ \A p \in Products :
          SeenReserved(u, p) =
              IF u.kind = "release"
              THEN reserved[p] - Cardinality(First(p, u.by.order, u.next - 1))
              ELSE reserved[p] + Cardinality(First(p, u.by.order, u.next - 1))

Ledger == \A w \in Workers : txs[w] # NoTx => OnTrack(txs[w])

Active == {o \in Orders : status[o] = "RESERVED"}
Refused == {o \in Orders : outcome[o] = "failed"}

\* Reserved stock is what active reservations claim, and at most what refused
\* orders asked for besides.
Covered ==
    \A p \in Products :
        /\ IsFiniteSet(Units(p, Active)) /\ IsFiniteSet(Units(p, Refused))
        /\ Asked(p, Active) <= reserved[p]
        /\ reserved[p] <= Asked(p, Active) + Asked(p, Refused)

Tended == Alone /\ Recorded /\ Ledger /\ Covered

LInv == IInv /\ (Quiet => Tended)

LEMMA LedgerOf ==
    ASSUME NEW v \in Workers, NEW u, u = txs'[v], OnTrack(u)'
    PROVE  OnTrack(txs[v])'
BY DEF OnTrack, SeenReserved, First, Units

LEMMA FirstStays ==
    ASSUME UNCHANGED cart, NEW p, NEW o, NEW n
    PROVE  First(p, o, n)' = First(p, o, n)
BY DEF First, Units

LEMMA UnitsStay ==
    ASSUME UNCHANGED cart, NEW p, NEW os
    PROVE  Units(p, os)' = Units(p, os) /\ Asked(p, os)' = Asked(p, os)
BY DEF Units, Asked

LEMMA TrackStays ==
    ASSUME NEW u, OnTrack(u), UNCHANGED <<cart, reserved>>,
           u.kind = "release" => status'[u.by.order] = "RESERVED", u.by \notin handled'
    PROVE  OnTrack(u)'
<1>1. \A p \in Products : First(p, u.by.order, u.next - 1)' = First(p, u.by.order, u.next - 1)
    BY FirstStays
<1> QED BY <1>1 DEF OnTrack, SeenReserved

LEMMA CoveredStays ==
    ASSUME Covered, UNCHANGED <<cart, reserved, status, outcome>>
    PROVE  Covered'
BY DEF Covered, Active, Refused, Units, Asked

\* A step of w's transaction that writes nothing keeps all that if its
\* transaction is on track afterwards.
LEMMA TendedReplace ==
    ASSUME IInv, Tended, NEW w \in Workers, NEW u,
           txs' = [txs EXCEPT ![w] = u],
           u # NoTx => OnTrack(u)' /\ \A v \in Workers : v # w => txs[v] = NoTx,
           UNCHANGED <<cart, reserved, status, outcome, handled>>
    PROVE  Tended'
<1>1. \A v \in Workers : txs'[v] = IF v = w THEN u ELSE txs[v]
    BY DEF IInv, TypeOK
<1>2. Alone'
    BY <1>1 DEF Tended, Alone
<1>3. Recorded' /\ Covered'
    BY CoveredStays DEF Tended, Recorded
<1>4. ASSUME NEW v \in Workers, txs'[v] # NoTx PROVE OnTrack(txs[v])'
  <2>1. CASE v = w
      BY <1>1, <1>4, <2>1, LedgerOf
  <2>2. CASE v # w
    <3>1. PICK x : x = txs'[v]
        OBVIOUS
    <3>2. x = txs[v] /\ txs[v] # NoTx
        BY <1>1, <1>4, <2>2, <3>1
    <3>3. OnTrack(txs[v])
        BY <3>2 DEF Tended, Ledger
    <3>4. OnTrack(x)
        BY <3>2, <3>3
    <3>5. OnTrack(x)'
        BY <3>4, TrackStays DEF OnTrack
    <3> QED BY <3>1, <3>5, LedgerOf
  <2> QED BY <2>1, <2>2
<1> QED BY <1>2, <1>3, <1>4 DEF Tended, Ledger

\* A step that leaves the callbacks' transactions and the reservations alone.
LEMMA TendedStays ==
    ASSUME IInv, Tended, \A v \in Workers : txs'[v] = txs[v],
           UNCHANGED <<cart, reserved, status, outcome>>,
           handled \subseteq handled',
           \A v \in Workers : txs[v] # NoTx => txs[v].by \notin handled'
    PROVE  Tended'
<1>1. Alone'
    BY DEF Tended, Alone
<1>2. Recorded' /\ Covered'
    BY CoveredStays DEF Tended, Recorded
<1>3. ASSUME NEW v \in Workers, txs'[v] # NoTx PROVE OnTrack(txs[v])'
  <2>1. PICK x : x = txs'[v]
      OBVIOUS
  <2>2. x = txs[v] /\ txs[v] # NoTx /\ x.by \notin handled'
      BY <1>3, <2>1
  <2>3. OnTrack(txs[v])
      BY <2>2 DEF Tended, Ledger
  <2>4. OnTrack(x)
      BY <2>2, <2>3
  <2>5. OnTrack(x)'
      BY <2>2, <2>4, TrackStays DEF OnTrack
  <2> QED BY <2>1, <2>5, LedgerOf
<1> QED BY <1>1, <1>2, <1>3 DEF Tended, Ledger

LEMMA OrderOf ==
    ASSUME NEW m \in Messages
    PROVE  m.order \in Orders /\ (m.type = "OrderPlaced" => m = PlacedOf(m.order))
BY DEF Messages, PlacedOf

\* A transaction that begins has done nothing yet, and is alone.
LEMMA BeginTended ==
    ASSUME IInv, Tended, Quiet', NEW w \in Workers, NEW m \in Messages,
           BeginReserve(w, m) \/ BeginRelease(w, m)
    PROVE  Tended'
<1>1. PICK kind \in {"reserve", "release"} :
          /\ Open(w, Tx(kind, m))
          /\ kind = "reserve" => m.type = "OrderPlaced"
          /\ kind = "release" => status[m.order] = "RESERVED"
    BY DEF BeginReserve, BeginRelease
<1> DEFINE u == Tx(kind, m)
<1>2. /\ u.kind = kind /\ u.by = m /\ u.loaded = {} /\ u.next = 1
    BY DEF Tx
<1>3. /\ UNCHANGED <<cart, reserved, status, outcome, handled>>
      /\ m \notin handled
    BY DEF BeginReserve, BeginRelease, Fresh, table
<1>4. txs' = [txs EXCEPT ![w] = u]
    BY <1>1 DEF Open
<1>5. \A v \in Workers : v # w => txs[v] = NoTx
  <2> DEFINE others == {v \in Workers \cup Admins : v # w /\ txs[v] # NoTx}
  <2>1. others \cap Workers = {}
      BY <1>1 DEF Open, Quiet
  <2> QED BY <2>1
<1> HIDE DEF u
<1>6. u.next - 1 = 0 /\ u.next <= Len(cart[m.order]) + 1
  <2>1. cart[m.order] \in Carts
      BY OrderOf DEF IInv, TypeOK
  <2>2. Len(cart[m.order]) \in 0..MaxItems
      BY <2>1, CartFacts
  <2> QED BY <1>2, <2>2
<1>7. ASSUME NEW p \in Products
      PROVE  Cardinality(First(p, u.by.order, u.next - 1)) = 0 /\ reserved[p] \in Int
    BY <1>6, FirstNone DEF IInv, TypeOK
<1>8. OnTrack(u)
    BY <1>1, <1>2, <1>3, <1>6, <1>7 DEF OnTrack, SeenReserved
<1>9. OnTrack(u)'
    BY <1>3, <1>8, TrackStays DEF OnTrack
<1> QED BY <1>3, <1>4, <1>5, <1>9, TendedReplace

LEMMA RollbackTended ==
    ASSUME IInv, Tended, NEW w \in Workers, Rollback(w)
    PROVE  Tended'
BY TendedReplace DEF Rollback, End, table

\* What is written is no longer to be written; the copies stay what they were.
LEMMA FlushTended ==
    ASSUME IInv, Tended, NEW w \in Workers, NEW p \in Products, Flush(w, p)
    PROVE  Tended'
<1> DEFINE t == txs[w]
<1> PICK u : u = [t EXCEPT !.dirty = @ \ {p}, !.locked = @ \cup {p}]
    OBVIOUS
<1>1. t # NoTx /\ t \in TxState
    BY DEF Flush, IInv, TypeOK
<1>2. txs' = [txs EXCEPT ![w] = u]
    BY <1>1 DEF Flush, IInv, TypeOK, TxState
<1>3. /\ u.kind = t.kind /\ u.by = t.by /\ u.copy = t.copy /\ u.next = t.next
      /\ u.loaded = t.loaded /\ u.dirty = t.dirty \ {p} /\ u.locked = t.locked \cup {p}
    BY <1>1 DEF TxState
<1>4. UNCHANGED <<cart, reserved, status, outcome, handled>>
    BY DEF Flush, table
<1>5. OnTrack(t)
    BY <1>1 DEF Tended, Ledger
<1>6. OnTrack(u)
    BY <1>3, <1>5 DEF OnTrack, SeenReserved
<1>7. OnTrack(u)'
  <2>1. /\ u.kind = "release" => status'[u.by.order] = "RESERVED"
        /\ u.by \notin handled'
      BY <1>4, <1>6 DEF OnTrack
  <2> QED BY <1>4, <1>6, <2>1, TrackStays
<1>8. \A v \in Workers : v # w => txs[v] = NoTx
    BY <1>1 DEF Tended, Alone
<1> QED BY <1>2, <1>4, <1>7, <1>8, TendedReplace

\* t went on to u after an item of q pieces of p: it moved the counter of p by q,
\* and no other.
PastItem(t, u, p, q) ==
    /\ t.kind \in {"reserve", "release"} /\ t.next <= Len(cart[t.by.order])
    /\ p = cart[t.by.order][t.next].product /\ q = cart[t.by.order][t.next].quantity
    /\ u.kind = t.kind /\ u.by = t.by /\ u.next = t.next + 1
    /\ \A r \in Products : r # p => SeenReserved(u, r) = SeenReserved(t, r)
    /\ SeenReserved(u, p) = IF t.kind = "release" THEN SeenReserved(t, p) - q
                            ELSE SeenReserved(t, p) + q
    /\ \A r \in u.loaded : r \notin u.dirty \cup u.locked => u.copy[r].reserved = reserved[r]

LEMMA ItemDone ==
    ASSUME IInv, NEW t \in TxState, NEW u, NEW p \in Products, NEW q,
           t.by \in Messages, OnTrack(t), PastItem(t, u, p, q)
    PROVE  OnTrack(u)
<1> DEFINE o == t.by.order
           n == t.next
<1>0. /\ n <= Len(cart[o]) /\ p = cart[o][n].product /\ q = cart[o][n].quantity
      /\ u.kind = t.kind /\ u.by = t.by /\ u.next = n + 1
    BY DEF PastItem
<1>1. o \in Orders /\ cart[o] \in Carts
    BY OrderOf DEF IInv, TypeOK
<1>2. n \in Nat \ {0} /\ n <= Len(cart[o]) /\ Len(cart[o]) \in Nat
    BY <1>0, <1>1, CartFacts, BoundsAssumption DEF TxState
<1>3. q \in Nat
    BY <1>0, <1>1, <1>2, CartItems
<1>4. u.next - 1 = n /\ u.next <= Len(cart[o]) + 1
    BY <1>0, <1>2
<1>5. ASSUME NEW r \in Products
      PROVE  /\ Cardinality(First(r, o, n)) =
                    Cardinality(First(r, o, n - 1)) + (IF r = p THEN q ELSE 0)
             /\ Cardinality(First(r, o, n - 1)) \in Nat
             /\ reserved[r] \in Int
  <2> HIDE DEF o, n
  <2>1. Cardinality(First(r, o, n)) =
            Cardinality(First(r, o, n - 1))
            + (IF cart[o][n].product = r THEN cart[o][n].quantity ELSE 0)
      BY <1>1, <1>2, FirstNext
  <2>2. reserved[r] \in Int
      BY DEF IInv, TypeOK
  <2>3. Cardinality(First(r, o, n - 1)) \in Nat
      BY FirstFinite
  <2> QED BY <1>0, <2>1, <2>2, <2>3
<1>6. ASSUME NEW r \in Products
      PROVE  SeenReserved(u, r) =
                 IF u.kind = "release"
                 THEN reserved[r] - Cardinality(First(r, o, n))
                 ELSE reserved[r] + Cardinality(First(r, o, n))
  <2>1. SeenReserved(t, r) =
            IF t.kind = "release"
            THEN reserved[r] - Cardinality(First(r, o, n - 1))
            ELSE reserved[r] + Cardinality(First(r, o, n - 1))
      BY DEF OnTrack
  <2>2. SeenReserved(u, r) =
            IF r # p THEN SeenReserved(t, r)
            ELSE IF t.kind = "release" THEN SeenReserved(t, r) - q ELSE SeenReserved(t, r) + q
      BY DEF PastItem
  <2> HIDE DEF o, n
  <2>3. CASE r = p
    <3>1. Cardinality(First(r, o, n)) = Cardinality(First(r, o, n - 1)) + q
        BY <1>5, <2>3
    <3> DEFINE before == Cardinality(First(r, o, n - 1))
               after == Cardinality(First(r, o, n))
    <3>2. before \in Nat /\ reserved[r] \in Int /\ after = before + q
        BY <1>5, <3>1
    <3>3. CASE t.kind = "release"
      <4>1. SeenReserved(t, r) = reserved[r] - before
          BY <2>1, <2>3, <3>3
      <4>2. SeenReserved(u, r) = SeenReserved(t, r) - q
          BY <2>2, <2>3, <3>3
      <4>3. SeenReserved(u, r) = reserved[r] - after
        <5> HIDE DEF before, after
        <5> QED BY <1>3, <3>2, <4>1, <4>2
      <4> QED BY <1>0, <3>3, <4>3
    <3>4. CASE t.kind # "release"
      <4>1. SeenReserved(t, r) = reserved[r] + before
          BY <2>1, <3>4
      <4>2. SeenReserved(u, r) = SeenReserved(t, r) + q
          BY <2>2, <2>3, <3>4
      <4>3. SeenReserved(u, r) = reserved[r] + after
        <5> HIDE DEF before, after
        <5> QED BY <1>3, <3>2, <4>1, <4>2
      <4> QED BY <1>0, <3>4, <4>3
    <3> QED BY <3>3, <3>4
  <2>4. CASE r # p
    <3>1. Cardinality(First(r, o, n)) = Cardinality(First(r, o, n - 1))
        BY <1>5, <2>4
    <3> QED BY <1>0, <2>1, <2>2, <2>4, <3>1
  <2> QED BY <2>3, <2>4
<1>7. \A r \in u.loaded : r \notin u.dirty \cup u.locked => u.copy[r].reserved = reserved[r]
    BY DEF PastItem
<1> QED BY <1>0, <1>4, <1>6, <1>7 DEF OnTrack

LEMMA SeenIsReserved ==
    ASSUME NEW t, NEW p
    PROVE  Seen(t, p).reserved = SeenReserved(t, p)
BY DEF Seen, SeenReserved

\* Changing a copy and going on to the next item.
GoesOn(t, u, p, row) ==
    /\ u.kind = t.kind /\ u.by = t.by /\ u.next = t.next + 1 /\ u.locked = t.locked
    /\ u.loaded = t.loaded \cup {p} /\ u.copy[p] = row
    /\ \A r \in Products : r # p => u.copy[r] = t.copy[r]
    /\ t.dirty \subseteq u.dirty
    /\ p \in u.dirty \/ row = Seen(t, p)

LEMMA ChangedNext ==
    ASSUME NEW t \in TxState, NEW p \in Products, NEW row \in Row
    PROVE  GoesOn(t, Onward(Changed(t, p, row)), p, row)
<1>1. PICK c : c = Changed(t, p, row)
    BY Zenon
<1>2. c \in TxState
    BY <1>1, ChangedFacts
<1>3. PICK u : u = [c EXCEPT !.next = @ + 1]
    BY Zenon
<1>4. u = Onward(Changed(t, p, row))
    BY <1>1, <1>3 DEF Onward
<1>5. /\ u.kind = c.kind /\ u.by = c.by /\ u.next = c.next + 1 /\ u.locked = c.locked
      /\ u.loaded = c.loaded /\ u.copy = c.copy /\ u.dirty = c.dirty
    BY <1>2, <1>3 DEF TxState
<1>6. c.kind = t.kind /\ c.by = t.by /\ c.next = t.next
    BY <1>1 DEF Changed, TxState
<1>7. c.locked = t.locked /\ c.loaded = t.loaded \cup {p}
    BY <1>1 DEF Changed, TxState
<1>8. c.copy = [t.copy EXCEPT ![p] = row]
    BY <1>1, ChangedFacts
<1>9. c.copy[p] = row /\ \A r \in Products : r # p => c.copy[r] = t.copy[r]
    BY <1>8 DEF TxState
<1>10. c.dirty = IF row = Seen(t, p) THEN t.dirty ELSE t.dirty \cup {p}
    BY <1>1 DEF Changed, TxState
<1>11. GoesOn(t, u, p, row)
    BY <1>5, <1>6, <1>7, <1>9, <1>10 DEF GoesOn
<1> QED BY <1>4, <1>11

\* row is what t makes of its current item's product.
Moves(t, p, q, row) ==
    /\ t.kind \in {"reserve", "release"} /\ t.next <= Len(cart[t.by.order])
    /\ p = cart[t.by.order][t.next].product /\ q = cart[t.by.order][t.next].quantity
    /\ row.reserved = IF t.kind = "release" THEN SeenReserved(t, p) - q
                      ELSE SeenReserved(t, p) + q

\* An item whose product was found, and changed by its quantity.
LEMMA ItemTended ==
    ASSUME IInv, Tended, NEW w \in Workers, txs[w] # NoTx,
           NEW p \in Products, NEW q, NEW row \in Row, NEW u,
           Moves(txs[w], p, q, row), GoesOn(txs[w], u, p, row),
           txs' = [txs EXCEPT ![w] = u],
           UNCHANGED <<cart, reserved, status, outcome, handled>>
    PROVE  Tended'
<1>1. PICK t : t = txs[w]
    OBVIOUS
<1>2. Moves(t, p, q, row) /\ GoesOn(t, u, p, row)
    BY <1>1
<1>3. t \in TxState /\ t.by \in Messages
    BY <1>1 DEF IInv, TypeOK
<1>4. OnTrack(t)
  <2>1. OnTrack(txs[w])
      BY DEF Tended, Ledger
  <2> QED BY <1>1, <2>1
<1>5. /\ u.kind = t.kind /\ u.by = t.by /\ u.next = t.next + 1 /\ u.locked = t.locked
      /\ u.loaded = t.loaded \cup {p} /\ u.copy[p] = row
      /\ \A r \in Products : r # p => u.copy[r] = t.copy[r]
      /\ t.dirty \subseteq u.dirty
      /\ p \in u.dirty \/ row = Seen(t, p)
    BY <1>2 DEF GoesOn
<1>6. t.loaded \subseteq Products /\ t.copy \in [Products -> Row]
    BY <1>3 DEF TxState
<1>7. \A r \in Products : r # p => SeenReserved(u, r) = SeenReserved(t, r)
    BY <1>5, <1>6 DEF SeenReserved
<1>8. SeenReserved(u, p) = row.reserved
    BY <1>5, <1>6 DEF SeenReserved
<1>9. ASSUME NEW r \in u.loaded, r \notin u.dirty \cup u.locked
      PROVE  u.copy[r].reserved = reserved[r]
  <2>1. \A k \in t.loaded : k \notin t.dirty \cup t.locked => t.copy[k].reserved = reserved[k]
      BY <1>4 DEF OnTrack
  <2>2. r \notin t.dirty \cup t.locked
      BY <1>5, <1>9
  <2>3. CASE r # p
      BY <1>5, <1>6, <1>9, <2>1, <2>2, <2>3
  <2>4. CASE r = p
    <3>1. row = Seen(t, p)
        BY <1>5, <1>9, <2>4
    <3>2. u.copy[p] = row /\ row.reserved = SeenReserved(t, p)
        BY <1>5, <1>6, <3>1, SeenIsReserved
    <3>3. SeenReserved(t, p) = reserved[p]
        BY <2>1, <2>2, <2>4 DEF SeenReserved
    <3> QED BY <2>4, <3>2, <3>3
  <2> QED BY <2>3, <2>4
<1>10. OnTrack(u)
  <2>1. /\ t.kind \in {"reserve", "release"} /\ t.next <= Len(cart[t.by.order])
        /\ p = cart[t.by.order][t.next].product /\ q = cart[t.by.order][t.next].quantity
        /\ row.reserved = IF t.kind = "release" THEN SeenReserved(t, p) - q
                          ELSE SeenReserved(t, p) + q
      BY <1>2 DEF Moves
  <2>2. SeenReserved(u, p) = IF t.kind = "release" THEN SeenReserved(t, p) - q
                             ELSE SeenReserved(t, p) + q
      BY <1>8, <2>1
  <2>3. PastItem(t, u, p, q)
      BY <1>5, <1>7, <1>9, <2>1, <2>2 DEF PastItem
  <2> QED BY <1>3, <1>4, <2>3, ItemDone
<1>11. OnTrack(u)'
  <2>1. /\ u.kind = "release" => status'[u.by.order] = "RESERVED"
        /\ u.by \notin handled'
      BY <1>10 DEF OnTrack
  <2> QED BY <1>10, <2>1, TrackStays
<1>12. \A v \in Workers : v # w => txs[v] = NoTx
    BY DEF Tended, Alone
<1> QED BY <1>11, <1>12, TendedReplace

LEMMA ReserveItemTended ==
    ASSUME IInv, Tended, NEW w \in Workers, ReserveItem(w)
    PROVE  Tended'
<1>1. PICK t : t = txs[w]
    OBVIOUS
<1> DEFINE p == cart[t.by.order][t.next].product
           q == cart[t.by.order][t.next].quantity
<1>2. /\ t # NoTx /\ t \in TxState /\ t.kind = "reserve" /\ t.next <= Len(cart[t.by.order])
    BY Zenon, <1>1, NoTxFacts DEF ReserveItem, IInv, TypeOK
<1>3. p \in Products /\ q \in Nat
  <2>1. t.next \in Nat \ {0}
      BY <1>2 DEF TxState
  <2> QED BY <1>1, <1>2, <2>1, CurrentItem DEF IInv
<1>4. UNCHANGED <<cart, reserved, status, outcome, handled>>
    BY Zenon DEF ReserveItem, table
<1>5. Seen(t, p) \in Row /\ Seen(t, p).reserved = SeenReserved(t, p)
    BY <1>2, <1>3, SeenType, SeenIsReserved DEF IInv
<1>6. CASE p \in listed /\ Available(Seen(t, p), q)
  <2>1. PICK row : row = Taken(Seen(t, p), q)
      OBVIOUS
  <2>2. row \in Row
      BY <1>3, <1>5, <2>1, ProductRows
  <2>3. row.reserved = SeenReserved(t, p) + q
      BY <1>5, <2>1 DEF Taken
  <2>4. PICK u : u = Onward(Changed(t, p, row))
      OBVIOUS
  <2>5. txs' = [txs EXCEPT ![w] = u]
      BY Zenon, <1>1, <1>6, <2>1, <2>4 DEF ReserveItem
  <2>6. GoesOn(t, u, p, row)
      BY <1>2, <1>3, <2>2, <2>4, ChangedNext
  <2>7. Moves(t, p, q, row)
      BY <1>2, <2>3 DEF Moves
  <2> QED BY Zenon, <1>1, <1>2, <1>3, <1>4, <2>2, <2>5, <2>6, <2>7, ItemTended
<1>7. CASE ~(p \in listed /\ Available(Seen(t, p), q))
  <2>1. PICK u : u = [t EXCEPT !.kind = "refuse"]
      BY Zenon
  <2>2. txs' = [txs EXCEPT ![w] = u]
      BY Zenon, <1>1, <1>7, <2>1 DEF ReserveItem
  <2>3. /\ u.kind = "refuse" /\ u.by = t.by /\ u.copy = t.copy /\ u.next = t.next
        /\ u.loaded = t.loaded /\ u.dirty = t.dirty /\ u.locked = t.locked
      BY <1>2, <2>1 DEF TxState
  <2>4. OnTrack(t)
    <3>1. OnTrack(txs[w])
        BY <1>1, <1>2 DEF Tended, Ledger
    <3> QED BY <1>1, <3>1
  <2>5. OnTrack(u)
      BY <1>2, <2>3, <2>4 DEF OnTrack, SeenReserved
  <2>6. OnTrack(u)'
    <3>1. u.kind # "release" /\ u.by \notin handled'
        BY <1>4, <2>3, <2>5 DEF OnTrack
    <3> QED BY <1>4, <2>5, <3>1, TrackStays
  <2>7. \A v \in Workers : v # w => txs[v] = NoTx
      BY <1>1, <1>2 DEF Tended, Alone
  <2> QED BY <1>4, <2>2, <2>6, <2>7, TendedReplace
<1> QED BY <1>6, <1>7

\* What an active reservation has still to give back is reserved.
LEMMA EnoughReserved ==
    ASSUME IInv, Covered, NEW o \in Active, NEW n \in Nat \ {0}, n <= Len(cart[o]),
           NEW p \in Products, p = cart[o][n].product
    PROVE  /\ cart[o][n].quantity \in Nat \ {0}
           /\ cart[o][n].quantity <= reserved[p] - Cardinality(First(p, o, n - 1))
           /\ p \in listed
<1> DEFINE q == cart[o][n].quantity
           others == Asked(p, Active \ {o})
           own == Asked(p, {o})
           before == Cardinality(First(p, o, n - 1))
           after == Cardinality(First(p, o, n))
<1>1. o \in Orders /\ cart[o] \in Carts
    BY DEF Active, IInv, TypeOK
<1>2. q \in Nat \ {0}
  <2>1. cart[o][n] \in Item
      BY <1>1, CartFacts, BoundsAssumption
  <2> QED BY <2>1, BoundsAssumption DEF Item
<1>3. IsFiniteSet(Units(p, Active)) /\ Asked(p, Active) <= reserved[p] /\ reserved[p] \in Int
    BY DEF Covered, IInv, TypeOK
<1>4. Asked(p, Active) = others + own /\ others \in Nat
    BY <1>3, AskedLess, AskedNat
<1>5. own \in Nat
    BY FS_Singleton, UnitsAreFinite, AskedNat
<1>6. after = before + q
    BY <1>1, FirstNext
<1>7. after <= own
    BY FirstPart
<1>8. before \in Nat /\ after \in Nat
    BY FirstFinite
<1> HIDE DEF q, others, own, before, after
<1>9. q <= reserved[p] - before /\ reserved[p] # 0
    BY <1>2, <1>3, <1>4, <1>5, <1>6, <1>7, <1>8
<1>10. p \in listed
    BY <1>9 DEF IInv, Unlisted
<1> QED BY <1>2, <1>9, <1>10 DEF q, before

LEMMA ReleaseItemTended ==
    ASSUME IInv, Tended, NEW w \in Workers, ReleaseItem(w)
    PROVE  Tended'
<1>1. PICK t : t = txs[w]
    OBVIOUS
<1> DEFINE o == t.by.order
           n == t.next
           p == cart[o][n].product
           q == cart[o][n].quantity
<1>2. /\ t # NoTx /\ t \in TxState /\ t.kind = "release" /\ n <= Len(cart[o])
      /\ t.by \in Messages
    BY Zenon, <1>1, NoTxFacts DEF ReleaseItem, IInv, TypeOK
<1>3. OnTrack(t)
  <2>1. OnTrack(txs[w])
      BY <1>1, <1>2 DEF Tended, Ledger
  <2> QED BY <1>1, <2>1
<1>4. n \in Nat \ {0} /\ o \in Active
    BY <1>2, <1>3, OrderOf DEF TxState, OnTrack, Active
<1>5. p \in Products
    BY <1>1, <1>2, <1>4, CurrentItem DEF IInv
<1>6. /\ q \in Nat \ {0} /\ p \in listed
      /\ q <= reserved[p] - Cardinality(First(p, o, n - 1))
    BY <1>2, <1>4, <1>5, EnoughReserved DEF Tended
<1>7. SeenReserved(t, p) = reserved[p] - Cardinality(First(p, o, n - 1))
    BY <1>2, <1>3, <1>5 DEF OnTrack
<1>8. Seen(t, p) \in Row /\ Seen(t, p).reserved = SeenReserved(t, p)
    BY <1>2, <1>5, SeenType, SeenIsReserved DEF IInv
<1>9. PICK row : row = Returned(Seen(t, p), q)
    OBVIOUS
<1>10. row \in Row
    BY <1>6, <1>8, <1>9, ProductRows
<1>11. row.reserved = SeenReserved(t, p) - q
  <2>1. SeenReserved(t, p) \in Int /\ q <= SeenReserved(t, p)
      BY <1>6, <1>7, <1>8 DEF Row
  <2>2. Min({SeenReserved(t, p), q}) = q
    <3>1. PICK a : a = SeenReserved(t, p)
        OBVIOUS
    <3>2. PICK b : b = q
        OBVIOUS
    <3>3. a \in Int /\ b \in Int /\ b <= a
        BY <1>6, <2>1, <3>1, <3>2
    <3>4. Min({a, b}) \in {a, b} /\ Min({a, b}) <= b
        BY <3>3, MinOfTwo
    <3>5. Min({a, b}) = b
        BY <3>3, <3>4
    <3> QED BY <3>1, <3>2, <3>5
  <2>3. row.reserved = Seen(t, p).reserved - Min({Seen(t, p).reserved, q})
      BY <1>9 DEF Returned
  <2> QED BY <1>8, <2>2, <2>3
<1>12. PICK u : u = Onward(Changed(t, p, row))
    OBVIOUS
<1>13. txs' = [txs EXCEPT ![w] = u]
    BY Zenon, <1>1, <1>6, <1>9, <1>12 DEF ReleaseItem
<1>14. GoesOn(t, u, p, row)
    BY <1>2, <1>5, <1>10, <1>12, ChangedNext
<1>15. Moves(t, p, q, row)
    BY <1>2, <1>11 DEF Moves
<1>16. UNCHANGED <<cart, reserved, status, outcome, handled>>
    BY Zenon DEF ReleaseItem, table
<1> QED BY Zenon, <1>1, <1>2, <1>5, <1>10, <1>13, <1>14, <1>15, <1>16, ItemTended

\* A transaction with nothing left to write commits the counters it sees.
LEMMA WrittenReserved ==
    ASSUME NEW t \in TxState, OnTrack(t), t.dirty = {}, t.locked \subseteq t.loaded,
           WriteRows(t), NEW p \in Products
    PROVE  reserved'[p] = SeenReserved(t, p)
<1>1. reserved'[p] = IF p \in t.locked THEN t.copy[p].reserved ELSE reserved[p]
    BY DEF WriteRows
<1>2. p \in t.loaded /\ p \notin t.locked => t.copy[p].reserved = reserved[p]
    BY DEF OnTrack
<1> QED BY <1>1, <1>2 DEF SeenReserved

\* reserves r of p, with these orders active and those refused.
Backs(p, r, active, refused) ==
    /\ IsFiniteSet(Units(p, active)) /\ IsFiniteSet(Units(p, refused))
    /\ Asked(p, active) <= r
    /\ r <= Asked(p, active) + Asked(p, refused)

LEMMA BacksFacts ==
    ASSUME NEW p, NEW r, NEW active, NEW refused, Backs(p, r, active, refused)
    PROVE  /\ Asked(p, active) \in Nat /\ Asked(p, refused) \in Nat
           /\ Asked(p, active) <= r /\ r <= Asked(p, active) + Asked(p, refused)
BY AskedNat DEF Backs

LEMMA CoveredNext ==
    ASSUME UNCHANGED cart, NEW active, active = Active', NEW refused, refused = Refused',
           \A p \in Products : Backs(p, reserved'[p], active, refused)
    PROVE  Covered'
<1>1. ASSUME NEW p \in Products
      PROVE  /\ Units(p, Active)' = Units(p, active) /\ Asked(p, Active)' = Asked(p, active)
             /\ Units(p, Refused)' = Units(p, refused) /\ Asked(p, Refused)' = Asked(p, refused)
    BY DEF Units, Asked
<1> QED BY <1>1 DEF Covered, Backs

\* The transaction of the only callback ends.
LEMMA EndTended ==
    ASSUME IInv, Tended, NEW w \in Workers, txs[w] # NoTx,
           txs' = [txs EXCEPT ![w] = NoTx], Recorded', Covered'
    PROVE  Tended'
<1>1. \A v \in Workers : txs'[v] = NoTx
    BY DEF Tended, Alone, IInv, TypeOK
<1> QED BY <1>1 DEF Tended, Alone, Ledger

\* A message that has not been handled left no trace yet.
LEMMA Untouched ==
    ASSUME IInv, Recorded, NEW m \in Messages, m.type = "OrderPlaced", m \notin handled
    PROVE  status[m.order] = "NONE" /\ outcome[m.order] = "none"
BY OrderOf DEF Recorded

\* One more order is refused, or active, with what it took.
LEMMA BacksRefused ==
    ASSUME NEW p, NEW r \in Int, NEW active, NEW refused, Backs(p, r, active, refused),
           NEW o, o \notin refused, NEW k \in Nat, k <= Asked(p, {o})
    PROVE  Backs(p, r + k, active, refused \cup {o})
<1> DEFINE a == Asked(p, active)
           b == Asked(p, refused)
           c == Asked(p, {o})
           d == Asked(p, refused \cup {o})
<1>1. IsFiniteSet(Units(p, active)) /\ IsFiniteSet(Units(p, refused))
    BY DEF Backs
<1>2. IsFiniteSet(Units(p, refused \cup {o})) /\ d = b + c
    BY <1>1, AskedMore
<1>3. a \in Nat /\ b \in Nat /\ a <= r /\ r <= a + b
    BY BacksFacts
<1>4. c \in Nat
    BY FS_Singleton, UnitsAreFinite, AskedNat
<1>5. k <= c
    OBVIOUS
<1>6. a <= r + k /\ r + k <= a + d
  <2> HIDE DEF a, b, c, d
  <2> QED BY <1>2, <1>3, <1>4, <1>5
<1> QED BY <1>1, <1>2, <1>6 DEF Backs

LEMMA BacksActive ==
    ASSUME NEW p, NEW r \in Int, NEW active, NEW refused, Backs(p, r, active, refused),
           NEW o, o \notin active
    PROVE  Backs(p, r + Asked(p, {o}), active \cup {o}, refused)
<1> DEFINE a == Asked(p, active)
           b == Asked(p, refused)
           c == Asked(p, {o})
           d == Asked(p, active \cup {o})
<1>1. IsFiniteSet(Units(p, active)) /\ IsFiniteSet(Units(p, refused))
    BY DEF Backs
<1>2. IsFiniteSet(Units(p, active \cup {o})) /\ d = a + c
    BY <1>1, AskedMore
<1>3. a \in Nat /\ b \in Nat /\ a <= r /\ r <= a + b
    BY BacksFacts
<1>4. c \in Nat
    BY FS_Singleton, UnitsAreFinite, AskedNat
<1>5. d <= r + c /\ r + c <= d + b
  <2> HIDE DEF a, b, c, d
  <2> QED BY <1>2, <1>3, <1>4
<1> QED BY <1>1, <1>2, <1>5 DEF Backs

\* An order is no longer active, and has given back what it asked for.
LEMMA BacksReleased ==
    ASSUME NEW p, NEW r \in Int, NEW active, NEW refused, Backs(p, r, active, refused),
           NEW o \in active
    PROVE  Backs(p, r - Asked(p, {o}), active \ {o}, refused)
<1> DEFINE a == Asked(p, active)
           b == Asked(p, refused)
           c == Asked(p, {o})
           d == Asked(p, active \ {o})
<1>1. IsFiniteSet(Units(p, active)) /\ IsFiniteSet(Units(p, refused))
    BY DEF Backs
<1>2. IsFiniteSet(Units(p, active \ {o})) /\ a = d + c
    BY <1>1, AskedLess
<1>3. a \in Nat /\ b \in Nat /\ a <= r /\ r <= a + b
    BY BacksFacts
<1>4. c \in Nat /\ d \in Nat
    BY <1>2, FS_Singleton, UnitsAreFinite, AskedNat
<1>5. d <= r - c /\ r - c <= d + b
  <2> HIDE DEF a, b, c, d
  <2> QED BY <1>2, <1>3, <1>4
<1> QED BY <1>1, <1>2, <1>5 DEF Backs

\* The reservation comes with what the items took; a refusal leaves at most what
\* the order asked for.
LEMMA CommitReserveTended ==
    ASSUME IInv, Tended, NEW w \in Workers, CommitReserve(w)
    PROVE  Tended'
<1>1. PICK t : t = txs[w]
    OBVIOUS
<1> DEFINE o == t.by.order
           n == t.next
<1>2. /\ t # NoTx /\ t \in TxState /\ t.by \in Messages /\ t.dirty = {}
      /\ t.locked \subseteq t.loaded
      /\ t.kind = "refuse" \/ (t.kind = "reserve" /\ n > Len(cart[o]))
  <2>1. /\ t.dirty = {} /\ t.kind \in {"refuse", "reserve"}
        /\ t.kind = "refuse" \/ (t.kind = "reserve" /\ n > Len(cart[o]))
      BY <1>1 DEF CommitReserve
  <2>2. t # NoTx
      BY <2>1, NoTxFacts
  <2>3. t \in TxState /\ t.by \in Messages
      BY <1>1, <2>2 DEF IInv, TypeOK
  <2>4. t.locked \subseteq t.loaded
    <3>1. txs[w].dirty \cup txs[w].locked \subseteq txs[w].loaded
        BY <1>1, <2>2 DEF IInv, Reads
    <3> QED BY <1>1, <3>1
  <2> QED BY <2>1, <2>2, <2>3, <2>4
<1>3. OnTrack(t)
  <2>1. OnTrack(txs[w])
      BY <1>1, <1>2 DEF Tended, Ledger
  <2> QED BY <1>1, <2>1
<1>4. /\ t.by.type = "OrderPlaced" /\ t.by \notin handled /\ n <= Len(cart[o]) + 1
      /\ t.by = PlacedOf(o) /\ o \in Orders /\ cart[o] \in Carts
    BY <1>2, <1>3, OrderOf DEF OnTrack, IInv, TypeOK
<1>5. status[o] = "NONE" /\ outcome[o] = "none"
    BY <1>2, <1>4, Untouched DEF Tended
<1>6. /\ WriteRows(t) /\ handled' = handled \cup {t.by}
      /\ txs' = [txs EXCEPT ![w] = NoTx] /\ UNCHANGED cart
    BY <1>1 DEF CommitReserve, End
<1>7. /\ t.kind = "refuse" =>
            outcome' = [outcome EXCEPT ![o] = "failed"] /\ UNCHANGED status
      /\ t.kind # "refuse" =>
            /\ outcome' = [outcome EXCEPT ![o] = "reserved"]
            /\ status' = [status EXCEPT ![o] = IF cart[o] = <<>> THEN @ ELSE "RESERVED"]
    BY <1>1 DEF CommitReserve
<1>8. Recorded'
  <2>1. \A x \in Orders : x # o => status'[x] = status[x] /\ outcome'[x] = outcome[x]
      BY <1>4, <1>7 DEF IInv, TypeOK
  <2>2. PlacedOf(o) \in handled' /\ handled \subseteq handled'
      BY <1>4, <1>6
  <2> QED BY <2>1, <2>2 DEF Tended, Recorded
<1>9. ASSUME NEW p \in Products
      PROVE  /\ Backs(p, reserved[p], Active, Refused)
             /\ reserved[p] \in Int
             /\ reserved'[p] = reserved[p] + Cardinality(First(p, o, n - 1))
             /\ Cardinality(First(p, o, n - 1)) \in Nat
             /\ Cardinality(First(p, o, n - 1)) <= Asked(p, {o})
             /\ Asked(p, {o}) \in Nat
  <2>1. reserved'[p] = SeenReserved(t, p)
      BY <1>2, <1>3, <1>6, WrittenReserved
  <2>2. SeenReserved(t, p) = reserved[p] + Cardinality(First(p, o, n - 1))
      BY <1>2, <1>3 DEF OnTrack
  <2>3. Asked(p, {o}) \in Nat
      BY FS_Singleton, UnitsAreFinite, AskedNat
  <2>4. Backs(p, reserved[p], Active, Refused) /\ reserved[p] \in Int
      BY DEF Tended, Covered, Backs, IInv, TypeOK
  <2> QED BY <2>1, <2>2, <2>3, <2>4, FirstFinite, FirstPart
<1> PICK active : active = Active'
    OBVIOUS
<1> PICK refused : refused = Refused'
    OBVIOUS
<1>10. CASE t.kind = "refuse"
  <2>1. active = Active
      BY <1>7, <1>10 DEF Active
  <2>2. refused = Refused \cup {o} /\ o \notin Refused
      BY <1>4, <1>5, <1>7, <1>10 DEF Refused, IInv, TypeOK
  <2>3. ASSUME NEW p \in Products PROVE Backs(p, reserved'[p], active, refused)
    <3>1. Backs(p, reserved[p] + Cardinality(First(p, o, n - 1)), Active, Refused \cup {o})
        BY <1>9, <2>2, BacksRefused
    <3> QED BY <1>9, <2>1, <2>2, <3>1
  <2>4. Covered'
      BY <1>6, <2>3, CoveredNext
  <2> QED BY <1>1, <1>2, <1>6, <1>8, <2>4, EndTended
<1>11. CASE t.kind # "refuse"
  <2>1. n - 1 = Len(cart[o])
      BY <1>2, <1>4, <1>11, CartFacts, BoundsAssumption DEF TxState
  <2>2. refused = Refused
      BY <1>4, <1>5, <1>7, <1>11 DEF Refused, IInv, TypeOK
  <2>3. ASSUME NEW p \in Products
        PROVE  reserved'[p] = reserved[p] + Asked(p, {o})
      BY <1>4, <1>9, <2>1, FirstAll
  <2>4. CASE cart[o] = <<>>
    <3>1. active = Active
        BY <1>4, <1>7, <1>11, <2>4 DEF Active, IInv, TypeOK
    <3>2. ASSUME NEW p \in Products PROVE Backs(p, reserved'[p], active, refused)
      <4>1. Len(cart[o]) = 0
          BY <2>4
      <4>2. Asked(p, {o}) = 0
          BY <1>4, <4>1, FirstAll, FirstNone
      <4>3. reserved'[p] = reserved[p]
          BY <1>9, <2>3, <4>2
      <4> QED BY <1>9, <2>2, <3>1, <4>3
    <3>3. Covered'
        BY <1>6, <3>2, CoveredNext
    <3> QED BY <1>1, <1>2, <1>6, <1>8, <3>3, EndTended
  <2>5. CASE cart[o] # <<>>
    <3>1. active = Active \cup {o} /\ o \notin Active
        BY <1>4, <1>5, <1>7, <1>11, <2>5 DEF Active, IInv, TypeOK
    <3>2. ASSUME NEW p \in Products PROVE Backs(p, reserved'[p], active, refused)
      <4>1. Backs(p, reserved[p] + Asked(p, {o}), Active \cup {o}, Refused)
          BY <1>9, <3>1, BacksActive
      <4> QED BY <2>2, <2>3, <3>1, <4>1
    <3>3. Covered'
        BY <1>6, <3>2, CoveredNext
    <3> QED BY <1>1, <1>2, <1>6, <1>8, <3>3, EndTended
  <2> QED BY <2>4, <2>5
<1> QED BY <1>10, <1>11

\* The reservation goes with what its items gave back.
LEMMA CommitReleaseTended ==
    ASSUME IInv, Tended, NEW w \in Workers, CommitRelease(w)
    PROVE  Tended'
<1>1. PICK t : t = txs[w]
    OBVIOUS
<1> DEFINE o == t.by.order
           n == t.next
<1>2. /\ t # NoTx /\ t \in TxState /\ t.by \in Messages /\ t.dirty = {}
      /\ t.locked \subseteq t.loaded
      /\ t.kind = "release" /\ n > Len(cart[o])
  <2>1. t.dirty = {} /\ t.kind = "release" /\ n > Len(cart[o])
      BY <1>1 DEF CommitRelease
  <2>2. t # NoTx
      BY <2>1, NoTxFacts
  <2>3. t \in TxState /\ t.by \in Messages
      BY <1>1, <2>2 DEF IInv, TypeOK
  <2>4. t.locked \subseteq t.loaded
    <3>1. txs[w].dirty \cup txs[w].locked \subseteq txs[w].loaded
        BY <1>1, <2>2 DEF IInv, Reads
    <3> QED BY <1>1, <3>1
  <2> QED BY <2>1, <2>2, <2>3, <2>4
<1>3. OnTrack(t)
  <2>1. OnTrack(txs[w])
      BY <1>1, <1>2 DEF Tended, Ledger
  <2> QED BY <1>1, <2>1
<1>4. /\ status[o] = "RESERVED" /\ n <= Len(cart[o]) + 1
      /\ o \in Orders /\ cart[o] \in Carts
    BY <1>2, <1>3, OrderOf DEF OnTrack, IInv, TypeOK
<1>5. /\ WriteRows(t) /\ handled' = handled \cup {t.by}
      /\ txs' = [txs EXCEPT ![w] = NoTx] /\ UNCHANGED <<cart, outcome>>
      /\ status' = [status EXCEPT ![o] = "RELEASED"]
    BY <1>1 DEF CommitRelease, End, Released
<1>6. Recorded'
  <2>1. PlacedOf(o) \in handled
      BY <1>4 DEF Tended, Recorded
  <2>2. \A x \in Orders : x # o => status'[x] = status[x] /\ outcome'[x] = outcome[x]
      BY <1>4, <1>5 DEF IInv, TypeOK
  <2>3. handled \subseteq handled'
      BY <1>5
  <2> QED BY <2>1, <2>2, <2>3 DEF Tended, Recorded
<1>7. n - 1 = Len(cart[o])
    BY <1>2, <1>4, CartFacts, BoundsAssumption DEF TxState
<1> PICK active : active = Active'
    OBVIOUS
<1> PICK refused : refused = Refused'
    OBVIOUS
<1>8. active = Active \ {o} /\ o \in Active
    BY <1>4, <1>5 DEF Active, IInv, TypeOK
<1>9. refused = Refused
    BY <1>5 DEF Refused
<1>10. ASSUME NEW p \in Products PROVE Backs(p, reserved'[p], active, refused)
  <2>1. reserved'[p] = SeenReserved(t, p)
      BY <1>2, <1>3, <1>5, WrittenReserved
  <2>2. SeenReserved(t, p) = reserved[p] - Cardinality(First(p, o, n - 1))
      BY <1>2, <1>3 DEF OnTrack
  <2>3. Cardinality(First(p, o, n - 1)) = Asked(p, {o})
      BY <1>4, <1>7, FirstAll
  <2>4. Backs(p, reserved[p], Active, Refused) /\ reserved[p] \in Int
      BY DEF Tended, Covered, Backs, IInv, TypeOK
  <2>5. Backs(p, reserved[p] - Asked(p, {o}), Active \ {o}, Refused)
      BY <1>8, <2>4, BacksReleased
  <2> QED BY <1>8, <1>9, <2>1, <2>2, <2>3, <2>5
<1>11. Covered'
    BY <1>5, <1>10, CoveredNext
<1> QED BY <1>1, <1>2, <1>5, <1>6, <1>11, EndTended

\* Nothing but the callbacks' transactions touches reservations: an adjustment
\* changes the stock alone.
LEMMA AdminTended ==
    ASSUME IInv, Tended, NEW a \in Admins,
           Update(a) \/ Rollback(a) \/ \E p \in Products : Flush(a, p)
    PROVE  Tended'
<1>1. \A v \in Workers : v # a
    BY CallersAssumption
<1>2. PICK u : txs' = [txs EXCEPT ![a] = u]
    BY DEF Update, BeginUpdate, CommitUpdate, Rollback, Flush, Open, End
<1>3. \A v \in Workers : txs'[v] = txs[v]
    BY <1>1, <1>2 DEF IInv, TypeOK
<1>4. UNCHANGED <<cart, reserved, status, outcome, handled>>
    BY DEF Update, BeginUpdate, CommitUpdate, Rollback, Flush, table
<1>5. \A v \in Workers : txs[v] # NoTx => txs[v].by \notin handled'
    BY <1>4 DEF Tended, Ledger, OnTrack
<1> QED BY <1>3, <1>4, <1>5, TendedStays

LEMMA ReleaseNothingTended ==
    ASSUME IInv, Tended, NEW w \in Workers, NEW m \in Messages, ReleaseNothing(w, m)
    PROVE  Tended'
<1>1. /\ UNCHANGED <<cart, reserved, status, outcome, txs>>
      /\ handled' = handled \cup {m}
      /\ \A v \in Workers : txs[v] # NoTx => txs[v].by # m
    BY DEF ReleaseNothing, Fresh, table
<1>2. \A v \in Workers : txs[v] # NoTx => txs[v].by \notin handled'
    BY <1>1 DEF Tended, Ledger, OnTrack
<1> QED BY <1>1, <1>2, TendedStays

LEMMA AddProductTended ==
    ASSUME IInv, Tended, NEW p \in Products, NEW n \in 0..MaxStock, AddProduct(p, n)
    PROVE  Tended'
<1>1. UNCHANGED <<cart, reserved, status, outcome, txs, handled>>
    BY DEF AddProduct
<1>2. \A v \in Workers : txs[v] # NoTx => txs[v].by \notin handled'
    BY <1>1 DEF Tended, Ledger, OnTrack
<1> QED BY <1>1, <1>2, TendedStays

LEMMA LInvInit == Init => LInv
<1> SUFFICES ASSUME Init PROVE LInv
    OBVIOUS
<1>1. IInv
    BY IInvInit
<1>2. Alone /\ Ledger
    BY DEF Init, Alone, Ledger
<1>3. Recorded
    BY DEF Init, Recorded
<1>4. ASSUME NEW p \in Products
      PROVE  Units(p, Active) = {} /\ Units(p, Refused) = {} /\ reserved[p] = 0
    BY DEF Init, Units, Active, Refused
<1>5. Covered
    BY <1>4, FS_EmptySet DEF Covered, Asked
<1> QED BY <1>1, <1>2, <1>3, <1>5 DEF LInv, Tended

LEMMA LInvStep == LInv /\ [Next]_vars => LInv'
<1> SUFFICES ASSUME LInv, [Next]_vars PROVE LInv'
    OBVIOUS
<1>1. IInv /\ IInv'
    BY IInvStep DEF LInv
<1> SUFFICES ASSUME Quiet' PROVE Tended'
    BY <1>1 DEF LInv
<1>2. crossed \subseteq crossed'
    BY DEF Next, Handle, Update, BeginReserve, ReserveItem, CommitReserve,
           ReleaseNothing, BeginRelease, ReleaseItem, CommitRelease, BeginUpdate,
           CommitUpdate, AddProduct, Flush, Rollback, Open, End, vars
<1>3. Tended
    BY <1>2 DEF LInv, Quiet
<1>4. ASSUME NEW w \in Workers, Handle(w) PROVE Tended'
    BY <1>1, <1>3, <1>4, BeginTended, ReleaseNothingTended, ReserveItemTended,
       CommitReserveTended, ReleaseItemTended, CommitReleaseTended DEF Handle
<1>5. ASSUME NEW a \in Admins, Update(a) PROVE Tended'
    BY <1>1, <1>3, <1>5, AdminTended
<1>6. ASSUME NEW w \in Workers \cup Admins,
             Rollback(w) \/ \E p \in Products : Flush(w, p)
      PROVE  Tended'
    BY <1>1, <1>3, <1>6, RollbackTended, FlushTended, AdminTended
<1>7. ASSUME NEW p \in Products, NEW n \in 0..MaxStock, AddProduct(p, n) PROVE Tended'
    BY <1>1, <1>3, <1>7, AddProductTended
<1>8. CASE UNCHANGED vars
  <2>1. UNCHANGED <<cart, reserved, status, outcome, txs, handled>>
      BY <1>8 DEF vars
  <2>2. \A v \in Workers : txs[v] # NoTx => txs[v].by \notin handled'
      BY <1>3, <2>1 DEF Tended, Ledger, OnTrack
  <2> QED BY <1>1, <1>3, <2>1, <2>2, TendedStays
<1> QED BY <1>4, <1>5, <1>6, <1>7, <1>8 DEF Next

\* As long as no two of the consumers' callbacks overlap, an order whose
\* reservation is active has its stock set aside, whatever is adjusted, added,
\* crashes or is rolled back meanwhile.
THEOREM ReservationsBacked == Spec => []Backed
<1>1. LInv => Backed
    BY DEF LInv, Quiet, Tended, Covered, Backed, NeverOversold, Claimed, Active
<1> QED BY <1>1, LInvInit, LInvStep, PTL DEF Spec

\* As long as no two of the consumers' callbacks overlap, the only stock that
\* stays set aside for nobody is what the catch block of a refused order
\* committed.
THEOREM OnlyRefusalsLeaveStock == Spec => []OnlyRefusalsStrand
<1>1. LInv => OnlyRefusalsStrand
    BY DEF LInv, Quiet, Tended, Covered, OnlyRefusalsStrand, Claimed, Active, Refused
<1> QED BY <1>1, LInvInit, LInvStep, PTL DEF Spec

=============================================================================
