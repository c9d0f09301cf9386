--------------------------- MODULE OrderLifecycle ---------------------------
(***************************************************************************)
(* What the Order entity promises on its own: the only ways an order's      *)
(* status may move, whoever calls and in whatever order.  Orders are        *)
(* independent.                                                            *)
(***************************************************************************)
CONSTANT Orders

VARIABLE status   \* "NONE" until the order row exists

Init == status = [o \in Orders |-> "NONE"]

Move(o, from, to) == status[o] \in from /\ status' = [status EXCEPT ![o] = to]

\* place() runs before the row is first saved, so PENDING is never stored.
Place(o)   == Move(o, {"NONE"}, "PLACED")
Pay(o)     == Move(o, {"PLACED"}, "PAID")
Ship(o)    == Move(o, {"PAID"}, "SHIPPED")
Deliver(o) == Move(o, {"SHIPPED"}, "DELIVERED")
Cancel(o)  == Move(o, {"PLACED", "PAID"}, "CANCELLED")

Next == \E o \in Orders : Place(o) \/ Pay(o) \/ Ship(o) \/ Deliver(o) \/ Cancel(o)

Spec == Init /\ [][Next]_status

=============================================================================
