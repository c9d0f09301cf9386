------------------------------- MODULE Events -------------------------------
(***************************************************************************)
(* The event types, the module that stores each of them in its outbox, and  *)
(* the modules with a handler for it.                                      *)
(***************************************************************************)

\* The events with a registered destination, by the module that stores them.
OrderPublishes == {"OrderPlaced", "OrderCancelled"}
InventoryPublishes == {"InventoryReserved", "InventoryReservationFailed", "InventoryReleased"}
PaymentPublishes == {"PaymentCompleted", "PaymentFailed"}
ShippingPublishes == {"ShipmentCreated", "ShipmentDelivered"}

Publishes ==
    [order     |-> OrderPublishes,   inventory    |-> InventoryPublishes,
     payment   |-> PaymentPublishes, shipping     |-> ShippingPublishes,
     notification |-> {}]

EventTypes == OrderPublishes \cup InventoryPublishes \cup PaymentPublishes \cup ShippingPublishes

\* A forgotten registration: the Order module does not learn of failed payments.
MutOrderHandles ==
    {"InventoryReservationFailed", "PaymentCompleted", "ShipmentCreated", "ShipmentDelivered"}

\* The events that a module's signature types list a handler for.
OrderHandles ==
    {"InventoryReservationFailed", "PaymentFailed", "PaymentCompleted",
     "ShipmentCreated", "ShipmentDelivered"}
InventoryHandles == {"OrderPlaced", "OrderCancelled"}
PaymentHandles == {"InventoryReserved", "OrderCancelled"}
ShippingHandles == {"PaymentCompleted", "OrderCancelled"}
NotificationHandles == EventTypes \ {"InventoryReleased"}

Handles ==
    [order     |-> OrderHandles,   inventory    |-> InventoryHandles,
     payment   |-> PaymentHandles, shipping     |-> ShippingHandles,
     notification |-> NotificationHandles]

=============================================================================
