---------------------------- MODULE OrderService ----------------------------
(***************************************************************************)
(* The order service as the saga sees it: the orders table, the order      *)
(* created by a request, its confirmation and its cancellation.            *)
(*   order-service domain/OrderService.java, domain/OrderRepository.java,  *)
(*   messaging/OrderMessageListener.java                                   *)
(***************************************************************************)
EXTENDS Participant

CONSTANTS
    Orders,
    Snapshots  \* what orders may ask for: [physical, inventory, payment, shipping]

VARIABLES
    orders,      \* the orders table: [status, snapshot] by order
    orderEvents  \* the messages ever written to the outbox

vars == <<orders, orderEvents>>

-----------------------------------------------------------------------------
NoSnapshot == [physical |-> FALSE, inventory |-> "NONE", payment |-> "NONE", shipping |-> "NONE"]

Init ==
    /\ orders = [o \in Orders |-> [status |-> "NONE", snapshot |-> NoSnapshot]]
    /\ orderEvents = {}

Publish(cmd, type) == orderEvents' = orderEvents \cup {ReplyTo(cmd, type, "NONE")}

\* POST /orders that passed validation under a new key: the row and order.created.
Insert(o, snapshot) ==
    /\ orders[o].status = "NONE"
    /\ orders' = [orders EXCEPT ![o] = [status |-> "PENDING", snapshot |-> snapshot]]
    /\ Publish([order |-> o, id |-> 0], "order.created")

ConfirmAnsweringOnly(cmd) ==
    /\ cmd.type = "order.confirm"
    /\ orders[cmd.order].status # "NONE"
    /\ Publish(cmd, "order.confirmed")
    /\ UNCHANGED orders

\* order.confirm: decides a pending order; otherwise answers what was decided,
\* be it the contrary (logged as an invalid transition).
Confirm(cmd) ==
    LET status == orders[cmd.order].status IN
    /\ cmd.type = "order.confirm"
    /\ status # "NONE"
    /\ orders' = IF status = "PENDING"
                   THEN [orders EXCEPT ![cmd.order].status = "CONFIRMED"] ELSE orders
    /\ Publish(cmd, IF status = "CANCELED" THEN "order.canceled" ELSE "order.confirmed")

\* order.cancel, likewise.
Cancel(cmd) ==
    LET status == orders[cmd.order].status IN
    /\ cmd.type = "order.cancel"
    /\ status # "NONE"
    /\ orders' = IF status = "PENDING"
                   THEN [orders EXCEPT ![cmd.order].status = "CANCELED"] ELSE orders
    /\ Publish(cmd, IF status = "CONFIRMED" THEN "order.confirmed" ELSE "order.canceled")

Handle(cmd) == Confirm(cmd) \/ Cancel(cmd)
=============================================================================
