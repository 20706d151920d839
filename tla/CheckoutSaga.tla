---------------------------- MODULE CheckoutSaga ----------------------------
(***************************************************************************)
(* The whole checkout: order service, saga coordinator, inventory, payment *)
(* and shipping, each with its own database and outbox, joined by Kafka.   *)
(*                                                                         *)
(* A message once written to an outbox is never lost, but it may reach its *)
(* consumer late, after messages written later, and more than once: the    *)
(* relay sends a batch again after a crash, several relays interleave, and *)
(* a consumer that fails before its commit reads again (common/outbox,     *)
(* common/kafka).  So any message ever sent may be handled at any time and *)
(* any number of times.  A second copy under a processed messageId changes *)
(* nothing a second delivery of the same element does not: the coordinator *)
(* ignores both, the participants answer both.                             *)
(***************************************************************************)
EXTENDS Participant

CONSTANTS
    Orders, Snapshots,                                   \* OrderService
    Instances, StepMaxRetries, AttemptCap, MaxRestarts,  \* SagaCoordinator
    Items, InitialStock                                  \* InventoryService

VARIABLES
    orders, orderEvents,                       \* OrderService
    saga, commands, resumed, restarts,         \* SagaCoordinator
    stock, reservations, inventoryEvents,      \* InventoryService
    payments, delayedReplies, paymentEvents,   \* PaymentService
    shipments, shippingEvents                  \* ShippingService

orderVars       == <<orders, orderEvents>>
coordinatorVars == <<saga, commands, resumed, restarts>>
inventoryVars   == <<stock, reservations, inventoryEvents>>
paymentVars     == <<payments, delayedReplies, paymentEvents>>
shippingVars    == <<shipments, shippingEvents>>
participantVars == <<inventoryVars, paymentVars, shippingVars>>

vars == <<orderVars, coordinatorVars, participantVars>>

OrderSvc     == INSTANCE OrderService
Coordinator  == INSTANCE SagaCoordinator
InventorySvc == INSTANCE InventoryService WITH CommandIds <- Nat
PaymentSvc   == INSTANCE PaymentService
ShippingSvc  == INSTANCE ShippingService

ASSUME CheckoutAssumption ==
    /\ Coordinator!CoordinatorAssumption
    /\ InventorySvc!InventoryAssumption
    /\ Snapshots \subseteq [physical: BOOLEAN, inventory: InventoryMode,
                            payment: PaymentMode, shipping: ShippingMode]

\* What the coordinator listens to.
Events == orderEvents \cup inventoryEvents \cup paymentEvents \cup shippingEvents

Init ==
    /\ OrderSvc!Init
    /\ Coordinator!Init
    /\ InventorySvc!Init
    /\ PaymentSvc!Init
    /\ ShippingSvc!Init

-----------------------------------------------------------------------------
PlaceOrder(o, snapshot) ==
    /\ OrderSvc!Insert(o, snapshot)
    /\ UNCHANGED <<coordinatorVars, participantVars>>

(* The coordinator's consumer (SagaEventListener).                         *)
SagaHandles(event) ==
    /\ event \in Events
    /\ IF event.type = "order.created"
         THEN IF saga[event.order].status = "NONE"
                THEN Coordinator!Start(event.order, orders[event.order].snapshot.physical)
                ELSE UNCHANGED coordinatorVars
         ELSE \/ Coordinator!AcceptReply(event.order, event.cause, event.type)
              \/ Coordinator!IgnoreLateReply(event.order, event.cause, event.type)
    /\ UNCHANGED <<orderVars, participantVars>>

(* The participants' consumers.  The simulated faults travel in the command. *)
OrderHandles(cmd) ==
    /\ cmd \in commands
    /\ OrderSvc!Handle(cmd)
    /\ UNCHANGED <<coordinatorVars, participantVars>>

InventoryHandles(cmd) ==
    /\ cmd \in commands
    /\ InventorySvc!Handle(cmd, orders[cmd.order].snapshot.inventory)
    /\ UNCHANGED <<orderVars, coordinatorVars, paymentVars, shippingVars>>

PaymentHandles(cmd) ==
    /\ cmd \in commands
    /\ PaymentSvc!Handle(cmd, orders[cmd.order].snapshot.payment)
    /\ UNCHANGED <<orderVars, coordinatorVars, inventoryVars, shippingVars>>

\* The order service lets no physical order without an address through.
ShippingHandles(cmd) ==
    /\ cmd \in commands
    /\ ShippingSvc!Handle(cmd, orders[cmd.order].snapshot.shipping, TRUE)
    /\ UNCHANGED <<orderVars, coordinatorVars, inventoryVars, paymentVars>>

PaymentPoller(due) ==
    /\ PaymentSvc!PublishDue(due)
    /\ UNCHANGED <<orderVars, coordinatorVars, inventoryVars, shippingVars>>

(* The coordinator's scheduler.                                             *)
Tick(i, o) ==
    /\ Coordinator!Tick(i, o)
    /\ UNCHANGED <<orderVars, participantVars>>

Clock(o) ==
    /\ Coordinator!TimerExpires(o)
    /\ UNCHANGED <<orderVars, participantVars>>

Restart(i) ==
    /\ Coordinator!Restart(i)
    /\ UNCHANGED <<orderVars, participantVars>>

Resume(i) ==
    /\ \E skipped \in SUBSET Orders : Coordinator!Resume(i, skipped)
    /\ UNCHANGED <<orderVars, participantVars>>

Next ==
    \/ \E o \in Orders, snapshot \in Snapshots : PlaceOrder(o, snapshot)
    \/ \E event \in Events : SagaHandles(event)
    \/ \E cmd \in commands : OrderHandles(cmd)
    \/ \E cmd \in commands : InventoryHandles(cmd)
    \/ \E cmd \in commands : PaymentHandles(cmd)
    \/ \E cmd \in commands : ShippingHandles(cmd)
    \/ \E due \in SUBSET delayedReplies : PaymentPoller(due)
    \/ \E i \in Instances, o \in Orders : Tick(i, o)
    \/ \E o \in Orders : Clock(o)
    \/ \E i \in Instances : Restart(i) \/ Resume(i)

Spec == Init /\ [][Next]_vars

-----------------------------------------------------------------------------
(* Properties.                                                             *)

Reserved(o)   == reservations[o].status = "RESERVED"
Authorized(o) == payments[o].status = "AUTHORIZED"
Shipped(o)    == shipments[o].status = "CREATED"

\* What o holds of the chain stock - payment - shipment; 4: out of this order.
Holds(o) ==
    CASE ~ Reserved(o) /\ ~ Authorized(o) /\ ~ Shipped(o) -> 0
      []   Reserved(o) /\ ~ Authorized(o) /\ ~ Shipped(o) -> 1
      []   Reserved(o) /\   Authorized(o) /\ ~ Shipped(o) -> 2
      []   Reserved(o) /\   Authorized(o) /\   Shipped(o) -> 3
      [] OTHER                                            -> 4

GaveBack(row, status) == row.status = status /\ ~ row.noop

Contract == INSTANCE AtomicCheckout WITH
    decision <- [o \in Orders |-> orders[o].status],
    needs    <- [o \in Orders |-> IF orders[o].snapshot.physical THEN 3 ELSE 2],
    holds    <- [o \in Orders |-> Holds(o)],
    undoing  <- [o \in Orders |->
                   \/ GaveBack(reservations[o], "RELEASED")
                   \/ GaveBack(payments[o], "REFUNDED")
                   \/ GaveBack(shipments[o], "CANCELED")]

\* All-or-nothing: through reordered, repeated and late messages, timeouts and
\* restarts, an order is confirmed only holding all it needs and cancelled only
\* holding nothing, takes and gives back in order, and moves no more afterwards.
AllOrNothing == Contract!Spec

\* The coordinator's verdict is the order's: a finished saga has told its order.
VerdictsAgree ==
    \A o \in Orders :
        /\ saga[o].status = "COMPLETED" => orders[o].status = "CONFIRMED"
        /\ saga[o].status = "CANCELED"  => orders[o].status = "CANCELED"

\* The refusal a compensated participant gives to an action that came too late is
\* itself too late: the coordinator never takes it for the step's answer, which
\* would overwrite the failure the customer is told (SagaStateMachine.onReply).
CompensatedRepliesAreLate ==
    \A e \in Events :
        e.reason = "ALREADY_COMPENSATED" => ~ Coordinator!Accepts(saga[e.order], e.cause, e.type)

\* The two ends of the coordinator's dialogue: one verdict per order, told by the
\* coordinator and kept by the order, and no compensation answers an action.
VerdictsHold == VerdictsAgree /\ CompensatedRepliesAreLate

\* A compensation is executed after its action or instead of it, never before it
\* and then again: a participant told to undo holds nothing from then on.
UndoneStaysUndone ==
    \A e \in Events :
        /\ e.type = "inventory.released" => ~ Reserved(e.order)
        /\ e.type = "payment.refunded"   => ~ Authorized(e.order)
        /\ e.type = "shipment.canceled"  => ~ Shipped(e.order)
=============================================================================
