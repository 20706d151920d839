--------------------------- MODULE ShippingService ---------------------------
(***************************************************************************)
(* The shipping participant: at most one shipment row per order and the    *)
(* replies it publishes.                                                   *)
(*   shipping-service messaging/ShippingCommandHandler.java,               *)
(*   domain/Carrier.java, domain/ShipmentRepository.java                   *)
(***************************************************************************)
EXTENDS Participant

CONSTANTS Orders

VARIABLES
    shipments,      \* the shipments table, by order
    shippingEvents  \* the replies ever written to the outbox

vars == <<shipments, shippingEvents>>

-----------------------------------------------------------------------------
Shipment(status, noop, reason) ==
    [status |-> status, noop |-> noop, reason |-> reason, attempts |-> 0]

NoShipment == Shipment("NONE", FALSE, "NONE")
Tombstone  == Shipment("CANCELED", TRUE, "NONE")

Init ==
    /\ shipments = [o \in Orders |-> NoShipment]
    /\ shippingEvents = {}

\* The simulated carrier (Carrier.create).
Carrier(mode, validAddress) ==
    CASE mode = "FAIL"    -> Shipment("FAILED", FALSE, "CARRIER_REJECTED")
      [] ~ validAddress   -> Shipment("FAILED", FALSE, "INVALID_ADDRESS")
      [] OTHER            -> Shipment("CREATED", FALSE, "NONE")

Publish(cmd, type, reason) ==
    shippingEvents' = shippingEvents \cup {ReplyTo(cmd, type, reason)}

\* shipment.create after the cancellation: refused without effect.
CreateAfterCancel(cmd) ==
    /\ cmd.type = "shipment.create"
    /\ shipments[cmd.order].status = "CANCELED"
    /\ Publish(cmd, "shipment.failed", "ALREADY_COMPENSATED")
    /\ UNCHANGED shipments

\* shipment.create: the carrier is asked once per order; the row answers after.
Create(cmd, mode, validAddress) ==
    LET o == cmd.order
        row == IF shipments[o].status = "NONE" THEN Carrier(mode, validAddress)
                                               ELSE shipments[o]
        attempts == CountAttempt(row.attempts)
    IN
    /\ cmd.type = "shipment.create"
    /\ shipments[o].status # "CANCELED"
    /\ shipments' = [shipments EXCEPT ![o] = [row EXCEPT !.attempts = attempts]]
    /\ IF ShouldReply(mode, attempts)
         THEN IF row.status = "CREATED" THEN Publish(cmd, "shipment.created", "NONE")
                                        ELSE Publish(cmd, "shipment.failed", row.reason)
         ELSE UNCHANGED shippingEvents

CancelKeepingShipment(cmd) ==
    LET o == cmd.order IN
    /\ cmd.type = "shipment.cancel"
    /\ shipments' = IF shipments[o].status = "NONE"
                      THEN [shipments EXCEPT ![o] = Tombstone] ELSE shipments
    /\ Publish(cmd, "shipment.canceled", "NONE")

\* shipment.cancel: always answered; a tombstone when there is no shipment yet.
Cancel(cmd) ==
    LET o == cmd.order IN
    /\ cmd.type = "shipment.cancel"
    /\ shipments' =
         CASE shipments[o].status = "NONE"    -> [shipments EXCEPT ![o] = Tombstone]
           [] shipments[o].status = "CREATED" ->
                [shipments EXCEPT ![o].status = "CANCELED", ![o].noop = FALSE]
           [] OTHER                           -> shipments
    /\ Publish(cmd, "shipment.canceled", "NONE")

Handle(cmd, mode, validAddress) ==
    \/ CreateAfterCancel(cmd)
    \/ Create(cmd, mode, validAddress)
    \/ Cancel(cmd)
=============================================================================
