----------------------------- MODULE SagaStatus -----------------------------
(***************************************************************************)
(* The tables of the checkout saga: the states of the coordinator, the     *)
(* command each of them sends on entry, the replies it waits for, and      *)
(* where an accepted reply or an exhausted step leads.                     *)
(*   saga-orchestrator domain/SagaStatus.java, domain/SagaStateMachine.java *)
(*                                                                         *)
(* In this project a definition that no specification uses, written just   *)
(* before a definition it resembles and named for what it gets wrong, is a *)
(* faulty variant of it: put in its place it must break a property.        *)
(***************************************************************************)

ActionStatus ==
    {"RESERVING_INVENTORY", "AUTHORIZING_PAYMENT", "CREATING_SHIPMENT"}

CompensationStatus ==
    {"CANCELING_SHIPMENT", "REFUNDING_PAYMENT", "RELEASING_INVENTORY"}

FinalizationStatus == {"CONFIRMING_ORDER", "CANCELING_ORDER"}

TerminalStatus == {"COMPLETED", "CANCELED"}

\* The states in which a command is in flight.
ActiveStatus == ActionStatus \cup CompensationStatus \cup FinalizationStatus

Step == {"INVENTORY", "PAYMENT", "SHIPPING", "ORDER"}

StepOf(s) ==
    CASE s \in {"RESERVING_INVENTORY", "RELEASING_INVENTORY"} -> "INVENTORY"
      [] s \in {"AUTHORIZING_PAYMENT", "REFUNDING_PAYMENT"}   -> "PAYMENT"
      [] s \in {"CREATING_SHIPMENT", "CANCELING_SHIPMENT"}    -> "SHIPPING"
      [] OTHER                                                -> "ORDER"

CommandType(s) ==
    CASE s = "RESERVING_INVENTORY" -> "inventory.reserve"
      [] s = "AUTHORIZING_PAYMENT" -> "payment.authorize"
      [] s = "CREATING_SHIPMENT"   -> "shipment.create"
      [] s = "CANCELING_SHIPMENT"  -> "shipment.cancel"
      [] s = "REFUNDING_PAYMENT"   -> "payment.refund"
      [] s = "RELEASING_INVENTORY" -> "inventory.release"
      [] s = "CONFIRMING_ORDER"    -> "order.confirm"
      [] s = "CANCELING_ORDER"     -> "order.cancel"

CommandTypes == {"inventory.reserve", "payment.authorize", "shipment.create",
                 "shipment.cancel", "payment.refund", "inventory.release",
                 "order.confirm", "order.cancel"}

Expects(s) ==
    CASE s = "RESERVING_INVENTORY" -> {"inventory.reserved", "inventory.rejected"}
      [] s = "AUTHORIZING_PAYMENT" -> {"payment.authorized", "payment.failed"}
      [] s = "CREATING_SHIPMENT"   -> {"shipment.created", "shipment.failed"}
      [] s = "CANCELING_SHIPMENT"  -> {"shipment.canceled"}
      [] s = "REFUNDING_PAYMENT"   -> {"payment.refunded"}
      [] s = "RELEASING_INVENTORY" -> {"inventory.released"}
      [] s = "CONFIRMING_ORDER"    -> {"order.confirmed"}
      [] s = "CANCELING_ORDER"     -> {"order.canceled"}
      [] OTHER                     -> {}

ReplyTypes == {"inventory.reserved", "inventory.rejected", "inventory.released",
               "payment.authorized", "payment.failed", "payment.refunded",
               "shipment.created", "shipment.failed", "shipment.canceled",
               "order.confirmed", "order.canceled"}

\* The replies that report the failure of a step (SagaStateMachine.failed).
FailureTypes == {"inventory.rejected", "payment.failed", "shipment.failed"}

\* Where a step's success leads; physical: the order needs a shipment.
AfterSuccess(type, physical) ==
    CASE type = "inventory.reserved" -> "AUTHORIZING_PAYMENT"
      [] type = "payment.authorized" ->
            IF physical THEN "CREATING_SHIPMENT" ELSE "CONFIRMING_ORDER"
      [] type = "shipment.created"   -> "CONFIRMING_ORDER"
      [] type = "order.confirmed"    -> "COMPLETED"

\* Where a step's failure leads: to undoing the steps before it.
AfterFailure(type) ==
    CASE type = "inventory.rejected" -> "CANCELING_ORDER"
      [] type = "payment.failed"     -> "RELEASING_INVENTORY"
      [] type = "shipment.failed"    -> "REFUNDING_PAYMENT"

\* Where an undone step leads: on along the reverse order.
AfterCompensation(type) ==
    CASE type = "shipment.canceled"  -> "REFUNDING_PAYMENT"
      [] type = "payment.refunded"   -> "RELEASING_INVENTORY"
      [] type = "inventory.released" -> "CANCELING_ORDER"
      [] type = "order.canceled"     -> "CANCELED"

CompensationTypes ==
    {"shipment.canceled", "payment.refunded", "inventory.released", "order.canceled"}

\* The state an accepted reply leads to.
StatusAfter(type, physical) ==
    IF type \in FailureTypes THEN AfterFailure(type)
    ELSE IF type \in CompensationTypes THEN AfterCompensation(type)
    ELSE AfterSuccess(type, physical)

\* The step's own compensation, when the retries of an action are exhausted.
CompensationOnTimeout(s) ==
    CASE s = "RESERVING_INVENTORY" -> "RELEASING_INVENTORY"
      [] s = "AUTHORIZING_PAYMENT" -> "REFUNDING_PAYMENT"
      [] s = "CREATING_SHIPMENT"   -> "CANCELING_SHIPMENT"
=============================================================================
