--------------------------- MODULE MCCheckoutSaga ---------------------------
(***************************************************************************)
(* A TLC instance of the whole checkout, under the fairness of its         *)
(* scheduling: one order, physical or digital, with every combination of   *)
(* the simulated faults of its participants, one retry per step and one    *)
(* restart of the orchestrator.                                            *)
(***************************************************************************)
EXTENDS FairCheckout

CONSTANTS o1, book

-----------------------------------------------------------------------------
MCOrders == {o1}
MCItems == [o \in MCOrders |-> <<[sku |-> book, quantity |-> 1]>>]
MCInitialStock == [sku \in {book} |-> 1]

\* Every combination of faults; no shipment is asked for a digital order.
MCSnapshots ==
    [physical: {TRUE}, inventory: InventoryMode, payment: PaymentMode, shipping: ShippingMode]
    \cup [physical: {FALSE}, inventory: InventoryMode, payment: PaymentMode, shipping: {"NONE"}]
=============================================================================
