--------------------------- MODULE AtomicCheckout ---------------------------
(***************************************************************************)
(* What the checkout promises a customer and the shop, with no messages,   *)
(* retries or compensations in sight: an order takes the stock, then the   *)
(* payment, then (a physical one) the shipment; it is confirmed holding    *)
(* all it needs, or it gives everything back in the reverse order and is   *)
(* cancelled holding nothing.  Once decided, nothing moves any more.       *)
(***************************************************************************)
EXTENDS Naturals

CONSTANT Orders

VARIABLES
    decision,  \* per order: "NONE" (not placed), "PENDING", "CONFIRMED", "CANCELED"
    needs,     \* per order: how many of stock, payment, shipment it needs
    holds,     \* per order: how many of them it holds, in this order
    undoing    \* per order: has it started giving back?

vars == <<decision, needs, holds, undoing>>

Init ==
    /\ decision = [o \in Orders |-> "NONE"]
    /\ needs = [o \in Orders |-> 2]
    /\ holds = [o \in Orders |-> 0]
    /\ undoing = [o \in Orders |-> FALSE]

Place(o, n) ==
    /\ decision[o] = "NONE"
    /\ decision' = [decision EXCEPT ![o] = "PENDING"]
    /\ needs' = [needs EXCEPT ![o] = n]
    /\ UNCHANGED <<holds, undoing>>

Take(o) ==
    /\ decision[o] = "PENDING" /\ ~ undoing[o] /\ holds[o] < needs[o]
    /\ holds' = [holds EXCEPT ![o] = @ + 1]
    /\ UNCHANGED <<decision, needs, undoing>>

GiveBack(o) ==
    /\ decision[o] = "PENDING" /\ holds[o] > 0
    /\ holds' = [holds EXCEPT ![o] = @ - 1]
    /\ undoing' = [undoing EXCEPT ![o] = TRUE]
    /\ UNCHANGED <<decision, needs>>

Confirm(o) ==
    /\ decision[o] = "PENDING" /\ ~ undoing[o] /\ holds[o] = needs[o]
    /\ decision' = [decision EXCEPT ![o] = "CONFIRMED"]
    /\ UNCHANGED <<needs, holds, undoing>>

Cancel(o) ==
    /\ decision[o] = "PENDING" /\ holds[o] = 0
    /\ decision' = [decision EXCEPT ![o] = "CANCELED"]
    /\ UNCHANGED <<needs, holds, undoing>>

Next ==
    \E o \in Orders :
        \/ \E n \in {2, 3} : Place(o, n)
        \/ Take(o) \/ GiveBack(o) \/ Confirm(o) \/ Cancel(o)

Spec == Init /\ [][Next]_vars
=============================================================================
