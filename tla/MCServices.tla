------------------------------ MODULE MCServices ------------------------------
(***************************************************************************)
(* TLC instances of the services taken one by one, side by side in one     *)
(* run: in each behaviour one of them moves and the others stay as they    *)
(* start.                                                                  *)
(*   coordinator: two replicas and one order, against an environment that  *)
(*     answers anything, at any time;                                      *)
(*   inventory: three orders compete for two SKUs (one order repeats a SKU *)
(*     in two lines, one names a SKU that does not exist), with reserve    *)
(*     and release commands in any order, any number of times;             *)
(*   relay: two orders that share a partition;                             *)
(*   intake: two requests, each sent any number of times, under two keys,  *)
(*     with two valid bodies and an invalid one.                           *)
(***************************************************************************)
EXTENDS Services

CONSTANTS o1, o2, o3, book, phone, ghost, r1, r2, k1, k2, basket, other, invalid

VARIABLE part  \* the one that moves

allVars == <<part, vars, inventoryVars, relayVars, intakeVars>>

-----------------------------------------------------------------------------
Line(sku, quantity) == [sku |-> sku, quantity |-> quantity]

MCLines ==
    [o \in {o1, o2, o3} |->
        CASE o = o1 -> <<Line(book, 1), Line(phone, 1), Line(book, 1)>>
          [] o = o2 -> <<Line(book, 2)>>
          [] o = o3 -> <<Line(phone, 1), Line(ghost, 1)>>]
MCShelves == [sku \in {book, phone} |-> IF sku = book THEN 3 ELSE 1]

-----------------------------------------------------------------------------
ServicesInit ==
    /\ part \in {"coordinator", "inventory", "relay", "intake"}
    /\ Init /\ Inventory!Init /\ Relay!Init /\ Intake!Init
    /\ part # "intake" => request = [r \in Requests |-> [key |-> k1, body |-> basket]]

CoordinatorMoves(A) ==
    part = "coordinator" /\ A /\ UNCHANGED <<part, inventoryVars, relayVars, intakeVars>>
InventoryMoves(A) ==
    part = "inventory" /\ A /\ UNCHANGED <<part, vars, relayVars, intakeVars>>
RelayMoves(A) ==
    part = "relay" /\ A /\ UNCHANGED <<part, vars, inventoryVars, intakeVars>>
IntakeMoves(A) ==
    part = "intake" /\ A /\ UNCHANGED <<part, vars, inventoryVars, relayVars>>

ServicesNext ==
    \/ CoordinatorMoves(Next)
    \/ InventoryMoves(Inventory!Next)
    \/ RelayMoves(Relay!Next)
    \/ IntakeMoves(Intake!Next)

\* The fairness of SagaCoordinator and of OutboxRelay, each in its own behaviours.
ServicesFairness ==
    /\ \A o \in Orders : WF_allVars(CoordinatorMoves(TimerExpires(o)))
    /\ \A o \in Orders : WF_allVars(CoordinatorMoves(\E i \in Instances : Tick(i, o)))
    /\ \A i \in Instances :
          WF_allVars(CoordinatorMoves(\E skipped \in SUBSET Orders : Resume(i, skipped)))
    /\ WF_allVars(RelayMoves(Relay!Fetch(Replica)))
    /\ WF_allVars(RelayMoves(Relay!Send(Replica)))
    /\ WF_allVars(RelayMoves(Relay!CommitBatch(Replica)))
    /\ WF_allVars(RelayMoves(Relay!Handle))
    /\ WF_allVars(RelayMoves(Relay!Ack))

ServicesSpec == ServicesInit /\ [][ServicesNext]_allVars /\ ServicesFairness
=============================================================================
