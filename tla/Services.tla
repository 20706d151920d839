------------------------------- MODULE Services -------------------------------
(***************************************************************************)
(* The services taken one by one: next to the coordinator, the inventory   *)
(* with orders that compete for its stock, the outbox of one service with  *)
(* its one relay, and the order service as clients place orders.           *)
(*                                                                         *)
(* Nothing is shared between them: what each promises is stated of its own *)
(* specification, Inventory!Spec, Relay!Spec or Intake!Spec.               *)
(***************************************************************************)
EXTENDS SagaCoordinator, Sequences

CONSTANTS
    Competing, Lines, Shelves, CommandIds,               \* InventoryService
    Keys, Replica, BatchSize, MaxRows, MaxFailures,      \* OutboxRelay
    Requests, IntakeKeys, Bodies, ValidBodies, NoOrder   \* OrderIntake

VARIABLES
    stock, reservations, inventoryEvents,                                      \* InventoryService
    outbox, batch, sent, topic, offset, unacked, processed, effects, failures, \* OutboxRelay
    request, pc, answers, rows, placed                                         \* OrderIntake

inventoryVars == <<stock, reservations, inventoryEvents>>
relayVars == <<outbox, batch, sent, topic, offset, unacked, processed, effects, failures>>
intakeVars == <<request, pc, answers, rows, placed>>

-----------------------------------------------------------------------------
Inventory == INSTANCE InventoryService WITH
    Orders <- Competing, Items <- Lines, InitialStock <- Shelves

\* A single replica of the producing service, as the composed system has it.
Relay == INSTANCE OutboxRelay WITH Relays <- {Replica}

Intake == INSTANCE OrderIntake WITH Keys <- IntakeKeys

ASSUME PartAssumptions ==
    /\ Inventory!InventoryAssumption
    /\ Relay!RelayAssumption
    /\ Intake!IntakeAssumption

-----------------------------------------------------------------------------
(* The properties of the instances; the coordinator's are its own.         *)

\* No unit of stock is lost, created or sold twice, and the answers to an order's
\* commands agree with each other (InventoryCommandHandler).
StockIsSound == Inventory!StockConserved /\ Inventory!AnswersAgree

\* A decided reservation is never decided again.
DecidedOnce == Inventory!DecidedOnce

\* Each message of an order in the partition and its effect once, in order, and
\* nothing given up before (OutboxRelay, IdempotencyGuard).
RelayIsSound == Relay!OrderPerKey /\ Relay!EffectsInOrderOnce /\ Relay!NothingGivenUp

\* Every committed message gets its effect in the end.
EveryMessageArrives == Relay!EveryMessageArrives

\* The requests under one key make at most one order, and its clients are never
\* told two things (OrderService.create).
KeysAreKept == Intake!OneOrderPerKey /\ Intake!AnswersAgree
=============================================================================
