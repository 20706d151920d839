-------------------------- MODULE InventoryService --------------------------
(***************************************************************************)
(* The inventory participant: the stock per SKU, at most one reservation   *)
(* row per order, and the replies it publishes.                            *)
(*   inventory-service messaging/InventoryCommandHandler.java,             *)
(*   domain/InventoryRepository.java, StockAllocator.java, Reservation.java *)
(*                                                                         *)
(* A command is handled in one transaction that holds the order's row and  *)
(* the rows of its SKUs, hence one action.  Commands come in any order and *)
(* any number of times.                                                    *)
(***************************************************************************)
EXTENDS Participant, Sequences, FiniteSets, FiniteSetsExt

CONSTANTS
    Orders,
    Items,         \* Items[o]: the lines of order o, [sku, quantity] records
    InitialStock,  \* quantity of each existing SKU
    CommandIds     \* messageIds of the commands that may arrive

InventoryAssumption ==
    /\ \A sku \in DOMAIN InitialStock : InitialStock[sku] \in Nat
    /\ \A o \in Orders :
         /\ IsFiniteSet(DOMAIN Items[o])
         /\ \A n \in DOMAIN Items[o] : Items[o][n].quantity \in Nat \ {0}

VARIABLES
    stock,           \* the stock table, by SKU
    reservations,    \* the reservations table, by order
    inventoryEvents  \* the replies ever written to the outbox

vars == <<stock, reservations, inventoryEvents>>

-----------------------------------------------------------------------------
(* StockAllocator.                                                         *)

\* The quantities of an order's lines, added up per SKU.
Requested(items) ==
    [sku \in {items[n].sku : n \in DOMAIN items} |->
        MapThenSumSet(LAMBDA n : items[n].quantity,
                      {n \in DOMAIN items : items[n].sku = sku})]

\* Why the request must be rejected; an unknown SKU outranks a missing quantity.
Check(requested, st) ==
    IF \E sku \in DOMAIN requested : sku \notin DOMAIN st THEN "UNKNOWN_SKU"
    ELSE IF \E sku \in DOMAIN requested : st[sku].available < requested[sku] THEN "OUT_OF_STOCK"
    ELSE "NONE"

Debit(st, requested) ==
    [sku \in DOMAIN st |->
        IF sku \in DOMAIN requested
          THEN [available |-> st[sku].available - requested[sku],
                reserved  |-> st[sku].reserved + requested[sku]]
          ELSE st[sku]]

\* reserved = GREATEST(reserved - q, 0)
Credit(st, items) ==
    [sku \in DOMAIN st |->
        IF sku \in DOMAIN items
          THEN [available |-> st[sku].available + items[sku],
                reserved  |-> IF st[sku].reserved > items[sku]
                                THEN st[sku].reserved - items[sku] ELSE 0]
          ELSE st[sku]]

-----------------------------------------------------------------------------
NoItems == [sku \in {} |-> 0]

Reservation(status, items, noop, reason) ==
    [status |-> status, items |-> items, noop |-> noop, reason |-> reason, attempts |-> 0]

NoReservation == Reservation("NONE", NoItems, FALSE, "NONE")
Tombstone     == Reservation("RELEASED", NoItems, TRUE, "NONE")

Init ==
    /\ stock = [sku \in DOMAIN InitialStock |->
                   [available |-> InitialStock[sku], reserved |-> 0]]
    /\ reservations = [o \in Orders |-> NoReservation]
    /\ inventoryEvents = {}

\* All or nothing: the row the first command of an order inserts.
Execute(o, mode) ==
    LET requested == Requested(Items[o])
        reason == IF mode = "OUT_OF_STOCK" THEN mode ELSE Check(requested, stock)
    IN  IF reason = "NONE" THEN Reservation("RESERVED", requested, FALSE, "NONE")
                           ELSE Reservation("REJECTED", requested, FALSE, reason)

Publish(cmd, type, reason) ==
    inventoryEvents' = inventoryEvents \cup {ReplyTo(cmd, type, reason)}

\* inventory.reserve after the compensation: refused without effect.
ReserveAfterRelease(cmd) ==
    /\ cmd.type = "inventory.reserve"
    /\ reservations[cmd.order].status = "RELEASED"
    /\ Publish(cmd, "inventory.rejected", "ALREADY_COMPENSATED")
    /\ UNCHANGED <<stock, reservations>>

ReserveEveryTime(cmd, mode) ==
    LET o == cmd.order
        row == Execute(o, mode)
        attempts == CountAttempt(reservations[o].attempts)
    IN
    /\ cmd.type = "inventory.reserve"
    /\ reservations[o].status # "RELEASED"
    /\ reservations' = [reservations EXCEPT ![o] = [row EXCEPT !.attempts = attempts]]
    /\ stock' = IF row.status = "RESERVED" THEN Debit(stock, row.items) ELSE stock
    /\ IF ShouldReply(mode, attempts)
         THEN IF row.status = "RESERVED"
                THEN Publish(cmd, "inventory.reserved", "NONE")
                ELSE Publish(cmd, "inventory.rejected", row.reason)
         ELSE UNCHANGED inventoryEvents

\* inventory.reserve: executed once per order, answered from the row ever after.
Reserve(cmd, mode) ==
    LET o == cmd.order
        first == reservations[o].status = "NONE"
        row == IF first THEN Execute(o, mode) ELSE reservations[o]
        attempts == CountAttempt(row.attempts)
    IN
    /\ cmd.type = "inventory.reserve"
    /\ reservations[o].status # "RELEASED"
    /\ reservations' = [reservations EXCEPT ![o] = [row EXCEPT !.attempts = attempts]]
    /\ stock' = IF first /\ row.status = "RESERVED" THEN Debit(stock, row.items) ELSE stock
    /\ IF ShouldReply(mode, attempts)
         THEN IF row.status = "RESERVED"
                THEN Publish(cmd, "inventory.reserved", "NONE")
                ELSE Publish(cmd, "inventory.rejected", row.reason)
         ELSE UNCHANGED inventoryEvents

ReleaseEveryTime(cmd) ==
    LET o == cmd.order
        row == reservations[o] IN
    /\ cmd.type = "inventory.release"
    /\ reservations' = IF row.status = "NONE" THEN [reservations EXCEPT ![o] = Tombstone]
                       ELSE [reservations EXCEPT ![o].status = "RELEASED", ![o].noop = FALSE]
    /\ stock' = Credit(stock, row.items)
    /\ Publish(cmd, "inventory.released", "NONE")

\* inventory.release: always answered.  Without a row it leaves a tombstone, so
\* that a reserve overtaken by its compensation takes nothing; a released row is
\* only answered again, and a rejected one holds nothing to give back.
Release(cmd) ==
    LET o == cmd.order
        row == reservations[o] IN
    /\ cmd.type = "inventory.release"
    /\ reservations' =
         CASE row.status = "NONE"     -> [reservations EXCEPT ![o] = Tombstone]
           [] row.status = "RESERVED" -> [reservations EXCEPT ![o].status = "RELEASED",
                                                              ![o].noop = FALSE]
           [] OTHER                   -> reservations
    /\ stock' = IF row.status = "RESERVED" THEN Credit(stock, row.items) ELSE stock
    /\ Publish(cmd, "inventory.released", "NONE")

Handle(cmd, mode) ==
    \/ ReserveAfterRelease(cmd)
    \/ Reserve(cmd, mode)
    \/ Release(cmd)

Commands == [order: Orders, id: CommandIds, type: {"inventory.reserve", "inventory.release"}]

Next == \E cmd \in Commands, mode \in InventoryMode : Handle(cmd, mode)

Spec == Init /\ [][Next]_vars

-----------------------------------------------------------------------------
(* Properties.                                                             *)

TypeOK ==
    /\ DOMAIN stock = DOMAIN InitialStock
    /\ \A sku \in DOMAIN stock : stock[sku] \in [available: Nat, reserved: Nat]
    /\ DOMAIN reservations = Orders
    /\ \A o \in Orders :
         /\ reservations[o].status \in {"NONE", "RESERVED", "REJECTED", "RELEASED"}
         /\ reservations[o].noop \in BOOLEAN
         /\ reservations[o].reason \in Reason
         /\ reservations[o].attempts \in 0..2
    /\ \A e \in inventoryEvents :
         /\ e.order \in Orders /\ e.cause \in CommandIds /\ e.reason \in Reason
         /\ e.type \in {"inventory.reserved", "inventory.rejected", "inventory.released"}

\* No unit of stock is lost, created or sold twice, whatever commands come again:
\* what is reserved of a SKU is what the reservations in force hold, and together
\* with what is available it is the initial quantity (reserveStock/releaseStock,
\* whose GREATEST(.., 0) would hide a double release).
StockConserved ==
    \A sku \in DOMAIN stock :
        /\ stock[sku].available + stock[sku].reserved = InitialStock[sku]
        /\ stock[sku].reserved =
             MapThenSumSet(LAMBDA o : reservations[o].items[sku],
                 {o \in Orders : /\ reservations[o].status = "RESERVED"
                                 /\ sku \in DOMAIN reservations[o].items})

\* The answers an order's reserve commands ever got agree with each other: never
\* both reserved and rejected but for the compensation's ALREADY_COMPENSATED, and
\* that one only after a release (events.md 5: re-published from the row).
AnswersAgree ==
    \A e, f \in inventoryEvents :
        e.order = f.order /\ e.type = "inventory.rejected" =>
            /\ f.type = "inventory.reserved" => e.reason = "ALREADY_COMPENSATED"
            /\ f.type = "inventory.rejected" => "ALREADY_COMPENSATED" \in {e.reason, f.reason}
                                                \/ e.reason = f.reason
            /\ e.reason = "ALREADY_COMPENSATED" => reservations[e.order].status = "RELEASED"

\* A decided reservation is never decided again: the first command wins, and a
\* reservation given back, tombstones included, is never taken again.
DecidedOnce ==
    [][\A o \in Orders :
         /\ reservations[o].status = "RELEASED" => reservations'[o] = reservations[o]
         /\ reservations[o].status = "REJECTED" => reservations'[o].status = "REJECTED"
         /\ reservations[o].status = "RESERVED" =>
              reservations'[o].status \in {"RESERVED", "RELEASED"}]_vars
=============================================================================
