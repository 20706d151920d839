-------------------------- MODULE CheckoutSagaProofs --------------------------
(***************************************************************************)
(* Proofs about the whole checkout, for every set of orders, every         *)
(* combination of simulated faults, any number of replicas and retries.    *)
(*                                                                         *)
(* What is proved of the coordinator alone is taken from its own proofs,   *)
(* through the instance Saga: against the participants it makes only steps *)
(* it makes against an arbitrary environment.                              *)
(***************************************************************************)
EXTENDS CheckoutSaga, TLAPS

Saga == INSTANCE SagaCoordinatorProofs

-----------------------------------------------------------------------------
(* The rows of the participants and what their replies say of them.        *)

Reply(types) == [order: Orders, cause: Nat, type: types, reason: Reason]

OrderRow == [status: {"NONE", "PENDING", "CONFIRMED", "CANCELED"},
             snapshot: Snapshots \cup {OrderSvc!NoSnapshot}]
StockRow == [status: {"NONE", "RESERVED", "REJECTED", "RELEASED"},
             items: {InventorySvc!NoItems} \cup {InventorySvc!Requested(Items[o]) : o \in Orders},
             noop: BOOLEAN, reason: {"NONE", "OUT_OF_STOCK", "UNKNOWN_SKU"}, attempts: 0..2]
PaymentRow == [status: {"NONE", "AUTHORIZED", "DECLINED", "REFUNDED"}, noop: BOOLEAN, attempts: 0..2]
ShipmentRow == [status: {"NONE", "CREATED", "FAILED", "CANCELED"}, noop: BOOLEAN,
                reason: {"NONE", "CARRIER_REJECTED", "INVALID_ADDRESS"}, attempts: 0..2]

OrderTypes == {"order.created", "order.confirmed", "order.canceled"}
StockTypes == {"inventory.reserved", "inventory.rejected", "inventory.released"}
PaymentTypes == {"payment.authorized", "payment.failed", "payment.refunded"}
ShipmentTypes == {"shipment.created", "shipment.failed", "shipment.canceled"}

RowsTyped ==
    /\ orders \in [Orders -> OrderRow]
    /\ reservations \in [Orders -> StockRow]
    /\ payments \in [Orders -> PaymentRow]
    /\ shipments \in [Orders -> ShipmentRow]

EventsTyped ==
    /\ orderEvents \subseteq Reply(OrderTypes)
    /\ inventoryEvents \subseteq Reply(StockTypes)
    /\ paymentEvents \cup delayedReplies \subseteq Reply(PaymentTypes)
    /\ shippingEvents \subseteq Reply(ShipmentTypes)

(* A reply is true of the row from the moment it is published, for ever.    *)
OrderSays(e, row) ==
    /\ e.reason = "NONE"
    /\ e.type = "order.created" => row.status # "NONE"
    /\ e.type = "order.confirmed" => row.status = "CONFIRMED"
    /\ e.type = "order.canceled" => row.status = "CANCELED"

StockSays(e, row) ==
    /\ e.type = "inventory.reserved" => row.status \in {"RESERVED", "RELEASED"}
    /\ e.type = "inventory.rejected" => row.status \in {"REJECTED", "RELEASED"}
    /\ e.type = "inventory.released" => row.status \in {"REJECTED", "RELEASED"}
    /\ e.reason = "ALREADY_COMPENSATED" => e.type = "inventory.rejected" /\ row.status = "RELEASED"

PaymentSays(e, row) ==
    /\ e.type = "payment.authorized" => row.status \in {"AUTHORIZED", "REFUNDED"}
    /\ e.type = "payment.failed" => row.status \in {"DECLINED", "REFUNDED"}
    /\ e.type = "payment.refunded" => row.status \in {"DECLINED", "REFUNDED"}
    /\ e.reason = "ALREADY_COMPENSATED" => e.type = "payment.failed" /\ row.status = "REFUNDED"

ShipmentSays(e, row) ==
    /\ e.type = "shipment.created" => row.status \in {"CREATED", "CANCELED"}
    /\ e.type = "shipment.failed" => row.status \in {"FAILED", "CANCELED"}
    /\ e.type = "shipment.canceled" => row.status \in {"FAILED", "CANCELED"}
    /\ e.reason = "ALREADY_COMPENSATED" => e.type = "shipment.failed" /\ row.status = "CANCELED"

RepliesTrue ==
    /\ \A e \in orderEvents : OrderSays(e, orders[e.order])
    /\ \A e \in inventoryEvents : StockSays(e, reservations[e.order])
    /\ \A e \in paymentEvents \cup delayedReplies : PaymentSays(e, payments[e.order])
    /\ \A e \in shippingEvents : ShipmentSays(e, shipments[e.order])

-----------------------------------------------------------------------------
(* How the rows and the commands sent so far hang together.                *)

Told(o) == Saga!Types(o)

\* No participant does anything it was not told to.
RowsAsTold(o) ==
    /\ reservations[o].status \in {"RESERVED", "REJECTED"} => "inventory.reserve" \in Told(o)
    /\ reservations[o].status = "RELEASED" => "inventory.release" \in Told(o)
    /\ payments[o].status \in {"AUTHORIZED", "DECLINED"} => "payment.authorize" \in Told(o)
    /\ payments[o].status = "REFUNDED" => "payment.refund" \in Told(o)
    /\ payments[o].status = "REFUNDED" /\ ~ payments[o].noop => "payment.authorize" \in Told(o)
    /\ shipments[o].status \in {"CREATED", "FAILED"} => "shipment.create" \in Told(o)
    /\ shipments[o].status = "CANCELED" => "shipment.cancel" \in Told(o)
    /\ shipments[o].status = "CANCELED" /\ ~ shipments[o].noop => "shipment.create" \in Told(o)
    /\ orders[o].status = "CONFIRMED" => "order.confirm" \in Told(o)
    /\ orders[o].status = "CANCELED" => "order.cancel" \in Told(o)

\* The coordinator tells nobody to go on, or back, before the one before has
\* answered that it did; a timeout goes back on the step it waits for first.
ToldInOrder(o) ==
    /\ "payment.authorize" \in Told(o) => reservations[o].status \in {"RESERVED", "RELEASED"}
    /\ "shipment.create" \in Told(o) =>
         /\ "payment.authorize" \in Told(o) /\ saga[o].physical
         /\ payments[o].status \in {"AUTHORIZED", "REFUNDED"}
    /\ "order.confirm" \in Told(o) =>
         /\ "payment.authorize" \in Told(o)
         /\ payments[o].status \in {"AUTHORIZED", "REFUNDED"}
         /\ saga[o].physical => shipments[o].status \in {"CREATED", "CANCELED"}
    /\ {"shipment.create", "payment.refund"} \subseteq Told(o) =>
         shipments[o].status \in {"FAILED", "CANCELED"}
    /\ {"payment.authorize", "inventory.release"} \subseteq Told(o) =>
         payments[o].status \in {"DECLINED", "REFUNDED"}
    /\ "order.cancel" \in Told(o) => reservations[o].status \in {"REJECTED", "RELEASED"}

\* A saga is of an order, wants what the order wants, and ends as the order does.
SagaOfOrder(o) ==
    /\ saga[o].status # "NONE" =>
         orders[o].status # "NONE" /\ saga[o].physical = orders[o].snapshot.physical
    /\ saga[o].status = "COMPLETED" => orders[o].status = "CONFIRMED"
    /\ saga[o].status = "CANCELED" => orders[o].status = "CANCELED"

CheckoutInv ==
    /\ Saga!CommandInv
    /\ RowsTyped /\ EventsTyped /\ RepliesTrue
    /\ \A o \in Orders : RowsAsTold(o) /\ ToldInOrder(o) /\ SagaOfOrder(o)

-----------------------------------------------------------------------------
(* The coordinator among the participants is the coordinator on its own:   *)
(* the two instances of its module name the same operators.                *)

\* The same tables of states, steps and replies.
LEMMA SameTables ==
    /\ \A a, b : Coordinator!StatusAfter(a, b) = Saga!StatusAfter(a, b)
    /\ \A a : Coordinator!StepOf(a) = Saga!StepOf(a)
    /\ \A a : Coordinator!CompensationOnTimeout(a) = Saga!CompensationOnTimeout(a)
    /\ \A a : Coordinator!CommandType(a) = Saga!CommandType(a)
    /\ \A a : Coordinator!Expects(a) = Saga!Expects(a)
    /\ Coordinator!ActiveStatus = Saga!ActiveStatus
    /\ Coordinator!ActionStatus = Saga!ActionStatus
    /\ Coordinator!TerminalStatus = Saga!TerminalStatus
    /\ Coordinator!FailureTypes = Saga!FailureTypes
BY Zenon DEF Coordinator!StatusAfter, Saga!StatusAfter, Coordinator!AfterFailure,
   Saga!AfterFailure, Coordinator!AfterCompensation, Saga!AfterCompensation,
   Coordinator!AfterSuccess, Saga!AfterSuccess, Coordinator!FailureTypes, Saga!FailureTypes,
   Coordinator!CompensationTypes, Saga!CompensationTypes, Coordinator!StepOf, Saga!StepOf,
   Coordinator!CompensationOnTimeout, Saga!CompensationOnTimeout,
 Coordinator!CommandType, Saga!CommandType, Coordinator!Expects, Saga!Expects,
 Coordinator!ActiveStatus, Saga!ActiveStatus, Coordinator!ActionStatus, Saga!ActionStatus,
 Coordinator!CompensationStatus, Saga!CompensationStatus, Coordinator!FinalizationStatus,
    Saga!FinalizationStatus,
 Coordinator!TerminalStatus, Saga!TerminalStatus

\* The same commit of a row, with the command it sends.
LEMMA SameCommit == \A o, s : Coordinator!Commit(o, s) = Saga!Commit(o, s)
BY SameTables, Zenon DEF Coordinator!Commit, Saga!Commit, Coordinator!Sent, Saga!Sent,
   Coordinator!CommandOf, Saga!CommandOf

\* The same new row after a reply, a tick and a restart.
LEMMA SameRows ==
    /\ \A s, type : Coordinator!OnReply(s, type) = Saga!OnReply(s, type)
    /\ \A s, c, type : Coordinator!Accepts(s, c, type) = Saga!Accepts(s, c, type)
    /\ \A s : Coordinator!OnTick(s) = Saga!OnTick(s)
    /\ \A s : Coordinator!Due(s) = Saga!Due(s)
    /\ \A s : Coordinator!ResumeAfterRestart(s) = Saga!ResumeAfterRestart(s)
    /\ \A s, n : Coordinator!Enter(s, n) = Saga!Enter(s, n)
    /\ Coordinator!NoSaga = Saga!NoSaga
<1> USE SameTables
<1>1. \A s, n : Coordinator!Enter(s, n) = Saga!Enter(s, n)
  BY Zenon DEF Coordinator!Enter, Saga!Enter
<1>2. \A s, n : Coordinator!Finish(s, n) = Saga!Finish(s, n)
  BY Zenon DEF Coordinator!Finish, Saga!Finish
<1>3. \A s, type : Coordinator!OnReply(s, type) = Saga!OnReply(s, type)
  BY <1>1, <1>2, ZenonT(30) DEF Coordinator!OnReply, Saga!OnReply
<1>4. \A s : Coordinator!OnTick(s) = Saga!OnTick(s)
  BY <1>1, Zenon DEF Coordinator!OnTick, Saga!OnTick, Coordinator!Retried, Saga!Retried,
     Coordinator!TimedOut, Saga!TimedOut, Coordinator!Exhausted, Saga!Exhausted
<1> QED
  BY <1>1, <1>3, <1>4, Zenon DEF Coordinator!Accepts, Saga!Accepts, Coordinator!Due, Saga!Due,
     Coordinator!ResumeAfterRestart, Saga!ResumeAfterRestart, Coordinator!NoSaga, Saga!NoSaga

\* The same transactions.
LEMMA SameActions ==
    /\ \A o, physical : Coordinator!Start(o, physical) = Saga!Start(o, physical)
    /\ \A o, cause, type : Coordinator!AcceptReply(o, cause, type) = Saga!AcceptReply(o, cause, type)
    /\ \A i, o : Coordinator!Tick(i, o) = Saga!Tick(i, o)
    /\ \A o : Coordinator!TimerExpires(o) = Saga!TimerExpires(o)
    /\ \A i : Coordinator!Restart(i) = Saga!Restart(i)
    /\ \A i, skipped : Coordinator!Resume(i, skipped) = Saga!Resume(i, skipped)
BY SameCommit, SameRows, Zenon DEF Coordinator!Start, Saga!Start, Coordinator!AcceptReply,
   Saga!AcceptReply,
 Coordinator!Tick, Saga!Tick, Coordinator!TimerExpires, Saga!TimerExpires, Coordinator!Restart,
    Saga!Restart,
 Coordinator!Resume, Saga!Resume

\* The coordinator's constants are as its proofs assume.
LEMMA CoordinatorAssumed == Saga!CoordinatorAssumption
BY CheckoutAssumption DEF Coordinator!CoordinatorAssumption, Saga!CoordinatorAssumption

\* What an order asks for, placed or not, says if it is physical.
LEMMA SnapshotType ==
    ASSUME RowsTyped, NEW o \in Orders
    PROVE  /\ orders[o].snapshot.physical \in BOOLEAN
           /\ orders[o].snapshot.inventory \in InventoryMode
<1>1. orders[o].snapshot \in Snapshots \cup {OrderSvc!NoSnapshot}
  BY DEF RowsTyped, OrderRow
<1>2. Snapshots \subseteq [physical: BOOLEAN, inventory: InventoryMode,
                          payment: PaymentMode, shipping: ShippingMode]
  BY CheckoutAssumption
<1>3. CASE orders[o].snapshot \in Snapshots
  BY <1>2, <1>3
<1>4. CASE orders[o].snapshot = OrderSvc!NoSnapshot
  BY <1>4 DEF OrderSvc!NoSnapshot, InventoryMode
<1> QED
  BY <1>1, <1>3, <1>4

\* A step of the checkout is a step of the coordinator, or none of its business.
LEMMA CoordinatorStep ==
    ASSUME Saga!TypeOK, RowsTyped, EventsTyped, [Next]_vars
    PROVE  [Saga!Next]_Saga!vars
<1> USE SameActions
<1>1. CASE UNCHANGED coordinatorVars
  BY <1>1 DEF coordinatorVars, Saga!vars
<1>2. ASSUME NEW event \in Events, SagaHandles(event) PROVE [Saga!Next]_Saga!vars
  <2> DEFINE o == event.order
  <2>1. o \in Orders
    BY DEF Events, EventsTyped, Reply
  <2>2. CASE Coordinator!Start(o, orders[o].snapshot.physical)
    BY <2>1, <2>2, SnapshotType DEF Saga!Next
  <2>3. CASE Coordinator!AcceptReply(o, event.cause, event.type)
    <3>1. saga[o] \in Saga!Saga
      BY <2>1 DEF Saga!TypeOK
    <3>2. event.cause = saga[o].id /\ event.type \in Saga!Expects(saga[o].status)
      BY <2>3 DEF Saga!AcceptReply, Saga!Accepts
    <3>3. event.type \in Saga!ReplyTypes
      BY <3>1, <3>2, Saga!ExpectsType, CoordinatorAssumed DEF Saga!Saga
    <3>4. event.cause \in 0..saga[o].id
      BY <3>1, <3>2 DEF Saga!Saga
    <3> QED
      BY <2>1, <2>3, <3>3, <3>4 DEF Saga!Next
  <2>4. CASE Coordinator!IgnoreLateReply(o, event.cause, event.type)
    BY <2>4 DEF Coordinator!IgnoreLateReply, Coordinator!vars, Saga!vars
  <2> QED
    BY <1>1, <1>2, <2>2, <2>3, <2>4 DEF SagaHandles
<1>3. ASSUME NEW i \in Instances, NEW o \in Orders, Tick(i, o) PROVE [Saga!Next]_Saga!vars
  BY <1>3 DEF Tick, Saga!Next
<1>4. ASSUME NEW o \in Orders, Clock(o) PROVE [Saga!Next]_Saga!vars
  BY <1>4 DEF Clock, Saga!Next
<1>5. ASSUME NEW i \in Instances, Restart(i) \/ Resume(i) PROVE [Saga!Next]_Saga!vars
  BY <1>5 DEF Restart, Resume, Saga!Next
<1> QED
  BY <1>1, <1>2, <1>3, <1>4, <1>5
     DEF Next, PlaceOrder, OrderHandles, InventoryHandles, PaymentHandles, ShippingHandles,
         PaymentPoller, vars

-----------------------------------------------------------------------------
(* What a participant does with a command: to one row, and in its replies. *)

StockMove(type, s, t) ==
    \/ t.status = s.status /\ t.noop = s.noop
    \/ /\ type = "inventory.reserve" /\ s.status = "NONE"
       /\ t.status \in {"RESERVED", "REJECTED"} /\ ~ t.noop
    \/ /\ type = "inventory.release" /\ s.status = "NONE"
       /\ t.status = "RELEASED" /\ t.noop
    \/ /\ type = "inventory.release" /\ s.status = "RESERVED"
       /\ t.status = "RELEASED" /\ ~ t.noop

PaymentMove(type, s, t) ==
    \/ t.status = s.status /\ t.noop = s.noop
    \/ /\ type = "payment.authorize" /\ s.status = "NONE"
       /\ t.status \in {"AUTHORIZED", "DECLINED"} /\ ~ t.noop
    \/ /\ type = "payment.refund" /\ s.status = "NONE"
       /\ t.status = "REFUNDED" /\ t.noop
    \/ /\ type = "payment.refund" /\ s.status = "AUTHORIZED"
       /\ t.status = "REFUNDED" /\ ~ t.noop

ShipmentMove(type, s, t) ==
    \/ t.status = s.status /\ t.noop = s.noop
    \/ /\ type = "shipment.create" /\ s.status = "NONE"
       /\ t.status \in {"CREATED", "FAILED"} /\ ~ t.noop
    \/ /\ type = "shipment.cancel" /\ s.status = "NONE"
       /\ t.status = "CANCELED" /\ t.noop
    \/ /\ type = "shipment.cancel" /\ s.status = "CREATED"
       /\ t.status = "CANCELED" /\ ~ t.noop

OrderMove(type, s, t) ==
    /\ t.snapshot = s.snapshot
    /\ \/ t.status = s.status
       \/ type = "order.confirm" /\ s.status = "PENDING" /\ t.status = "CONFIRMED"
       \/ type = "order.cancel" /\ s.status = "PENDING" /\ t.status = "CANCELED"

\* The row a first inventory.reserve makes is a reservation, or says why there is none.
LEMMA ExecuteType ==
    ASSUME NEW o \in Orders, NEW mode \in InventoryMode
    PROVE  /\ InventorySvc!Execute(o, mode) \in StockRow
           /\ InventorySvc!Execute(o, mode).status \in {"RESERVED", "REJECTED"}
           /\ ~ InventorySvc!Execute(o, mode).noop
<1> DEFINE requested == InventorySvc!Requested(Items[o])
           reason == IF mode = "OUT_OF_STOCK" THEN mode ELSE InventorySvc!Check(requested, stock)
<1>1. reason \in {"NONE", "OUT_OF_STOCK", "UNKNOWN_SKU"}
  BY DEF InventorySvc!Check
<1>2. InventorySvc!Execute(o, mode) =
        IF reason = "NONE" THEN InventorySvc!Reservation("RESERVED", requested, FALSE, "NONE")
                           ELSE InventorySvc!Reservation("REJECTED", requested, FALSE, reason)
  BY DEF InventorySvc!Execute
<1> HIDE DEF requested, reason
<1>3. requested \in {InventorySvc!Requested(Items[q]) : q \in Orders}
  BY DEF requested
<1> QED
  BY <1>1, <1>2, <1>3 DEF InventorySvc!Reservation, StockRow

\* inventory.reserve and inventory.release move the order's row forward, and what is
\* published is true of it.
LEMMA StockHandled ==
    ASSUME Saga!TypeOK, RowsTyped, NEW cmd \in commands, InventoryHandles(cmd)
    PROVE  /\ reservations' \in [Orders -> StockRow]
           /\ \A o \in Orders : \/ reservations'[o] = reservations[o]
                                \/ /\ o = cmd.order
                                   /\ StockMove(cmd.type, reservations[o], reservations'[o])
           /\ \A e \in inventoryEvents' :
                e \notin inventoryEvents =>
                  e \in Reply(StockTypes) /\ StockSays(e, reservations'[e.order])
<1> DEFINE o == cmd.order
           mode == orders[o].snapshot.inventory
           row == reservations[o]
<1>1. cmd \in Saga!Message /\ o \in Orders
  BY DEF Saga!TypeOK, Saga!Message
<1>2. reservations \in [Orders -> StockRow] /\ row \in StockRow
  BY <1>1 DEF RowsTyped
<1>3. CASE InventorySvc!ReserveAfterRelease(cmd)
  <2>1. /\ row.status = "RELEASED" /\ reservations' = reservations
        /\ inventoryEvents' = inventoryEvents \cup
             {[order |-> o, cause |-> cmd.id, type |-> "inventory.rejected",
               reason |-> "ALREADY_COMPENSATED"]}
    BY <1>3 DEF InventorySvc!ReserveAfterRelease, InventorySvc!Publish, InventorySvc!ReplyTo
  <2> QED
    BY <1>1, <1>2, <2>1 DEF Reply, StockTypes, StockSays, Reason, Saga!Message
<1>4. CASE InventorySvc!Reserve(cmd, mode)
  <2> DEFINE base == IF row.status = "NONE" THEN InventorySvc!Execute(o, mode) ELSE row
             attempts == InventorySvc!CountAttempt(base.attempts)
             new == [base EXCEPT !.attempts = attempts]
             type == IF base.status = "RESERVED" THEN "inventory.reserved" ELSE "inventory.rejected"
             reason == IF base.status = "RESERVED" THEN "NONE" ELSE base.reason
  <2>1. /\ cmd.type = "inventory.reserve" /\ row.status # "RELEASED"
        /\ reservations' = [reservations EXCEPT ![o] = new]
    BY <1>4 DEF InventorySvc!Reserve
  <2>2. \/ inventoryEvents' = inventoryEvents
        \/ inventoryEvents' = inventoryEvents \cup
             {[order |-> o, cause |-> cmd.id, type |-> type, reason |-> reason]}
    BY <1>4 DEF InventorySvc!Reserve, InventorySvc!Publish, InventorySvc!ReplyTo
  <2>3. mode \in InventoryMode
    BY <1>1, SnapshotType
  <2>4. /\ base \in StockRow /\ base.status \in {"RESERVED", "REJECTED"}
        /\ row.status = "NONE" => ~ base.noop
        /\ row.status # "NONE" => base = row
    <3>1. CASE row.status = "NONE"
      BY <1>1, <2>3, <3>1, ExecuteType
    <3>2. CASE row.status # "NONE"
      BY <1>2, <2>1, <3>2 DEF StockRow
    <3> QED
      BY <3>1, <3>2
  <2> HIDE DEF base
  <2>5. attempts \in 0..2
    BY <2>4 DEF InventorySvc!CountAttempt, StockRow
  <2> HIDE DEF attempts
  <2>6. new \in StockRow /\ new.status = base.status /\ new.noop = base.noop
    BY <2>4, <2>5 DEF StockRow
  <2> HIDE DEF new
  <2>7. reservations' \in [Orders -> StockRow] /\ reservations'[o] = new
    BY <1>1, <1>2, <2>1, <2>6
  <2>8. StockMove(cmd.type, row, new)
    BY <2>1, <2>4, <2>6 DEF StockMove
  <2>9. reason \in Reason /\ reason # "ALREADY_COMPENSATED" /\ type \in StockTypes
    BY <2>4 DEF StockRow, Reason, StockTypes
  <2>10. \A e \in inventoryEvents' :
           e \notin inventoryEvents =>
             e \in Reply(StockTypes) /\ StockSays(e, reservations'[e.order])
    <3>1. /\ type = "inventory.reserved" => base.status = "RESERVED"
          /\ type = "inventory.rejected" => base.status = "REJECTED"
          /\ type # "inventory.released"
      BY <2>4
    <3> HIDE DEF type, reason
    <3> SUFFICES ASSUME NEW e \in inventoryEvents', e \notin inventoryEvents
                 PROVE  e \in Reply(StockTypes) /\ StockSays(e, reservations'[e.order])
      OBVIOUS
    <3>2. e = [order |-> o, cause |-> cmd.id, type |-> type, reason |-> reason]
      BY <2>2
    <3>3. e \in Reply(StockTypes) /\ e.order = o /\ e.type = type /\ e.reason = reason
      BY <1>1, <2>9, <3>2 DEF Reply, Saga!Message
    <3> QED
      BY <2>6, <2>7, <2>9, <3>1, <3>3 DEF StockSays
  <2> QED
    BY <1>1, <1>2, <2>1, <2>7, <2>8, <2>10
<1>5. CASE InventorySvc!Release(cmd)
  <2> DEFINE new == CASE row.status = "NONE" -> InventorySvc!Tombstone
                      [] row.status = "RESERVED" -> [row EXCEPT !.status = "RELEASED", !.noop = FALSE]
                      [] OTHER -> row
  <2>1. /\ cmd.type = "inventory.release"
        /\ reservations' = [reservations EXCEPT ![o] = new]
        /\ inventoryEvents' = inventoryEvents \cup
             {[order |-> o, cause |-> cmd.id, type |-> "inventory.released", reason |-> "NONE"]}
    BY <1>1, <1>2, <1>5 DEF InventorySvc!Release, InventorySvc!Publish, InventorySvc!ReplyTo
  <2>2. /\ new \in StockRow /\ StockMove(cmd.type, row, new)
        /\ new.status \in {"REJECTED", "RELEASED"}
    <3>1. CASE row.status = "NONE"
      BY <1>2, <2>1, <3>1 DEF StockRow, StockMove, InventorySvc!Tombstone,
         InventorySvc!Reservation
    <3>2. CASE row.status = "RESERVED"
      BY <1>2, <2>1, <3>2 DEF StockRow, StockMove
    <3>3. CASE row.status \in {"REJECTED", "RELEASED"}
      BY <1>2, <3>3 DEF StockRow, StockMove
    <3> QED
      BY <1>2, <3>1, <3>2, <3>3 DEF StockRow
  <2> HIDE DEF new
  <2>3. reservations' \in [Orders -> StockRow] /\ reservations'[o] = new
    BY <1>1, <1>2, <2>1, <2>2
  <2> QED
    BY <1>1, <1>2, <2>1, <2>2, <2>3 DEF Reply, StockTypes, StockSays, Reason, Saga!Message
<1> QED
  BY <1>3, <1>4, <1>5 DEF InventoryHandles, InventorySvc!Handle

\* payment.authorize and payment.refund, likewise, the replies kept back included.
LEMMA PaymentHandled ==
    ASSUME Saga!TypeOK, RowsTyped, NEW cmd \in commands, PaymentHandles(cmd)
    PROVE  /\ payments' \in [Orders -> PaymentRow]
           /\ \A o \in Orders : \/ payments'[o] = payments[o]
                                \/ /\ o = cmd.order
                                   /\ PaymentMove(cmd.type, payments[o], payments'[o])
           /\ \A e \in paymentEvents' \cup delayedReplies' :
                e \notin paymentEvents \cup delayedReplies =>
                  e \in Reply(PaymentTypes) /\ PaymentSays(e, payments'[e.order])
<1> DEFINE o == cmd.order
           mode == orders[o].snapshot.payment
           row == payments[o]
<1>1. cmd \in Saga!Message /\ o \in Orders
  BY DEF Saga!TypeOK, Saga!Message
<1>2. payments \in [Orders -> PaymentRow] /\ row \in PaymentRow
  BY <1>1 DEF RowsTyped
<1>3. CASE PaymentSvc!AuthorizeAfterRefund(cmd)
  <2>1. /\ row.status = "REFUNDED" /\ payments' = payments /\ delayedReplies' = delayedReplies
        /\ paymentEvents' = paymentEvents \cup
             {[order |-> o, cause |-> cmd.id, type |-> "payment.failed",
               reason |-> "ALREADY_COMPENSATED"]}
    BY <1>3 DEF PaymentSvc!AuthorizeAfterRefund, PaymentSvc!Publish, PaymentSvc!ReplyTo
  <2> QED
    BY <1>1, <1>2, <2>1 DEF Reply, PaymentTypes, PaymentSays, Reason, Saga!Message
<1>4. CASE PaymentSvc!Authorize(cmd, mode)
  <2> DEFINE base == IF row.status = "NONE" THEN PaymentSvc!Gateway(mode) ELSE row
             attempts == PaymentSvc!CountAttempt(base.attempts)
             new == [base EXCEPT !.attempts = attempts]
             type == IF base.status = "AUTHORIZED" THEN "payment.authorized" ELSE "payment.failed"
             reason == IF base.status = "AUTHORIZED" THEN "NONE" ELSE "DECLINED"
             answer == [order |-> o, cause |-> cmd.id, type |-> type, reason |-> reason]
  <2>1. /\ cmd.type = "payment.authorize" /\ row.status # "REFUNDED"
        /\ payments' = [payments EXCEPT ![o] = new]
    BY <1>4 DEF PaymentSvc!Authorize
  <2>2. paymentEvents' \cup delayedReplies' \subseteq (paymentEvents \cup delayedReplies) \cup {answer}
    <3>1. \/ UNCHANGED <<delayedReplies, paymentEvents>>
          \/ PaymentSvc!Delay(cmd, type, reason)
          \/ PaymentSvc!Publish(cmd, type, reason)
      BY <1>4 DEF PaymentSvc!Authorize
    <3> HIDE DEF type, reason
    <3> QED
      BY <3>1 DEF PaymentSvc!Delay, PaymentSvc!Publish, PaymentSvc!ReplyTo
  <2>3. /\ base \in PaymentRow /\ base.status \in {"AUTHORIZED", "DECLINED"}
        /\ row.status = "NONE" => ~ base.noop
        /\ row.status # "NONE" => base = row
    <3>1. CASE row.status = "NONE"
      BY <3>1 DEF PaymentSvc!Gateway, PaymentSvc!Payment, PaymentRow
    <3>2. CASE row.status # "NONE"
      BY <1>2, <2>1, <3>2 DEF PaymentRow
    <3> QED
      BY <3>1, <3>2
  <2> HIDE DEF base
  <2>4. attempts \in 0..2
    BY <2>3 DEF PaymentSvc!CountAttempt, PaymentRow
  <2> HIDE DEF attempts
  <2>5. new \in PaymentRow /\ new.status = base.status /\ new.noop = base.noop
    BY <2>3, <2>4 DEF PaymentRow
  <2> HIDE DEF new
  <2>6. payments' \in [Orders -> PaymentRow] /\ payments'[o] = new
    BY <1>1, <1>2, <2>1, <2>5
  <2>7. PaymentMove(cmd.type, row, new)
    BY <2>1, <2>3, <2>5 DEF PaymentMove
  <2>8. answer \in Reply(PaymentTypes) /\ PaymentSays(answer, new)
    BY <1>1, <2>3, <2>5 DEF Reply, PaymentTypes, PaymentSays, Reason, Saga!Message
  <2>9. answer.order = o
    OBVIOUS
  <2> HIDE DEF answer
  <2> QED
    BY <1>1, <1>2, <2>1, <2>2, <2>6, <2>7, <2>8, <2>9
<1>5. CASE PaymentSvc!Refund(cmd)
  <2> DEFINE new == CASE row.status = "NONE" -> PaymentSvc!Tombstone
                      [] row.status = "AUTHORIZED" -> [row EXCEPT !.status = "REFUNDED", !.noop = FALSE]
                      [] OTHER -> row
  <2>1. /\ cmd.type = "payment.refund" /\ delayedReplies' = delayedReplies
        /\ payments' = [payments EXCEPT ![o] = new]
        /\ paymentEvents' = paymentEvents \cup
             {[order |-> o, cause |-> cmd.id, type |-> "payment.refunded", reason |-> "NONE"]}
    BY <1>1, <1>2, <1>5 DEF PaymentSvc!Refund, PaymentSvc!Publish, PaymentSvc!ReplyTo
  <2>2. /\ new \in PaymentRow /\ PaymentMove(cmd.type, row, new)
        /\ new.status \in {"DECLINED", "REFUNDED"}
    <3>1. CASE row.status = "NONE"
      BY <1>2, <2>1, <3>1 DEF PaymentRow, PaymentMove, PaymentSvc!Tombstone, PaymentSvc!Payment
    <3>2. CASE row.status = "AUTHORIZED"
      BY <1>2, <2>1, <3>2 DEF PaymentRow, PaymentMove
    <3>3. CASE row.status \in {"DECLINED", "REFUNDED"}
      BY <1>2, <3>3 DEF PaymentRow, PaymentMove
    <3> QED
      BY <1>2, <3>1, <3>2, <3>3 DEF PaymentRow
  <2> HIDE DEF new
  <2>3. payments' \in [Orders -> PaymentRow] /\ payments'[o] = new
    BY <1>1, <1>2, <2>1, <2>2
  <2> QED
    BY <1>1, <1>2, <2>1, <2>2, <2>3 DEF Reply, PaymentTypes, PaymentSays, Reason, Saga!Message
<1> QED
  BY <1>3, <1>4, <1>5 DEF PaymentHandles, PaymentSvc!Handle

\* shipment.create and shipment.cancel, likewise.
LEMMA ShipmentHandled ==
    ASSUME Saga!TypeOK, RowsTyped, NEW cmd \in commands, ShippingHandles(cmd)
    PROVE  /\ shipments' \in [Orders -> ShipmentRow]
           /\ \A o \in Orders : \/ shipments'[o] = shipments[o]
                                \/ /\ o = cmd.order
                                   /\ ShipmentMove(cmd.type, shipments[o], shipments'[o])
           /\ \A e \in shippingEvents' :
                e \notin shippingEvents =>
                  e \in Reply(ShipmentTypes) /\ ShipmentSays(e, shipments'[e.order])
<1> DEFINE o == cmd.order
           mode == orders[o].snapshot.shipping
           row == shipments[o]
<1>1. cmd \in Saga!Message /\ o \in Orders
  BY DEF Saga!TypeOK, Saga!Message
<1>2. shipments \in [Orders -> ShipmentRow] /\ row \in ShipmentRow
  BY <1>1 DEF RowsTyped
<1>3. CASE ShippingSvc!CreateAfterCancel(cmd)
  <2>1. /\ row.status = "CANCELED" /\ shipments' = shipments
        /\ shippingEvents' = shippingEvents \cup
             {[order |-> o, cause |-> cmd.id, type |-> "shipment.failed",
               reason |-> "ALREADY_COMPENSATED"]}
    BY <1>3 DEF ShippingSvc!CreateAfterCancel, ShippingSvc!Publish, ShippingSvc!ReplyTo
  <2> QED
    BY <1>1, <1>2, <2>1 DEF Reply, ShipmentTypes, ShipmentSays, Reason, Saga!Message
<1>4. CASE ShippingSvc!Create(cmd, mode, TRUE)
  <2> DEFINE base == IF row.status = "NONE" THEN ShippingSvc!Carrier(mode, TRUE) ELSE row
             attempts == ShippingSvc!CountAttempt(base.attempts)
             new == [base EXCEPT !.attempts = attempts]
             type == IF base.status = "CREATED" THEN "shipment.created" ELSE "shipment.failed"
             reason == IF base.status = "CREATED" THEN "NONE" ELSE base.reason
             answer == [order |-> o, cause |-> cmd.id, type |-> type, reason |-> reason]
  <2>1. /\ cmd.type = "shipment.create" /\ row.status # "CANCELED"
        /\ shipments' = [shipments EXCEPT ![o] = new]
    BY <1>4 DEF ShippingSvc!Create
  <2>2. shippingEvents' \subseteq shippingEvents \cup {answer}
    BY <1>4 DEF ShippingSvc!Create, ShippingSvc!Publish, ShippingSvc!ReplyTo
  <2>3. /\ base \in ShipmentRow /\ base.status \in {"CREATED", "FAILED"}
        /\ row.status = "NONE" => ~ base.noop
        /\ row.status # "NONE" => base = row
    <3>1. CASE row.status = "NONE"
      BY <3>1 DEF ShippingSvc!Carrier, ShippingSvc!Shipment, ShipmentRow
    <3>2. CASE row.status # "NONE"
      BY <1>2, <2>1, <3>2 DEF ShipmentRow
    <3> QED
      BY <3>1, <3>2
  <2> HIDE DEF base
  <2>4. attempts \in 0..2
    BY <2>3 DEF ShippingSvc!CountAttempt, ShipmentRow
  <2> HIDE DEF attempts
  <2>5. new \in ShipmentRow /\ new.status = base.status /\ new.noop = base.noop
    BY <2>3, <2>4 DEF ShipmentRow
  <2> HIDE DEF new
  <2>6. shipments' \in [Orders -> ShipmentRow] /\ shipments'[o] = new
    BY <1>1, <1>2, <2>1, <2>5
  <2>7. ShipmentMove(cmd.type, row, new)
    BY <2>1, <2>3, <2>5 DEF ShipmentMove
  <2>8. answer \in Reply(ShipmentTypes) /\ ShipmentSays(answer, new)
    BY <1>1, <2>3, <2>5 DEF Reply, ShipmentTypes, ShipmentSays, ShipmentRow, Reason,
       Saga!Message
  <2>9. answer.order = o
    OBVIOUS
  <2> HIDE DEF answer
  <2> QED
    BY <1>1, <1>2, <2>1, <2>2, <2>6, <2>7, <2>8, <2>9
<1>5. CASE ShippingSvc!Cancel(cmd)
  <2> DEFINE new == CASE row.status = "NONE" -> ShippingSvc!Tombstone
                      [] row.status = "CREATED" -> [row EXCEPT !.status = "CANCELED", !.noop = FALSE]
                      [] OTHER -> row
  <2>1. /\ cmd.type = "shipment.cancel"
        /\ shipments' = [shipments EXCEPT ![o] = new]
        /\ shippingEvents' = shippingEvents \cup
             {[order |-> o, cause |-> cmd.id, type |-> "shipment.canceled", reason |-> "NONE"]}
    BY <1>1, <1>2, <1>5 DEF ShippingSvc!Cancel, ShippingSvc!Publish, ShippingSvc!ReplyTo
  <2>2. /\ new \in ShipmentRow /\ ShipmentMove(cmd.type, row, new)
        /\ new.status \in {"FAILED", "CANCELED"}
    <3>1. CASE row.status = "NONE"
      BY <1>2, <2>1, <3>1 DEF ShipmentRow, ShipmentMove, ShippingSvc!Tombstone,
         ShippingSvc!Shipment
    <3>2. CASE row.status = "CREATED"
      BY <1>2, <2>1, <3>2 DEF ShipmentRow, ShipmentMove
    <3>3. CASE row.status \in {"FAILED", "CANCELED"}
      BY <1>2, <3>3 DEF ShipmentRow, ShipmentMove
    <3> QED
      BY <1>2, <3>1, <3>2, <3>3 DEF ShipmentRow
  <2> HIDE DEF new
  <2>3. shipments' \in [Orders -> ShipmentRow] /\ shipments'[o] = new
    BY <1>1, <1>2, <2>1, <2>2
  <2> QED
    BY <1>1, <1>2, <2>1, <2>2, <2>3 DEF Reply, ShipmentTypes, ShipmentSays, Reason, Saga!Message
<1> QED
  BY <1>3, <1>4, <1>5 DEF ShippingHandles, ShippingSvc!Handle

\* order.confirm and order.cancel, likewise.
LEMMA OrderHandled ==
    ASSUME Saga!TypeOK, RowsTyped, NEW cmd \in commands, OrderHandles(cmd)
    PROVE  /\ orders' \in [Orders -> OrderRow]
           /\ \A o \in Orders : \/ orders'[o] = orders[o]
                                \/ /\ o = cmd.order
                                   /\ OrderMove(cmd.type, orders[o], orders'[o])
           /\ \A e \in orderEvents' :
                e \notin orderEvents =>
                  e \in Reply(OrderTypes) /\ OrderSays(e, orders'[e.order])
<1> DEFINE o == cmd.order
           row == orders[o]
<1>1. cmd \in Saga!Message /\ o \in Orders
  BY DEF Saga!TypeOK, Saga!Message
<1>2. orders \in [Orders -> OrderRow] /\ row \in OrderRow /\ row.status # "NONE"
  BY <1>1 DEF RowsTyped, OrderHandles, OrderSvc!Handle, OrderSvc!Confirm, OrderSvc!Cancel
<1>3. ASSUME NEW verdict \in {"CONFIRMED", "CANCELED"}, NEW type \in OrderTypes,
             cmd.type = IF verdict = "CONFIRMED" THEN "order.confirm" ELSE "order.cancel",
             orders' = IF row.status = "PENDING" THEN [orders EXCEPT ![o].status = verdict]
                       ELSE orders,
             orderEvents' = orderEvents \cup
               {[order |-> o, cause |-> cmd.id, type |-> type, reason |-> "NONE"]},
             row.status = "PENDING" => (type = IF verdict = "CONFIRMED" THEN "order.confirmed" ELSE "order.canceled"),
             row.status = "CONFIRMED" => type = "order.confirmed",
             row.status = "CANCELED" => type = "order.canceled"
      PROVE  /\ orders' \in [Orders -> OrderRow]
             /\ \A q \in Orders : \/ orders'[q] = orders[q]
                                  \/ /\ q = cmd.order
                                     /\ OrderMove(cmd.type, orders[q], orders'[q])
             /\ \A e \in orderEvents' :
                  e \notin orderEvents =>
                    e \in Reply(OrderTypes) /\ OrderSays(e, orders'[e.order])
  <2> DEFINE new == IF row.status = "PENDING" THEN [row EXCEPT !.status = verdict] ELSE row
  <2>1. orders' = [orders EXCEPT ![o] = new]
    BY <1>1, <1>2, <1>3
  <2>2. /\ new \in OrderRow /\ OrderMove(cmd.type, row, new)
        /\ new.status = IF type = "order.confirmed" THEN "CONFIRMED" ELSE "CANCELED"
        /\ type \in {"order.confirmed", "order.canceled"}
    <3>1. CASE row.status = "PENDING"
      BY <1>2, <1>3, <3>1 DEF OrderRow, OrderMove
    <3>2. CASE row.status \in {"CONFIRMED", "CANCELED"}
      BY <1>2, <1>3, <3>2 DEF OrderRow, OrderMove
    <3> QED
      BY <1>2, <3>1, <3>2 DEF OrderRow
  <2> HIDE DEF new
  <2>3. orders' \in [Orders -> OrderRow] /\ orders'[o] = new
    BY <1>1, <1>2, <2>1, <2>2
  <2> QED
    BY <1>1, <1>2, <1>3, <2>1, <2>2, <2>3 DEF Reply, OrderTypes, OrderSays, Reason, Saga!Message
<1>4. CASE OrderSvc!Confirm(cmd)
  <2> DEFINE type == IF row.status = "CANCELED" THEN "order.canceled" ELSE "order.confirmed"
  <2>1. /\ cmd.type = "order.confirm"
        /\ orders' = IF row.status = "PENDING" THEN [orders EXCEPT ![o].status = "CONFIRMED"]
                     ELSE orders
        /\ orderEvents' = orderEvents \cup
             {[order |-> o, cause |-> cmd.id, type |-> type, reason |-> "NONE"]}
    BY <1>4 DEF OrderSvc!Confirm, OrderSvc!Publish, OrderSvc!ReplyTo
  <2> QED
    BY <1>3, <2>1 DEF OrderTypes
<1>5. CASE OrderSvc!Cancel(cmd)
  <2> DEFINE type == IF row.status = "CONFIRMED" THEN "order.confirmed" ELSE "order.canceled"
  <2>1. /\ cmd.type = "order.cancel"
        /\ orders' = IF row.status = "PENDING" THEN [orders EXCEPT ![o].status = "CANCELED"]
                     ELSE orders
        /\ orderEvents' = orderEvents \cup
             {[order |-> o, cause |-> cmd.id, type |-> type, reason |-> "NONE"]}
    BY <1>5 DEF OrderSvc!Cancel, OrderSvc!Publish, OrderSvc!ReplyTo
  <2> QED
    BY <1>3, <2>1 DEF OrderTypes
<1> QED
  BY <1>4, <1>5 DEF OrderHandles, OrderSvc!Handle

-----------------------------------------------------------------------------
(* What one step does to one order: it moves one of its rows, or its saga. *)

StockAdvances(o) ==
    /\ \E type \in Told(o) : StockMove(type, reservations[o], reservations'[o])
    /\ UNCHANGED <<orders[o], payments[o], shipments[o]>>

PaymentAdvances(o) ==
    /\ \E type \in Told(o) : PaymentMove(type, payments[o], payments'[o])
    /\ UNCHANGED <<orders[o], reservations[o], shipments[o]>>

ShipmentAdvances(o) ==
    /\ \E type \in Told(o) : ShipmentMove(type, shipments[o], shipments'[o])
    /\ UNCHANGED <<orders[o], reservations[o], payments[o]>>

OrderAdvances(o) ==
    /\ \/ \E type \in Told(o) : OrderMove(type, orders[o], orders'[o])
       \/ /\ orders[o].status = "NONE" /\ orders'[o].status = "PENDING"
          /\ orders'[o].snapshot \in Snapshots
    /\ UNCHANGED <<reservations[o], payments[o], shipments[o]>>

RowsStay(o) == UNCHANGED <<orders[o], reservations[o], payments[o], shipments[o]>>

RowAdvances(o) ==
    /\ saga'[o] = saga[o] /\ Told(o)' = Told(o)
    /\ RowsStay(o) \/ StockAdvances(o) \/ PaymentAdvances(o) \/ ShipmentAdvances(o) \/ OrderAdvances(o)

\* Why the saga of o may go from s to t: what a participant did, or a timeout,
\* which only leads from an action to its own compensation.
Grounds(o, s, t) ==
    /\ s.status = "NONE" => /\ orders[o].status # "NONE"
                            /\ t.physical = orders[o].snapshot.physical
    /\ t.status = "AUTHORIZING_PAYMENT" => reservations[o].status \in {"RESERVED", "RELEASED"}
    /\ s.status = "AUTHORIZING_PAYMENT" /\ t.status \in {"CREATING_SHIPMENT", "CONFIRMING_ORDER"} =>
         /\ payments[o].status \in {"AUTHORIZED", "REFUNDED"}
         /\ t.physical = (t.status = "CREATING_SHIPMENT")
    /\ s.status = "CREATING_SHIPMENT" /\ t.status = "CONFIRMING_ORDER" =>
         shipments[o].status \in {"CREATED", "CANCELED"}
    /\ s.status \in {"CREATING_SHIPMENT", "CANCELING_SHIPMENT"} /\ t.status = "REFUNDING_PAYMENT" =>
         shipments[o].status \in {"FAILED", "CANCELED"}
    /\ s.status \in {"AUTHORIZING_PAYMENT", "REFUNDING_PAYMENT"} /\ t.status = "RELEASING_INVENTORY" =>
         payments[o].status \in {"DECLINED", "REFUNDED"}
    /\ t.status = "CANCELING_ORDER" => reservations[o].status \in {"REJECTED", "RELEASED"}
    /\ t.status = "COMPLETED" => orders[o].status = "CONFIRMED"
    /\ t.status = "CANCELED" => orders[o].status = "CANCELED"

SagaAdvances(o) ==
    /\ RowsStay(o)
    /\ \/ /\ Saga!Moves(saga[o], saga'[o]) /\ Saga!Learns(saga[o], saga'[o])
          /\ Grounds(o, saga[o], saga'[o])
          /\ Told(o)' = Told(o) \cup (IF saga'[o].status \in Saga!ActiveStatus
                                        THEN {Saga!CommandType(saga'[o].status)} ELSE {})
       \/ Saga!Stays(saga[o], saga'[o]) /\ Told(o)' = Told(o)

\* What any reply on its way to the coordinator says, whoever published it.
LEMMA EventsSpeak ==
    ASSUME EventsTyped, RepliesTrue, NEW e \in Events
    PROVE  /\ e.order \in Orders
           /\ e.type = "order.created" => orders[e.order].status # "NONE"
           /\ e.type = "order.confirmed" => orders[e.order].status = "CONFIRMED"
           /\ e.type = "order.canceled" => orders[e.order].status = "CANCELED"
           /\ e.type = "inventory.reserved" => reservations[e.order].status \in {"RESERVED", "RELEASED"}
           /\ e.type \in {"inventory.rejected", "inventory.released"} =>
                reservations[e.order].status \in {"REJECTED", "RELEASED"}
           /\ e.type = "payment.authorized" => payments[e.order].status \in {"AUTHORIZED", "REFUNDED"}
           /\ e.type \in {"payment.failed", "payment.refunded"} =>
                payments[e.order].status \in {"DECLINED", "REFUNDED"}
           /\ e.type = "shipment.created" => shipments[e.order].status \in {"CREATED", "CANCELED"}
           /\ e.type \in {"shipment.failed", "shipment.canceled"} =>
                shipments[e.order].status \in {"FAILED", "CANCELED"}
<1>1. CASE e \in orderEvents
  BY <1>1 DEF EventsTyped, RepliesTrue, Reply, OrderTypes, OrderSays
<1>2. CASE e \in inventoryEvents
  BY <1>2 DEF EventsTyped, RepliesTrue, Reply, StockTypes, StockSays
<1>3. CASE e \in paymentEvents
  BY <1>3 DEF EventsTyped, RepliesTrue, Reply, PaymentTypes, PaymentSays
<1>4. CASE e \in shippingEvents
  BY <1>4 DEF EventsTyped, RepliesTrue, Reply, ShipmentTypes, ShipmentSays
<1> QED
  BY <1>1, <1>2, <1>3, <1>4 DEF Events

\* An accepted reply leads where the table says.
LEMMA ReplyStatus ==
    ASSUME NEW s \in Saga!Saga, NEW type \in Saga!Expects(s.status)
    PROVE  /\ Saga!OnReply(s, type).status = Saga!StatusAfter(type, s.physical)
           /\ Saga!OnReply(s, type).physical = s.physical
<1> DEFINE t == [s EXCEPT
                   !.failedStep = IF type \in Saga!FailureTypes THEN Saga!StepOf(s.status) ELSE @,
                   !.paymentId  = @ \/ type = "payment.authorized",
                   !.shipmentId = @ \/ type = "shipment.created"]
           next == Saga!StatusAfter(type, s.physical)
<1>1. Saga!OnReply(s, type) =
        IF next \in Saga!TerminalStatus THEN Saga!Finish(t, next) ELSE Saga!Enter(t, next)
  BY DEF Saga!OnReply
<1>2. t \in Saga!Saga /\ t.physical = s.physical
  BY Saga!StepOfType, CoordinatorAssumed DEF Saga!Saga
<1> HIDE DEF t, next
<1>3. /\ Saga!Finish(t, next).status = next /\ Saga!Finish(t, next).physical = t.physical
      /\ Saga!Enter(t, next).status = next /\ Saga!Enter(t, next).physical = t.physical
  BY <1>2 DEF Saga!Finish, Saga!Enter, Saga!Saga
<1> QED
  BY <1>1, <1>2, <1>3 DEF next

\* A tick leaves a row in its state or compensates the action it gave up.
LEMMA TickStatus ==
    ASSUME NEW s \in Saga!Saga
    PROVE  \/ Saga!OnTick(s).status = s.status
           \/ /\ s.status \in Saga!ActionStatus
              /\ Saga!OnTick(s).status = Saga!CompensationOnTimeout(s.status)
<1>1. Saga!Retried(s).status = s.status
  BY DEF Saga!Retried, Saga!Saga
<1>2. CASE Saga!Exhausted(s)
  <2> DEFINE f == [s EXCEPT !.failedStep = Saga!StepOf(s.status)]
             next == Saga!CompensationOnTimeout(s.status)
  <2>1. f \in Saga!Saga
    BY Saga!StepOfType, CoordinatorAssumed DEF Saga!Saga
  <2>2. Saga!TimedOut(s) = Saga!Enter(f, next)
    BY <1>2 DEF Saga!TimedOut
  <2> HIDE DEF f, next
  <2>3. Saga!Enter(f, next).status = next
    BY <2>1 DEF Saga!Enter, Saga!Saga
  <2> QED
    BY <1>1, <1>2, <2>2, <2>3 DEF Saga!OnTick, Saga!Exhausted, next
<1>3. CASE ~ Saga!Exhausted(s)
  <2>1. Saga!TimedOut(s).status = s.status
    BY <1>3 DEF Saga!TimedOut, Saga!Saga
  <2> QED
    BY <1>1, <2>1 DEF Saga!OnTick
<1> QED
  BY <1>2, <1>3

\* A reply the coordinator accepts is ground enough for where it leads.
LEMMA ReplyGrounds ==
    ASSUME EventsTyped, RepliesTrue, NEW e \in Events, NEW s \in Saga!Saga,
           e.type \in Saga!Expects(s.status)
    PROVE  Grounds(e.order, s, Saga!OnReply(s, e.type))
<1> DEFINE o == e.order
           type == e.type
           t == Saga!OnReply(s, type)
<1>1. t.status = Saga!StatusAfter(type, s.physical) /\ t.physical = s.physical /\ s.physical \in BOOLEAN
  BY ReplyStatus DEF Saga!Saga
<1> HIDE DEF t
<1>2. /\ type = "order.confirmed" => orders[o].status = "CONFIRMED"
      /\ type = "order.canceled" => orders[o].status = "CANCELED"
      /\ type = "inventory.reserved" => reservations[o].status \in {"RESERVED", "RELEASED"}
      /\ type \in {"inventory.rejected", "inventory.released"} =>
           reservations[o].status \in {"REJECTED", "RELEASED"}
      /\ type = "payment.authorized" => payments[o].status \in {"AUTHORIZED", "REFUNDED"}
      /\ type \in {"payment.failed", "payment.refunded"} =>
           payments[o].status \in {"DECLINED", "REFUNDED"}
      /\ type = "shipment.created" => shipments[o].status \in {"CREATED", "CANCELED"}
      /\ type \in {"shipment.failed", "shipment.canceled"} =>
           shipments[o].status \in {"FAILED", "CANCELED"}
  BY EventsSpeak
<1>3. s.status \in Saga!ActiveStatus \cup Saga!TerminalStatus \cup {"NONE"}
  BY DEF Saga!Saga
<1> HIDE DEF o, type
<1>4. type \in Saga!Expects(s.status)
  BY DEF type
<1>5. CASE s.status = "RESERVING_INVENTORY"
  BY <1>1, <1>2, <1>4, <1>5 DEF Saga!Expects, Saga!StatusAfter, Saga!AfterSuccess,
     Saga!AfterFailure,
     Saga!FailureTypes, Saga!CompensationTypes, Grounds, t, o, type
<1>6. CASE s.status = "AUTHORIZING_PAYMENT"
  BY <1>1, <1>2, <1>4, <1>6 DEF Saga!Expects, Saga!StatusAfter, Saga!AfterSuccess,
     Saga!AfterFailure,
     Saga!FailureTypes, Saga!CompensationTypes, Grounds, t, o, type
<1>7. CASE s.status = "CREATING_SHIPMENT"
  BY <1>1, <1>2, <1>4, <1>7 DEF Saga!Expects, Saga!StatusAfter, Saga!AfterSuccess,
     Saga!AfterFailure,
     Saga!FailureTypes, Saga!CompensationTypes, Grounds, t, o, type
<1>8. CASE s.status \in Saga!CompensationStatus
  BY <1>1, <1>2, <1>4, <1>8 DEF Saga!Expects, Saga!StatusAfter, Saga!AfterCompensation,
     Saga!FailureTypes, Saga!CompensationTypes, Saga!CompensationStatus, Grounds, t, o, type
<1>9. CASE s.status \in Saga!FinalizationStatus
  BY <1>1, <1>2, <1>4, <1>9 DEF Saga!Expects, Saga!StatusAfter, Saga!AfterSuccess,
     Saga!AfterCompensation,
     Saga!FailureTypes, Saga!CompensationTypes, Saga!FinalizationStatus, Grounds, t, o, type
<1>10. CASE s.status \notin Saga!ActiveStatus
  BY <1>3, <1>4, <1>10, Saga!ExpectsType, CoordinatorAssumed
<1> QED
  BY <1>3, <1>5, <1>6, <1>7, <1>8, <1>9, <1>10 DEF Saga!ActiveStatus, Saga!ActionStatus, t, o,
     type

\* A compensation for lack of time needs no ground but the action it undoes.
LEMMA TickGrounds ==
    ASSUME NEW o, NEW s \in Saga!Saga, Saga!OnTick(s).status # s.status
    PROVE  Grounds(o, s, Saga!OnTick(s))
<1> DEFINE t == Saga!OnTick(s)
<1>1. s.status \in Saga!ActionStatus /\ t.status = Saga!CompensationOnTimeout(s.status)
  BY TickStatus
<1> HIDE DEF t
<1> QED
  BY <1>1 DEF Saga!ActionStatus, Saga!CompensationOnTimeout, Grounds, t

\* The types of the commands sent for an order, from the commands sent for it.
LEMMA ToldOf == \A o : Told(o) = {c.type : c \in Saga!Of(o)} /\ Told(o)' = {c.type : c \in Saga!Of(o)'}
BY DEF Told, Saga!Types, Saga!Of

\* A step of the coordinator with good grounds advances the saga of the order.
LEMMA SagaStep ==
    ASSUME Saga!CommandInv, NEW o \in Orders, RowsStay(o), Saga!RowStep(o),
           saga'[o].status # saga[o].status => Grounds(o, saga[o], saga'[o])
    PROVE  SagaAdvances(o)
<1> DEFINE s == saga[o]
           t == saga'[o]
<1>1. s.status \in Saga!ActiveStatus => Saga!CommandOf(o, s) \in Saga!Of(o)
  BY DEF Saga!CommandInv, Saga!CommandPerState, Saga!Of, Saga!CommandOf
<1>2. CASE /\ Saga!Moves(s, t) /\ Saga!Learns(s, t)
           /\ Saga!Of(o)' = Saga!Of(o) \cup (IF t.status \in Saga!ActiveStatus
                                               THEN {Saga!CommandOf(o, t)} ELSE {})
  <2>1. t.status # s.status
    BY <1>2 DEF Saga!Moves, Saga!Successors
  <2>2. Saga!CommandOf(o, t).type = Saga!CommandType(t.status)
    BY DEF Saga!CommandOf
  <2>3. Told(o)' = Told(o) \cup (IF t.status \in Saga!ActiveStatus
                                   THEN {Saga!CommandType(t.status)} ELSE {})
    BY <1>2, <2>2, ToldOf
  <2> QED
    BY <1>2, <2>1, <2>3 DEF SagaAdvances
<1>3. CASE /\ Saga!Stays(s, t)
           /\ \/ Saga!Of(o)' = Saga!Of(o)
              \/ s.status \in Saga!ActiveStatus /\ Saga!Of(o)' = Saga!Of(o) \cup {Saga!CommandOf(o, s)}
  <2>1. Saga!Of(o)' = Saga!Of(o)
    BY <1>1, <1>3
  <2>2. Told(o)' = Told(o)
    BY <2>1, ToldOf
  <2> QED
    BY <1>3, <2>2 DEF SagaAdvances
<1> QED
  BY <1>2, <1>3 DEF Saga!RowStep

\* Each step of the checkout advances each order in one of these ways, or not at all.
LEMMA StepOfOrder ==
    ASSUME CheckoutInv, [Next]_vars, NEW o \in Orders
    PROVE  RowAdvances(o) \/ SagaAdvances(o)
<1> USE DEF CheckoutInv
<1>1. Saga!TypeOK /\ saga[o] \in Saga!Saga
  BY DEF Saga!CommandInv, Saga!TypeOK
<1>2. Saga!RowStep(o)
  BY <1>1, CoordinatorStep, CoordinatorAssumed, Saga!StepOfRow
<1>3. ASSUME UNCHANGED coordinatorVars PROVE saga'[o] = saga[o] /\ Told(o)' = Told(o)
  BY <1>3 DEF coordinatorVars, Told, Saga!Types
<1>4. ASSUME NEW q \in Orders, NEW snapshot \in Snapshots, PlaceOrder(q, snapshot)
      PROVE  RowAdvances(o)
  <2>1. /\ orders[q].status = "NONE"
        /\ orders' = [orders EXCEPT ![q] = [status |-> "PENDING", snapshot |-> snapshot]]
        /\ UNCHANGED <<coordinatorVars, reservations, payments, shipments>>
        /\ orders \in [Orders -> OrderRow]
    BY <1>4 DEF PlaceOrder, OrderSvc!Insert, participantVars, inventoryVars, paymentVars,
       shippingVars, RowsTyped
  <2>2. UNCHANGED <<reservations[o], payments[o], shipments[o]>>
    BY <2>1
  <2>3. CASE o = q
    BY <1>3, <2>1, <2>2, <2>3 DEF RowAdvances, OrderAdvances
  <2>4. CASE o # q
    BY <1>3, <2>1, <2>2, <2>4 DEF RowAdvances, RowsStay
  <2> QED
    BY <2>3, <2>4
<1>5. ASSUME NEW cmd \in commands, OrderHandles(cmd) PROVE RowAdvances(o)
  <2>1. UNCHANGED coordinatorVars /\ UNCHANGED <<reservations[o], payments[o], shipments[o]>>
    BY <1>5 DEF OrderHandles, participantVars, inventoryVars, paymentVars, shippingVars
  <2>2. \/ orders'[o] = orders[o]
        \/ o = cmd.order /\ OrderMove(cmd.type, orders[o], orders'[o])
    BY <1>1, <1>5, OrderHandled
  <2>3. o = cmd.order => cmd.type \in Told(o)
    BY DEF Told, Saga!Types
  <2> QED
    BY <1>3, <2>1, <2>2, <2>3 DEF RowAdvances, OrderAdvances, RowsStay
<1>6. ASSUME NEW cmd \in commands, InventoryHandles(cmd) PROVE RowAdvances(o)
  <2>1. UNCHANGED coordinatorVars /\ UNCHANGED <<orders[o], payments[o], shipments[o]>>
    BY <1>6 DEF InventoryHandles, orderVars, paymentVars, shippingVars
  <2>2. \/ reservations'[o] = reservations[o]
        \/ o = cmd.order /\ StockMove(cmd.type, reservations[o], reservations'[o])
    BY <1>1, <1>6, StockHandled
  <2>3. o = cmd.order => cmd.type \in Told(o)
    BY DEF Told, Saga!Types
  <2> QED
    BY <1>3, <2>1, <2>2, <2>3 DEF RowAdvances, StockAdvances, RowsStay
<1>7. ASSUME NEW cmd \in commands, PaymentHandles(cmd) PROVE RowAdvances(o)
  <2>1. UNCHANGED coordinatorVars /\ UNCHANGED <<orders[o], reservations[o], shipments[o]>>
    BY <1>7 DEF PaymentHandles, orderVars, inventoryVars, shippingVars
  <2>2. \/ payments'[o] = payments[o]
        \/ o = cmd.order /\ PaymentMove(cmd.type, payments[o], payments'[o])
    BY <1>1, <1>7, PaymentHandled
  <2>3. o = cmd.order => cmd.type \in Told(o)
    BY DEF Told, Saga!Types
  <2> QED
    BY <1>3, <2>1, <2>2, <2>3 DEF RowAdvances, PaymentAdvances, RowsStay
<1>8. ASSUME NEW cmd \in commands, ShippingHandles(cmd) PROVE RowAdvances(o)
  <2>1. UNCHANGED coordinatorVars /\ UNCHANGED <<orders[o], reservations[o], payments[o]>>
    BY <1>8 DEF ShippingHandles, orderVars, inventoryVars, paymentVars
  <2>2. \/ shipments'[o] = shipments[o]
        \/ o = cmd.order /\ ShipmentMove(cmd.type, shipments[o], shipments'[o])
    BY <1>1, <1>8, ShipmentHandled
  <2>3. o = cmd.order => cmd.type \in Told(o)
    BY DEF Told, Saga!Types
  <2> QED
    BY <1>3, <2>1, <2>2, <2>3 DEF RowAdvances, ShipmentAdvances, RowsStay
<1>9. ASSUME NEW due \in SUBSET delayedReplies, PaymentPoller(due) PROVE RowAdvances(o)
  BY <1>3, <1>9 DEF PaymentPoller, PaymentSvc!PublishDue, orderVars, inventoryVars,
     shippingVars,
                    RowAdvances, RowsStay
<1>10. ASSUME UNCHANGED <<orderVars, participantVars>> PROVE RowsStay(o)
  BY <1>10 DEF orderVars, participantVars, inventoryVars, paymentVars, shippingVars, RowsStay
<1>11. ASSUME NEW q \in Orders, NEW s, Saga!Commit(q, s), o # q PROVE saga'[o] = saga[o]
  BY <1>1, <1>11 DEF Saga!Commit, Saga!TypeOK
<1>12. ASSUME NEW e \in Events, SagaHandles(e) PROVE RowAdvances(o) \/ SagaAdvances(o)
  <2> DEFINE q == e.order
  <2>1. q \in Orders /\ RowsStay(o)
    BY <1>10, <1>12, EventsSpeak DEF SagaHandles
  <2>2. CASE /\ e.type = "order.created" /\ saga[q].status = "NONE"
             /\ Saga!Start(q, orders[q].snapshot.physical)
    <3> DEFINE t == Saga!Enter([Saga!NoSaga EXCEPT !.physical = orders[q].snapshot.physical],
                               "RESERVING_INVENTORY")
    <3>1. Saga!Commit(q, t)
      BY <2>2 DEF Saga!Start
    <3>2. t.status = "RESERVING_INVENTORY" /\ t.physical = orders[q].snapshot.physical
      BY DEF Saga!Enter, Saga!NoSaga
    <3> HIDE DEF t
    <3>3. CASE o = q
      <4>1. saga'[o] = t
        BY <1>1, <2>1, <3>1, <3>3 DEF Saga!Commit, Saga!TypeOK
      <4>2. orders[o].status # "NONE"
        BY <2>2, <3>3, EventsSpeak
      <4>3. Grounds(o, saga[o], saga'[o])
        BY <2>2, <3>2, <3>3, <4>1, <4>2 DEF Grounds
      <4> QED
        BY <1>2, <2>1, <4>3, SagaStep
    <3>4. CASE o # q
      BY <1>2, <1>11, <2>1, <3>1, <3>4, SagaStep
    <3> QED
      BY <3>3, <3>4
  <2>3. CASE Saga!AcceptReply(q, e.cause, e.type)
    <3> DEFINE t == Saga!OnReply(saga[q], e.type)
    <3>1. Saga!Commit(q, t) /\ e.type \in Saga!Expects(saga[q].status)
      BY <2>3 DEF Saga!AcceptReply, Saga!Accepts
    <3>2. CASE o = q
      <4>1. saga'[o] = t
        BY <1>1, <2>1, <3>1, <3>2 DEF Saga!Commit, Saga!TypeOK
      <4>2. Grounds(o, saga[o], saga'[o])
        BY <1>1, <3>1, <3>2, <4>1, ReplyGrounds
      <4> QED
        BY <1>2, <2>1, <4>2, SagaStep
    <3>3. CASE o # q
      <4> HIDE DEF t
      <4> QED
        BY <1>2, <1>11, <2>1, <3>1, <3>3, SagaStep
    <3> QED
      BY <3>2, <3>3
  <2>4. CASE UNCHANGED coordinatorVars
    BY <1>3, <2>1, <2>4 DEF RowAdvances
  <2> QED
    BY <1>12, <2>2, <2>3, <2>4, SameActions
    DEF SagaHandles, Coordinator!IgnoreLateReply, Coordinator!vars, coordinatorVars
<1>13. ASSUME NEW i \in Instances, NEW q \in Orders, Tick(i, q) PROVE SagaAdvances(o)
  <2> DEFINE t == Saga!OnTick(saga[q])
  <2>1. Saga!Commit(q, t) /\ RowsStay(o)
    BY <1>10, <1>13, SameActions DEF Tick, Saga!Tick
  <2>2. CASE o = q
    <3>1. saga'[o] = t
      BY <1>1, <2>1, <2>2 DEF Saga!Commit, Saga!TypeOK
    <3>2. saga'[o].status # saga[o].status => Grounds(o, saga[o], saga'[o])
      BY <1>1, <2>2, <3>1, TickGrounds
    <3> QED
      BY <1>2, <2>1, <3>2, SagaStep
  <2>3. CASE o # q
    <3> HIDE DEF t
    <3> QED
      BY <1>2, <1>11, <2>1, <2>3, SagaStep
  <2> QED
    BY <2>2, <2>3
<1>14. ASSUME NEW q \in Orders, Clock(q) PROVE SagaAdvances(o)
  <2>1. Saga!TimerExpires(q)
    BY <1>14, SameActions DEF Clock
  <2>2. saga'[o].status = saga[o].status
    BY <1>1, <2>1 DEF Saga!TimerExpires, Saga!TypeOK, Saga!Saga
  <2> QED
    BY <1>2, <1>10, <1>14, <2>2, SagaStep DEF Clock
<1>15. ASSUME NEW i \in Instances, Restart(i) \/ Resume(i) PROVE SagaAdvances(o)
  <2>1. RowsStay(o)
    BY <1>10, <1>15 DEF Restart, Resume
  <2>2. CASE Restart(i)
    BY <1>2, <2>1, <2>2, SagaStep, SameActions DEF Restart, Saga!Restart
  <2>3. ASSUME NEW skipped \in SUBSET Orders, Saga!Resume(i, skipped) PROVE SagaAdvances(o)
    <3>1. saga'[o].status = saga[o].status
      BY <1>1, <2>3 DEF Saga!Resume, Saga!ResumeAfterRestart, Saga!Saga
    <3> QED
      BY <1>2, <2>1, <3>1, SagaStep
  <2> QED
    BY <1>15, <2>2, <2>3, SameActions DEF Resume
<1>16. CASE UNCHANGED vars
  BY <1>3, <1>10, <1>16 DEF vars, RowAdvances
<1> QED
  BY <1>4, <1>5, <1>6, <1>7, <1>8, <1>9, <1>12, <1>13, <1>14, <1>15, <1>16 DEF Next

-----------------------------------------------------------------------------
(* The inductive invariant.                                                *)

\* What a row justified it justifies for ever: rows only move forward.
LEMMA TruthLasts ==
    /\ \A type, s, t, e : StockMove(type, s, t) /\ StockSays(e, s) => StockSays(e, t)
    /\ \A type, s, t, e : PaymentMove(type, s, t) /\ PaymentSays(e, s) => PaymentSays(e, t)
    /\ \A type, s, t, e : ShipmentMove(type, s, t) /\ ShipmentSays(e, s) => ShipmentSays(e, t)
    /\ \A type, s, t, e : OrderMove(type, s, t) /\ OrderSays(e, s) => OrderSays(e, t)
<1>1. \A type, s, t, e : StockMove(type, s, t) /\ StockSays(e, s) => StockSays(e, t)
  BY DEF StockMove, StockSays
<1>2. \A type, s, t, e : PaymentMove(type, s, t) /\ PaymentSays(e, s) => PaymentSays(e, t)
  BY DEF PaymentMove, PaymentSays
<1>3. \A type, s, t, e : ShipmentMove(type, s, t) /\ ShipmentSays(e, s) => ShipmentSays(e, t)
  BY DEF ShipmentMove, ShipmentSays
<1>4. \A type, s, t, e : OrderMove(type, s, t) /\ OrderSays(e, s) => OrderSays(e, t)
  BY DEF OrderMove, OrderSays
<1> QED
  BY <1>1, <1>2, <1>3, <1>4

\* Every handler leaves well-typed rows and publishes replies that are true of them.
LEMMA RowsStep ==
    ASSUME CheckoutInv, [Next]_vars
    PROVE  RowsTyped' /\ EventsTyped' /\ RepliesTrue'
<1> USE DEF CheckoutInv
<1>1. Saga!TypeOK
  BY DEF Saga!CommandInv
<1>2. /\ orders \in [Orders -> OrderRow] /\ reservations \in [Orders -> StockRow]
      /\ payments \in [Orders -> PaymentRow] /\ shipments \in [Orders -> ShipmentRow]
      /\ orderEvents \subseteq Reply(OrderTypes) /\ inventoryEvents \subseteq Reply(StockTypes)
      /\ paymentEvents \cup delayedReplies \subseteq Reply(PaymentTypes)
      /\ shippingEvents \subseteq Reply(ShipmentTypes)
  BY DEF RowsTyped, EventsTyped
<1>3. /\ \A e \in orderEvents : e.order \in Orders /\ OrderSays(e, orders[e.order])
      /\ \A e \in inventoryEvents : e.order \in Orders /\ StockSays(e, reservations[e.order])
      /\ \A e \in paymentEvents \cup delayedReplies :
           e.order \in Orders /\ PaymentSays(e, payments[e.order])
      /\ \A e \in shippingEvents : e.order \in Orders /\ ShipmentSays(e, shipments[e.order])
  BY <1>2 DEF RepliesTrue, Reply
<1>4. ASSUME NEW q \in Orders, NEW snapshot \in Snapshots, PlaceOrder(q, snapshot)
      PROVE  RowsTyped' /\ EventsTyped' /\ RepliesTrue'
  <2> DEFINE new == [status |-> "PENDING", snapshot |-> snapshot]
             created == [order |-> q, cause |-> 0, type |-> "order.created", reason |-> "NONE"]
  <2>1. /\ orders[q].status = "NONE"
        /\ orders' = [orders EXCEPT ![q] = new]
        /\ orderEvents' = orderEvents \cup {created}
        /\ UNCHANGED participantVars
    BY <1>4 DEF PlaceOrder, OrderSvc!Insert, OrderSvc!Publish, OrderSvc!ReplyTo
  <2>2. new \in OrderRow /\ created \in Reply(OrderTypes)
    BY DEF OrderRow, Reply, OrderTypes, Reason
  <2>3. OrderSays(created, new) /\ created.order = q
    BY DEF OrderSays
  <2>4. \A e : OrderSays(e, orders[q]) => OrderSays(e, new)
    BY <2>1 DEF OrderSays
  <2> HIDE DEF new, created
  <2>5. orders' \in [Orders -> OrderRow] /\ orderEvents' \subseteq Reply(OrderTypes)
    BY <1>2, <2>1, <2>2
  <2>6. \A e \in orderEvents' : OrderSays(e, orders'[e.order])
    BY <1>2, <1>3, <2>1, <2>3, <2>4
  <2> QED
    BY <1>2, <1>3, <2>1, <2>5, <2>6
    DEF RowsTyped, EventsTyped, RepliesTrue, participantVars, inventoryVars, paymentVars, shippingVars
<1>5. ASSUME NEW cmd \in commands, OrderHandles(cmd)
      PROVE  RowsTyped' /\ EventsTyped' /\ RepliesTrue'
  <2>1. /\ orders' \in [Orders -> OrderRow]
        /\ \A o \in Orders : \/ orders'[o] = orders[o]
                             \/ OrderMove(cmd.type, orders[o], orders'[o])
        /\ \A e \in orderEvents' :
             e \notin orderEvents => e \in Reply(OrderTypes) /\ OrderSays(e, orders'[e.order])
    BY <1>1, <1>5, OrderHandled
  <2>2. \A e \in orderEvents' : e \in Reply(OrderTypes) /\ OrderSays(e, orders'[e.order])
    BY <1>2, <1>3, <2>1, TruthLasts
  <2> QED
    BY <1>2, <1>3, <1>5, <2>1, <2>2
    DEF OrderHandles, RowsTyped, EventsTyped, RepliesTrue, participantVars, inventoryVars, paymentVars, shippingVars
<1>6. ASSUME NEW cmd \in commands, InventoryHandles(cmd)
      PROVE  RowsTyped' /\ EventsTyped' /\ RepliesTrue'
  <2>1. /\ reservations' \in [Orders -> StockRow]
        /\ \A o \in Orders : \/ reservations'[o] = reservations[o]
                             \/ StockMove(cmd.type, reservations[o], reservations'[o])
        /\ \A e \in inventoryEvents' :
             e \notin inventoryEvents =>
               e \in Reply(StockTypes) /\ StockSays(e, reservations'[e.order])
    BY <1>1, <1>6, StockHandled
  <2>2. \A e \in inventoryEvents' : e \in Reply(StockTypes) /\ StockSays(e, reservations'[e.order])
    BY <1>2, <1>3, <2>1, TruthLasts
  <2> QED
    BY <1>2, <1>3, <1>6, <2>1, <2>2
    DEF InventoryHandles, RowsTyped, EventsTyped, RepliesTrue, orderVars, paymentVars, shippingVars
<1>7. ASSUME NEW cmd \in commands, PaymentHandles(cmd)
      PROVE  RowsTyped' /\ EventsTyped' /\ RepliesTrue'
  <2>1. /\ payments' \in [Orders -> PaymentRow]
        /\ \A o \in Orders : \/ payments'[o] = payments[o]
                             \/ PaymentMove(cmd.type, payments[o], payments'[o])
        /\ \A e \in paymentEvents' \cup delayedReplies' :
             e \notin paymentEvents \cup delayedReplies =>
               e \in Reply(PaymentTypes) /\ PaymentSays(e, payments'[e.order])
    BY <1>1, <1>7, PaymentHandled
  <2>2. \A e \in paymentEvents' \cup delayedReplies' :
          e \in Reply(PaymentTypes) /\ PaymentSays(e, payments'[e.order])
    BY <1>2, <1>3, <2>1, TruthLasts
  <2> QED
    BY <1>2, <1>3, <1>7, <2>1, <2>2
    DEF PaymentHandles, RowsTyped, EventsTyped, RepliesTrue, orderVars, inventoryVars, shippingVars
<1>8. ASSUME NEW cmd \in commands, ShippingHandles(cmd)
      PROVE  RowsTyped' /\ EventsTyped' /\ RepliesTrue'
  <2>1. /\ shipments' \in [Orders -> ShipmentRow]
        /\ \A o \in Orders : \/ shipments'[o] = shipments[o]
                             \/ ShipmentMove(cmd.type, shipments[o], shipments'[o])
        /\ \A e \in shippingEvents' :
             e \notin shippingEvents =>
               e \in Reply(ShipmentTypes) /\ ShipmentSays(e, shipments'[e.order])
    BY <1>1, <1>8, ShipmentHandled
  <2>2. \A e \in shippingEvents' : e \in Reply(ShipmentTypes) /\ ShipmentSays(e, shipments'[e.order])
    BY <1>2, <1>3, <2>1, TruthLasts
  <2> QED
    BY <1>2, <1>3, <1>8, <2>1, <2>2
    DEF ShippingHandles, RowsTyped, EventsTyped, RepliesTrue, orderVars, inventoryVars, paymentVars
<1>9. ASSUME NEW due \in SUBSET delayedReplies, PaymentPoller(due)
      PROVE  RowsTyped' /\ EventsTyped' /\ RepliesTrue'
  <2>1. /\ UNCHANGED <<orders, reservations, payments, shipments, orderEvents, inventoryEvents, shippingEvents>>
        /\ paymentEvents' \cup delayedReplies' \subseteq paymentEvents \cup delayedReplies
    BY <1>9 DEF PaymentPoller, PaymentSvc!PublishDue, orderVars, inventoryVars, shippingVars
  <2> QED
    BY <1>2, <1>3, <2>1 DEF RowsTyped, EventsTyped, RepliesTrue
<1>10. ASSUME UNCHANGED <<orderVars, participantVars>>
       PROVE  RowsTyped' /\ EventsTyped' /\ RepliesTrue'
  BY <1>2, <1>3, <1>10
  DEF RowsTyped, EventsTyped, RepliesTrue, orderVars, participantVars, inventoryVars, paymentVars, shippingVars
<1> QED
  BY <1>4, <1>5, <1>6, <1>7, <1>8, <1>9, <1>10
  DEF Next, vars, SagaHandles, Tick, Clock, Restart, Resume

\* A step that moves a row of an order, as told, keeps what the commands sent say of it.
LEMMA RowAdvanceKeeps ==
    ASSUME CheckoutInv, NEW o \in Orders, RowAdvances(o)
    PROVE  (RowsAsTold(o) /\ ToldInOrder(o) /\ SagaOfOrder(o))'
<1>1. RowsAsTold(o) /\ ToldInOrder(o) /\ SagaOfOrder(o)
  BY DEF CheckoutInv
<1>2. saga'[o] = saga[o] /\ Told(o)' = Told(o)
  BY DEF RowAdvances
<1>3. CASE RowsStay(o)
  BY <1>1, <1>2, <1>3 DEF RowsStay, RowsAsTold, ToldInOrder, SagaOfOrder
<1>4. CASE StockAdvances(o)
  BY <1>1, <1>2, <1>4 DEF StockAdvances, StockMove, RowsAsTold, ToldInOrder, SagaOfOrder
<1>5. CASE PaymentAdvances(o)
  BY <1>1, <1>2, <1>5 DEF PaymentAdvances, PaymentMove, RowsAsTold, ToldInOrder, SagaOfOrder
<1>6. CASE ShipmentAdvances(o)
  BY <1>1, <1>2, <1>6 DEF ShipmentAdvances, ShipmentMove, RowsAsTold, ToldInOrder, SagaOfOrder
<1>7. CASE OrderAdvances(o)
  BY <1>1, <1>2, <1>7 DEF OrderAdvances, OrderMove, RowsAsTold, ToldInOrder, SagaOfOrder
<1> QED
  BY <1>3, <1>4, <1>5, <1>6, <1>7 DEF RowAdvances

\* So does a step that moves its saga, on the grounds it has.
LEMMA SagaAdvanceKeeps ==
    ASSUME CheckoutInv, Saga!CommandInv', NEW o \in Orders, SagaAdvances(o)
    PROVE  (RowsAsTold(o) /\ ToldInOrder(o) /\ SagaOfOrder(o))'
<1> DEFINE s == saga[o]
           t == saga'[o]
<1>1. RowsAsTold(o) /\ ToldInOrder(o) /\ SagaOfOrder(o)
  BY DEF CheckoutInv
<1>2. CASE Saga!Stays(s, t) /\ Told(o)' = Told(o)
  BY <1>1, <1>2 DEF SagaAdvances, RowsStay, Saga!Stays, RowsAsTold, ToldInOrder, SagaOfOrder
<1>3. CASE /\ Saga!Moves(s, t) /\ Saga!Learns(s, t) /\ Grounds(o, s, t)
           /\ Told(o)' = Told(o) \cup (IF t.status \in Saga!ActiveStatus
                                         THEN {Saga!CommandType(t.status)} ELSE {})
  <2>1. /\ Told(o) \subseteq Saga!SentBy(s.status) /\ Told(o)' \subseteq Saga!SentBy(t.status)
        /\ s \in Saga!Saga
    BY DEF CheckoutInv, Saga!CommandInv, Saga!History, Told, Saga!TypeOK
  <2>2. s.status \in Saga!ActiveStatus => Saga!CommandType(s.status) \in Told(o)
    <3>1. s.status \in Saga!ActiveStatus => Saga!CommandOf(o, s) \in commands
      BY DEF CheckoutInv, Saga!CommandInv, Saga!CommandPerState
    <3>2. Saga!CommandOf(o, s).order = o /\ Saga!CommandOf(o, s).type = Saga!CommandType(s.status)
      BY DEF Saga!CommandOf
    <3> QED
      BY <3>1, <3>2 DEF Told, Saga!Types
  <2>3. /\ t.status \in Saga!Successors(s.status)
        /\ s.status # "NONE" => t.physical = s.physical
    BY <1>3 DEF Saga!Moves, Saga!Learns
  <2>4. UNCHANGED <<orders[o], reservations[o], payments[o], shipments[o]>>
    BY DEF SagaAdvances, RowsStay
  <2>5. Told(o) \subseteq Told(o)'
    BY <1>3
  <2>6. RowsAsTold(o)'
    BY <1>1, <2>4, <2>5 DEF RowsAsTold
  <2>7. /\ t.status # "NONE"
        /\ s.status = "NONE" => t.status = "RESERVING_INVENTORY"
    BY <2>3 DEF Saga!Successors
  <2>8. SagaOfOrder(o)'
    BY <1>1, <1>3, <2>3, <2>4, <2>7 DEF SagaOfOrder, Grounds
  <2> HIDE DEF s, t
  <2>9. CASE t.status = "RESERVING_INVENTORY"
    <3>1. Told(o)' \subseteq {"inventory.reserve"}
      BY <2>1, <2>9 DEF Saga!SentBy
    <3> QED
      BY <2>6, <2>8, <3>1 DEF ToldInOrder
  <2>10. CASE t.status = "AUTHORIZING_PAYMENT"
    <3>1. Told(o)' \subseteq {"inventory.reserve", "payment.authorize"}
      BY <2>1, <2>10 DEF Saga!SentBy
    <3> QED
      BY <1>3, <2>4, <2>6, <2>8, <2>10, <3>1 DEF ToldInOrder, Grounds
  <2>11. CASE t.status = "CREATING_SHIPMENT"
    <3>1. /\ Told(o)' \subseteq {"inventory.reserve", "payment.authorize", "shipment.create"}
          /\ s.status = "AUTHORIZING_PAYMENT"
      BY <2>1, <2>3, <2>11 DEF Saga!SentBy, Saga!Successors
    <3>2. "payment.authorize" \in Told(o)
      BY <2>2, <3>1 DEF Saga!CommandType, Saga!ActiveStatus, Saga!ActionStatus
    <3> QED
      BY <1>1, <1>3, <2>4, <2>6, <2>8, <2>11, <3>1, <3>2 DEF ToldInOrder, Grounds, t
  <2>12. CASE t.status = "CONFIRMING_ORDER"
    <3>1. /\ Told(o)' \subseteq {"inventory.reserve", "payment.authorize", "shipment.create", "order.confirm"}
          /\ s.status \in {"AUTHORIZING_PAYMENT", "CREATING_SHIPMENT"}
          /\ Told(o)' = Told(o) \cup {"order.confirm"}
      BY <1>3, <2>1, <2>3, <2>12
      DEF Saga!SentBy, Saga!Successors, Saga!CommandType, Saga!ActiveStatus, Saga!FinalizationStatus
    <3>2. s.status = "CREATING_SHIPMENT" => "shipment.create" \in Told(o)
      BY <2>2 DEF Saga!CommandType, Saga!ActiveStatus, Saga!ActionStatus
    <3>3. s.status = "AUTHORIZING_PAYMENT" =>
            "shipment.create" \notin Told(o) /\ "payment.authorize" \in Told(o)
      BY <2>1, <2>2 DEF Saga!SentBy, Saga!CommandType, Saga!ActiveStatus, Saga!ActionStatus
    <3> QED
      BY <1>1, <1>3, <2>3, <2>4, <2>6, <2>8, <2>12, <3>1, <3>2, <3>3 DEF ToldInOrder, Grounds,
         s, t
  <2>13. CASE t.status = "CANCELING_SHIPMENT"
    <3>1. /\ Told(o)' \subseteq {"inventory.reserve", "payment.authorize", "shipment.create", "shipment.cancel"}
          /\ s.status = "CREATING_SHIPMENT"
          /\ Told(o)' = Told(o) \cup {"shipment.cancel"}
      BY <1>3, <2>1, <2>3, <2>13
      DEF Saga!SentBy, Saga!Successors, Saga!CommandType, Saga!ActiveStatus, Saga!CompensationStatus
    <3> QED
      BY <1>1, <2>3, <2>4, <2>6, <2>8, <3>1 DEF ToldInOrder, s, t
  <2>14. CASE t.status = "REFUNDING_PAYMENT"
    <3>1. /\ Told(o)' \subseteq {"inventory.reserve", "payment.authorize", "shipment.create", "shipment.cancel", "payment.refund"}
          /\ s.status \in {"AUTHORIZING_PAYMENT", "CREATING_SHIPMENT", "CANCELING_SHIPMENT"}
          /\ Told(o)' = Told(o) \cup {"payment.refund"}
      BY <1>3, <2>1, <2>3, <2>14
      DEF Saga!SentBy, Saga!Successors, Saga!CommandType, Saga!ActiveStatus, Saga!CompensationStatus
    <3>2. s.status = "AUTHORIZING_PAYMENT" => "shipment.create" \notin Told(o)
      BY <2>1 DEF Saga!SentBy
    <3> QED
      BY <1>1, <1>3, <2>3, <2>4, <2>6, <2>8, <2>14, <3>1, <3>2 DEF ToldInOrder, Grounds, s, t
  <2>15. CASE t.status = "RELEASING_INVENTORY"
    <3>1. /\ "order.confirm" \notin Told(o)' /\ "order.cancel" \notin Told(o)'
          /\ s.status \in {"RESERVING_INVENTORY", "AUTHORIZING_PAYMENT", "REFUNDING_PAYMENT"}
          /\ Told(o)' = Told(o) \cup {"inventory.release"}
      BY <1>3, <2>1, <2>3, <2>15
      DEF Saga!SentBy, Saga!Successors, Saga!CommandType, Saga!ActiveStatus, Saga!CompensationStatus
    <3>2. s.status = "RESERVING_INVENTORY" => "payment.authorize" \notin Told(o)
      BY <2>1 DEF Saga!SentBy
    <3> QED
      BY <1>1, <1>3, <2>3, <2>4, <2>6, <2>8, <2>15, <3>1, <3>2 DEF ToldInOrder, Grounds, s, t
  <2>16. CASE t.status = "CANCELING_ORDER"
    <3>1. /\ "order.confirm" \notin Told(o)'
          /\ s.status # "NONE"
          /\ Told(o)' = Told(o) \cup {"order.cancel"}
      BY <1>3, <2>1, <2>3, <2>16
      DEF Saga!SentBy, Saga!Successors, Saga!CommandType, Saga!ActiveStatus, Saga!FinalizationStatus
    <3> QED
      BY <1>1, <1>3, <2>3, <2>4, <2>6, <2>8, <2>16, <3>1 DEF ToldInOrder, Grounds, s, t
  <2>17. CASE t.status \in {"COMPLETED", "CANCELED"}
    <3>1. Told(o)' = Told(o) /\ s.status # "NONE"
      BY <1>3, <2>3, <2>17
      DEF Saga!Successors, Saga!ActiveStatus, Saga!ActionStatus, Saga!CompensationStatus, Saga!FinalizationStatus
    <3> QED
      BY <1>1, <2>3, <2>4, <2>6, <2>8, <3>1 DEF ToldInOrder, s, t
  <2> QED
    BY <2>3, <2>9, <2>10, <2>11, <2>12, <2>13, <2>14, <2>15, <2>16, <2>17 DEF Saga!Successors
<1> QED
  BY <1>2, <1>3 DEF SagaAdvances

\* The empty tables, with no command sent and no reply published.
LEMMA CheckoutInit == Init => CheckoutInv
<1> SUFFICES ASSUME Init PROVE CheckoutInv
  OBVIOUS
<1>1. Saga!CommandInv
  <2>1. Saga!Init
    BY SameRows DEF Init, Coordinator!Init, Saga!Init
  <2> QED
    BY <2>1, Saga!TypeInit, Saga!CommandInit, CoordinatorAssumed DEF Saga!CommandInv
<1>2. /\ orders = [o \in Orders |-> [status |-> "NONE", snapshot |-> OrderSvc!NoSnapshot]]
      /\ reservations = [o \in Orders |-> InventorySvc!NoReservation]
      /\ payments = [o \in Orders |-> PaymentSvc!NoPayment]
      /\ shipments = [o \in Orders |-> ShippingSvc!NoShipment]
      /\ orderEvents = {} /\ inventoryEvents = {} /\ paymentEvents = {} /\ delayedReplies = {}
      /\ shippingEvents = {}
      /\ commands = {} /\ saga = [o \in Orders |-> Saga!NoSaga]
  BY SameRows DEF Init, OrderSvc!Init, InventorySvc!Init, PaymentSvc!Init, ShippingSvc!Init,
     Coordinator!Init
<1>3. /\ [status |-> "NONE", snapshot |-> OrderSvc!NoSnapshot] \in OrderRow
      /\ InventorySvc!NoReservation \in StockRow
      /\ PaymentSvc!NoPayment \in PaymentRow /\ ShippingSvc!NoShipment \in ShipmentRow
  BY DEF OrderRow, StockRow, PaymentRow, ShipmentRow, InventorySvc!NoReservation,
         InventorySvc!Reservation, PaymentSvc!NoPayment, PaymentSvc!Payment,
         ShippingSvc!NoShipment, ShippingSvc!Shipment
<1>4. RowsTyped /\ EventsTyped /\ RepliesTrue
  BY <1>2, <1>3 DEF RowsTyped, EventsTyped, RepliesTrue
<1>5. ASSUME NEW o \in Orders PROVE RowsAsTold(o) /\ ToldInOrder(o) /\ SagaOfOrder(o)
  <2>1. Told(o) = {}
    BY <1>2 DEF Told, Saga!Types
  <2>2. /\ orders[o].status = "NONE" /\ reservations[o].status = "NONE"
        /\ payments[o].status = "NONE" /\ shipments[o].status = "NONE" /\ saga[o].status = "NONE"
    BY <1>2 DEF InventorySvc!NoReservation,
         InventorySvc!Reservation, PaymentSvc!NoPayment, PaymentSvc!Payment,
         ShippingSvc!NoShipment, ShippingSvc!Shipment, Saga!NoSaga
  <2> QED
    BY <2>1, <2>2 DEF RowsAsTold, ToldInOrder, SagaOfOrder
<1> QED
  BY <1>1, <1>4, <1>5 DEF CheckoutInv

\* Every step keeps the rows, the replies and the commands in agreement.
LEMMA CheckoutStep == CheckoutInv /\ [Next]_vars => CheckoutInv'
<1> SUFFICES ASSUME CheckoutInv, [Next]_vars PROVE CheckoutInv'
  OBVIOUS
<1>1. Saga!CommandInv'
  <2>1. Saga!TypeOK /\ Saga!CommandPerState /\ Saga!History /\ RowsTyped /\ EventsTyped
    BY DEF CheckoutInv, Saga!CommandInv
  <2>2. [Saga!Next]_Saga!vars
    BY <2>1, CoordinatorStep
  <2> QED
    BY <2>1, <2>2, Saga!TypeStep, Saga!CommandStep, CoordinatorAssumed DEF Saga!CommandInv
<1>2. ASSUME NEW o \in Orders PROVE (RowsAsTold(o) /\ ToldInOrder(o) /\ SagaOfOrder(o))'
  BY <1>1, StepOfOrder, RowAdvanceKeeps, SagaAdvanceKeeps
<1> QED
  BY <1>1, <1>2, RowsStep DEF CheckoutInv

\* The inductive invariant of the checkout.
LEMMA CheckoutInvariant == Spec => []CheckoutInv
BY CheckoutInit, CheckoutStep, PTL DEF Spec

-----------------------------------------------------------------------------
(* What follows of the checkout.                                           *)

\* Whatever is reordered, repeated, late or restarted, for any number of orders: a
\* finished saga has told its order, and a compensated participant's refusal is
\* never taken for the answer of a step.
THEOREM VerdictsHoldAlways == Spec => []VerdictsHold
<1>1. CheckoutInv => VerdictsAgree
  BY DEF CheckoutInv, SagaOfOrder, VerdictsAgree
<1>2. CheckoutInv => CompensatedRepliesAreLate
  <2> SUFFICES ASSUME CheckoutInv, NEW e \in Events, e.reason = "ALREADY_COMPENSATED",
                      Saga!Accepts(saga[e.order], e.cause, e.type)
               PROVE  FALSE
    BY SameRows DEF CompensatedRepliesAreLate
  <2> DEFINE o == e.order
  <2>1. o \in Orders /\ e.type \in Saga!Expects(saga[o].status)
    BY EventsSpeak DEF CheckoutInv, Saga!Accepts
  <2>2. RowsAsTold(o) /\ Told(o) \subseteq Saga!SentBy(saga[o].status)
    BY <2>1 DEF CheckoutInv, Saga!CommandInv, Saga!History, Told
  <2>3. CASE e \in orderEvents
    BY <2>3 DEF CheckoutInv, RepliesTrue, OrderSays
  <2>4. CASE e \in inventoryEvents
    <3>1. e.type = "inventory.rejected" /\ reservations[o].status = "RELEASED"
      BY <2>4 DEF CheckoutInv, RepliesTrue, StockSays
    <3>2. saga[o].status = "RESERVING_INVENTORY"
      BY <2>1, <3>1 DEF Saga!Expects
    <3> QED
      BY <2>2, <3>1, <3>2 DEF RowsAsTold, Saga!SentBy
  <2>5. CASE e \in paymentEvents
    <3>1. e.type = "payment.failed" /\ payments[o].status = "REFUNDED"
      BY <2>5 DEF CheckoutInv, RepliesTrue, PaymentSays
    <3>2. saga[o].status = "AUTHORIZING_PAYMENT"
      BY <2>1, <3>1 DEF Saga!Expects
    <3> QED
      BY <2>2, <3>1, <3>2 DEF RowsAsTold, Saga!SentBy
  <2>6. CASE e \in shippingEvents
    <3>1. e.type = "shipment.failed" /\ shipments[o].status = "CANCELED"
      BY <2>6 DEF CheckoutInv, RepliesTrue, ShipmentSays
    <3>2. saga[o].status = "CREATING_SHIPMENT"
      BY <2>1, <3>1 DEF Saga!Expects
    <3> QED
      BY <2>2, <3>1, <3>2 DEF RowsAsTold, Saga!SentBy
  <2> QED
    BY <2>3, <2>4, <2>5, <2>6 DEF Events
<1> QED
  BY <1>1, <1>2, CheckoutInvariant, PTL DEF VerdictsHold

\* For any number of orders, a participant that answered a compensation holds nothing
\* from then on, whatever actions still reach it.
THEOREM UndoneStaysUndoneAlways == Spec => []UndoneStaysUndone
<1>1. CheckoutInv => UndoneStaysUndone
  <2> SUFFICES ASSUME CheckoutInv, NEW e \in Events
               PROVE  /\ e.type = "inventory.released" => ~ Reserved(e.order)
                      /\ e.type = "payment.refunded"   => ~ Authorized(e.order)
                      /\ e.type = "shipment.canceled"  => ~ Shipped(e.order)
    BY DEF UndoneStaysUndone
  <2> QED
    BY EventsSpeak DEF CheckoutInv, Reserved, Authorized, Shipped
<1> QED
  BY <1>1, CheckoutInvariant, PTL

\* With the participants as its environment the coordinator does what it does alone.
THEOREM CheckoutImplementsCoordinator == Spec => Coordinator!Spec
<1>1. Init => Coordinator!Init
  BY DEF Init
<1>2. CheckoutInv /\ [Next]_vars => [Coordinator!Next]_Coordinator!vars
  <2> SUFFICES ASSUME CheckoutInv, [Next]_vars PROVE [Coordinator!Next]_Coordinator!vars
    OBVIOUS
  <2>1. [Saga!Next]_Saga!vars
    BY CoordinatorStep DEF CheckoutInv, Saga!CommandInv
  <2>2. Saga!vars = Coordinator!vars /\ (UNCHANGED Saga!vars <=> UNCHANGED Coordinator!vars)
    BY DEF Saga!vars, Coordinator!vars
  <2>3. \A o, cause, type : Saga!IgnoreLateReply(o, cause, type) =>
                              Coordinator!IgnoreLateReply(o, cause, type)
    BY <2>2, SameRows, Zenon DEF Saga!IgnoreLateReply, Coordinator!IgnoreLateReply
  <2>4. Saga!ReplyTypes = Coordinator!ReplyTypes
    BY DEF Saga!ReplyTypes, Coordinator!ReplyTypes
  <2>5. Saga!Next => Coordinator!Next
    BY <2>3, <2>4, SameActions, Zenon DEF Saga!Next, Coordinator!Next
  <2> QED
    BY <2>1, <2>2, <2>5
<1> QED
  BY <1>1, <1>2, CheckoutInvariant, PTL DEF Spec, Coordinator!Spec

-----------------------------------------------------------------------------
(* All-or-nothing: the checkout implements AtomicCheckout.                 *)

Needs(o) == IF orders[o].snapshot.physical THEN 3 ELSE 2

Undoing(o) ==
    \/ GaveBack(reservations[o], "RELEASED")
    \/ GaveBack(payments[o], "REFUNDED")
    \/ GaveBack(shipments[o], "CANCELED")

\* The chain of an order is taken and given back in order, and only a pending
\* order has one that still moves.
LEMMA ChainInOrder ==
    ASSUME CheckoutInv, NEW o \in Orders
    PROVE  /\ Authorized(o) => Reserved(o)
           /\ Shipped(o) => Authorized(o) /\ orders[o].snapshot.physical
           /\ "shipment.create" \in Told(o) => orders[o].snapshot.physical
           /\ Told(o) # {} => orders[o].status # "NONE" /\ saga[o].physical = orders[o].snapshot.physical
           /\ "order.confirm" \in Told(o) =>
                Told(o) \cap {"inventory.release", "payment.refund", "shipment.cancel", "order.cancel"} = {}
           /\ orders[o].status = "CONFIRMED" => "order.confirm" \in Told(o)
           /\ orders[o].status = "CANCELED" =>
                reservations[o].status \in {"REJECTED", "RELEASED"}
           /\ orders[o].status \in {"NONE", "PENDING", "CONFIRMED", "CANCELED"}
<1>1. RowsAsTold(o) /\ ToldInOrder(o) /\ SagaOfOrder(o) /\ Told(o) \subseteq Saga!SentBy(saga[o].status)
  BY DEF CheckoutInv, Saga!CommandInv, Saga!History, Told
<1>2. Told(o) # {} => orders[o].status # "NONE" /\ saga[o].physical = orders[o].snapshot.physical
  BY <1>1 DEF SagaOfOrder, Saga!SentBy
<1>3. "order.confirm" \in Told(o) =>
        Told(o) \cap {"inventory.release", "payment.refund", "shipment.cancel", "order.cancel"} = {}
  BY <1>1 DEF Saga!SentBy
<1>4. orders[o].status \in {"NONE", "PENDING", "CONFIRMED", "CANCELED"}
  BY DEF CheckoutInv, RowsTyped, OrderRow
<1> QED
  BY <1>1, <1>2, <1>3, <1>4 DEF RowsAsTold, ToldInOrder, Reserved, Authorized, Shipped

\* What an order holds, as a number.
LEMMA HoldsCount ==
    ASSUME NEW o \in Orders, Authorized(o) => Reserved(o), Shipped(o) => Authorized(o)
    PROVE  Holds(o) = IF Shipped(o) THEN 3 ELSE IF Authorized(o) THEN 2
                      ELSE IF Reserved(o) THEN 1 ELSE 0
<1>1. CASE Shipped(o)
  BY <1>1 DEF Holds
<1>2. CASE ~ Shipped(o) /\ Authorized(o)
  BY <1>2 DEF Holds
<1>3. CASE ~ Shipped(o) /\ ~ Authorized(o) /\ Reserved(o)
  BY <1>3 DEF Holds
<1>4. CASE ~ Shipped(o) /\ ~ Authorized(o) /\ ~ Reserved(o)
  BY <1>4 DEF Holds
<1> QED
  BY <1>1, <1>2, <1>3, <1>4

\* What the abstract checkout sees of a step of one order.
SeesNothing(o) ==
    /\ orders'[o].status = orders[o].status /\ Needs(o)' = Needs(o)
    /\ Holds(o)' = Holds(o) /\ Undoing(o)' = Undoing(o)

SeesPlace(o) ==
    /\ orders[o].status = "NONE" /\ orders'[o].status = "PENDING"
    /\ Needs(o)' \in {2, 3} /\ Holds(o)' = Holds(o) /\ Undoing(o)' = Undoing(o)

SeesTake(o) ==
    /\ orders[o].status = "PENDING" /\ ~ Undoing(o) /\ Holds(o) < Needs(o)
    /\ orders'[o].status = orders[o].status /\ Needs(o)' = Needs(o)
    /\ Holds(o)' = Holds(o) + 1 /\ Undoing(o)' = Undoing(o)

SeesGiveBack(o) ==
    /\ orders[o].status = "PENDING" /\ Holds(o) > 0
    /\ orders'[o].status = orders[o].status /\ Needs(o)' = Needs(o)
    /\ Holds(o)' = Holds(o) - 1 /\ Undoing(o)' = TRUE

SeesConfirm(o) ==
    /\ orders[o].status = "PENDING" /\ ~ Undoing(o) /\ Holds(o) = Needs(o)
    /\ orders'[o].status = "CONFIRMED"
    /\ Needs(o)' = Needs(o) /\ Holds(o)' = Holds(o) /\ Undoing(o)' = Undoing(o)

SeesCancel(o) ==
    /\ orders[o].status = "PENDING" /\ Holds(o) = 0
    /\ orders'[o].status = "CANCELED"
    /\ Needs(o)' = Needs(o) /\ Holds(o)' = Holds(o) /\ Undoing(o)' = Undoing(o)

Sees(o) ==
    \/ SeesNothing(o) \/ SeesPlace(o) \/ SeesTake(o) \/ SeesGiveBack(o)
    \/ SeesConfirm(o) \/ SeesCancel(o)

\* A participant that acts takes or gives back the next link of the chain, and an
\* order that is decided holds all or nothing.
LEMMA AbstractStepOfOrder ==
    ASSUME CheckoutInv, CheckoutInv', NEW o \in Orders, RowAdvances(o) \/ SagaAdvances(o)
    PROVE  Sees(o)
<1>1. /\ Authorized(o) => Reserved(o)
      /\ Shipped(o) => Authorized(o) /\ orders[o].snapshot.physical
      /\ "shipment.create" \in Told(o) => orders[o].snapshot.physical
      /\ Told(o) # {} => orders[o].status # "NONE" /\ saga[o].physical = orders[o].snapshot.physical
      /\ "order.confirm" \in Told(o) =>
           Told(o) \cap {"inventory.release", "payment.refund", "shipment.cancel", "order.cancel"} = {}
      /\ orders[o].status = "CONFIRMED" => "order.confirm" \in Told(o)
      /\ orders[o].status = "CANCELED" => reservations[o].status \in {"REJECTED", "RELEASED"}
      /\ orders[o].status \in {"NONE", "PENDING", "CONFIRMED", "CANCELED"}
  BY ChainInOrder
<1>2. (Authorized(o) => Reserved(o))' /\ (Shipped(o) => Authorized(o))'
  <2>1. RowsAsTold(o)' /\ ToldInOrder(o)'
    BY DEF CheckoutInv
  <2> QED
    BY <2>1 DEF RowsAsTold, ToldInOrder, Reserved, Authorized, Shipped
<1>3. RowsAsTold(o) /\ ToldInOrder(o)
  BY DEF CheckoutInv
<1>4. Holds(o) = IF Shipped(o) THEN 3 ELSE IF Authorized(o) THEN 2 ELSE IF Reserved(o) THEN 1 ELSE 0
  BY <1>1, HoldsCount
<1>5. Holds(o)' = IF Shipped(o)' THEN 3 ELSE IF Authorized(o)' THEN 2
                  ELSE IF Reserved(o)' THEN 1 ELSE 0
  BY <1>2, Zenon DEF Holds
<1>6. Needs(o) = IF orders[o].snapshot.physical THEN 3 ELSE 2
  BY DEF Needs
<1>7. CASE RowsStay(o)
  BY <1>4, <1>5, <1>7 DEF RowsStay, Sees, SeesNothing, Needs, Undoing, Reserved, Authorized,
     Shipped
<1>8. CASE StockAdvances(o)
  <2>0. /\ UNCHANGED <<orders[o], payments[o], shipments[o]>>
        /\ Needs(o)' = Needs(o) /\ Authorized(o)' = Authorized(o) /\ Shipped(o)' = Shipped(o)
    BY <1>8 DEF StockAdvances, Needs, Authorized, Shipped
  <2>1. CASE reservations'[o].status = reservations[o].status /\ reservations'[o].noop = reservations[o].noop
    BY <1>4, <1>5, <2>0, <2>1 DEF Sees, SeesNothing, Undoing, GaveBack, Reserved, Authorized,
       Shipped
  <2>2. CASE /\ reservations[o].status = "NONE"
             /\ \/ "inventory.reserve" \in Told(o) /\ reservations'[o].status = "REJECTED"
                \/ reservations'[o].status = "RELEASED" /\ reservations'[o].noop
    BY <1>4, <1>5, <2>0, <2>2 DEF Sees, SeesNothing, Undoing, GaveBack, Reserved, Authorized,
       Shipped
  <2>3. CASE /\ "inventory.reserve" \in Told(o) /\ reservations[o].status = "NONE"
             /\ reservations'[o].status = "RESERVED"
    <3>1. ~ Reserved(o) /\ Reserved(o)'
      BY <2>3 DEF Reserved
    <3>2. orders[o].status = "PENDING"
      BY <1>1, <1>3, <2>3 DEF RowsAsTold, ToldInOrder
    <3>3. ~ Undoing(o) /\ Undoing(o)' = Undoing(o)
      BY <1>1, <1>3, <2>0, <2>3 DEF RowsAsTold, ToldInOrder, Undoing, GaveBack
    <3> QED
      BY <1>1, <1>2, <1>4, <1>5, <1>6, <2>0, <3>1, <3>2, <3>3 DEF Sees, SeesTake
  <2>4. CASE /\ "inventory.release" \in Told(o) /\ reservations[o].status = "RESERVED"
             /\ reservations'[o].status = "RELEASED" /\ ~ reservations'[o].noop
    <3>1. Reserved(o) /\ ~ Reserved(o)' /\ Undoing(o)'
      BY <2>4 DEF Reserved, Undoing, GaveBack
    <3>2. ~ Authorized(o)
      BY <1>3, <2>4 DEF RowsAsTold, ToldInOrder, Authorized
    <3>3. orders[o].status = "PENDING"
      BY <1>1, <2>4
    <3> QED
      BY <1>1, <1>2, <1>4, <1>5, <2>0, <3>1, <3>2, <3>3 DEF Sees, SeesGiveBack
  <2> QED
    BY <1>8, <2>1, <2>2, <2>3, <2>4 DEF StockAdvances, StockMove
<1>9. CASE PaymentAdvances(o)
  <2>0. /\ UNCHANGED <<orders[o], reservations[o], shipments[o]>>
        /\ Needs(o)' = Needs(o) /\ Reserved(o)' = Reserved(o) /\ Shipped(o)' = Shipped(o)
    BY <1>9 DEF PaymentAdvances, Needs, Reserved, Shipped
  <2>1. CASE payments'[o].status = payments[o].status /\ payments'[o].noop = payments[o].noop
    BY <1>4, <1>5, <2>0, <2>1 DEF Sees, SeesNothing, Undoing, GaveBack, Reserved, Authorized,
       Shipped
  <2>2. CASE /\ payments[o].status = "NONE"
             /\ \/ payments'[o].status = "DECLINED"
                \/ payments'[o].status = "REFUNDED" /\ payments'[o].noop
    BY <1>4, <1>5, <2>0, <2>2 DEF Sees, SeesNothing, Undoing, GaveBack, Reserved, Authorized,
       Shipped
  <2>3. CASE /\ "payment.authorize" \in Told(o) /\ payments[o].status = "NONE"
             /\ payments'[o].status = "AUTHORIZED"
    <3>1. ~ Authorized(o) /\ Authorized(o)' /\ Reserved(o)
      BY <1>2, <2>0, <2>3 DEF Authorized
    <3>2. orders[o].status = "PENDING"
      BY <1>1, <1>3, <2>3, <3>1 DEF RowsAsTold, ToldInOrder, Reserved
    <3>3. ~ Undoing(o) /\ Undoing(o)' = Undoing(o)
      BY <1>1, <1>3, <2>0, <2>3, <3>1 DEF RowsAsTold, ToldInOrder, Undoing, GaveBack, Reserved
    <3> QED
      BY <1>1, <1>2, <1>4, <1>5, <1>6, <2>0, <3>1, <3>2, <3>3 DEF Sees, SeesTake
  <2>4. CASE /\ "payment.refund" \in Told(o) /\ payments[o].status = "AUTHORIZED"
             /\ payments'[o].status = "REFUNDED" /\ ~ payments'[o].noop
    <3>1. Authorized(o) /\ ~ Authorized(o)' /\ Undoing(o)'
      BY <2>4 DEF Authorized, Undoing, GaveBack
    <3>2. ~ Shipped(o)
      BY <1>3, <2>4 DEF RowsAsTold, ToldInOrder, Shipped
    <3>3. orders[o].status = "PENDING"
      BY <1>1, <2>4, <3>1 DEF Reserved
    <3> QED
      BY <1>1, <1>2, <1>4, <1>5, <2>0, <3>1, <3>2, <3>3 DEF Sees, SeesGiveBack
  <2> QED
    BY <1>9, <2>1, <2>2, <2>3, <2>4 DEF PaymentAdvances, PaymentMove
<1>10. CASE ShipmentAdvances(o)
  <2>0. /\ UNCHANGED <<orders[o], reservations[o], payments[o]>>
        /\ Needs(o)' = Needs(o) /\ Reserved(o)' = Reserved(o) /\ Authorized(o)' = Authorized(o)
    BY <1>10 DEF ShipmentAdvances, Needs, Reserved, Authorized
  <2>1. CASE shipments'[o].status = shipments[o].status /\ shipments'[o].noop = shipments[o].noop
    BY <1>4, <1>5, <2>0, <2>1 DEF Sees, SeesNothing, Undoing, GaveBack, Reserved, Authorized,
       Shipped
  <2>2. CASE /\ shipments[o].status = "NONE"
             /\ \/ shipments'[o].status = "FAILED"
                \/ shipments'[o].status = "CANCELED" /\ shipments'[o].noop
    BY <1>4, <1>5, <2>0, <2>2 DEF Sees, SeesNothing, Undoing, GaveBack, Reserved, Authorized,
       Shipped
  <2>3. CASE /\ "shipment.create" \in Told(o) /\ shipments[o].status = "NONE"
             /\ shipments'[o].status = "CREATED"
    <3>1. ~ Shipped(o) /\ Shipped(o)' /\ Authorized(o) /\ Reserved(o)
      BY <1>1, <1>2, <2>0, <2>3 DEF Shipped
    <3>2. orders[o].status = "PENDING"
      BY <1>1, <1>3, <2>3, <3>1 DEF RowsAsTold, ToldInOrder, Reserved
    <3>3. ~ Undoing(o) /\ Undoing(o)' = Undoing(o)
      BY <2>0, <2>3, <3>1 DEF Undoing, GaveBack, Reserved, Authorized
    <3> QED
      BY <1>1, <1>2, <1>4, <1>5, <1>6, <2>0, <2>3, <3>1, <3>2, <3>3 DEF Sees, SeesTake
  <2>4. CASE /\ "shipment.cancel" \in Told(o) /\ shipments[o].status = "CREATED"
             /\ shipments'[o].status = "CANCELED" /\ ~ shipments'[o].noop
    <3>1. Shipped(o) /\ ~ Shipped(o)' /\ Undoing(o)'
      BY <2>4 DEF Shipped, Undoing, GaveBack
    <3>2. orders[o].status = "PENDING"
      BY <1>1, <2>4, <3>1 DEF Reserved
    <3> QED
      BY <1>1, <1>2, <1>4, <1>5, <2>0, <3>1, <3>2 DEF Sees, SeesGiveBack
  <2> QED
    BY <1>10, <2>1, <2>2, <2>3, <2>4 DEF ShipmentAdvances, ShipmentMove
<1>11. CASE OrderAdvances(o)
  <2>0. /\ Holds(o)' = Holds(o) /\ Undoing(o)' = Undoing(o)
    BY <1>4, <1>5, <1>11 DEF OrderAdvances, Undoing, Reserved, Authorized, Shipped
  <2>1. CASE orders[o].status = "NONE" /\ orders'[o].status = "PENDING" /\ orders'[o].snapshot \in Snapshots
    BY <2>0, <2>1 DEF Sees, SeesPlace, Needs
  <2>2. CASE orders'[o].snapshot = orders[o].snapshot /\ orders'[o].status = orders[o].status
    BY <2>0, <2>2 DEF Sees, SeesNothing, Needs
  <2>3. CASE /\ orders'[o].snapshot = orders[o].snapshot /\ "order.confirm" \in Told(o)
             /\ orders[o].status = "PENDING" /\ orders'[o].status = "CONFIRMED"
    <3>1. ~ Undoing(o)
      BY <1>1, <1>3, <2>3 DEF RowsAsTold, Undoing, GaveBack
    <3>2. Authorized(o) /\ Shipped(o) = orders[o].snapshot.physical
      <4>1. Authorized(o) /\ (orders[o].snapshot.physical => Shipped(o))
        BY <1>1, <1>3, <2>3 DEF RowsAsTold, ToldInOrder, Authorized, Shipped
      <4>2. orders[o].snapshot.physical \in BOOLEAN /\ Shipped(o) \in BOOLEAN
        BY SnapshotType DEF CheckoutInv, Shipped
      <4> QED
        BY <1>1, <4>1, <4>2
    <3>3. Needs(o)' = Needs(o)
      BY <2>3 DEF Needs
    <3> QED
      BY <1>1, <1>4, <1>6, <2>0, <2>3, <3>1, <3>2, <3>3 DEF Sees, SeesConfirm
  <2>4. CASE /\ orders'[o].snapshot = orders[o].snapshot /\ "order.cancel" \in Told(o)
             /\ orders[o].status = "PENDING" /\ orders'[o].status = "CANCELED"
    <3>1. ~ Reserved(o)
      BY <1>3, <2>4 DEF ToldInOrder, Reserved
    <3>2. Needs(o)' = Needs(o)
      BY <2>4 DEF Needs
    <3> QED
      BY <1>1, <1>4, <2>0, <2>4, <3>1, <3>2 DEF Sees, SeesCancel
  <2> QED
    BY <1>11, <2>1, <2>2, <2>3, <2>4 DEF OrderAdvances, OrderMove
<1> QED
  BY <1>7, <1>8, <1>9, <1>10, <1>11 DEF RowAdvances, SagaAdvances

\* A transaction writes the rows of one order.
LEMMA OneOrder ==
    ASSUME CheckoutInv, [Next]_vars
    PROVE  \/ \A o \in Orders : RowsStay(o)
           \/ \E q \in Orders : \A o \in Orders \ {q} : RowsStay(o)
<1>1. Saga!TypeOK /\ RowsTyped
  BY DEF CheckoutInv, Saga!CommandInv
<1>2. ASSUME NEW q \in Orders, NEW snapshot \in Snapshots, PlaceOrder(q, snapshot)
      PROVE  \A o \in Orders \ {q} : RowsStay(o)
  BY <1>1, <1>2 DEF PlaceOrder, OrderSvc!Insert, participantVars, inventoryVars, paymentVars,
                    shippingVars, RowsTyped, RowsStay
<1>3. ASSUME NEW cmd \in commands,
             \/ OrderHandles(cmd) \/ InventoryHandles(cmd)
             \/ PaymentHandles(cmd) \/ ShippingHandles(cmd)
      PROVE  cmd.order \in Orders /\ \A o \in Orders \ {cmd.order} : RowsStay(o)
  <2>0. cmd.order \in Orders
    BY <1>1 DEF Saga!TypeOK, Saga!Message
  <2>1. CASE OrderHandles(cmd)
    <3>1. \A o \in Orders \ {cmd.order} : orders'[o] = orders[o]
      BY <1>1, <2>1, OrderHandled
    <3> QED
      BY <2>0, <2>1, <3>1 DEF OrderHandles, participantVars, inventoryVars, paymentVars,
         shippingVars, RowsStay
  <2>2. CASE InventoryHandles(cmd)
    <3>1. \A o \in Orders \ {cmd.order} : reservations'[o] = reservations[o]
      BY <1>1, <2>2, StockHandled
    <3> QED
      BY <2>0, <2>2, <3>1 DEF InventoryHandles, orderVars, paymentVars, shippingVars, RowsStay
  <2>3. CASE PaymentHandles(cmd)
    <3>1. \A o \in Orders \ {cmd.order} : payments'[o] = payments[o]
      BY <1>1, <2>3, PaymentHandled
    <3> QED
      BY <2>0, <2>3, <3>1 DEF PaymentHandles, orderVars, inventoryVars, shippingVars, RowsStay
  <2>4. CASE ShippingHandles(cmd)
    <3>1. \A o \in Orders \ {cmd.order} : shipments'[o] = shipments[o]
      BY <1>1, <2>4, ShipmentHandled
    <3> QED
      BY <2>0, <2>4, <3>1 DEF ShippingHandles, orderVars, inventoryVars, paymentVars, RowsStay
  <2> QED
    BY <1>3, <2>1, <2>2, <2>3, <2>4
<1>4. ASSUME UNCHANGED <<orders, reservations, payments, shipments>>
      PROVE  \A o \in Orders : RowsStay(o)
  BY <1>4 DEF RowsStay
<1>5. CASE UNCHANGED <<orderVars, participantVars>>
  BY <1>4, <1>5 DEF orderVars, participantVars, inventoryVars, paymentVars, shippingVars
<1>6. ASSUME NEW due \in SUBSET delayedReplies, PaymentPoller(due)
      PROVE  \A o \in Orders : RowsStay(o)
  BY <1>4, <1>6 DEF PaymentPoller, PaymentSvc!PublishDue, orderVars, inventoryVars, shippingVars
<1> QED
  BY <1>2, <1>3, <1>5, <1>6 DEF Next, vars, SagaHandles, Tick, Clock, Restart, Resume

\* An order whose rows a step leaves alone is left alone in the abstract.
LEMMA StaySees ==
    ASSUME NEW o, RowsStay(o)
    PROVE  SeesNothing(o)
BY DEF RowsStay, SeesNothing, Needs, Holds, Undoing, Reserved, Authorized, Shipped

\* For every set of orders and every fault, through reordered, repeated and late
\* messages, timeouts and restarts, the checkout behaves as AtomicCheckout: each step
\* takes or gives back one link of one order's chain, or decides it with all or nothing.
THEOREM AllOrNothingAlways == Spec => AllOrNothing
<1>1. Init => Contract!Init
  <2> SUFFICES ASSUME Init PROVE Contract!Init
    OBVIOUS
  <2>1. ASSUME NEW o \in Orders
        PROVE  /\ orders[o].status = "NONE" /\ ~ orders[o].snapshot.physical
               /\ Holds(o) = 0 /\ ~ Undoing(o)
    BY DEF Init, OrderSvc!Init, OrderSvc!NoSnapshot, InventorySvc!Init,
       InventorySvc!NoReservation,
           InventorySvc!Reservation, PaymentSvc!Init, PaymentSvc!NoPayment, PaymentSvc!Payment,
           ShippingSvc!Init, ShippingSvc!NoShipment, ShippingSvc!Shipment,
           Holds, Undoing, GaveBack, Reserved, Authorized, Shipped
  <2> QED
    BY <2>1 DEF Contract!Init, Undoing
<1>2. CheckoutInv /\ CheckoutInv' /\ [Next]_vars => [Contract!Next]_Contract!vars
  <2> SUFFICES ASSUME CheckoutInv, CheckoutInv', [Next]_vars
               PROVE  [Contract!Next]_Contract!vars
    OBVIOUS
  <2> DEFINE decision == [o \in Orders |-> orders[o].status]
             needs    == [o \in Orders |-> Needs(o)]
             holds    == [o \in Orders |-> Holds(o)]
             undoing  == [o \in Orders |-> Undoing(o)]
  <2>1. Contract!vars = <<decision, needs, holds, undoing>>
    BY DEF Contract!vars, Needs, Undoing
  <2>2. CASE \A o \in Orders : RowsStay(o)
    <3>1. \A o \in Orders : SeesNothing(o)
      BY <2>2, StaySees
    <3> QED
      BY <3>1 DEF SeesNothing, Contract!vars, Needs, Undoing
  <2>3. ASSUME NEW q \in Orders, \A o \in Orders \ {q} : RowsStay(o)
        PROVE  [Contract!Next]_Contract!vars
    <3>1. Sees(q)
      BY StepOfOrder, AbstractStepOfOrder
    <3>2. \A o \in Orders \ {q} : SeesNothing(o)
      BY <2>3, StaySees
    <3>3. \A o \in Orders \ {q} :
            /\ decision'[o] = decision[o] /\ needs'[o] = needs[o]
            /\ holds'[o] = holds[o] /\ undoing'[o] = undoing[o]
      BY <3>2 DEF SeesNothing
    <3>4. /\ decision[q] = orders[q].status /\ decision'[q] = orders'[q].status
          /\ needs[q] = Needs(q) /\ needs'[q] = Needs(q)'
          /\ holds[q] = Holds(q) /\ holds'[q] = Holds(q)'
          /\ undoing[q] = Undoing(q) /\ undoing'[q] = Undoing(q)'
      OBVIOUS
    <3>5. /\ decision' = [decision EXCEPT ![q] = orders'[q].status]
          /\ needs' = [needs EXCEPT ![q] = Needs(q)']
          /\ holds' = [holds EXCEPT ![q] = Holds(q)']
          /\ undoing' = [undoing EXCEPT ![q] = Undoing(q)']
      BY <3>3
    <3>6. /\ Needs(q)' = Needs(q) => needs' = needs
          /\ Holds(q)' = Holds(q) => holds' = holds
          /\ Undoing(q)' = Undoing(q) => undoing' = undoing
          /\ orders'[q].status = orders[q].status => decision' = decision
      BY <3>3
    <3>7. CASE SeesNothing(q)
      <4>1. decision' = decision /\ needs' = needs /\ holds' = holds /\ undoing' = undoing
        BY <3>6, <3>7 DEF SeesNothing
      <4> QED
        BY <4>1, Zenon DEF Contract!vars, Needs, Undoing
    <3>8. CASE SeesPlace(q)
      <4> PICK n \in {2, 3} : n = Needs(q)'
        BY <3>8 DEF SeesPlace
      <4>1. /\ decision[q] = "NONE" /\ decision' = [decision EXCEPT ![q] = "PENDING"]
            /\ needs' = [needs EXCEPT ![q] = n]
            /\ holds' = holds /\ undoing' = undoing
        BY <3>4, <3>5, <3>6, <3>8 DEF SeesPlace
      <4>2. Contract!Place(q, n)
        BY <4>1, Zenon DEF Contract!Place, Needs, Undoing
      <4> QED
        BY <4>1, <4>2 DEF Contract!Next
    <3>9. CASE SeesTake(q)
      <4>1. /\ decision[q] = "PENDING" /\ ~ undoing[q] /\ holds[q] < needs[q]
            /\ holds' = [holds EXCEPT ![q] = holds[q] + 1]
            /\ decision' = decision /\ needs' = needs /\ undoing' = undoing
        BY <3>4, <3>5, <3>6, <3>9 DEF SeesTake
      <4>2. Contract!Take(q)
        BY <4>1, Zenon DEF Contract!Take, Needs, Undoing
      <4> QED
        BY <4>2 DEF Contract!Next
    <3>10. CASE SeesGiveBack(q)
      <4>1. /\ decision[q] = "PENDING" /\ holds[q] > 0
            /\ holds' = [holds EXCEPT ![q] = holds[q] - 1]
            /\ undoing' = [undoing EXCEPT ![q] = TRUE]
            /\ decision' = decision /\ needs' = needs
        BY <3>4, <3>5, <3>6, <3>10 DEF SeesGiveBack
      <4>2. Contract!GiveBack(q)
        BY <4>1, Zenon DEF Contract!GiveBack, Needs, Undoing
      <4> QED
        BY <4>2 DEF Contract!Next
    <3>11. CASE SeesConfirm(q)
      <4>1. /\ decision[q] = "PENDING" /\ ~ undoing[q] /\ holds[q] = needs[q]
            /\ decision' = [decision EXCEPT ![q] = "CONFIRMED"]
            /\ needs' = needs /\ holds' = holds /\ undoing' = undoing
        BY <3>4, <3>5, <3>6, <3>11 DEF SeesConfirm
      <4>2. Contract!Confirm(q)
        BY <4>1, Zenon DEF Contract!Confirm, Needs, Undoing
      <4> QED
        BY <4>2 DEF Contract!Next
    <3>12. CASE SeesCancel(q)
      <4>1. /\ decision[q] = "PENDING" /\ holds[q] = 0
            /\ decision' = [decision EXCEPT ![q] = "CANCELED"]
            /\ needs' = needs /\ holds' = holds /\ undoing' = undoing
        BY <3>4, <3>5, <3>6, <3>12 DEF SeesCancel
      <4>2. Contract!Cancel(q)
        BY <4>1, Zenon DEF Contract!Cancel, Needs, Undoing
      <4> QED
        BY <4>2 DEF Contract!Next
    <3> QED
      BY <3>1, <3>7, <3>8, <3>9, <3>10, <3>11, <3>12 DEF Sees
  <2> QED
    BY <2>2, <2>3, OneOrder
<1>3. CheckoutInv /\ [Next]_vars => CheckoutInv'
  BY CheckoutStep
<1> QED
  BY <1>1, <1>2, <1>3, CheckoutInit, PTL DEF Spec, AllOrNothing, Contract!Spec
=============================================================================
