------------------------ MODULE SagaCoordinatorProofs ------------------------
(***************************************************************************)
(* Proofs about SagaCoordinator for every set of orders, every number of   *)
(* replicas, retries and restarts.                                         *)
(***************************************************************************)
EXTENDS SagaCoordinator, TLAPS

-----------------------------------------------------------------------------
(* The tables.                                                             *)

\* Every state belongs to a step.
LEMMA StepOfType == \A s : StepOf(s) \in Step
BY DEF StepOf, Step

\* Every state with a command in flight has a command.
LEMMA CommandTypeType == \A s \in ActiveStatus : CommandType(s) \in CommandTypes
BY DEF CommandType, CommandTypes, ActiveStatus, ActionStatus, CompensationStatus,
       FinalizationStatus

\* Only replies that exist are expected, and only with a command in flight.
LEMMA ExpectsType ==
    \A s \in ActiveStatus \cup TerminalStatus \cup {"NONE"} :
        /\ Expects(s) \subseteq ReplyTypes
        /\ s \notin ActiveStatus => Expects(s) = {}
BY DEF Expects, ReplyTypes, ActiveStatus, ActionStatus, CompensationStatus,
       FinalizationStatus, TerminalStatus

\* A reply leads to a state of the saga.
LEMMA StatusAfterType ==
    \A type \in ReplyTypes, physical \in BOOLEAN :
        StatusAfter(type, physical) \in ActiveStatus \cup TerminalStatus
BY DEF StatusAfter, AfterSuccess, AfterFailure, AfterCompensation, FailureTypes,
       CompensationTypes, ReplyTypes, ActiveStatus, ActionStatus, CompensationStatus,
       FinalizationStatus, TerminalStatus

\* An exhausted action leads to a compensation.
LEMMA CompensationType ==
    \A s \in ActionStatus : CompensationOnTimeout(s) \in CompensationStatus
BY DEF CompensationOnTimeout, ActionStatus, CompensationStatus

-----------------------------------------------------------------------------
(* Rows.                                                                   *)

\* What the transitions of a row return is a row.
LEMMA EnterType ==
    ASSUME NEW s \in Saga, NEW next \in ActiveStatus
    PROVE  /\ Enter(s, next) \in Saga
           /\ Enter(s, next).status = next
<1>1. s.id \in Nat /\ s.id + 1 \in Nat
  BY DEF Saga
<1>2. 1 \in 0..AttemptCap
  BY CoordinatorAssumption
<1> QED
  BY <1>1, <1>2, Zenon DEF Enter, Saga, Timer

\* Ending a row leaves a row, with no deadline.
LEMMA FinishType ==
    ASSUME NEW s \in Saga, NEW terminal \in TerminalStatus
    PROVE  /\ Finish(s, terminal) \in Saga
           /\ Finish(s, terminal).deadline = "none"
BY DEF Finish, Saga, Timer

\* A reply the row's state expects leaves a row; only a command arms its deadline.
LEMMA OnReplyType ==
    ASSUME NEW s \in Saga, NEW type \in Expects(s.status)
    PROVE  /\ OnReply(s, type) \in Saga
           /\ OnReply(s, type).deadline = "armed" => OnReply(s, type).status \in ActiveStatus
<1> DEFINE t == [s EXCEPT
                   !.failedStep = IF type \in FailureTypes THEN StepOf(s.status) ELSE @,
                   !.paymentId  = @ \/ type = "payment.authorized",
                   !.shipmentId = @ \/ type = "shipment.created"]
           next == StatusAfter(type, s.physical)
<1>1. type \in ReplyTypes
  BY ExpectsType DEF Saga
<1>2. t \in Saga
  BY StepOfType DEF Saga
<1>3. next \in ActiveStatus \cup TerminalStatus
  BY <1>1, StatusAfterType DEF Saga
<1>4. OnReply(s, type) = IF next \in TerminalStatus THEN Finish(t, next) ELSE Enter(t, next)
  BY DEF OnReply
<1> QED
  BY <1>2, <1>3, <1>4, EnterType, FinishType

\* So does a tick of a row that is due, be it a retry, a wait or a compensation.
LEMMA OnTickType ==
    ASSUME NEW s \in Saga, Due(s)
    PROVE  /\ OnTick(s) \in Saga
           /\ OnTick(s).deadline = "armed" => OnTick(s).status \in ActiveStatus
<1> DEFINE next == IF s.attempt < AttemptCap THEN s.attempt + 1 ELSE s.attempt
<1>1. Retried(s) \in Saga /\ Retried(s).status \in ActiveStatus
  <2>1. s.attempt \in 0..AttemptCap
    BY DEF Saga
  <2>2. next \in 0..AttemptCap
    BY <2>1, CoordinatorAssumption
  <2> QED
    BY <2>2 DEF Retried, Due, Saga, Timer
<1>2. CASE Exhausted(s)
  <2>1. s.status \in ActionStatus
    BY <1>2 DEF Exhausted
  <2>2. CompensationOnTimeout(s.status) \in ActiveStatus
    BY <2>1, CompensationType DEF ActiveStatus
  <2>3. [s EXCEPT !.failedStep = StepOf(s.status)] \in Saga
    BY StepOfType DEF Saga
  <2> QED
    BY <1>1, <1>2, <2>2, <2>3, EnterType DEF OnTick, TimedOut
<1>3. CASE ~ Exhausted(s)
  <2> DEFINE t == [s EXCEPT !.deadline = "none", !.nextRetry = "armed"]
  <2>1. t \in Saga /\ t.deadline = "none"
    BY DEF Saga, Timer
  <2> QED
    BY <1>1, <1>3, <2>1 DEF OnTick, TimedOut
<1> QED
  BY <1>2, <1>3

\* The start-up grace leaves a row.
LEMMA ResumeType ==
    ASSUME NEW s \in Saga
    PROVE  ResumeAfterRestart(s) \in Saga
BY DEF ResumeAfterRestart, Saga, Timer

\* The row of an order with no saga is well typed.
LEMMA NoSagaType == NoSaga \in Saga
BY CoordinatorAssumption DEF NoSaga, Saga, Timer

\* A row with its deadline armed is that of a state with a command: what Commit
\* sends is a message.
LEMMA SentType ==
    ASSUME NEW o \in Orders, NEW s \in Saga, s.deadline = "armed" => s.status \in ActiveStatus
    PROVE  Sent(o, s) \subseteq Message
BY CommandTypeType DEF Sent, CommandOf, Message, Saga

\* Committing a row and its command keeps the two tables well typed.
LEMMA CommitType ==
    ASSUME TypeOK, NEW o \in Orders, NEW s \in Saga,
           s.deadline = "armed" => s.status \in ActiveStatus, Commit(o, s)
    PROVE  saga' \in [Orders -> Saga] /\ commands' \subseteq Message
BY SentType DEF Commit, TypeOK

-----------------------------------------------------------------------------
(* Type correctness.                                                       *)

\* The empty tables are well typed.
LEMMA TypeInit == Init => TypeOK
BY NoSagaType, CoordinatorAssumption DEF Init, TypeOK

\* Every handler, tick, restart and grace keeps the tables well typed.
LEMMA TypeStep == TypeOK /\ [Next]_vars => TypeOK'
<1> SUFFICES ASSUME TypeOK, [Next]_vars PROVE TypeOK'
  OBVIOUS
<1>1. ASSUME NEW o \in Orders, NEW physical \in BOOLEAN, Start(o, physical) PROVE TypeOK'
  <2> DEFINE s == [NoSaga EXCEPT !.physical = physical]
  <2>1. s \in Saga
    BY NoSagaType DEF Saga
  <2>2. /\ Enter(s, "RESERVING_INVENTORY") \in Saga
        /\ Enter(s, "RESERVING_INVENTORY").status \in ActiveStatus
    BY <2>1, EnterType DEF ActiveStatus, ActionStatus
  <2> QED
    BY <1>1, <2>2, CommitType DEF Start, TypeOK
<1>2. ASSUME NEW o \in Orders, NEW cause \in 0..saga[o].id, NEW type \in ReplyTypes,
             AcceptReply(o, cause, type)
      PROVE TypeOK'
  BY <1>2, OnReplyType, CommitType DEF AcceptReply, Accepts, TypeOK
<1>3. ASSUME NEW o \in Orders, NEW cause \in 0..saga[o].id, NEW type \in ReplyTypes,
             IgnoreLateReply(o, cause, type)
      PROVE TypeOK'
  BY <1>3 DEF IgnoreLateReply, vars, TypeOK
<1>4. ASSUME NEW o \in Orders, NEW i \in Instances, Tick(i, o) PROVE TypeOK'
  BY <1>4, OnTickType, CommitType DEF Tick, TypeOK
<1>5. ASSUME NEW o \in Orders, TimerExpires(o) PROVE TypeOK'
  BY <1>5 DEF TimerExpires, TypeOK, Saga, Timer
<1>6. ASSUME NEW i \in Instances, Restart(i) PROVE TypeOK'
  BY <1>6, CoordinatorAssumption DEF Restart, TypeOK
<1>7. ASSUME NEW i \in Instances, NEW skipped \in SUBSET Orders, Resume(i, skipped)
      PROVE TypeOK'
  BY <1>7, ResumeType DEF Resume, TypeOK
<1>8. CASE UNCHANGED vars
  BY <1>8 DEF vars, TypeOK
<1> QED
  BY <1>1, <1>2, <1>3, <1>4, <1>5, <1>6, <1>7, <1>8 DEF Next

\* Every reachable state is well typed: no reply, tick or restart, in any order,
\* leaves a row with a state, step or timer the code does not have.
THEOREM TypeCorrect == Spec => []TypeOK
BY TypeInit, TypeStep, PTL DEF Spec

-----------------------------------------------------------------------------
(* The graph of the saga, and how a row moves along it.                    *)

\* Where a row in state s may go.
Successors(s) ==
    CASE s = "NONE"                -> {"RESERVING_INVENTORY"}
      [] s = "RESERVING_INVENTORY" -> {"AUTHORIZING_PAYMENT", "CANCELING_ORDER",
                                       "RELEASING_INVENTORY"}
      [] s = "AUTHORIZING_PAYMENT" -> {"CREATING_SHIPMENT", "CONFIRMING_ORDER",
                                       "RELEASING_INVENTORY", "REFUNDING_PAYMENT"}
      [] s = "CREATING_SHIPMENT"   -> {"CONFIRMING_ORDER", "REFUNDING_PAYMENT",
                                       "CANCELING_SHIPMENT"}
      [] s = "CANCELING_SHIPMENT"  -> {"REFUNDING_PAYMENT"}
      [] s = "REFUNDING_PAYMENT"   -> {"RELEASING_INVENTORY"}
      [] s = "RELEASING_INVENTORY" -> {"CANCELING_ORDER"}
      [] s = "CONFIRMING_ORDER"    -> {"COMPLETED"}
      [] s = "CANCELING_ORDER"     -> {"CANCELED"}
      [] OTHER                     -> {}

\* The row goes to another state, with a new command if one is in flight there.
Moves(s, t) ==
    /\ t.status \in Successors(s.status)
    /\ IF t.status \in ActiveStatus
         THEN /\ t.id = IF s.status = "NONE" THEN 1 ELSE s.id + 1
              /\ t.attempt = 1 /\ t.deadline = "armed" /\ t.nextRetry = "none"
         ELSE t.id = s.id /\ t.deadline = "none" /\ t.nextRetry = "none"

\* What is known of the payment, the shipment and the failure after the move.
Learns(s, t) ==
    /\ s.status = "NONE" => ~ t.shipmentId /\ t.failedStep = "NONE"
    /\ s.status # "NONE" => t.physical = s.physical
    /\ s.status # "NONE" /\ t.status \notin CompensationStatus \cup {"CANCELING_ORDER"} =>
         t.failedStep = s.failedStep
    /\ s.status = "RESERVING_INVENTORY" \/ s.status = "CONFIRMING_ORDER" =>
         t.paymentId = s.paymentId /\ t.shipmentId = s.shipmentId
    /\ s.status = "AUTHORIZING_PAYMENT" =>
         /\ t.shipmentId = s.shipmentId
         /\ t.status = "CREATING_SHIPMENT" => t.paymentId /\ s.physical
         /\ t.status = "CONFIRMING_ORDER" => t.paymentId /\ ~ s.physical
    /\ s.status = "CREATING_SHIPMENT" =>
         /\ t.paymentId = s.paymentId
         /\ t.status = "CONFIRMING_ORDER" => t.shipmentId

\* The row stays in its state: its timers run, or its command is retried, or its
\* retry is planned.
Stays(s, t) ==
    /\ t.status = s.status /\ t.id = s.id /\ t.physical = s.physical
    /\ t.failedStep = s.failedStep /\ t.paymentId = s.paymentId /\ t.shipmentId = s.shipmentId
    /\ \/ /\ t.attempt = s.attempt
          /\ t.deadline = "none" <=> s.deadline = "none"
          /\ t.nextRetry = "none" <=> s.nextRetry = "none"
       \/ /\ s.status \in ActiveStatus /\ s.nextRetry # "none"
          /\ t.attempt = IF s.attempt < AttemptCap THEN s.attempt + 1 ELSE s.attempt
          /\ t.deadline = "armed" /\ t.nextRetry = "none"
       \/ /\ s.status \in ActiveStatus /\ ~ Exhausted(s)
          /\ t.attempt = s.attempt
          /\ t.deadline = "none" /\ t.nextRetry = "armed"

\* The commands ever sent for o.
Of(o) == {m \in commands : m.order = o}

\* What a step does to one order, its row and its commands.
RowStep(o) ==
    \/ /\ Moves(saga[o], saga'[o]) /\ Learns(saga[o], saga'[o])
       /\ Of(o)' = Of(o) \cup (IF saga'[o].status \in ActiveStatus
                                 THEN {CommandOf(o, saga'[o])} ELSE {})
    \/ /\ Stays(saga[o], saga'[o])
       /\ \/ Of(o)' = Of(o)
          \/ saga[o].status \in ActiveStatus /\ Of(o)' = Of(o) \cup {CommandOf(o, saga[o])}

\* The fields of a row that enters a state, and of one that ends.
LEMMA EnterFields ==
    ASSUME NEW s \in Saga, NEW next \in ActiveStatus, NEW t, t = Enter(s, next)
    PROVE  /\ t.status = next /\ t.id = s.id + 1 /\ t.attempt = 1
           /\ t.deadline = "armed" /\ t.nextRetry = "none"
           /\ t.physical = s.physical /\ t.failedStep = s.failedStep
           /\ t.paymentId = s.paymentId /\ t.shipmentId = s.shipmentId
BY DEF Enter, Saga

\* The fields of a row that ends: nothing is forgotten.
LEMMA FinishFields ==
    ASSUME NEW s \in Saga, NEW terminal \in TerminalStatus, NEW t, t = Finish(s, terminal)
    PROVE  /\ t.status = terminal /\ t.id = s.id
           /\ t.deadline = "none" /\ t.nextRetry = "none"
           /\ t.physical = s.physical /\ t.failedStep = s.failedStep
           /\ t.paymentId = s.paymentId /\ t.shipmentId = s.shipmentId
BY DEF Finish, Saga

\* Which replies lead where.
LEMMA ReplySuccessor ==
    ASSUME NEW s \in Saga, NEW type \in Expects(s.status),
           NEW next, next = StatusAfter(type, s.physical)
    PROVE  /\ next \in Successors(s.status)
           /\ next \notin CompensationStatus \cup {"CANCELING_ORDER"} => type \notin FailureTypes
           /\ type = "payment.authorized" => s.status = "AUTHORIZING_PAYMENT"
           /\ type = "shipment.created" => s.status = "CREATING_SHIPMENT"
           /\ s.status = "AUTHORIZING_PAYMENT" =>
                /\ next = "CREATING_SHIPMENT" => type = "payment.authorized" /\ s.physical
                /\ next = "CONFIRMING_ORDER" => type = "payment.authorized" /\ ~ s.physical
           /\ s.status = "CREATING_SHIPMENT" /\ next = "CONFIRMING_ORDER" =>
                type = "shipment.created"
BY DEF Expects, StatusAfter, AfterSuccess, AfterFailure, AfterCompensation, FailureTypes,
       CompensationTypes, Successors, Saga, ActiveStatus, ActionStatus, CompensationStatus,
       FinalizationStatus, TerminalStatus

\* An accepted reply moves the row.
LEMMA OnReplyMoves ==
    ASSUME NEW s \in Saga, NEW type \in Expects(s.status)
    PROVE  Moves(s, OnReply(s, type)) /\ Learns(s, OnReply(s, type))
<1> DEFINE t == [s EXCEPT
                   !.failedStep = IF type \in FailureTypes THEN StepOf(s.status) ELSE @,
                   !.paymentId  = @ \/ type = "payment.authorized",
                   !.shipmentId = @ \/ type = "shipment.created"]
           next == StatusAfter(type, s.physical)
           u == OnReply(s, type)
<1>1. type \in ReplyTypes /\ s.status # "NONE"
  BY ExpectsType DEF Saga, ActiveStatus, ActionStatus, CompensationStatus, FinalizationStatus
<1>2. next \in ActiveStatus \cup TerminalStatus
  BY <1>1, StatusAfterType DEF Saga
<1>3. /\ t \in Saga
      /\ t.id = s.id /\ t.physical = s.physical
      /\ type = "payment.authorized" => t.paymentId
      /\ type # "payment.authorized" => t.paymentId = s.paymentId
      /\ type = "shipment.created" => t.shipmentId
      /\ type # "shipment.created" => t.shipmentId = s.shipmentId
      /\ type \notin FailureTypes => t.failedStep = s.failedStep
  BY StepOfType DEF Saga
<1>4. u = IF next \in TerminalStatus THEN Finish(t, next) ELSE Enter(t, next)
  BY DEF OnReply
<1>5. /\ next \in Successors(s.status)
      /\ next \notin CompensationStatus \cup {"CANCELING_ORDER"} => type \notin FailureTypes
      /\ type = "payment.authorized" => s.status = "AUTHORIZING_PAYMENT"
      /\ type = "shipment.created" => s.status = "CREATING_SHIPMENT"
      /\ s.status = "AUTHORIZING_PAYMENT" =>
           /\ next = "CREATING_SHIPMENT" => type = "payment.authorized" /\ s.physical
           /\ next = "CONFIRMING_ORDER" => type = "payment.authorized" /\ ~ s.physical
      /\ s.status = "CREATING_SHIPMENT" /\ next = "CONFIRMING_ORDER" =>
           type = "shipment.created"
  BY ReplySuccessor
<1> HIDE DEF t, next, u
<1>6. /\ u.status = next /\ u.physical = t.physical /\ u.failedStep = t.failedStep
      /\ u.paymentId = t.paymentId /\ u.shipmentId = t.shipmentId
      /\ IF next \in ActiveStatus
           THEN u.id = t.id + 1 /\ u.attempt = 1 /\ u.deadline = "armed" /\ u.nextRetry = "none"
           ELSE u.id = t.id /\ u.deadline = "none" /\ u.nextRetry = "none"
  <2>1. CASE next \in TerminalStatus
    <3>1. u = Finish(t, next) /\ next \notin ActiveStatus
      BY <1>4, <2>1 DEF TerminalStatus, ActiveStatus, ActionStatus, CompensationStatus,
                        FinalizationStatus
    <3> QED
      BY <1>3, <2>1, <3>1, FinishFields
  <2>2. CASE next \notin TerminalStatus
    <3>1. u = Enter(t, next) /\ next \in ActiveStatus
      BY <1>2, <1>4, <2>2
    <3> QED
      BY <1>3, <3>1, EnterFields
  <2> QED
    BY <2>1, <2>2
<1>7. Moves(s, u)
  BY <1>1, <1>3, <1>5, <1>6 DEF Moves
<1>8. Learns(s, u)
  BY <1>1, <1>3, <1>5, <1>6 DEF Learns
<1> QED
  BY <1>7, <1>8 DEF u

\* A tick of a due row retries, plans a retry, or moves the row to the compensation.
LEMMA OnTickMoves ==
    ASSUME NEW s \in Saga, Due(s)
    PROVE  \/ Moves(s, OnTick(s)) /\ Learns(s, OnTick(s))
           \/ Stays(s, OnTick(s)) /\ (OnTick(s).deadline = "armed" => s.nextRetry = "due")
<1>0. s.status \in ActiveStatus
  BY DEF Due
<1>1. CASE s.nextRetry = "due"
  <2>1. OnTick(s) = Retried(s)
    BY <1>1 DEF OnTick
  <2>2. /\ Retried(s).status = s.status /\ Retried(s).id = s.id
        /\ Retried(s).physical = s.physical /\ Retried(s).failedStep = s.failedStep
        /\ Retried(s).paymentId = s.paymentId /\ Retried(s).shipmentId = s.shipmentId
        /\ Retried(s).attempt = IF s.attempt < AttemptCap THEN s.attempt + 1 ELSE s.attempt
        /\ Retried(s).deadline = "armed" /\ Retried(s).nextRetry = "none"
    BY DEF Retried, Saga
  <2> QED
    BY <1>0, <1>1, <2>1, <2>2 DEF Stays
<1>2. CASE s.nextRetry # "due" /\ Exhausted(s)
  <2> DEFINE f == [s EXCEPT !.failedStep = StepOf(s.status)]
             next == CompensationOnTimeout(s.status)
  <2>1. OnTick(s) = Enter(f, next)
    BY <1>2 DEF OnTick, TimedOut
  <2>2. f \in Saga /\ f.id = s.id /\ f.physical = s.physical
        /\ f.paymentId = s.paymentId /\ f.shipmentId = s.shipmentId
    BY StepOfType DEF Saga
  <2>3. s.status \in ActionStatus
    BY <1>2 DEF Exhausted
  <2>4. next \in CompensationStatus /\ next \in Successors(s.status) /\ next \in ActiveStatus
    BY <2>3, CompensationType
    DEF CompensationOnTimeout, Successors, ActionStatus, ActiveStatus
  <2>5. s.status # "NONE" /\ next \notin {"CREATING_SHIPMENT", "CONFIRMING_ORDER"}
    BY <2>3, <2>4 DEF ActionStatus, CompensationStatus
  <2> HIDE DEF f, next
  <2>6. /\ next = OnTick(s).status /\ OnTick(s).id = s.id + 1 /\ OnTick(s).attempt = 1
        /\ OnTick(s).deadline = "armed" /\ OnTick(s).nextRetry = "none"
        /\ OnTick(s).physical = s.physical
        /\ OnTick(s).paymentId = s.paymentId /\ OnTick(s).shipmentId = s.shipmentId
    BY <2>1, <2>2, <2>4, EnterFields
  <2>7. Moves(s, OnTick(s))
    BY <2>4, <2>5, <2>6 DEF Moves
  <2>8. OnTick(s).status \in CompensationStatus
    BY <2>4, <2>6
  <2>9. Learns(s, OnTick(s))
    BY <2>5, <2>6, <2>8 DEF Learns
  <2> QED
    BY <2>7, <2>9
<1>3. CASE s.nextRetry # "due" /\ ~ Exhausted(s)
  <2> DEFINE t == [s EXCEPT !.deadline = "none", !.nextRetry = "armed"]
  <2>1. OnTick(s) = t
    BY <1>3 DEF OnTick, TimedOut
  <2>2. /\ t.status = s.status /\ t.id = s.id
        /\ t.physical = s.physical /\ t.failedStep = s.failedStep
        /\ t.paymentId = s.paymentId /\ t.shipmentId = s.shipmentId
        /\ t.attempt = s.attempt /\ t.deadline = "none" /\ t.nextRetry = "armed"
    BY DEF Saga
  <2>3. Stays(s, t)
    BY <1>0, <1>3, <2>2 DEF Stays
  <2> QED
    BY <2>1, <2>2, <2>3
<1> QED
  BY <1>1, <1>2, <1>3

\* A transaction touches one row and one order's commands.
LEMMA CommitOf ==
    ASSUME TypeOK, NEW o \in Orders, NEW s \in Saga, Commit(o, s), NEW p \in Orders
    PROVE  /\ saga'[p] = IF p = o THEN s ELSE saga[p]
           /\ Of(p)' = Of(p) \cup (IF p = o THEN Sent(o, s) ELSE {})
<1>1. saga' = [saga EXCEPT ![o] = s] /\ saga \in [Orders -> Saga]
  BY DEF Commit, TypeOK
<1>2. \A m \in Sent(o, s) : m.order = o
  BY DEF Sent, CommandOf
<1>3. commands' = commands \cup Sent(o, s)
  BY DEF Commit
<1>4. Of(p)' = Of(p) \cup {m \in Sent(o, s) : m.order = p}
  BY <1>3 DEF Of
<1>5. {m \in Sent(o, s) : m.order = p} = IF p = o THEN Sent(o, s) ELSE {}
  BY <1>2
<1> QED
  BY <1>1, <1>4, <1>5

\* An order whose row and commands a step leaves alone makes a RowStep, of no effect.
LEMMA Untouched ==
    ASSUME NEW o \in Orders, saga'[o] = saga[o], Of(o)' = Of(o)
    PROVE  RowStep(o)
BY DEF RowStep, Stays

\* Every step is a row step for every order.
LEMMA StepOfRow ==
    ASSUME TypeOK, [Next]_vars, NEW p \in Orders
    PROVE  RowStep(p)
<1>0. saga \in [Orders -> Saga] /\ saga[p] \in Saga
  BY DEF TypeOK
<1>1. ASSUME NEW o \in Orders, NEW physical \in BOOLEAN, Start(o, physical) PROVE RowStep(p)
  <2> DEFINE s == [NoSaga EXCEPT !.physical = physical]
             t == Enter(s, "RESERVING_INVENTORY")
  <2>1. s \in Saga /\ s.id = 0 /\ ~ s.shipmentId /\ s.failedStep = "NONE"
    BY NoSagaType DEF NoSaga, Saga
  <2>2. "RESERVING_INVENTORY" \in ActiveStatus
    BY DEF ActiveStatus, ActionStatus
  <2>3. t \in Saga
    BY <2>1, <2>2, EnterType
  <2> HIDE DEF s
  <2>4. /\ t.status = "RESERVING_INVENTORY" /\ t.id = 1 /\ t.attempt = 1
        /\ t.deadline = "armed" /\ t.nextRetry = "none"
        /\ ~ t.shipmentId /\ t.failedStep = "NONE"
    BY <2>1, <2>2, EnterFields
  <2>5. saga[o].status = "NONE" /\ Commit(o, t)
    BY <1>1 DEF Start, s
  <2>6. Sent(o, t) = {CommandOf(o, t)}
    BY <2>4 DEF Sent
  <2> HIDE DEF t
  <2>7. /\ saga'[p] = IF p = o THEN t ELSE saga[p]
        /\ Of(p)' = Of(p) \cup (IF p = o THEN Sent(o, t) ELSE {})
    BY <2>3, <2>5, CommitOf
  <2>8. CASE p = o
    <3>1. Moves(saga[o], t) /\ Learns(saga[o], t)
      BY <2>2, <2>4, <2>5 DEF Moves, Learns, Successors
    <3> QED
      BY <2>2, <2>4, <2>6, <2>7, <2>8, <3>1 DEF RowStep
  <2>9. CASE p # o
    BY <2>7, <2>9, Untouched
  <2> QED
    BY <2>8, <2>9
<1>2. ASSUME NEW o \in Orders, NEW cause \in 0..saga[o].id, NEW type \in ReplyTypes,
             AcceptReply(o, cause, type)
      PROVE RowStep(p)
  <2> DEFINE t == OnReply(saga[o], type)
  <2>1. saga[o] \in Saga /\ type \in Expects(saga[o].status) /\ Commit(o, t)
    BY <1>2 DEF AcceptReply, Accepts, TypeOK
  <2>2. t \in Saga
    BY <2>1, OnReplyType
  <2>3. Moves(saga[o], t) /\ Learns(saga[o], t)
    BY <2>1, OnReplyMoves
  <2> HIDE DEF t
  <2>4. /\ saga'[p] = IF p = o THEN t ELSE saga[p]
        /\ Of(p)' = Of(p) \cup (IF p = o THEN Sent(o, t) ELSE {})
    BY <2>1, <2>2, CommitOf
  <2>5. Sent(o, t) = IF t.status \in ActiveStatus THEN {CommandOf(o, t)} ELSE {}
    BY <2>3 DEF Sent, Moves
  <2>6. CASE p = o
    BY <2>3, <2>4, <2>5, <2>6 DEF RowStep
  <2>7. CASE p # o
    BY <2>4, <2>7, Untouched
  <2> QED
    BY <2>6, <2>7
<1>3. ASSUME NEW o \in Orders, NEW i \in Instances, Tick(i, o) PROVE RowStep(p)
  <2> DEFINE t == OnTick(saga[o])
  <2>1. saga[o] \in Saga /\ Due(saga[o]) /\ Commit(o, t)
    BY <1>3 DEF Tick, TypeOK
  <2>2. t \in Saga
    BY <2>1, OnTickType
  <2>3. \/ Moves(saga[o], t) /\ Learns(saga[o], t)
        \/ Stays(saga[o], t)
    BY <2>1, OnTickMoves
  <2> HIDE DEF t
  <2>4. /\ saga'[p] = IF p = o THEN t ELSE saga[p]
        /\ Of(p)' = Of(p) \cup (IF p = o THEN Sent(o, t) ELSE {})
    BY <2>1, <2>2, CommitOf
  <2>5. CASE p = o /\ Moves(saga[o], t) /\ Learns(saga[o], t)
    <3>1. Sent(o, t) = IF t.status \in ActiveStatus THEN {CommandOf(o, t)} ELSE {}
      BY <2>5 DEF Sent, Moves
    <3> QED
      BY <2>4, <2>5, <3>1 DEF RowStep
  <2>6. CASE p = o /\ Stays(saga[o], t)
    <3>1. Sent(o, t) \in {{}, {CommandOf(o, t)}}
      BY DEF Sent
    <3>2. CommandOf(o, t) = CommandOf(o, saga[o]) /\ saga[o].status \in ActiveStatus
      BY <2>1, <2>6 DEF CommandOf, Stays, Due
    <3> QED
      BY <2>4, <2>6, <3>1, <3>2 DEF RowStep
  <2>7. CASE p # o
    BY <2>4, <2>7, Untouched
  <2> QED
    BY <2>3, <2>5, <2>6, <2>7
<1>4. ASSUME NEW o \in Orders, TimerExpires(o) PROVE RowStep(p)
  <2>1. Of(p)' = Of(p) /\ (p # o => saga'[p] = saga[p])
    BY <1>0, <1>4 DEF TimerExpires, Of
  <2>2. Stays(saga[p], saga'[p])
    BY <1>0, <1>4 DEF TimerExpires, Stays, Saga
  <2> QED
    BY <2>1, <2>2 DEF RowStep
<1>5. ASSUME NEW i \in Instances, NEW skipped \in SUBSET Orders, Resume(i, skipped)
      PROVE RowStep(p)
  <2>1. Of(p)' = Of(p)
    BY <1>5 DEF Resume, Of
  <2>2. saga'[p] = saga[p] \/ saga'[p] = ResumeAfterRestart(saga[p])
    BY <1>5 DEF Resume
  <2>3. Stays(saga[p], ResumeAfterRestart(saga[p])) /\ Stays(saga[p], saga[p])
    BY <1>0 DEF ResumeAfterRestart, Stays, Saga
  <2> QED
    BY <2>1, <2>2, <2>3 DEF RowStep
<1>6. CASE UNCHANGED <<saga, commands>>
  BY <1>6, Untouched DEF Of
<1> QED
  BY <1>1, <1>2, <1>3, <1>4, <1>5, <1>6 DEF Next, vars, IgnoreLateReply, Restart

-----------------------------------------------------------------------------
(* The scheduler: timers and retries.                                      *)

\* With no saga there is no timer and no retry.
LEMMA TimerInit == Init => OneTimer /\ RetryBudget
BY DEF Init, OneTimer, RetryBudget, NoSaga, ActiveStatus, ActionStatus, CompensationStatus,
       FinalizationStatus

\* Every step leaves a row in progress exactly one timer, and the tries in the budget.
LEMMA TimerStep ==
    TypeOK /\ OneTimer /\ RetryBudget /\ [Next]_vars => OneTimer' /\ RetryBudget'
<1> SUFFICES ASSUME TypeOK, OneTimer, RetryBudget, [Next]_vars, NEW o \in Orders
             PROVE  /\ IF saga'[o].status \in ActiveStatus
                         THEN (saga'[o].deadline = "none") # (saga'[o].nextRetry = "none")
                         ELSE saga'[o].deadline = "none" /\ saga'[o].nextRetry = "none"
                    /\ saga'[o].status \in ActionStatus =>
                         /\ saga'[o].attempt \in 1..(StepMaxRetries + 1)
                         /\ saga'[o].nextRetry # "none" => saga'[o].attempt <= StepMaxRetries
  BY DEF OneTimer, RetryBudget
<1> DEFINE s == saga[o]
           t == saga'[o]
<1>1. saga[o] \in Saga /\ RowStep(o)
  BY StepOfRow DEF TypeOK
<1>2. ActionStatus \subseteq ActiveStatus
  BY DEF ActiveStatus
<1>3. CASE Moves(s, t)
  BY <1>2, <1>3, CoordinatorAssumption DEF Moves
<1>4. CASE Stays(s, t)
  <2>1. /\ IF s.status \in ActiveStatus
             THEN (s.deadline = "none") # (s.nextRetry = "none")
             ELSE s.deadline = "none" /\ s.nextRetry = "none"
        /\ s.status \in ActionStatus =>
             /\ s.attempt \in 1..(StepMaxRetries + 1)
             /\ s.nextRetry # "none" => s.attempt <= StepMaxRetries
    BY DEF OneTimer, RetryBudget
  <2> HIDE DEF s, t
  <2>2. IF t.status \in ActiveStatus
          THEN (t.deadline = "none") # (t.nextRetry = "none")
          ELSE t.deadline = "none" /\ t.nextRetry = "none"
    BY <1>4, <2>1 DEF Stays
  <2>3. t.status \in ActionStatus => t.attempt \in 1..(StepMaxRetries + 1)
    BY <1>4, <2>1, CoordinatorAssumption DEF Stays
  <2>4. t.status \in ActionStatus /\ t.nextRetry # "none" => t.attempt <= StepMaxRetries
    BY <1>4, <2>1, CoordinatorAssumption DEF Stays, Exhausted
  <2> QED
    BY <2>2, <2>3, <2>4 DEF t
<1> QED
  BY <1>1, <1>3, <1>4 DEF RowStep

\* No saga in progress is ever without a timer, none has two, and a finished one
\* has none, for any number of replicas and restarts.
THEOREM OneTimerAlways == Spec => []OneTimer
<1>1. TypeOK /\ OneTimer /\ RetryBudget /\ [Next]_vars => (TypeOK /\ OneTimer /\ RetryBudget)'
  BY TypeStep, TimerStep
<1> QED
  BY <1>1, TypeInit, TimerInit, PTL DEF Spec

\* However replies, scans, restarts and replicas interleave, an action is tried
\* at most 1 + StepMaxRetries times, for every value of StepMaxRetries.
THEOREM RetryBudgetAlways == Spec => []RetryBudget
<1>1. TypeOK /\ OneTimer /\ RetryBudget /\ [Next]_vars => (TypeOK /\ OneTimer /\ RetryBudget)'
  BY TypeStep, TimerStep
<1> QED
  BY <1>1, TypeInit, TimerInit, PTL DEF Spec

-----------------------------------------------------------------------------
(* The commands: what a row's state says of all that was sent before.      *)

\* The types of command a saga in state s may have sent.
SentBy(s) ==
    CASE s = "NONE" -> {}
      [] s = "RESERVING_INVENTORY" -> {"inventory.reserve"}
      [] s = "AUTHORIZING_PAYMENT" -> {"inventory.reserve", "payment.authorize"}
      [] s = "CREATING_SHIPMENT" ->
            {"inventory.reserve", "payment.authorize", "shipment.create"}
      [] s \in {"CONFIRMING_ORDER", "COMPLETED"} ->
            {"inventory.reserve", "payment.authorize", "shipment.create", "order.confirm"}
      [] s = "CANCELING_SHIPMENT" ->
            {"inventory.reserve", "payment.authorize", "shipment.create", "shipment.cancel"}
      [] s = "REFUNDING_PAYMENT" ->
            {"inventory.reserve", "payment.authorize", "shipment.create", "shipment.cancel",
             "payment.refund"}
      [] s = "RELEASING_INVENTORY" ->
            {"inventory.reserve", "payment.authorize", "shipment.create", "shipment.cancel",
             "payment.refund", "inventory.release"}
      [] OTHER ->
            {"inventory.reserve", "payment.authorize", "shipment.create", "shipment.cancel",
             "payment.refund", "inventory.release", "order.cancel"}

\* The way back was walked in order.
History ==
    \A o \in Orders :
        /\ Types(o) \subseteq SentBy(saga[o].status)
        /\ saga[o].status \in {"RELEASING_INVENTORY", "CANCELING_ORDER", "CANCELED"}
             /\ "shipment.create" \in Types(o) => "payment.refund" \in Types(o)
        /\ saga[o].status \in {"CANCELING_ORDER", "CANCELED"}
             /\ "payment.authorize" \in Types(o) => "inventory.release" \in Types(o)

\* The inductive invariant of the commands.
CommandInv == TypeOK /\ CommandPerState /\ History

\* With no saga no command was sent.
LEMMA CommandInit == Init => CommandPerState /\ History
BY DEF Init, CommandPerState, History, Types, NoSaga, SentBy, ActiveStatus, ActionStatus,
       CompensationStatus, FinalizationStatus

\* A state is entered only once: the command it sends is of a new type.
LEMMA NewType ==
    ASSUME NEW s, NEW next \in Successors(s), next \in ActiveStatus
    PROVE  /\ CommandType(next) \notin SentBy(s)
           /\ SentBy(s) \cup {CommandType(next)} \subseteq SentBy(next)
BY DEF Successors, CommandType, SentBy, ActiveStatus, ActionStatus, CompensationStatus,
       FinalizationStatus

\* A finished saga has sent what it had sent.
LEMMA EndType ==
    ASSUME NEW s, NEW next \in Successors(s), next \notin ActiveStatus
    PROVE  SentBy(s) = SentBy(next) /\ s \in FinalizationStatus /\ next \in TerminalStatus
BY DEF Successors, SentBy, ActiveStatus, ActionStatus, CompensationStatus,
       FinalizationStatus, TerminalStatus

\* A step sends nothing, the command of the state it enters, or the row's last command
\* once more: none is doubled and the way back is walked in order.
LEMMA CommandStep ==
    TypeOK /\ CommandPerState /\ History /\ [Next]_vars => CommandPerState' /\ History'
<1> SUFFICES ASSUME TypeOK, CommandPerState, History, [Next]_vars, NEW o \in Orders
             PROVE  /\ saga'[o].status \in ActiveStatus => CommandOf(o, saga'[o]) \in Of(o)'
                    /\ \A c, d \in Of(o)' :
                         /\ c.id \in 1..saga'[o].id
                         /\ c.id = d.id \/ c.type = d.type => c = d
                    /\ Types(o)' \subseteq SentBy(saga'[o].status)
                    /\ saga'[o].status \in {"RELEASING_INVENTORY", "CANCELING_ORDER", "CANCELED"}
                         /\ "shipment.create" \in Types(o)' => "payment.refund" \in Types(o)'
                    /\ saga'[o].status \in {"CANCELING_ORDER", "CANCELED"}
                         /\ "payment.authorize" \in Types(o)' => "inventory.release" \in Types(o)'
  BY DEF CommandPerState, History, Of
<1> DEFINE s == saga[o]
           t == saga'[o]
           n == CommandOf(o, t)
<1>1. s \in Saga /\ RowStep(o)
  BY StepOfRow DEF TypeOK
<1>2. /\ s.status \in ActiveStatus => CommandOf(o, s) \in Of(o)
      /\ \A c, d \in Of(o) :
           /\ c.id \in 1..s.id
           /\ c.id = d.id \/ c.type = d.type => c = d
  BY DEF CommandPerState, Of, CommandOf
<1>3. /\ \A c \in Of(o) : c.type \in SentBy(s.status) /\ c.type \in Types(o)
      /\ Types(o)' = {c.type : c \in Of(o)'}
      /\ Types(o) = {c.type : c \in Of(o)}
  BY DEF History, Types, Of
<1>4. /\ Types(o) \subseteq SentBy(s.status)
      /\ s.status \in {"RELEASING_INVENTORY", "CANCELING_ORDER", "CANCELED"}
           /\ "shipment.create" \in Types(o) => "payment.refund" \in Types(o)
      /\ s.status \in {"CANCELING_ORDER", "CANCELED"}
           /\ "payment.authorize" \in Types(o) => "inventory.release" \in Types(o)
  BY DEF History
<1>5. s.status \in ActiveStatus => CommandType(s.status) \in Types(o)
  BY <1>2, <1>3 DEF CommandOf
<1>6. CASE Moves(s, t) /\ t.status \in ActiveStatus /\ Of(o)' = Of(o) \cup {n}
  <2>1. n.id = t.id /\ n.type = CommandType(t.status)
    BY DEF CommandOf
  <2>2. n.type \notin SentBy(s.status) /\ SentBy(s.status) \cup {n.type} \subseteq SentBy(t.status)
    BY <1>6, <2>1, NewType DEF Moves
  <2>3. Types(o)' = Types(o) \cup {n.type}
    BY <1>3, <1>6
  <2>4. \A c \in Of(o) : c.id \in 1..t.id /\ c.id # t.id
    <3>1. CASE s.status = "NONE"
      BY <1>3, <3>1 DEF SentBy
    <3>2. CASE s.status # "NONE"
      BY <1>1, <1>2, <1>6, <3>2 DEF Moves, Saga
    <3> QED
      BY <3>1, <3>2
  <2>5. t.id \in 1..t.id
    BY <1>1, <1>6 DEF Moves, Saga
  <2>6. \A c, d \in Of(o)' : c.id \in 1..t.id /\ (c.id = d.id \/ c.type = d.type => c = d)
    BY <1>2, <1>3, <1>6, <2>1, <2>2, <2>4, <2>5
  <2>7. t.status \in {"RELEASING_INVENTORY", "CANCELING_ORDER", "CANCELED"}
         /\ "shipment.create" \in Types(o)' => "payment.refund" \in Types(o)'
    <3> SUFFICES ASSUME t.status \in {"RELEASING_INVENTORY", "CANCELING_ORDER"},
                        "shipment.create" \in Types(o)
                 PROVE  "payment.refund" \in Types(o)
      BY <1>6, <2>1, <2>3 DEF ActiveStatus, ActionStatus, CompensationStatus,
                              FinalizationStatus, CommandType
    <3>1. s.status \in {"REFUNDING_PAYMENT", "RELEASING_INVENTORY"}
      BY <1>4, <1>6 DEF Moves, Successors, SentBy
    <3>2. s.status \in ActiveStatus
      BY <3>1 DEF ActiveStatus, CompensationStatus
    <3> QED
      BY <1>4, <1>5, <3>1, <3>2 DEF CommandType
  <2>8. t.status \in {"CANCELING_ORDER", "CANCELED"}
         /\ "payment.authorize" \in Types(o)' => "inventory.release" \in Types(o)'
    <3> SUFFICES ASSUME t.status = "CANCELING_ORDER", "payment.authorize" \in Types(o)
                 PROVE  "inventory.release" \in Types(o)
      BY <1>6, <2>1, <2>3 DEF ActiveStatus, ActionStatus, CompensationStatus,
                              FinalizationStatus, CommandType
    <3>1. s.status = "RELEASING_INVENTORY"
      BY <1>4, <1>6 DEF Moves, Successors, SentBy
    <3>2. s.status \in ActiveStatus
      BY <3>1 DEF ActiveStatus, CompensationStatus
    <3> QED
      BY <1>5, <3>1, <3>2 DEF CommandType
  <2> QED
    BY <1>4, <1>6, <2>2, <2>3, <2>6, <2>7, <2>8
<1>7. CASE Moves(s, t) /\ t.status \notin ActiveStatus /\ Of(o)' = Of(o)
  <2>1. SentBy(s.status) = SentBy(t.status) /\ t.id = s.id
    BY <1>7, EndType DEF Moves
  <2>2. t.status \in {"RELEASING_INVENTORY", "CANCELING_ORDER", "CANCELED"} =>
          t.status = "CANCELED" /\ s.status = "CANCELING_ORDER"
    BY <1>7 DEF Moves, Successors, ActiveStatus, CompensationStatus, FinalizationStatus
  <2>3. Types(o)' = Types(o)
    BY <1>3, <1>7
  <2> QED
    BY <1>2, <1>4, <1>7, <2>1, <2>2, <2>3
<1>8. CASE /\ Stays(s, t)
           /\ \/ Of(o)' = Of(o)
              \/ s.status \in ActiveStatus /\ Of(o)' = Of(o) \cup {CommandOf(o, s)}
  <2>1. Of(o)' = Of(o)
    BY <1>2, <1>8
  <2>2. Types(o)' = Types(o)
    BY <1>3, <2>1
  <2>3. t.status = s.status /\ t.id = s.id /\ CommandOf(o, t) = CommandOf(o, s)
    BY <1>8 DEF Stays, CommandOf
  <2> QED
    BY <1>2, <1>4, <2>1, <2>2, <2>3
<1>9. \/ Moves(s, t) /\ t.status \in ActiveStatus /\ Of(o)' = Of(o) \cup {n}
      \/ Moves(s, t) /\ t.status \notin ActiveStatus /\ Of(o)' = Of(o)
      \/ /\ Stays(s, t)
         /\ \/ Of(o)' = Of(o)
            \/ s.status \in ActiveStatus /\ Of(o)' = Of(o) \cup {CommandOf(o, s)}
  <2>1. CASE t.status \in ActiveStatus
    BY <1>1, <2>1 DEF RowStep
  <2>2. CASE t.status \notin ActiveStatus
    BY <1>1, <2>2 DEF RowStep
  <2> QED
    BY <2>1, <2>2
<1> QED
  BY <1>6, <1>7, <1>8, <1>9

\* The invariant the three theorems about commands follow from.
LEMMA CommandInvariant == Spec => []CommandInv
<1>1. Init => CommandInv
  BY TypeInit, CommandInit DEF CommandInv
<1>2. CommandInv /\ [Next]_vars => CommandInv'
  BY TypeStep, CommandStep DEF CommandInv
<1> QED
  BY <1>1, <1>2, PTL DEF Spec

\* One command per state entered: no messageId is given to two commands, no type
\* of command is sent under two messageIds, and the row's last command was sent.
THEOREM CommandPerStateAlways == Spec => []CommandPerState
BY CommandInvariant, PTL DEF CommandInv

\* No sequence of replies, timeouts and restarts makes the coordinator tell an
\* order both to confirm and to cancel.
THEOREM NeverBothVerdictsAlways == Spec => []NeverBothVerdicts
<1>1. CommandInv => NeverBothVerdicts
  <2> SUFFICES ASSUME CommandInv, NEW o \in Orders
               PROVE  ~ {"order.confirm", "order.cancel"} \subseteq Types(o)
    BY DEF NeverBothVerdicts
  <2>1. Types(o) \subseteq SentBy(saga[o].status)
    BY DEF CommandInv, History
  <2> QED
    BY <2>1 DEF SentBy
<1> QED
  BY <1>1, CommandInvariant, PTL

\* An order is cancelled only after the compensations of all that may have taken
\* effect were sent, in reverse order.
THEOREM CompensatedInReverseAlways == Spec => []CompensatedInReverse
<1>1. CommandInv => CompensatedInReverse
  <2> SUFFICES ASSUME CommandInv, NEW o \in Orders
               PROVE  /\ {"order.cancel", "payment.authorize"} \subseteq Types(o)
                           => "inventory.release" \in Types(o)
                      /\ {"inventory.release", "shipment.create"} \subseteq Types(o)
                           => "payment.refund" \in Types(o)
                      /\ "order.confirm" \in Types(o)
                           => Types(o) \cap {"shipment.cancel", "payment.refund",
                                            "inventory.release"} = {}
    BY DEF CompensatedInReverse
  <2>1. /\ Types(o) \subseteq SentBy(saga[o].status)
        /\ saga[o].status \in ActiveStatus \cup TerminalStatus \cup {"NONE"}
        /\ saga[o].status \in {"RELEASING_INVENTORY", "CANCELING_ORDER", "CANCELED"}
             /\ "shipment.create" \in Types(o) => "payment.refund" \in Types(o)
        /\ saga[o].status \in {"CANCELING_ORDER", "CANCELED"}
             /\ "payment.authorize" \in Types(o) => "inventory.release" \in Types(o)
    BY DEF CommandInv, History, TypeOK, Saga
  <2> QED
    BY <2>1 DEF SentBy, ActiveStatus, ActionStatus, CompensationStatus,
                FinalizationStatus, TerminalStatus
<1> QED
  BY <1>1, CommandInvariant, PTL

-----------------------------------------------------------------------------
(* The ids of order.confirm.                                               *)

\* What a state on the way to confirmation says of the ids and of failures: ConfirmCarriesIds
\* is not inductive, for the ids are learnt in the two states before.
IdsKnown ==
    \A o \in Orders :
        /\ saga[o].status \in {"RESERVING_INVENTORY", "AUTHORIZING_PAYMENT"} =>
             ~ saga[o].shipmentId /\ saga[o].failedStep = "NONE"
        /\ saga[o].status = "CREATING_SHIPMENT" =>
             saga[o].paymentId /\ saga[o].physical /\ saga[o].failedStep = "NONE"
        /\ saga[o].status \in {"CONFIRMING_ORDER", "COMPLETED"} =>
             /\ saga[o].paymentId
             /\ saga[o].shipmentId = saga[o].physical
             /\ saga[o].failedStep = "NONE"

\* No step forgets a payment or shipment id, or reports a failure, before the confirmation.
LEMMA IdsStep == TypeOK /\ IdsKnown /\ [Next]_vars => IdsKnown'
<1> SUFFICES ASSUME TypeOK, IdsKnown, [Next]_vars, NEW o \in Orders
             PROVE  /\ saga'[o].status \in {"RESERVING_INVENTORY", "AUTHORIZING_PAYMENT"} =>
                         ~ saga'[o].shipmentId /\ saga'[o].failedStep = "NONE"
                    /\ saga'[o].status = "CREATING_SHIPMENT" =>
                         /\ saga'[o].paymentId /\ saga'[o].physical
                         /\ saga'[o].failedStep = "NONE"
                    /\ saga'[o].status \in {"CONFIRMING_ORDER", "COMPLETED"} =>
                         /\ saga'[o].paymentId
                         /\ saga'[o].shipmentId = saga'[o].physical
                         /\ saga'[o].failedStep = "NONE"
  BY DEF IdsKnown
<1> DEFINE s == saga[o]
           t == saga'[o]
<1>1. s \in Saga /\ RowStep(o)
  BY StepOfRow DEF TypeOK
<1>2. t \in Saga
  BY TypeStep DEF TypeOK
<1>3. /\ s.status \in {"RESERVING_INVENTORY", "AUTHORIZING_PAYMENT"} =>
           ~ s.shipmentId /\ s.failedStep = "NONE"
      /\ s.status = "CREATING_SHIPMENT" =>
           s.paymentId /\ s.physical /\ s.failedStep = "NONE"
      /\ s.status \in {"CONFIRMING_ORDER", "COMPLETED"} =>
           s.paymentId /\ s.shipmentId = s.physical /\ s.failedStep = "NONE"
  BY DEF IdsKnown
<1>4. /\ s.physical \in BOOLEAN /\ s.paymentId \in BOOLEAN /\ s.shipmentId \in BOOLEAN
      /\ t.physical \in BOOLEAN /\ t.paymentId \in BOOLEAN /\ t.shipmentId \in BOOLEAN
  BY <1>1, <1>2 DEF Saga
<1>5. CASE Moves(s, t) /\ Learns(s, t)
  <2> HIDE DEF s, t
  <2>1. CASE t.status \in {"RESERVING_INVENTORY", "AUTHORIZING_PAYMENT"}
    <3>1. s.status \in {"NONE", "RESERVING_INVENTORY"}
      BY <1>5, <2>1 DEF Moves, Successors
    <3> QED
      BY <1>3, <1>4, <1>5, <2>1, <3>1 DEF Learns, CompensationStatus, t
  <2>2. CASE t.status = "CREATING_SHIPMENT"
    <3>1. s.status = "AUTHORIZING_PAYMENT"
      BY <1>5, <2>2 DEF Moves, Successors
    <3> QED
      BY <1>3, <1>4, <1>5, <2>2, <3>1 DEF Learns, CompensationStatus, t
  <2>3. CASE t.status = "CONFIRMING_ORDER"
    <3>1. s.status \in {"AUTHORIZING_PAYMENT", "CREATING_SHIPMENT"}
      BY <1>5, <2>3 DEF Moves, Successors
    <3> QED
      BY <1>3, <1>4, <1>5, <2>3, <3>1 DEF Learns, CompensationStatus, t
  <2>4. CASE t.status = "COMPLETED"
    <3>1. s.status = "CONFIRMING_ORDER"
      BY <1>5, <2>4 DEF Moves, Successors
    <3> QED
      BY <1>3, <1>4, <1>5, <2>4, <3>1 DEF Learns, CompensationStatus, t
  <2> QED
    BY <2>1, <2>2, <2>3, <2>4 DEF t
<1>6. CASE Stays(s, t)
  BY <1>3, <1>6 DEF Stays
<1> QED
  BY <1>1, <1>5, <1>6 DEF RowStep

\* An order is confirmed with its payment's id, with a shipment's exactly when it
\* is physical, and after no failure.
THEOREM ConfirmCarriesIdsAlways == Spec => []ConfirmCarriesIds
<1>1. Init => IdsKnown
  BY DEF Init, IdsKnown, NoSaga
<1>2. TypeOK /\ IdsKnown /\ [Next]_vars => (TypeOK /\ IdsKnown)'
  BY TypeStep, IdsStep
<1>3. IdsKnown => ConfirmCarriesIds
  BY DEF IdsKnown, ConfirmCarriesIds
<1> QED
  BY <1>1, <1>2, <1>3, TypeInit, PTL DEF Spec

\* Whatever is answered, lost or restarted, for any number of orders, replicas and
\* retries: a saga is found again by a scan, its actions are tried within their
\* budget and every try repeats the command of its state.
THEOREM TriesAreSoundAlways == Spec => []TriesAreSound
BY OneTimerAlways, RetryBudgetAlways, CommandPerStateAlways, PTL DEF TriesAreSound

\* For any orders and replicas the coordinator tells an order one verdict: to
\* confirm with the ids of what was done, or to cancel with all of it undone.
THEOREM VerdictIsSoundAlways == Spec => []VerdictIsSound
BY NeverBothVerdictsAlways, CompensatedInReverseAlways, ConfirmCarriesIdsAlways, PTL DEF VerdictIsSound

-----------------------------------------------------------------------------
(* No way back.                                                            *)

\* No step touches the row of a finished saga.
LEMMA EndedStays ==
    ASSUME TypeOK, OneTimer, [Next]_vars, NEW p \in Orders, saga[p].status \in TerminalStatus
    PROVE  saga'[p] = saga[p]
<1>1. /\ saga[p] \in Saga /\ saga \in [Orders -> Saga]
      /\ saga[p].status \notin ActiveStatus /\ saga[p].status # "NONE"
  BY DEF TypeOK, TerminalStatus, ActiveStatus, ActionStatus, CompensationStatus,
         FinalizationStatus
<1>2. saga[p].deadline = "none" /\ saga[p].nextRetry = "none"
  BY <1>1 DEF OneTimer
<1>3. Expects(saga[p].status) = {}
  BY <1>1, ExpectsType DEF Saga
<1>4. ASSUME NEW o \in Orders, NEW s, o # p, Commit(o, s) PROVE saga'[p] = saga[p]
  BY <1>1, <1>4 DEF Commit
<1>5. ASSUME NEW o \in Orders, NEW physical \in BOOLEAN, Start(o, physical)
      PROVE saga'[p] = saga[p]
  BY <1>1, <1>4, <1>5 DEF Start
<1>6. ASSUME NEW o \in Orders, NEW cause \in 0..saga[o].id, NEW type \in ReplyTypes,
             AcceptReply(o, cause, type)
      PROVE saga'[p] = saga[p]
  BY <1>3, <1>4, <1>6 DEF AcceptReply, Accepts
<1>7. ASSUME NEW o \in Orders, NEW i \in Instances, Tick(i, o) PROVE saga'[p] = saga[p]
  BY <1>1, <1>4, <1>7 DEF Tick, Due
<1>8. ASSUME NEW o \in Orders, TimerExpires(o) PROVE saga'[p] = saga[p]
  BY <1>1, <1>2, <1>8 DEF TimerExpires
<1>9. ASSUME NEW i \in Instances, NEW skipped \in SUBSET Orders, Resume(i, skipped)
      PROVE saga'[p] = saga[p]
  BY <1>1, <1>9 DEF Resume, ResumeAfterRestart
<1>10. CASE UNCHANGED saga
  BY <1>10
<1> QED
  BY <1>5, <1>6, <1>7, <1>8, <1>9, <1>10 DEF Next, vars, IgnoreLateReply, Restart

\* A saga that left the way to confirmation never comes back to it, and a finished
\* saga never changes again, in every step of every behaviour.
THEOREM NoWayBackAlways == Spec => NoWayBack
<1>1. TypeOK /\ OneTimer /\ RetryBudget /\ [Next]_vars =>
        \A o \in Orders :
          /\ saga[o].status \in CompensationStatus \cup {"CANCELING_ORDER"} =>
               saga'[o].status \in CompensationStatus \cup {"CANCELING_ORDER", "CANCELED"}
          /\ saga[o].status \in TerminalStatus => saga'[o] = saga[o]
  <2> SUFFICES ASSUME TypeOK, OneTimer, [Next]_vars, NEW o \in Orders
               PROVE  /\ saga[o].status \in CompensationStatus \cup {"CANCELING_ORDER"} =>
                           saga'[o].status \in
                             CompensationStatus \cup {"CANCELING_ORDER", "CANCELED"}
                      /\ saga[o].status \in TerminalStatus => saga'[o] = saga[o]
    OBVIOUS
  <2>1. saga[o].status \in CompensationStatus \cup {"CANCELING_ORDER"} =>
          saga'[o].status \in CompensationStatus \cup {"CANCELING_ORDER", "CANCELED"}
    BY StepOfRow DEF RowStep, Moves, Stays, Successors, CompensationStatus
  <2> QED
    BY <2>1, EndedStays
<1>2. TypeOK /\ OneTimer /\ RetryBudget /\ [Next]_vars => (TypeOK /\ OneTimer /\ RetryBudget)'
  BY TypeStep, TimerStep
<1>3. Init => TypeOK /\ OneTimer /\ RetryBudget
  BY TypeInit, TimerInit
<1> QED
  BY <1>1, <1>2, <1>3, PTL DEF Spec, NoWayBack
=============================================================================
