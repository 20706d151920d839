--------------------------- MODULE SagaCoordinator ---------------------------
(***************************************************************************)
(* The saga orchestrator: saga_instance rows, the commands it writes to    *)
(* its outbox, the timeout scheduler and its start-up grace.               *)
(*   saga-orchestrator app/SagaService.java, app/SagaRepository.java,      *)
(*   app/SagaTimeoutScheduler.java, domain/SagaStateMachine.java           *)
(*                                                                         *)
(* Every handler is one database transaction on one locked row, hence one  *)
(* action.  The environment is arbitrary here: any reply type, answering   *)
(* any command sent so far, may arrive at any time and any number of       *)
(* times, so what holds of this module holds of every participant.         *)
(*                                                                         *)
(* A command's messageId is a fresh UUID per state entered: it is the      *)
(* row's counter id.  A deadline or a retry time is "none" (NULL), "armed" *)
(* (in the future) or "due" (reached).  The number of attempts is kept     *)
(* exactly up to AttemptCap and saturates there: past StepMaxRetries + 1   *)
(* the code only retries, whatever the number.                             *)
(***************************************************************************)
EXTENDS SagaStatus, Naturals

CONSTANTS
    Orders,          \* order ids; one saga per order
    Instances,       \* replicas of the orchestrator, each with its scheduler
    StepMaxRetries,  \* saga.step-max-retries
    AttemptCap,      \* bound: where the attempt counter saturates
    MaxRestarts      \* bound: restarts of orchestrator replicas

ASSUME CoordinatorAssumption ==
    /\ StepMaxRetries \in Nat
    /\ AttemptCap \in Nat
    /\ AttemptCap > StepMaxRetries + 1
    /\ MaxRestarts \in Nat

VARIABLES
    saga,      \* the saga_instance table, by order
    commands,  \* the commands ever written to the outbox
    resumed,   \* SagaTimeoutScheduler.resumed of each replica (in memory)
    restarts   \* restarts so far

vars == <<saga, commands, resumed, restarts>>

-----------------------------------------------------------------------------
Timer == {"none", "armed", "due"}

Saga == [status: ActiveStatus \cup TerminalStatus \cup {"NONE"},
         physical: BOOLEAN,                 \* snapshot.isPhysical()
         id: Nat,                           \* lastCommandId
         attempt: 0..AttemptCap,
         deadline: Timer, nextRetry: Timer,
         failedStep: Step \cup {"NONE"},
         paymentId: BOOLEAN, shipmentId: BOOLEAN]   \* known?

Message == [order: Orders, id: Nat, type: CommandTypes]

\* status "NONE": the order has no saga_instance row.
NoSaga == [status |-> "NONE", physical |-> FALSE, id |-> 0, attempt |-> 0,
           deadline |-> "none", nextRetry |-> "none", failedStep |-> "NONE",
           paymentId |-> FALSE, shipmentId |-> FALSE]

-----------------------------------------------------------------------------
(* The pure state machine: operators on a row.                             *)

Enter(s, next) ==
    [s EXCEPT !.status = next, !.id = @ + 1, !.attempt = 1,
              !.deadline = "armed", !.nextRetry = "none"]

Finish(s, terminal) ==
    [s EXCEPT !.status = terminal, !.deadline = "none", !.nextRetry = "none"]

AcceptsAnyType(s, cause, type) == cause = s.id /\ s.status \in ActiveStatus

Accepts(s, cause, type) == cause = s.id /\ type \in Expects(s.status)

OnReply(s, type) ==
    LET t == [s EXCEPT
                !.failedStep = IF type \in FailureTypes THEN StepOf(s.status) ELSE @,
                !.paymentId  = @ \/ type = "payment.authorized",
                !.shipmentId = @ \/ type = "shipment.created"]
        next == StatusAfter(type, s.physical)
    IN  IF next \in TerminalStatus THEN Finish(t, next) ELSE Enter(t, next)

RetriedAsNew(s) ==
    [s EXCEPT !.attempt = IF @ < AttemptCap THEN @ + 1 ELSE @, !.id = @ + 1,
              !.nextRetry = "none", !.deadline = "armed"]

\* The SAME command is sent again, under the same messageId.
Retried(s) ==
    [s EXCEPT !.attempt = IF @ < AttemptCap THEN @ + 1 ELSE @,
              !.nextRetry = "none", !.deadline = "armed"]

NeverExhausted(s) == FALSE

Exhausted(s) == s.status \in ActionStatus /\ s.attempt > StepMaxRetries

TimedOut(s) ==
    IF Exhausted(s)
      THEN Enter([s EXCEPT !.failedStep = StepOf(s.status)],
                 CompensationOnTimeout(s.status))
      ELSE [s EXCEPT !.deadline = "none", !.nextRetry = "armed"]

OnTick(s) == IF s.nextRetry = "due" THEN Retried(s) ELSE TimedOut(s)

Due(s) == s.status \in ActiveStatus /\ "due" \in {s.deadline, s.nextRetry}

\* The deadline becomes now + timeout; a saga waiting for its retry is left alone.
ResumeAfterRestart(s) ==
    IF s.status \in ActiveStatus /\ s.deadline # "none"
      THEN [s EXCEPT !.deadline = "armed"] ELSE s

\* The command a row's state sends (buildCommand).
CommandOf(o, s) == [order |-> o, id |-> s.id, type |-> CommandType(s.status)]

-----------------------------------------------------------------------------
Init ==
    /\ saga = [o \in Orders |-> NoSaga]
    /\ commands = {}
    /\ resumed = [i \in Instances |-> FALSE]
    /\ restarts = 0

\* The commands written with the new row s of o: entering a state and retrying
\* its command, which both arm the deadline, send one.
Sent(o, s) == IF s.deadline = "armed" THEN {CommandOf(o, s)} ELSE {}

\* One transaction: the row and the outbox.
Commit(o, s) ==
    /\ saga' = [saga EXCEPT ![o] = s]
    /\ commands' = commands \cup Sent(o, s)

\* order.created: the saga starts; a second one for the order is ignored.
Start(o, physical) ==
    /\ saga[o].status = "NONE"
    /\ Commit(o, Enter([NoSaga EXCEPT !.physical = physical], "RESERVING_INVENTORY"))
    /\ UNCHANGED <<resumed, restarts>>

AcceptReply(o, cause, type) ==
    /\ Accepts(saga[o], cause, type)
    /\ Commit(o, OnReply(saga[o], type))
    /\ UNCHANGED <<resumed, restarts>>

\* A late, repeated or unexpected reply is only logged.
IgnoreLateReply(o, cause, type) ==
    /\ ~ Accepts(saga[o], cause, type)
    /\ UNCHANGED vars

\* One saga of a scan.  A row another replica took or moved on is no longer due.
Tick(i, o) ==
    /\ resumed[i]
    /\ Due(saga[o])
    /\ Commit(o, OnTick(saga[o]))
    /\ UNCHANGED <<resumed, restarts>>

\* Time passes: a deadline or a retry time is reached.
TimerExpires(o) ==
    /\ \/ saga[o].deadline = "armed" /\ saga' = [saga EXCEPT ![o].deadline = "due"]
       \/ saga[o].nextRetry = "armed" /\ saga' = [saga EXCEPT ![o].nextRetry = "due"]
    /\ UNCHANGED <<commands, resumed, restarts>>

\* A replica goes down and comes back; only its memory is lost.
Restart(i) ==
    /\ restarts < MaxRestarts
    /\ restarts' = restarts + 1
    /\ resumed' = [resumed EXCEPT ![i] = FALSE]
    /\ UNCHANGED <<saga, commands>>

\* First scan of a replica: every deadline in flight is armed anew, but for the
\* rows in skipped, which other transactions hold locked (SKIP LOCKED).
Resume(i, skipped) ==
    /\ ~ resumed[i]
    /\ resumed' = [resumed EXCEPT ![i] = TRUE]
    /\ saga' = [o \in Orders |->
                  IF o \in skipped THEN saga[o] ELSE ResumeAfterRestart(saga[o])]
    /\ UNCHANGED <<commands, restarts>>

Next ==
    \/ \E o \in Orders :
         \/ \E physical \in BOOLEAN : Start(o, physical)
         \/ \E cause \in 0..saga[o].id, type \in ReplyTypes :
              AcceptReply(o, cause, type) \/ IgnoreLateReply(o, cause, type)
         \/ \E i \in Instances : Tick(i, o)
         \/ TimerExpires(o)
    \/ \E i \in Instances :
         \/ Restart(i)
         \/ \E skipped \in SUBSET Orders : Resume(i, skipped)

Spec == Init /\ [][Next]_vars

\* Time passes and the schedulers keep scanning (a fixed-delay task that catches
\* every exception); nothing is assumed of the replies.
Fairness ==
    /\ \A o \in Orders : WF_vars(TimerExpires(o))
    /\ \A o \in Orders : WF_vars(\E i \in Instances : Tick(i, o))
    /\ \A i \in Instances : WF_vars(\E skipped \in SUBSET Orders : Resume(i, skipped))

FairSpec == Spec /\ Fairness

-----------------------------------------------------------------------------
(* Properties.                                                             *)

TypeOK ==
    /\ saga \in [Orders -> Saga]
    /\ commands \subseteq Message
    /\ resumed \in [Instances -> BOOLEAN]
    /\ restarts \in 0..MaxRestarts

Types(o) == {c.type : c \in {m \in commands : m.order = o}}

\* A saga in progress always has exactly one timer, so that a scan will find it
\* again whatever is lost, and a finished one has none: no saga is forgotten by
\* the scheduler and none is charged after its end.
OneTimer ==
    \A o \in Orders :
        IF saga[o].status \in ActiveStatus
          THEN (saga[o].deadline = "none") # (saga[o].nextRetry = "none")
          ELSE saga[o].deadline = "none" /\ saga[o].nextRetry = "none"

\* A participant's action is tried at most 1 + StepMaxRetries times, and a retry
\* is pending only if one of these tries is left (docs/architecture/saga.md 3.2).
RetryBudget ==
    \A o \in Orders :
        saga[o].status \in ActionStatus =>
            /\ saga[o].attempt \in 1..(StepMaxRetries + 1)
            /\ saga[o].nextRetry # "none" => saga[o].attempt <= StepMaxRetries

\* The commands of an order are one per state entered: the row's last command
\* was really sent, and no messageId was ever given to two commands.
CommandPerState ==
    \A o \in Orders :
        /\ saga[o].status \in ActiveStatus => CommandOf(o, saga[o]) \in commands
        /\ \A c, d \in {m \in commands : m.order = o} :
              /\ c.id \in 1..saga[o].id
              /\ c.id = d.id \/ c.type = d.type => c = d

\* No order is ever told both to confirm and to cancel, whatever replies come.
NeverBothVerdicts ==
    \A o \in Orders : ~ {"order.confirm", "order.cancel"} \subseteq Types(o)

\* An order is only cancelled after the compensation of every action that may
\* have taken effect has been sent, in reverse order: the shipment before the
\* payment, the payment before the stock.
CompensatedInReverse ==
    \A o \in Orders :
        /\ {"order.cancel", "payment.authorize"} \subseteq Types(o)
              => "inventory.release" \in Types(o)
        /\ {"inventory.release", "shipment.create"} \subseteq Types(o)
              => "payment.refund" \in Types(o)
        /\ "order.confirm" \in Types(o)
              => Types(o) \cap {"shipment.cancel", "payment.refund", "inventory.release"} = {}

\* order.confirm carries the ids the customer is shown: the payment's, and the
\* shipment's exactly when the order is physical (buildCommand).
ConfirmCarriesIds ==
    \A o \in Orders :
        saga[o].status \in {"CONFIRMING_ORDER", "COMPLETED"} =>
            /\ saga[o].paymentId
            /\ saga[o].shipmentId = saga[o].physical
            /\ saga[o].failedStep = "NONE"

\* The scheduler's side of a saga: found again, tried a bounded number of times,
\* each time under the same command.
TriesAreSound == OneTimer /\ RetryBudget /\ CommandPerState

\* The order's side of a saga: one verdict, told after all that it needs.
VerdictIsSound == NeverBothVerdicts /\ CompensatedInReverse /\ ConfirmCarriesIds

\* Once a saga has left the way to confirmation it never comes back to it, and a
\* finished saga never moves.
NoWayBack ==
    [][\A o \in Orders :
         /\ saga[o].status \in CompensationStatus \cup {"CANCELING_ORDER"} =>
              saga'[o].status \in CompensationStatus \cup {"CANCELING_ORDER", "CANCELED"}
         /\ saga[o].status \in TerminalStatus => saga'[o] = saga[o]]_vars

\* A silent participant cannot hold an action for ever: the scheduler, restarts
\* included, ends it by a reply or by its compensation.
ActionsEnd ==
    \A o \in Orders : saga[o].status \in ActionStatus ~> saga[o].status \notin ActionStatus
=============================================================================
