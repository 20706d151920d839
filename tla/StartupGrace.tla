---------------------------- MODULE StartupGrace ----------------------------
(***************************************************************************)
(* The start-up grace of one orchestrator replica against its own event    *)
(* listener: SagaCoordinator with the row locks the listener holds while   *)
(* it handles a reply, and with the time the replica is down.              *)
(*   saga-orchestrator app/SagaTimeoutScheduler.java (scan),               *)
(*   app/SagaService.java (reply), app/SagaRepository.java (SKIP LOCKED)   *)
(***************************************************************************)
EXTENDS SagaCoordinator

VARIABLES
    handling,  \* per order: the reply whose transaction holds its row, or none
    down,      \* the replica is down
    overdue    \* orders whose deadline was reached while it was down

graceVars == <<vars, handling, down, overdue>>

NoReply == [cause |-> 0, type |-> "none"]

GraceInit ==
    /\ Init
    /\ handling = [o \in Orders |-> NoReply]
    /\ down = FALSE
    /\ overdue = {}

Locked == {o \in Orders : handling[o] # NoReply}

\* An order is overdue until its deadline is armed anew or it moves on.
Settle == overdue' = {o \in overdue : saga'[o].deadline = "due"}

\* Participants answer with what the command's state expects; a command that was
\* sent again is answered again, and the second answer comes late.
Answers(c, type) ==
    \E s \in ActiveStatus : c.type = CommandType(s) /\ type \in Expects(s)

\* The listener locks the row of a reply (lockById), decides and commits.
BeginReply(c, type) ==
    /\ ~ down
    /\ Answers(c, type)
    /\ c.order \notin Locked
    /\ handling' = [handling EXCEPT ![c.order] = [cause |-> c.id, type |-> type]]
    /\ UNCHANGED <<vars, down, overdue>>

EndReply(o) ==
    /\ o \in Locked
    /\ \/ AcceptReply(o, handling[o].cause, handling[o].type)
       \/ IgnoreLateReply(o, handling[o].cause, handling[o].type)
    /\ handling' = [handling EXCEPT ![o] = NoReply]
    /\ Settle
    /\ UNCHANGED down

\* The first scan finds locked just what the listener holds; a tick skips it too.
Scan(i) ==
    /\ ~ down
    /\ \/ Resume(i, Locked)
       \/ \E o \in Orders \ Locked : Tick(i, o)
    /\ Settle
    /\ UNCHANGED <<handling, down>>

GoDown(i) ==
    /\ ~ down
    /\ Restart(i)
    /\ down' = TRUE
    /\ handling' = [o \in Orders |-> NoReply]
    /\ UNCHANGED overdue

ComeBack ==
    /\ down
    /\ down' = FALSE
    /\ UNCHANGED <<vars, handling, overdue>>

Clock(o) ==
    /\ TimerExpires(o)
    /\ overdue' = IF down /\ saga'[o].deadline = "due" THEN overdue \cup {o} ELSE overdue
    /\ UNCHANGED <<handling, down>>

NewSaga(o, physical) ==
    /\ ~ down
    /\ Start(o, physical)
    /\ UNCHANGED <<handling, down, overdue>>

GraceNext ==
    \/ \E o \in Orders :
         \/ \E physical \in BOOLEAN : NewSaga(o, physical)
         \/ EndReply(o)
         \/ Clock(o)
    \/ \E c \in commands, type \in ReplyTypes : BeginReply(c, type)
    \/ \E i \in Instances : Scan(i) \/ GoDown(i)
    \/ ComeBack

GraceSpec == GraceInit /\ [][GraceNext]_graceVars

\* No deadline that was reached while the coordinator was down is charged to the
\* participant: the grace comes before the first scan "para que nenhum deadline
\* vencido na queda seja cobrado" (SagaTimeoutScheduler.java:31).
NoDowntimeCharged ==
    [][\A o \in overdue : saga'[o] # TimedOut(saga[o])]_graceVars
=============================================================================
