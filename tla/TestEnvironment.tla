---- MODULE TestEnvironment ----
(* The shared test environment: tools/squad/testenv.py.  The state of the   *)
(* environment is what derive() reads in the decision log, so it is kept    *)
(* here as that fold, one Log operator per event.  Humans ask; one process  *)
(* at a time holds the lock and publishes, releases, erases or stops the    *)
(* containers; the log grows under it all the while, the PR moves, and it   *)
(* may die between any two steps.                                           *)
EXTENDS Sequences, Subsequences

CONSTANTS
  Demands,
  Unfit,         \* commits whose compose configuration check_config refuses
  Pushes,        \* bound: commits pushed, by demand
  MaxPr,         \* bound: PRs opened per demand
  MaxAsk,        \* bound: requests of humans
  MaxMishap,     \* bound: commands that fail, containers that fall, processes killed
  MaxRound       \* the 12 rounds of one reconcile

Commits == UNION {{d} \X (1..Pushes[d]) : d \in Demands}
NoDemand == "none"
NoCommit == <<NoDemand, 0>>

TestEnvironmentAssumption ==
  /\ NoDemand \notin Demands
  /\ Unfit \subseteq Commits
  /\ Pushes \in [Demands -> Nat]
  /\ {MaxPr, MaxRound} \subseteq Nat \ {0}
  /\ {MaxAsk, MaxMishap} \subseteq Nat

VARIABLES
  pr,         \* GitHub: the last PR of each demand
  ledger,     \* what the log tells of the review of each demand
  env,        \* derive: occupant
  queue,      \* derive: demands waiting, first asked first
  republish,  \* derive: the occupant's own request, not yet met
  reset,      \* derive: a request to erase the data, not yet met
  stack,      \* the containers of checkout-teste
  worktree,   \* the commit checked out in plankton-teste
  asking,     \* a request() that has read the log and not yet written to it
  op,         \* the process that holds the lock
  asks, mishaps,
  owed        \* history: asked for since its last publication

derived == <<env, queue, republish, reset>>
github == <<pr, ledger>>
machine == <<stack, worktree>>
vars == <<github, derived, machine, asking, op, asks, mishaps, owed>>

Free == [state |-> "livre", demand |-> NoDemand, commit |-> NoCommit, stopped |-> FALSE]
NoOp == [pc |-> "idle", demand |-> NoDemand, commit |-> NoCommit, then |-> "idle", round |-> 0, erased |-> FALSE]
NoAsk == [demand |-> NoDemand, action |-> "none"]

Init ==
  /\ pr = [d \in Demands |-> [number |-> 0, state |-> "none", head |-> 0]]
  /\ ledger = [d \in Demands |-> [review |-> 0, ended |-> FALSE, reason |-> "none"]]
  /\ env = Free /\ queue = <<>> /\ republish = FALSE /\ reset = FALSE
  /\ stack = [commit |-> NoCommit, health |-> "none"] /\ worktree = NoCommit
  /\ asking = NoAsk /\ op = NoOp /\ asks = 0 /\ mishaps = 0
  /\ owed = [d \in Demands |-> FALSE]

Mishap == mishaps < MaxMishap /\ mishaps' = mishaps + 1
Waiting(d) == \E i \in DOMAIN queue : queue[i] = d
Without(ds) == Kept(queue, {i \in DOMAIN queue : queue[i] \notin ds})
open_review(d) == ledger[d].review > 0 /\ ~ledger[d].ended
closed_reason(d) == ledger[d].reason
\* gh's answer on the last PR; the guard on the compose of a commit; `docker
\* compose ps`; the containers going down with their volumes.
IsOpen(d) == pr[d].state = "OPEN"
Refuses(c) == c \in Unfit
Healthy == stack.health = "healthy"
ContainersDown == stack' = [commit |-> NoCommit, health |-> "none"]
----
(* derive(), event by event.                                                *)

LogAsked(d, action) ==
  /\ republish' = \/ action = "publish" /\ d = env.demand /\ env.state \in {"ocupado", "falhou"}
                  \/ republish /\ ~(action = "cancel" /\ d = env.demand)
  /\ queue' = IF action = "cancel" THEN Without({d})
              ELSE IF action = "publish" /\ d # env.demand /\ ~Waiting(d) THEN Append(queue, d)
              ELSE queue
  /\ reset' = (reset \/ action = "reset-data")
  /\ env' = [env EXCEPT !.stopped = @ \/ (action = "down" /\ env.state \in {"ocupado", "falhou"})]
  /\ owed' = IF action = "publish" THEN [owed EXCEPT ![d] = TRUE] ELSE owed

LogPublishing(d, c) ==
  /\ env' = [state |-> "publicando", demand |-> d, commit |-> c, stopped |-> FALSE]
  /\ queue' = Without({d})
  /\ republish' = FALSE
  /\ UNCHANGED reset

LogPublished(d, c) ==
  /\ env' = IF d = env.demand THEN [env EXCEPT !.state = "ocupado", !.commit = c] ELSE env
  /\ UNCHANGED <<queue, republish, reset>>

LogFailed(d) ==
  /\ env' = IF d = env.demand /\ env.state = "publicando" THEN [env EXCEPT !.state = "falhou"] ELSE env
  /\ UNCHANGED <<queue, republish, reset>>

LogReleasedKeepingQueue(ds) ==
  /\ env' = IF env.demand \in ds THEN Free ELSE env
  /\ republish' = (republish /\ env.demand \notin ds)
  /\ UNCHANGED <<queue, reset>>

LogReleased(ds) ==
  /\ env' = IF env.demand \in ds THEN Free ELSE env
  /\ republish' = (republish /\ env.demand \notin ds)
  /\ queue' = Without(ds)
  /\ UNCHANGED reset
----
(* The world around: GitHub, gitflow.py and the panel's other requests.     *)

Outside == UNCHANGED <<derived, machine, asking, op, asks, mishaps, owed>>

\* gitflow.feature_finish, for the first time or after a returned PR.
OpenPr(d) ==
  /\ pr[d].state \in {"none", "CLOSED"} /\ pr[d].number = ledger[d].review
  /\ (ledger[d].review > 0) => ledger[d].ended
  /\ ledger[d].reason # "canceled"
  /\ pr[d].number < MaxPr /\ pr[d].head < Pushes[d]
  /\ pr' = [pr EXCEPT ![d] = [number |-> @.number + 1, state |-> "OPEN", head |-> @.head + 1]]
  /\ ledger' = [ledger EXCEPT ![d].review = pr[d].number + 1, ![d].ended = FALSE]
  /\ Outside

Push(d) ==
  /\ pr[d].state = "OPEN" /\ pr[d].head < Pushes[d]
  /\ pr' = [pr EXCEPT ![d].head = @ + 1]
  /\ UNCHANGED ledger /\ Outside

EndPr(d) ==
  /\ pr[d].state = "OPEN"
  /\ \E end \in {"MERGED", "CLOSED"} : pr' = [pr EXCEPT ![d].state = end]
  /\ UNCHANGED ledger /\ Outside

\* gitflow.review_sync.
ReviewSync(d) ==
  /\ open_review(d) /\ pr[d].state \in {"MERGED", "CLOSED"}
  /\ ledger' = [ledger EXCEPT ![d].ended = TRUE,
                  ![d].reason = IF pr[d].state = "MERGED" THEN "delivered" ELSE "review-rejected"]
  /\ UNCHANGED pr /\ Outside

\* POST /api/demand/control with `cancel`.
CancelDemand(d) ==
  /\ ledger[d].review > 0 /\ ledger[d].reason \notin {"delivered", "canceled"}
  /\ ledger' = [ledger EXCEPT ![d].reason = "canceled"]
  /\ UNCHANGED pr /\ Outside

\* A container falls, or comes back by itself.
ContainersChange ==
  /\ stack.health \in {"healthy", "unhealthy"}
  /\ Mishap
  /\ stack' = [stack EXCEPT !.health = IF @ = "healthy" THEN "unhealthy" ELSE "healthy"]
  /\ UNCHANGED <<github, derived, worktree, asking, op, asks, owed>>
----
(* request(): reads the log, then writes to it; no lock.                    *)

Answers(d, action) ==
  \/ /\ action = "publish"
     /\ open_review(d)
     /\ ~Waiting(d)
     /\ ~(d = env.demand /\ (env.state = "publicando" \/ republish))
  \/ action = "cancel" /\ Waiting(d)

RequestRead(d, action) ==
  /\ asking = NoAsk /\ asks < MaxAsk
  /\ Answers(d, action)
  /\ asking' = [demand |-> d, action |-> action]
  /\ asks' = asks + 1
  /\ UNCHANGED <<github, derived, machine, op, mishaps, owed>>

RequestWrite ==
  /\ asking # NoAsk
  /\ LogAsked(asking.demand, asking.action)
  /\ asking' = NoAsk
  /\ UNCHANGED <<github, machine, op, asks, mishaps>>

\* What was read decides nothing for the other actions.
RequestOther(action) ==
  /\ asks < MaxAsk
  /\ LogAsked(NoDemand, action)
  /\ asks' = asks + 1
  /\ UNCHANGED <<github, machine, asking, op, mishaps>>
----
(* publish(), with the lock held.  `then` says who called: "idle" (the       *)
(* command, or a reconcile that stops after it), "head" (reconcile with the *)
(* first of the queue), "round" (do_reset inside a reconcile).              *)

PublishOf(d, c, then, erased) ==
  [op EXCEPT !.pc = "asked", !.demand = d, !.commit = c, !.then = then, !.erased = erased]

Done(then) == [op EXCEPT !.pc = then, !.demand = NoDemand, !.commit = NoCommit, !.then = "idle", !.erased = FALSE]
Ends == op' = IF op.then = "round" THEN Done("round") ELSE NoOp

\* A publication that did not happen; the next of the queue is tried when the
\* demand left it.
Refused ==
  IF op.then = "head" /\ env'.state = "livre" /\ op.demand \notin {queue'[i] : i \in DOMAIN queue'}
  THEN op' = Done("round")
  ELSE Ends

AskedByAnyone(d) == TRUE
Asked(d) == Waiting(d) \/ (republish /\ env.demand = d)

PublishRefused ==
  /\ op.pc = "asked"
  /\ LET d == op.demand
         elsewhere == env.demand \notin {NoDemand, d} IN
     \/ /\ ~op.erased /\ ~Asked(d)
        /\ LogFailed(d) /\ UNCHANGED mishaps
     \/ /\ (op.erased \/ Asked(d)) /\ elsewhere
        /\ UNCHANGED <<derived, mishaps>>
     \/ /\ (op.erased \/ Asked(d)) /\ ~elsewhere
        /\ open_review(d)
        /\ Mishap /\ LogFailed(d)                       \* gh does not answer
     \/ /\ (op.erased \/ Asked(d)) /\ ~elsewhere
        /\ ~open_review(d) \/ ~IsOpen(d)
        /\ IF Asked(d) /\ env.demand # d THEN LogReleased({d}) ELSE LogFailed(d)
        /\ UNCHANGED mishaps
  /\ Refused
  /\ UNCHANGED <<github, machine, asking, asks, owed>>

\* The log and the head of the PR, as they are now.
PublishRead ==
  /\ op.pc = "asked"
  /\ op.erased \/ Asked(op.demand)
  /\ env.demand \in {NoDemand, op.demand}
  /\ open_review(op.demand) /\ IsOpen(op.demand)
  /\ op' = [op EXCEPT !.pc = "publish",
                      !.commit = IF op.erased THEN @ ELSE <<op.demand, pr[op.demand].head>>]
  /\ UNCHANGED <<github, derived, machine, asking, asks, mishaps, owed>>

PublishStart ==
  /\ op.pc = "publish"
  /\ LogPublishing(op.demand, op.commit)
  /\ op' = [op EXCEPT !.pc = "build"]
  /\ owed' = IF op.erased THEN owed ELSE [owed EXCEPT ![op.demand] = FALSE]
  /\ UNCHANGED <<github, machine, asking, asks, mishaps>>

\* fetch and checkout, the guard, the build: nothing on the air is touched.
PublishBuild ==
  /\ op.pc = "build"
  /\ \/ Mishap /\ LogFailed(op.demand) /\ Refused /\ UNCHANGED worktree          \* checkout
     \/ /\ worktree' = op.commit
        /\ \/ Mishap /\ LogFailed(op.demand) /\ Refused                          \* ports, build
           \/ Refuses(op.commit) /\ LogFailed(op.demand) /\ Refused /\ UNCHANGED mishaps
           \/ ~Refuses(op.commit) /\ op' = [op EXCEPT !.pc = "up"] /\ UNCHANGED <<derived, mishaps>>
  /\ UNCHANGED <<github, stack, asking, asks, owed>>

PublishUp ==
  /\ op.pc = "up"
  /\ \/ /\ stack' = [commit |-> op.commit, health |-> "healthy"]
        /\ op' = [op EXCEPT !.pc = "smoke"]
        /\ UNCHANGED <<derived, mishaps>>
     \/ /\ Mishap
        /\ stack' \in {stack, [commit |-> op.commit, health |-> "unhealthy"]}
        /\ LogFailed(op.demand) /\ Refused
  /\ UNCHANGED <<github, worktree, asking, asks, owed>>

PublishSmoke ==
  /\ op.pc = "smoke"
  /\ IF Healthy THEN LogPublished(op.demand, op.commit) /\ Ends
                                 ELSE LogFailed(op.demand) /\ Refused
  /\ UNCHANGED <<github, machine, asking, asks, mishaps, owed>>
----
(* do_release, do_reset, do_down.                                           *)

Idle == op.pc = "idle"

\* `stop` of the containers; a stop that fails is only a warning.
ReleaseStop ==
  /\ op.pc = "release"
  /\ \/ /\ UNCHANGED mishaps
        /\ stack' = IF stack.health = "none" THEN stack ELSE [stack EXCEPT !.health = "stopped"]
     \/ Mishap /\ UNCHANGED stack
  /\ op' = [op EXCEPT !.pc = "released"]
  /\ UNCHANGED <<github, derived, worktree, asking, asks, owed>>

ReleaseLog ==
  /\ op.pc = "released"
  /\ LogReleased({op.demand})
  /\ Ends
  /\ UNCHANGED <<github, machine, asking, asks, mishaps, owed>>

\* The guard again, on the worktree as the last publication left it, if any did.
Unreadable == worktree = NoCommit \/ Refuses(worktree)
Erase ==
  /\ op.pc = "reset"
  /\ \/ /\ ~Unreadable
        /\ ContainersDown
        /\ op' = [op EXCEPT !.pc = "erased"]
        /\ UNCHANGED <<derived, mishaps>>
     \/ /\ IF Unreadable THEN UNCHANGED mishaps ELSE Mishap
        /\ LogFailed(env.demand) /\ Ends
        /\ UNCHANGED stack
  /\ UNCHANGED <<github, worktree, asking, asks, owed>>

\* test-env-reset, then the same commit again when there is an occupant.
EraseLog ==
  /\ op.pc = "erased"
  /\ reset' = FALSE
  /\ IF env.demand # NoDemand THEN op' = PublishOf(env.demand, env.commit, op.then, TRUE) ELSE Ends
  /\ UNCHANGED <<github, env, queue, republish, machine, asking, asks, mishaps, owed>>

\* The commands, each taking the lock if it is free.
CliPublish(d) ==
  /\ Idle /\ asks < MaxAsk
  /\ asks' = asks + 1
  /\ op' = PublishOf(d, NoCommit, "idle", FALSE)
  /\ UNCHANGED <<github, derived, machine, asking, mishaps, owed>>

CliRelease(d) ==
  /\ Idle /\ asks < MaxAsk
  /\ asks' = asks + 1
  /\ \/ /\ d = env.demand
        /\ op' = [NoOp EXCEPT !.pc = "release", !.demand = d]
        /\ UNCHANGED derived
     \/ /\ d # env.demand /\ Waiting(d)
        /\ LogReleased({d})
        /\ UNCHANGED op
  /\ UNCHANGED <<github, machine, asking, mishaps, owed>>

CliReset ==
  /\ Idle /\ reset /\ asks < MaxAsk
  /\ asks' = asks + 1
  /\ op' = [NoOp EXCEPT !.pc = "reset"]
  /\ UNCHANGED <<github, derived, machine, asking, mishaps, owed>>

CliDown ==
  /\ Idle /\ asks < MaxAsk
  /\ asks' = asks + 1
  /\ LogAsked(env.demand, "down")
  /\ ContainersDown \/ UNCHANGED stack
  /\ UNCHANGED <<github, worktree, asking, op, mishaps>>
----
(* reconcile(): rounds until nothing is left to do; one fresh reading of the *)
(* log in each.                                                             *)

Obsolete == {d \in Demands : Waiting(d) /\ (closed_reason(d) # "none" \/ ~open_review(d))}
Interrupted == env.state = "publicando"
FirstCanGo == env.state = "livre" /\ queue # <<>>
Over == env.demand # NoDemand /\ closed_reason(env.demand) # "none"

RoundTo(now) == [op EXCEPT !.pc = now, !.round = @ + 1, !.then = "round"]

CloseInterruptedAsDone ==
  /\ Interrupted
  /\ LogPublished(env.demand, env.commit)
  /\ op' = RoundTo("round")

CloseInterrupted ==
  /\ Interrupted
  /\ LogFailed(env.demand)
  /\ op' = RoundTo("round")

DropObsolete ==
  /\ ~Interrupted /\ ~Over /\ Obsolete # {}
  /\ LogReleased(Obsolete)
  /\ op' = RoundTo("round")

ReconcileRound ==
  /\ \/ Idle /\ (Interrupted \/ Over \/ Obsolete # {} \/ reset \/ republish \/ FirstCanGo)
     \/ op.pc = "round" /\ op.round < MaxRound
  /\ \/ CloseInterrupted
     \/ DropObsolete
     \/ /\ ~Interrupted /\ Over
        /\ op' = [RoundTo("release") EXCEPT !.demand = env.demand]
        /\ UNCHANGED derived
     \/ /\ ~Interrupted /\ ~Over /\ Obsolete = {}
        /\ UNCHANGED derived
        /\ op' = IF reset THEN RoundTo("reset")
                 ELSE IF republish THEN [RoundTo("asked") EXCEPT !.demand = env.demand, !.then = "idle"]
                 ELSE IF FirstCanGo THEN [RoundTo("asked") EXCEPT !.demand = Head(queue), !.then = "head"]
                 ELSE NoOp
  /\ UNCHANGED <<github, machine, asking, asks, mishaps, owed>>

ReconcileEnd ==
  /\ op.pc = "round" /\ op.round = MaxRound
  /\ op' = NoOp
  /\ UNCHANGED <<github, derived, machine, asking, asks, mishaps, owed>>

\* The process is killed: the lock goes with it, the log and docker stay.
Killed ==
  /\ ~Idle /\ Mishap
  /\ op' = NoOp
  /\ UNCHANGED <<github, derived, machine, asking, asks, owed>>
----
Work ==
  \/ PublishRefused \/ PublishRead \/ PublishStart \/ PublishBuild \/ PublishUp \/ PublishSmoke
  \/ ReleaseStop \/ ReleaseLog \/ Erase \/ EraseLog
  \/ ReconcileRound \/ ReconcileEnd

Next ==
  \/ \E d \in Demands : OpenPr(d) \/ Push(d) \/ EndPr(d) \/ ReviewSync(d) \/ CancelDemand(d)
  \/ \E d \in Demands, action \in {"publish", "cancel"} : RequestRead(d, action)
  \/ \E action \in {"reset-data", "down"} : RequestOther(action)
  \/ RequestWrite
  \/ ContainersChange
  \/ \E d \in Demands : CliPublish(d) \/ CliRelease(d)
  \/ CliReset \/ CliDown
  \/ Work \/ Killed

Spec == Init /\ [][Next]_vars

\* plantao.sh runs reconcile in every cycle, and a process that holds the lock
\* goes on; gh, docker and git fail at most MaxMishap times.
FairSpec == Spec /\ WF_vars(Work) /\ WF_vars(RequestWrite)
----
TypeOK ==
  /\ pr \in [Demands -> [number : 0..MaxPr, state : {"none", "OPEN", "MERGED", "CLOSED"}, head : Nat]]
  /\ ledger \in [Demands -> [review : 0..MaxPr, ended : BOOLEAN,
                             reason : {"none", "delivered", "review-rejected", "canceled"}]]
  /\ env \in [state : {"livre", "publicando", "ocupado", "falhou"}, demand : Demands \cup {NoDemand},
              commit : Commits \cup {NoCommit}, stopped : BOOLEAN]
  /\ queue \in Seq(Demands) /\ republish \in BOOLEAN /\ reset \in BOOLEAN
  /\ stack \in [commit : Commits \cup {NoCommit}, health : {"none", "healthy", "unhealthy", "stopped"}]
  /\ worktree \in Commits \cup {NoCommit}
  /\ asks \in 0..MaxAsk /\ mishaps \in 0..MaxMishap
  /\ owed \in [Demands -> BOOLEAN]

\* view(): a "busy" environment whose containers are not healthy is shown as
\* divergent, unless a human stopped it.
Shown == IF env.state = "ocupado" /\ ~env.stopped /\ ~Healthy THEN "divergente" ELSE env.state

\* What the panel announces as ready to test is what the containers run,
\* whatever failed, was killed, erased or published over it; and one demand
\* at most is announced or waits twice.
ReadyMeansRunning ==
  /\ Shown = "ocupado" /\ ~env.stopped => stack.commit = env.commit
  /\ env.state = "livre" <=> env.demand = NoDemand
  /\ env.demand # NoDemand => env.commit[1] = env.demand /\ ~Waiting(env.demand)
  /\ \A i, j \in DOMAIN queue : queue[i] = queue[j] => i = j

\* CA5: no agent publishes without a request of the human not yet met.  One
\* request pays for one publication, though reconcile, the command, the log
\* and a killed process come between; only erased data are put back unasked.
PublishedOnRequest ==
  [][\A d \in Demands :
       env'.state = "publicando" /\ env'.demand = d /\ env.state # "publicando" =>
         owed[d] \/ (op.erased /\ env.demand = d)]_vars

\* reconcile is called again and again, so a finished demand leaves the
\* environment (it stays finished, so it is not there for ever), and the first in
\* the queue of an environment that is free, or free again and again, is published,
\* refused or taken out, unless the request to erase the data still stands.
QueueServed ==
  \A d \in Demands :
    /\ []<>(env.demand = d => closed_reason(d) = "none")
    /\ []<>(env.state = "livre") =>
         []<>(queue # <<>> /\ Head(queue) = d => env.demand = d \/ reset)
====
