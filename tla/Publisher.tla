---- MODULE Publisher ----
(* The publisher of the squad panel: Supervisor of tools/squad/publisher.py *)
(* with the request files of tools/squad/publication.py.  One thread runs   *)
(* the panel's server as a child process, follows the develop branch of the *)
(* main copy, and puts a new commit on the air: guards, a candidate, a safe *)
(* point, the swap, its health, and the way back to the previous commit in  *)
(* a worktree of its own or, failing that, to a maintenance page.  HEAD,    *)
(* requests, signals and the end of either process come between any two     *)
(* steps.  A step is what the thread does between two waits.                *)
EXTENDS Naturals, Sequences

CONSTANTS
  MaxCommit,    \* the commits of develop are 1..MaxCommit, oldest first
  Broken,       \* commits whose server does not even start
  Faulty,       \* commits whose server starts, passes as a candidate and fails in production
  DocsOnly,     \* commits that change nothing under watch_paths
  SelfChanges,  \* commits that change SELF_FILES, the publisher's own code
  CrashMax,     \* CRASH_MAX
  MaxRequests,  \* bound: request files waiting
  MaxMishaps    \* bound: deaths of sound servers, killed supervisors and checks that fail by chance

Commits == 1..MaxCommit

ASSUME PublisherAssumption ==
  /\ MaxCommit \in Nat \ {0}
  /\ CrashMax \in Nat \ {0}
  /\ MaxRequests \in Nat \ {0}
  /\ MaxMishaps \in Nat
  /\ Broken \subseteq Commits
  /\ Faulty \subseteq Commits
  /\ DocsOnly \subseteq Commits
  /\ SelfChanges \subseteq Commits \ DocsOnly

VARIABLES
  head, origin,  \* HEAD of the main copy and origin/develop
  tree,          \* the main copy as the guards find it: "clear", "operation", "refused"
  status,        \* status.json
  requests,      \* the `when` of each file in requests/, oldest first
  worktree,      \* the commit in plankton-squad-prev, or NoCommit
  child,         \* the server on the port, or NoChild
  maintenance,   \* the maintenance page holds the port
  busy,          \* the server is answering a conversation
  pc,            \* where the supervisor's thread is; "down" when there is no process
  job,           \* what the thread is doing there
  memory,        \* what the supervisor keeps in its process only
  mishaps        \* counts against MaxMishaps

copy == <<head, origin, tree>>
port == <<child, maintenance, busy>>
supervisor == <<pc, job, memory>>
vars == <<copy, status, requests, worktree, port, supervisor, mishaps>>

NoCommit == 0
NoChild == [mode |-> "none"]
NoJob == [trigger |-> "none", when |-> "now", target |-> NoCommit, from |-> NoCommit, back |-> "cycle"]
BusyStates == {"verificando", "aguardando-ponto-seguro", "reiniciando", "revertendo"}
Loop == {"cycle", "requests", "auto"}

\* Supervisor.__init__: `code` is the commit this process was loaded from.
NoMemory ==
  [previous |-> NoCommit, failed |-> {}, crashes |-> 0, restarting |-> FALSE, code |-> NoCommit, stopping |-> FALSE]
Fresh(previous) == [NoMemory EXCEPT !.previous = previous, !.code = head]

Init ==
  /\ head = 1 /\ origin = 1 /\ tree = "clear"
  /\ status = [supervised |-> FALSE, state |-> "parado", commit |-> NoCommit, mode |-> "none", failed |-> NoCommit]
  /\ requests = <<>>
  /\ worktree = NoCommit
  /\ child = NoChild /\ maintenance = FALSE /\ busy = FALSE
  /\ pc = "down" /\ job = NoJob /\ memory = NoMemory
  /\ mishaps = 0
----
(* The server.                                                              *)

\* start_server: the copy's code as it is now, recorded under the commit asked for.
Server(mode, commit) ==
  [mode |-> mode, commit |-> commit, alive |-> TRUE,
   loaded |-> IF mode = "principal" THEN head ELSE commit]

Serving == maintenance \/ (child # NoChild /\ child.alive)

Puts(c, page) ==
  /\ child' = c
  /\ maintenance' = page
  /\ busy' = FALSE

\* bring_up, check_endpoints, stable.  A check cut short by `stopping` fails;
\* the wait for stability cut short passes.
Sound(c) == c \notin Broken \cup Faulty
Healthy(commit) == child.alive /\ child.loaded = commit /\ Sound(commit)
ComesUp(commit) == Healthy(commit) /\ UNCHANGED mishaps
StaysDown(commit) ==
  \/ (~Healthy(commit) \/ memory.stopping) /\ UNCHANGED mishaps
  \/ mishaps < MaxMishaps /\ mishaps' = mishaps + 1

Changed(from, to, paths) == \E c \in paths : from < c /\ c <= to
base_state_on_air == "no-ar"
base_state == IF status.mode = "anterior" THEN "revertido"
              ELSE IF status.mode = "manutencao" THEN "fora-do-ar" ELSE "no-ar"
set_state(state) == status' = [status EXCEPT !.state = state]
record(state, commit, mode, failed) ==
  status' = [status EXCEPT !.state = state, !.commit = commit, !.mode = mode, !.failed = failed]

\* With the requests left where they are.
FinishKeepingRequests ==
  /\ pc' = job.back
  /\ job' = NoJob
  /\ UNCHANGED requests

\* The end of `publish`: process_requests removes the requests it read and the
\* ones that came meanwhile; then the loop goes on.
Finish ==
  /\ pc' = job.back
  /\ requests' = IF job.trigger = "request" THEN <<>> ELSE requests
  /\ job' = NoJob

\* rollback, from its second failure on: nothing runs but the maintenance page.
GiveUp(failed) ==
  /\ Puts(NoChild, TRUE)
  /\ record("fora-do-ar", NoCommit, "manutencao", failed)
  /\ Finish
  /\ UNCHANGED worktree

\* rollback: ensure_prev and bring_up("anterior") where there is a previous commit.
Rollback(failed, previous) ==
  \/ /\ previous = NoCommit
     /\ GiveUp(failed)
  \/ /\ previous # NoCommit
     /\ worktree' = previous
     /\ Puts(Server("anterior", previous), maintenance)
     /\ set_state("revertendo")
     /\ pc' = "rollback"
     /\ job' = [job EXCEPT !.target = failed, !.from = previous]
     /\ UNCHANGED requests
----
(* Starting and ending.                                                     *)

\* cmd_start, adopt, startup.  `start` ends a server of the main copy found on
\* the port, after the human's consent, and refuses any other; the commit last
\* known to fail is not tried again.
Start ==
  /\ pc = "down"
  /\ Serving => child.mode = "principal"
  /\ memory' = Fresh(NoCommit)
  /\ LET revert == status.failed = head /\ worktree \notin {NoCommit, head} IN
     /\ Puts(IF revert THEN Server("anterior", worktree) ELSE Server("principal", head), FALSE)
     /\ pc' = IF revert THEN "start-previous" ELSE "start"
     /\ status' = [status EXCEPT !.supervised = TRUE, !.commit = NoCommit, !.mode = "none",
                                 !.state = IF revert /\ ~Serving THEN "verificando" ELSE "reiniciando"]
  /\ job' = [NoJob EXCEPT !.trigger = "start", !.target = head, !.from = status.commit]
  /\ UNCHANGED <<copy, requests, worktree, mishaps>>

StartPreviousUp ==
  /\ pc = "start-previous"
  /\ ComesUp(worktree)
  /\ record("revertido", worktree, "anterior", status.failed)
  /\ memory' = [memory EXCEPT !.previous = worktree]
  /\ Finish
  /\ UNCHANGED <<copy, worktree, port>>

StartPreviousFails ==
  /\ pc = "start-previous"
  /\ StaysDown(worktree)
  /\ GiveUp(status.failed)
  /\ UNCHANGED <<copy, memory>>

StartUp ==
  /\ pc = "start"
  /\ ComesUp(job.target)
  /\ record("no-ar", job.target, "principal", NoCommit)
  /\ memory' = [memory EXCEPT !.previous = IF worktree # job.target THEN worktree ELSE @]
  /\ Finish
  /\ UNCHANGED <<copy, worktree, port>>

StartFails ==
  /\ pc = "start"
  /\ StaysDown(job.target)
  /\ LET candidate == IF job.from \notin {NoCommit, job.target} THEN job.from ELSE worktree IN
     Rollback(job.target, IF candidate # job.target THEN candidate ELSE NoCommit)
  /\ UNCHANGED <<copy, memory>>

\* SIGTERM or SIGINT: only a flag, read where the thread waits.
Stop ==
  /\ pc # "down"
  /\ ~memory.stopping
  /\ memory' = [memory EXCEPT !.stopping = TRUE]
  /\ UNCHANGED <<copy, status, requests, worktree, port, pc, job, mishaps>>

Shutdown ==
  /\ pc = "cycle"
  /\ memory.stopping
  /\ Puts(NoChild, FALSE)
  /\ status' = [status EXCEPT !.supervised = FALSE, !.state = "parado"]
  /\ pc' = "down"
  /\ memory' = NoMemory
  /\ UNCHANGED <<copy, requests, worktree, job, mishaps>>

\* The supervisor's process is killed: the server, in a session of its own, is not.
Kill ==
  /\ pc # "down"
  /\ mishaps < MaxMishaps
  /\ mishaps' = mishaps + 1
  /\ pc' = "down"
  /\ job' = NoJob
  /\ memory' = NoMemory
  /\ maintenance' = FALSE
  /\ UNCHANGED <<copy, status, requests, worktree, child, busy>>
----
(* A publication.                                                           *)

\* sync: a fast-forward to origin/develop.
Synced == IF tree = "clear" THEN origin ELSE head

\* publish, guards: an operation of git in course leaves the publication for the
\* next turn (a request gives up after SYNC_LIMIT_S); a refusal ends it.
Guards ==
  /\ pc = "guards"
  /\ LET target == head IN
     \/ /\ tree = "operation"
        /\ \/ job.trigger = "request" /\ pc' = job.back /\ job' = NoJob /\ UNCHANGED requests
           \/ Finish
        /\ UNCHANGED <<status, memory>>
     \/ /\ tree = "refused"
        /\ memory' = [memory EXCEPT !.failed = IF job.trigger = "auto" THEN @ \cup {target} ELSE @]
        /\ Finish
        /\ UNCHANGED status
     \/ /\ tree = "clear"
        /\ set_state("verificando")
        /\ pc' = "preflight"
        /\ job' = [job EXCEPT !.target = target, !.from = status.commit]
        /\ UNCHANGED <<requests, memory>>
  /\ UNCHANGED <<copy, worktree, port, mishaps>>

Base == set_state(base_state) /\ Finish

\* preflight: the candidate runs what the copy holds now.
PreflightFails ==
  /\ pc = "preflight"
  /\ \/ (head \in Broken \/ memory.stopping) /\ UNCHANGED mishaps
     \/ mishaps < MaxMishaps /\ mishaps' = mishaps + 1
  /\ memory' = [memory EXCEPT !.failed = @ \cup {job.target}]
  /\ Base
  /\ UNCHANGED <<copy, worktree, port>>

PreflightPasses ==
  /\ pc = "preflight"
  /\ head \notin Broken
  /\ ~memory.stopping
  /\ set_state(IF busy /\ job.when # "now" THEN "aguardando-ponto-seguro" ELSE status.state)
  /\ pc' = "safe-point"
  /\ UNCHANGED <<copy, requests, worktree, port, job, memory, mishaps>>

\* Without stop_maintenance.
SwapKeepingPage ==
  /\ pc = "safe-point"
  /\ ~memory.stopping
  /\ job.when = "safe" => ~busy
  /\ Puts(Server("principal", job.target), maintenance)
  /\ set_state("reiniciando")
  /\ pc' = "swap"
  /\ UNCHANGED <<copy, requests, worktree, job, memory, mishaps>>

\* safe_point, stop_child, stop_maintenance, start_server.  At the deadline an
\* automatic publication interrupts the answer.
Swap ==
  /\ pc = "safe-point"
  /\ ~memory.stopping
  /\ job.when = "safe" => ~busy
  /\ Puts(Server("principal", job.target), FALSE)
  /\ set_state("reiniciando")
  /\ pc' = "swap"
  /\ UNCHANGED <<copy, requests, worktree, job, memory, mishaps>>

\* safe_point: a request made with when=safe is given up at the deadline.
NoSafePoint ==
  /\ pc = "safe-point"
  /\ memory.stopping \/ (job.when = "safe" /\ busy)
  /\ Base
  /\ UNCHANGED <<copy, worktree, port, memory, mishaps>>

\* _publish_locked after a good bring_up, with maybe_self_update: the new
\* publisher's code passes its selftest and replaces the process, or does not.
PublishUp ==
  /\ pc = "swap"
  /\ ComesUp(job.target)
  /\ record("no-ar", job.target, "principal", NoCommit)
  /\ LET moved == job.from \notin {NoCommit, job.target} IN
     /\ memory' = [memory EXCEPT !.failed = @ \ {job.target}, !.crashes = 0,
                                 !.previous = IF moved THEN job.from ELSE @]
     /\ worktree' = IF moved THEN job.from ELSE worktree
  /\ \/ Finish
     \/ /\ Changed(memory.code, job.target, SelfChanges)
        /\ pc' = "exec"
        /\ UNCHANGED <<requests, job>>
  /\ UNCHANGED <<copy, port>>

\* Where the commit on the air is the way back even from itself.
PublishFailsToItself ==
  /\ pc = "swap"
  /\ StaysDown(job.target)
  /\ Rollback(job.target, job.from)
  /\ UNCHANGED <<copy, memory>>

PublishFails ==
  /\ pc = "swap"
  /\ StaysDown(job.target)
  /\ Rollback(job.target, IF job.from \notin {NoCommit, job.target} THEN job.from ELSE worktree)
  /\ UNCHANGED <<copy, memory>>

\* execv, run(resume=True), resume: a new process takes the child over from
\* status.json, also when it died meanwhile: nobody waited for it, so its pid
\* still answers.  What only memory held is lost, a signal received included.
Resume ==
  /\ pc = "exec"
  /\ memory' = Fresh(worktree)
  /\ set_state(base_state)
  /\ pc' = "cycle"
  /\ job' = NoJob
  /\ UNCHANGED <<copy, requests, worktree, port, mishaps>>

RollbackUp ==
  /\ pc = "rollback"
  /\ ComesUp(job.from)
  /\ record("revertido", job.from, "anterior", job.target)
  /\ memory' = [memory EXCEPT !.previous = job.from]
  /\ Finish
  /\ UNCHANGED <<copy, worktree, port>>

RollbackFails ==
  /\ pc = "rollback"
  /\ StaysDown(job.from)
  /\ GiveUp(job.target)
  /\ UNCHANGED <<copy, memory>>
----
(* The loop of `run`: the child, then the requests, then the remote.        *)

Crashed == child # NoChild /\ ~child.alive

\* on_crash: the crash is counted in its window and the restart is put off.
NoteCrash ==
  /\ pc = "cycle" /\ ~memory.stopping
  /\ Crashed
  /\ ~memory.restarting
  /\ \E recent \in {0, memory.crashes} :
       memory' = [memory EXCEPT !.crashes = recent + 1, !.restarting = TRUE]
  /\ pc' = "requests"
  /\ UNCHANGED <<copy, status, requests, worktree, port, job, mishaps>>

TooManyCrashes == child.mode = "principal" /\ memory.crashes >= CrashMax

RestartChild ==
  /\ pc = "cycle" /\ ~memory.stopping
  /\ Crashed
  /\ memory.restarting
  /\ ~TooManyCrashes
  /\ Puts(Server(child.mode, child.commit), maintenance)
  /\ memory' = [memory EXCEPT !.restarting = FALSE]
  /\ pc' = "requests"
  /\ UNCHANGED <<copy, status, requests, worktree, job, mishaps>>

CrashRollback ==
  /\ pc = "cycle" /\ ~memory.stopping
  /\ Crashed
  /\ memory.restarting
  /\ TooManyCrashes
  /\ memory' = [memory EXCEPT !.restarting = FALSE, !.crashes = 0]
  /\ LET previous == IF memory.previous # NoCommit THEN memory.previous ELSE worktree
         failed == child.commit
     IN \/ /\ previous \in {NoCommit, failed}
           /\ Puts(NoChild, TRUE)
           /\ record("fora-do-ar", NoCommit, "manutencao", failed)
           /\ pc' = "requests"
           /\ UNCHANGED <<worktree, job>>
        \/ /\ previous \notin {NoCommit, failed}
           /\ Puts(Server("anterior", previous), maintenance)
           /\ set_state("revertendo")
           /\ worktree' = previous
           /\ pc' = "rollback"
           /\ job' = [NoJob EXCEPT !.trigger = "crash", !.target = failed, !.from = previous, !.back = "requests"]
  /\ UNCHANGED <<copy, requests, mishaps>>

\* maint_retry, every MAINT_RETRY_S.
RetryPrevious ==
  /\ pc = "cycle" /\ ~memory.stopping
  /\ ~Crashed
  /\ status.state = "fora-do-ar"
  /\ worktree # NoCommit
  /\ Puts(Server("anterior", worktree), FALSE)
  /\ pc' = "retry-previous"
  /\ UNCHANGED <<copy, status, requests, worktree, job, memory, mishaps>>

RetryPreviousUp ==
  /\ pc = "retry-previous"
  /\ ComesUp(worktree)
  /\ record("revertido", worktree, "anterior", status.failed)
  /\ memory' = [memory EXCEPT !.previous = worktree]
  /\ pc' = "requests"
  /\ UNCHANGED <<copy, requests, worktree, port, job>>

RetryPreviousFails ==
  /\ pc = "retry-previous"
  /\ StaysDown(worktree)
  /\ Puts(NoChild, TRUE)
  /\ pc' = "requests"
  /\ UNCHANGED <<copy, status, requests, worktree, job, memory>>

\* process_requests: the oldest request decides how; develop is synchronised first.
TakeRequest ==
  /\ pc = "requests"
  /\ requests # <<>>
  /\ head' = Synced
  /\ pc' = "guards"
  /\ job' = [NoJob EXCEPT !.trigger = "request", !.when = Head(requests), !.back = "auto"]
  /\ UNCHANGED <<origin, tree, status, requests, worktree, port, memory, mishaps>>

\* Forgetting what failed before this process.
NeedsPublishAgain(commit) ==
  /\ commit \notin memory.failed
  /\ status.commit = NoCommit \/ Changed(status.commit, commit, Commits \ DocsOnly)

NeedsPublish(commit) ==
  /\ commit # status.failed
  /\ commit \notin memory.failed
  /\ status.commit = NoCommit \/ Changed(status.commit, commit, Commits \ DocsOnly)

\* auto_cycle.
AutoPublish ==
  /\ pc = "auto"
  /\ tree = "clear"
  /\ head' = Synced
  /\ \/ /\ NeedsPublish(head')
        /\ pc' = "guards"
        /\ job' = [NoJob EXCEPT !.trigger = "auto", !.when = "auto"]
     \/ /\ ~NeedsPublish(head')
        /\ pc' = "cycle"
        /\ UNCHANGED job
  /\ UNCHANGED <<origin, tree, status, requests, worktree, port, memory, mishaps>>

\* The timer of a part of the loop has not come due, or auto_cycle is held back.
Pass ==
  /\ \/ pc = "cycle" /\ ~memory.stopping /\ pc' = "requests"
     \/ pc = "requests" /\ pc' = "auto"
     \/ pc = "auto" /\ pc' = "cycle"
  /\ UNCHANGED <<copy, status, requests, worktree, port, job, memory, mishaps>>
----
(* Everybody else.                                                          *)

\* A pull request is integrated on the remote.
Merge ==
  /\ origin < MaxCommit
  /\ origin' = origin + 1
  /\ UNCHANGED <<head, tree, status, requests, worktree, port, supervisor, mishaps>>

\* review-sync, or a pull by hand, moves HEAD.
Pull ==
  /\ head' = origin
  /\ UNCHANGED <<origin, tree, status, requests, worktree, port, supervisor, mishaps>>

\* Somebody works in the main copy: an operation of git, code changed, another
\* branch, develop ahead or diverged.
Touch ==
  /\ tree' \in {"clear", "operation", "refused"}
  /\ UNCHANGED <<head, origin, status, requests, worktree, port, supervisor, mishaps>>

Dies ==
  /\ child # NoChild /\ child.alive
  /\ \/ child.loaded \in Broken /\ UNCHANGED mishaps
     \/ mishaps < MaxMishaps /\ mishaps' = mishaps + 1
  /\ child' = [child EXCEPT !.alive = FALSE]
  /\ busy' = FALSE
  /\ UNCHANGED <<copy, status, requests, worktree, maintenance, supervisor>>

Converse ==
  /\ child # NoChild /\ child.alive
  /\ busy' = ~busy
  /\ UNCHANGED <<copy, status, requests, worktree, child, maintenance, supervisor, mishaps>>

\* handle_publish, at the panel or at the maintenance page: one at a time.
Ask ==
  /\ Serving
  /\ status.supervised /\ pc # "down"
  /\ status.state \notin BusyStates
  /\ requests = <<>>
  /\ \E when \in {"now", "safe"} : requests' = <<when>>
  /\ UNCHANGED <<copy, status, worktree, port, supervisor, mishaps>>

\* cmd_publish, at the terminal: nothing pending is looked for.
AskAtTerminal ==
  /\ pc # "down"
  /\ Len(requests) < MaxRequests
  /\ \E when \in {"now", "safe"} : requests' = Append(requests, when)
  /\ UNCHANGED <<copy, status, worktree, port, supervisor, mishaps>>
----
Starting == StartPreviousUp \/ StartPreviousFails \/ StartUp \/ StartFails
Publishing ==
  \/ Guards \/ PreflightFails \/ PreflightPasses \/ Swap \/ NoSafePoint
  \/ PublishUp \/ PublishFails \/ Resume \/ RollbackUp \/ RollbackFails
Looping ==
  \/ NoteCrash \/ RestartChild \/ CrashRollback
  \/ RetryPrevious \/ RetryPreviousUp \/ RetryPreviousFails
  \/ TakeRequest \/ AutoPublish \/ Pass \/ Shutdown
Supervising == Starting \/ Publishing \/ Looping
Environment == Start \/ Stop \/ Kill \/ Merge \/ Pull \/ Touch \/ Dies \/ Converse \/ Ask \/ AskAtTerminal

Next == Supervising \/ Environment

\* The thread never waits without a limit, and the two timers come due.
Spec == Init /\ [][Next]_vars
FairSpec ==
  /\ Spec
  /\ WF_vars(Supervising)
  /\ SF_vars(TakeRequest)
  /\ SF_vars(AutoPublish)
----
(* Properties.                                                              *)

Known == Commits \cup {NoCommit}
Whens == {"now", "safe"}
Places == Loop \cup {"down", "start", "start-previous", "guards", "preflight", "safe-point", "swap",
                    "exec", "rollback", "retry-previous"}
States == BusyStates \cup {"no-ar", "revertido", "fora-do-ar", "parado"}
Modes == {"principal", "anterior"}
Statuses == [supervised : BOOLEAN, state : States, commit : Known, failed : Known,
             mode : Modes \cup {"none", "manutencao"}]
Servers == [mode : Modes, commit : Known, alive : BOOLEAN, loaded : Known]
Jobs == [trigger : {"none", "start", "request", "auto", "crash"}, when : Whens \cup {"auto"},
         target : Known, from : Known, back : Loop]
Memories == [previous : Known, failed : SUBSET Known, crashes : Nat, restarting : BOOLEAN,
             code : Known, stopping : BOOLEAN]

\* The types of the variables.
TypeOK ==
  /\ head \in Commits /\ origin \in Commits
  /\ tree \in {"clear", "operation", "refused"}
  /\ status \in Statuses
  /\ requests \in Seq(Whens)
  /\ worktree \in Known
  /\ child \in Servers \cup {NoChild} /\ maintenance \in BOOLEAN /\ busy \in BOOLEAN
  /\ pc \in Places /\ job \in Jobs /\ memory \in Memories
  /\ mishaps \in Nat

\* One thing at a time holds the port: the server the supervisor started or
\* its maintenance page (stop_child, stop_maintenance, start_maintenance).
OneOwner == ~(maintenance /\ child # NoChild)

\* status.json, which the panel shows and the next supervisor starts from, says
\* what is on the port whenever the loop is at rest, whichever way a
\* publication, a rollback, a crash or a new process of the supervisor went.
StatusTruthful ==
  pc \in Loop =>
    \/ /\ status.state = "no-ar"
       /\ child # NoChild /\ child.mode = "principal" /\ child.commit = status.commit
       /\ status.failed = NoCommit
    \/ /\ status.state = "revertido"
       /\ child # NoChild /\ child.mode = "anterior" /\ child.commit = status.commit
    \/ /\ status.state = "fora-do-ar"
       /\ child = NoChild /\ maintenance /\ status.commit = NoCommit

\* A reverted panel serves an earlier commit than the one that failed, from the
\* worktree that a second fall or a restart would go back to; and the worktree
\* of a panel on the air is behind it, ready for the next rollback.
WayBack ==
  pc \in Loop =>
    /\ status.state = "revertido" => status.commit = worktree /\ worktree < status.failed
    /\ status.state = "no-ar" => worktree < status.commit

\* A commit the publisher saw fail is never put on the air again by itself: only
\* a request brings it back, or a start that knows no other commit (needs_publish,
\* startup).
NotRetriedAlone ==
  [][/\ pc' = "swap" /\ job'.trigger = "auto" =>
          job'.target # status.failed /\ job'.target \notin memory.failed
     /\ pc = "down" /\ pc' = "start" /\ status.failed = child'.commit =>
          worktree \in {NoCommit, child'.commit}]_vars

\* The supervisor, once nobody stops it or touches the main copy any more, ends
\* with HEAD on the air or with a failure of HEAD on record, and answers every
\* request.
Explained ==
  \/ status.commit # NoCommit /\ ~Changed(status.commit, head, Commits \ DocsOnly)
  \/ head = status.failed
  \/ head \in memory.failed
Settles ==
  <>[](tree = "clear" /\ pc # "down") => <>[]Explained /\ []<>(requests = <<>>)

\* A commit whose candidate did not start stays out: what is on the air is the
\* version before it (CA-2 of the contract).
BarredStaysOut ==
  pc \in Loop /\ child # NoChild => child.loaded \notin Broken \cap memory.failed
====
