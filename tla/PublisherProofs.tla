-------------------------- MODULE PublisherProofs --------------------------
(***************************************************************************)
(* Proofs about what is put on the air: about Publisher (publisher.py) for *)
(* every history of commits, sound or not, and every bound; and about the  *)
(* shared TestEnvironment (testenv.py) for all demands, PRs, requests and  *)
(* mishaps.  The two have no state in common.                              *)
(***************************************************************************)
EXTENDS Publisher, SharedEnvironment, FiniteSetFacts, TLAPS

-----------------------------------------------------------------------------
(* The publisher: status.json and what is on the port.                     *)

\* What status.json records of the server is what is on the port.
Recorded ==
    \/ /\ status.mode = "principal" /\ status.failed = NoCommit
       /\ child # NoChild /\ child.mode = "principal" /\ child.commit = status.commit
    \/ /\ status.mode = "anterior"
       /\ child # NoChild /\ child.mode = "anterior" /\ child.commit = status.commit
    \/ /\ status.mode = "manutencao" /\ status.commit = NoCommit
       /\ child = NoChild /\ maintenance

Runs(mode, commit) == child # NoChild /\ child.mode = mode /\ child.commit = commit

\* A publication leaves the record alone until the server is swapped; from the
\* swap on, the server is the one its job asked for.
StatusInv ==
    /\ OneOwner
    /\ pc \in Loop \cup {"guards", "preflight", "safe-point", "exec"} => Recorded
    /\ pc \in Loop \cup {"guards", "exec"} => status.state = base_state
    /\ pc \in {"start", "swap"} => Runs("principal", job.target)
    /\ pc \in {"start-previous", "retry-previous"} => Runs("anterior", worktree)
    /\ pc = "rollback" => Runs("anterior", job.from)
    /\ pc = "retry-previous" =>
         status.state = "fora-do-ar" /\ status.mode = "manutencao" /\ status.commit = NoCommit

LEMMA StatusInvImplies == StatusInv => StatusTruthful /\ OneOwner
BY DEF StatusInv, StatusTruthful, Recorded, base_state, Loop

-----------------------------------------------------------------------------
(* Types.                                                                  *)

LEMMA KnownCommits == NoCommit \in Known /\ Commits \subseteq Known
BY DEF Known

LEMMA Places1 == Loop \subseteq Places
BY DEF Places

LEMMA NoJobType == NoJob \in Jobs
BY KnownCommits DEF NoJob, Jobs, Whens, Loop

LEMMA FreshType ==
    ASSUME TypeOK, NEW previous \in Known
    PROVE  NoMemory \in Memories /\ Fresh(previous) \in Memories
BY KnownCommits DEF TypeOK, NoMemory, Fresh, Memories

LEMMA ServerType ==
    ASSUME TypeOK, NEW mode \in Modes, NEW commit \in Known
    PROVE  Server(mode, commit) \in Servers /\ Server(mode, commit) # NoChild
BY KnownCommits DEF TypeOK, Server, Servers, Modes, NoChild

LEMMA PutsType ==
    ASSUME NEW c \in Servers \cup {NoChild}, NEW page \in BOOLEAN, Puts(c, page)
    PROVE  child' \in Servers \cup {NoChild} /\ maintenance' \in BOOLEAN /\ busy' \in BOOLEAN
BY DEF Puts

LEMMA StateType ==
    ASSUME TypeOK, NEW state \in States, set_state(state)
    PROVE  status' \in Statuses
BY DEF TypeOK, set_state, Statuses

LEMMA RecordType ==
    ASSUME TypeOK, NEW state \in States, NEW commit \in Known, NEW mode \in Modes \cup {"manutencao"},
           NEW failed \in Known, record(state, commit, mode, failed)
    PROVE  status' \in Statuses
BY DEF TypeOK, record, Statuses

LEMMA FinishType ==
    ASSUME TypeOK, Finish
    PROVE  pc' \in Loop /\ pc' \in Places /\ requests' \in Seq(Whens) /\ job' \in Jobs
<1>1. <<>> \in Seq(Whens)
  OBVIOUS
<1>2. job.back \in Loop
  BY DEF TypeOK, Jobs
<1> QED
  BY <1>1, <1>2, NoJobType, Places1 DEF Finish, TypeOK

LEMMA HealthType ==
    ASSUME TypeOK, NEW commit, ComesUp(commit) \/ StaysDown(commit)
    PROVE  mishaps' \in Nat
BY DEF TypeOK, ComesUp, StaysDown

LEMMA GiveUpType ==
    ASSUME TypeOK, NEW failed \in Known, GiveUp(failed)
    PROVE  /\ child' \in Servers \cup {NoChild} /\ maintenance' \in BOOLEAN /\ busy' \in BOOLEAN
           /\ status' \in Statuses /\ worktree' \in Known
           /\ pc' \in Places /\ requests' \in Seq(Whens) /\ job' \in Jobs
<1>1. child' \in Servers \cup {NoChild} /\ maintenance' \in BOOLEAN /\ busy' \in BOOLEAN
  BY PutsType DEF GiveUp
<1>2. status' \in Statuses
  BY RecordType, KnownCommits DEF GiveUp, States
<1> QED
  BY <1>1, <1>2, FinishType DEF GiveUp, TypeOK

LEMMA RollbackType ==
    ASSUME TypeOK, NEW failed \in Known, NEW previous \in Known, Rollback(failed, previous)
    PROVE  /\ child' \in Servers \cup {NoChild} /\ maintenance' \in BOOLEAN /\ busy' \in BOOLEAN
           /\ status' \in Statuses /\ worktree' \in Known
           /\ pc' \in Places /\ requests' \in Seq(Whens) /\ job' \in Jobs
<1>1. CASE previous = NoCommit
  BY <1>1, GiveUpType DEF Rollback
<1>2. CASE previous # NoCommit
  <2>1. Server("anterior", previous) \in Servers
    BY ServerType DEF Modes
  <2>2. child' \in Servers \cup {NoChild} /\ maintenance' \in BOOLEAN /\ busy' \in BOOLEAN
    BY <1>2, <2>1, PutsType DEF Rollback, TypeOK
  <2>3. status' \in Statuses
    BY <1>2, StateType DEF Rollback, States, BusyStates
  <2>4. job' \in Jobs
    BY <1>2 DEF Rollback, TypeOK, Jobs
  <2> QED
    BY <1>2, <2>2, <2>3, <2>4 DEF Rollback, TypeOK, Places
<1> QED
  BY <1>1, <1>2 DEF Rollback

\* Every action keeps the types.
LEMMA TypeStep == TypeOK /\ [Next]_vars => TypeOK'
<1> SUFFICES ASSUME TypeOK, [Next]_vars PROVE TypeOK'
  OBVIOUS
<1>1. CASE Start
  <2>1. /\ Server("anterior", worktree) \in Servers
        /\ Server("principal", head) \in Servers
    BY KnownCommits, ServerType DEF TypeOK, Modes
  <2>2. child' \in Servers \cup {NoChild} /\ maintenance' \in BOOLEAN /\ busy' \in BOOLEAN
    BY <1>1, <2>1, PutsType DEF Start
  <2>3. memory' \in Memories
    BY <1>1, FreshType, KnownCommits DEF Start
  <2>4. status' \in Statuses
    BY <1>1, KnownCommits DEF Start, TypeOK, Statuses, States, BusyStates
  <2>5. job' \in Jobs
    BY <1>1, KnownCommits DEF Start, TypeOK, Jobs, NoJob, Loop, Whens, Statuses
  <2> QED
    BY <1>1, <2>2, <2>3, <2>4, <2>5 DEF Start, TypeOK, copy, Places
<1>2. CASE StartPreviousUp
  BY <1>2, FinishType, HealthType, RecordType, KnownCommits
     DEF StartPreviousUp, TypeOK, copy, port, supervisor, States, Modes, Statuses, Memories
<1>3. CASE StartPreviousFails
  BY <1>3, GiveUpType, HealthType DEF StartPreviousFails, TypeOK, copy, port, supervisor, Statuses
<1>4. CASE StartUp
  BY <1>4, FinishType, HealthType, RecordType, KnownCommits
     DEF StartUp, TypeOK, copy, port, supervisor, States, Modes, Jobs, Memories
<1>5. CASE StartFails
  BY <1>5, RollbackType, HealthType, KnownCommits
     DEF StartFails, TypeOK, copy, port, supervisor, Jobs
<1>6. CASE Stop
  BY <1>6 DEF Stop, TypeOK, copy, port, supervisor, Memories
<1>7. CASE Kill
  <2>1. NoMemory \in Memories
    BY FreshType, KnownCommits
  <2>2. mishaps' \in Nat
    BY <1>7 DEF Kill, TypeOK
  <2> QED
    BY <1>7, <2>1, <2>2, NoJobType DEF Kill, TypeOK, copy, Places
<1>8. CASE Guards
  <2>1. CASE tree = "operation"
    BY <1>8, <2>1, FinishType, NoJobType, Places1 DEF Guards, TypeOK, copy, port, Jobs
  <2>2. CASE tree = "refused"
    <3>1. memory' \in Memories
      BY <1>8, <2>2, KnownCommits DEF Guards, TypeOK, Memories
    <3> QED
      BY <1>8, <2>2, <3>1, FinishType DEF Guards, TypeOK, copy, port
  <2>3. CASE tree = "clear"
    <3>1. status' \in Statuses
      BY <1>8, <2>3, StateType DEF Guards, States, BusyStates
    <3>2. job' \in Jobs
      BY <1>8, <2>3, KnownCommits DEF Guards, TypeOK, Jobs, Statuses
    <3> QED
      BY <1>8, <2>3, <3>1, <3>2 DEF Guards, TypeOK, copy, port, Places
  <2> QED
    BY <1>8, <2>1, <2>2, <2>3 DEF TypeOK
<1>9. CASE PreflightFails
  <2>1. status' \in Statuses
    BY <1>9, StateType DEF PreflightFails, Base, base_state, States
  <2>2. memory' \in Memories
    BY <1>9 DEF PreflightFails, TypeOK, Memories, Jobs
  <2>3. mishaps' \in Nat
    BY <1>9 DEF PreflightFails, TypeOK
  <2> QED
    BY <1>9, <2>1, <2>2, <2>3, FinishType DEF PreflightFails, Base, TypeOK, copy, port
<1>10. CASE PreflightPasses
  BY <1>10, StateType
     DEF PreflightPasses, TypeOK, copy, port, supervisor, States, BusyStates, Places,
         Statuses
<1>11. CASE Swap
  <2>1. Server("principal", job.target) \in Servers
    BY ServerType DEF TypeOK, Jobs, Modes
  <2>2. child' \in Servers \cup {NoChild} /\ maintenance' \in BOOLEAN /\ busy' \in BOOLEAN
    BY <1>11, <2>1, PutsType DEF Swap
  <2>3. status' \in Statuses
    BY <1>11, StateType DEF Swap, States, BusyStates
  <2> QED
    BY <1>11, <2>2, <2>3 DEF Swap, TypeOK, copy, Places
<1>12. CASE NoSafePoint
  <2>1. status' \in Statuses
    BY <1>12, StateType DEF NoSafePoint, Base, base_state, States
  <2> QED
    BY <1>12, <2>1, FinishType DEF NoSafePoint, Base, TypeOK, copy, port
<1>13. CASE PublishUp
  <2>1. status' \in Statuses
    BY <1>13, RecordType, KnownCommits DEF PublishUp, TypeOK, States, Modes, Jobs
  <2>2. memory' \in Memories /\ worktree' \in Known
    BY <1>13 DEF PublishUp, TypeOK, Memories, Jobs
  <2>3. pc' \in Places /\ requests' \in Seq(Whens) /\ job' \in Jobs
    BY <1>13, FinishType DEF PublishUp, TypeOK, Places
  <2> QED
    BY <1>13, <2>1, <2>2, <2>3, HealthType DEF PublishUp, TypeOK, copy, port
<1>14. CASE PublishFails
  BY <1>14, RollbackType, HealthType, KnownCommits
     DEF PublishFails, TypeOK, copy, port, supervisor, Jobs
<1>15. CASE Resume
  BY <1>15, FreshType, StateType, NoJobType
     DEF Resume, TypeOK, copy, port, supervisor, States, base_state, Places, Loop
<1>16. CASE RollbackUp
  BY <1>16, FinishType, HealthType, RecordType, KnownCommits
     DEF RollbackUp, TypeOK, copy, port, supervisor, States, Modes, Jobs, Memories
<1>17. CASE RollbackFails
  BY <1>17, GiveUpType, HealthType DEF RollbackFails, TypeOK, copy, port, supervisor, Jobs
<1>18. CASE NoteCrash
  <2>1. PICK recent \in {0, memory.crashes} :
             memory' = [memory EXCEPT !.crashes = recent + 1, !.restarting = TRUE]
    BY <1>18 DEF NoteCrash
  <2>2. recent \in Nat
    BY <2>1 DEF TypeOK, Memories
  <2>3. memory' \in Memories
    <3>1. recent + 1 \in Nat /\ memory \in Memories
      BY <2>2 DEF TypeOK
    <3> QED
      BY <2>1, <3>1 DEF Memories
  <2> QED
    BY <1>18, <2>3 DEF NoteCrash, TypeOK, copy, port, Places, Loop
<1>19. CASE RestartChild
  <2>1. Server(child.mode, child.commit) \in Servers
    BY <1>19, ServerType DEF RestartChild, Crashed, TypeOK, Servers
  <2>2. child' \in Servers \cup {NoChild} /\ maintenance' \in BOOLEAN /\ busy' \in BOOLEAN
    BY <1>19, <2>1, PutsType DEF RestartChild, TypeOK
  <2>3. memory' \in Memories
    BY <1>19 DEF RestartChild, TypeOK, Memories
  <2> QED
    BY <1>19, <2>2, <2>3 DEF RestartChild, TypeOK, copy, Places, Loop
<1>20. CASE CrashRollback
  <2> DEFINE previous == IF memory.previous # NoCommit THEN memory.previous ELSE worktree
  <2>1. previous \in Known /\ child.commit \in Known
    BY <1>20 DEF CrashRollback, Crashed, TypeOK, Servers, Memories
  <2>2. memory' \in Memories
    BY <1>20 DEF CrashRollback, TypeOK, Memories
  <2>3. CASE previous \in {NoCommit, child.commit}
    <3>1. child' \in Servers \cup {NoChild} /\ maintenance' \in BOOLEAN /\ busy' \in BOOLEAN
      BY <1>20, <2>3, PutsType DEF CrashRollback
    <3>2. status' \in Statuses
      BY <1>20, <2>1, <2>3, RecordType, KnownCommits DEF CrashRollback, States
    <3> QED
      BY <1>20, <2>2, <2>3, <3>1, <3>2 DEF CrashRollback, TypeOK, copy, Places, Loop
  <2>4. CASE previous \notin {NoCommit, child.commit}
    <3>1. Server("anterior", previous) \in Servers
      BY <2>1, ServerType DEF Modes
    <3>2. child' \in Servers \cup {NoChild} /\ maintenance' \in BOOLEAN /\ busy' \in BOOLEAN
      <4>1. Puts(Server("anterior", previous), maintenance)
        BY <1>20, <2>4 DEF CrashRollback
      <4> HIDE DEF previous
      <4> QED
        BY <3>1, <4>1, PutsType DEF TypeOK
    <3>3. status' \in Statuses
      BY <1>20, <2>4, StateType DEF CrashRollback, States, BusyStates
    <3>4. job' \in Jobs
      BY <1>20, <2>1, <2>4 DEF CrashRollback, NoJob, Jobs, Loop, Whens
    <3> QED
      BY <1>20, <2>1, <2>2, <2>4, <3>2, <3>3, <3>4 DEF CrashRollback, TypeOK, copy, Places
  <2> QED
    BY <2>3, <2>4
<1>21. CASE RetryPrevious
  BY <1>21, ServerType, PutsType DEF RetryPrevious, TypeOK, copy, port, supervisor, Modes, Places
<1>22. CASE RetryPreviousUp
  BY <1>22, RecordType, HealthType, KnownCommits
     DEF RetryPreviousUp, TypeOK, copy, port, supervisor, States, Modes, Statuses, Memories,
         Places, Loop
<1>23. CASE RetryPreviousFails
  BY <1>23, PutsType, HealthType
     DEF RetryPreviousFails, TypeOK, copy, port, supervisor, Places, Loop
<1>24. CASE TakeRequest
  <2>1. job' \in Jobs
    <3>1. Head(requests) \in Whens
      BY <1>24 DEF TakeRequest, TypeOK
    <3> QED
      BY <1>24, <3>1, KnownCommits DEF TakeRequest, NoJob, Jobs, Loop
  <2> QED
    BY <1>24, <2>1 DEF TakeRequest, TypeOK, port, Synced, Places
<1>25. CASE AutoPublish
  <2>1. job' \in Jobs
    BY <1>25, KnownCommits DEF AutoPublish, TypeOK, NoJob, Jobs, Loop, Whens
  <2> QED
    BY <1>25, <2>1 DEF AutoPublish, TypeOK, port, Synced, Places, Loop
<1>26. CASE Pass
  BY <1>26 DEF Pass, TypeOK, copy, port, supervisor, Places, Loop
<1>27. CASE Shutdown
  <2>1. child' \in Servers \cup {NoChild} /\ maintenance' \in BOOLEAN /\ busy' \in BOOLEAN
    BY <1>27, PutsType DEF Shutdown
  <2>2. status' \in Statuses
    BY <1>27 DEF Shutdown, TypeOK, Statuses, States
  <2> QED
    BY <1>27, <2>1, <2>2, FreshType, KnownCommits DEF Shutdown, TypeOK, copy, Places
<1>28. CASE Merge
  BY <1>28, PublisherAssumption DEF Merge, TypeOK, copy, port, supervisor, Commits
<1>29. CASE Pull
  BY <1>29 DEF Pull, TypeOK, copy, port, supervisor
<1>30. CASE Touch
  BY <1>30 DEF Touch, TypeOK, copy, port, supervisor
<1>31. CASE Dies
  <2>1. child' \in Servers
    <3>1. child \in Servers
      BY <1>31 DEF Dies, TypeOK
    <3> QED
      BY <1>31, <3>1 DEF Dies, Servers
  <2>2. mishaps' \in Nat
    BY <1>31 DEF Dies, TypeOK
  <2> QED
    BY <1>31, <2>1, <2>2 DEF Dies, TypeOK, copy, supervisor
<1>32. CASE Converse
  BY <1>32 DEF Converse, TypeOK, copy, port, supervisor
<1>33. CASE Ask
  <2>1. \A when \in Whens : <<when>> \in Seq(Whens)
    OBVIOUS
  <2> QED
    BY <1>33, <2>1 DEF Ask, TypeOK, copy, port, supervisor, Whens
<1>34. CASE AskAtTerminal
  <2>1. \A when \in Whens : Append(requests, when) \in Seq(Whens)
    BY AppendProperties DEF TypeOK
  <2> QED
    BY <1>34, <2>1 DEF AskAtTerminal, TypeOK, copy, port, supervisor, Whens
<1>35. CASE UNCHANGED vars
  BY <1>35 DEF vars, TypeOK, copy, port, supervisor
<1> QED
  BY <1>1, <1>2, <1>3, <1>4, <1>5, <1>6, <1>7, <1>8, <1>9, <1>10, <1>11, <1>12, <1>13,
     <1>14, <1>15, <1>16, <1>17, <1>18, <1>19, <1>20, <1>21, <1>22, <1>23, <1>24, <1>25,
     <1>26, <1>27, <1>28, <1>29, <1>30, <1>31, <1>32, <1>33, <1>34, <1>35
     DEF Next, Supervising, Environment, Starting, Publishing, Looping

\* status.json has the types the panel reads, and so has everything else the
\* supervisor keeps, after any number of publications, crashes and restarts.
THEOREM TypeCorrect == Spec => []TypeOK
<1>1. Init => TypeOK
  <2> SUFFICES ASSUME Init PROVE TypeOK
    OBVIOUS
  <2>1. head \in Commits /\ origin \in Commits
    BY PublisherAssumption DEF Init, Commits
  <2>2. status \in Statuses
    BY KnownCommits DEF Init, Statuses, States
  <2>3. memory \in Memories
    BY KnownCommits DEF Init, NoMemory, Memories
  <2>4. requests \in Seq(Whens) /\ worktree \in Known
    BY KnownCommits DEF Init
  <2> QED
    BY <2>1, <2>2, <2>3, <2>4, NoJobType DEF Init, TypeOK, Places
<1>2. TypeOK /\ [Next]_vars => TypeOK'
  BY TypeStep
<1> QED
  BY <1>1, <1>2, PTL DEF Spec

-----------------------------------------------------------------------------
(* What is on the port, and what status.json says of it.                   *)

LEMMA ServerRuns ==
    ASSUME NEW mode \in Modes, NEW commit, NEW page, Puts(Server(mode, commit), page)
    PROVE  /\ child' # NoChild /\ child'.mode = mode /\ child'.commit = commit
           /\ maintenance' = page
<1>1. child' = Server(mode, commit) /\ maintenance' = page
  BY DEF Puts
<1>2. child'.mode = mode /\ child'.commit = commit
  BY <1>1 DEF Server
<1>3. NoChild.mode = "none"
  BY DEF NoChild
<1>4. mode # "none"
  BY DEF Modes
<1> QED
  BY <1>1, <1>2, <1>3, <1>4

LEMMA StateAs ==
    ASSUME TypeOK, NEW state, set_state(state)
    PROVE  /\ status'.state = state /\ status'.mode = status.mode
           /\ status'.commit = status.commit /\ status'.failed = status.failed
BY DEF TypeOK, set_state, Statuses

LEMMA RecordAs ==
    ASSUME TypeOK, NEW state, NEW commit, NEW mode, NEW failed, record(state, commit, mode, failed)
    PROVE  /\ status'.state = state /\ status'.mode = mode
           /\ status'.commit = commit /\ status'.failed = failed
BY DEF TypeOK, record, Statuses

\* The maintenance page alone on the port, and recorded.
LEMMA PageInv ==
    ASSUME child' = NoChild, maintenance' = TRUE, pc' \in Loop,
           status'.state = "fora-do-ar", status'.mode = "manutencao", status'.commit = NoCommit
    PROVE  StatusInv'
BY DEF StatusInv, OneOwner, Recorded, base_state, Loop

LEMMA GiveUpInv ==
    ASSUME TypeOK, NEW failed, GiveUp(failed)
    PROVE  StatusInv'
<1>1. child' = NoChild /\ maintenance' = TRUE
  BY DEF GiveUp, Puts
<1> QED
  BY <1>1, RecordAs, FinishType, PageInv DEF GiveUp

LEMMA RollbackInv ==
    ASSUME TypeOK, ~maintenance, NEW failed, NEW previous, Rollback(failed, previous)
    PROVE  StatusInv'
<1>1. CASE previous = NoCommit
  BY <1>1, GiveUpInv DEF Rollback
<1>2. CASE previous # NoCommit
  <2>1. child' # NoChild /\ child'.mode = "anterior" /\ child'.commit = previous /\ ~maintenance'
    BY <1>2, ServerRuns DEF Rollback, Modes
  <2>2. pc' = "rollback" /\ job'.from = previous
    BY <1>2 DEF Rollback, TypeOK, Jobs
  <2> QED
    BY <2>1, <2>2 DEF StatusInv, OneOwner, Runs, Loop
<1> QED
  BY <1>1, <1>2 DEF Rollback

\* The server that is on the port is recorded as the one that came up.
LEMMA UpInv ==
    ASSUME TypeOK, StatusInv, UNCHANGED port, pc' \in Loop \cup {"exec"},
           NEW mode \in Modes, NEW commit, NEW failed, Runs(mode, commit),
           mode = "principal" => failed = NoCommit,
           record(IF mode = "principal" THEN "no-ar" ELSE "revertido", commit, mode, failed)
    PROVE  StatusInv'
<1>1. /\ status'.state = IF mode = "principal" THEN "no-ar" ELSE "revertido"
      /\ status'.mode = mode /\ status'.commit = commit /\ status'.failed = failed
  BY RecordAs
<1>2. child' # NoChild /\ child'.mode = mode /\ child'.commit = commit
  BY DEF Runs, port
<1>3. ~maintenance'
  BY DEF StatusInv, OneOwner, Runs, port
<1> QED
  BY <1>1, <1>2, <1>3 DEF StatusInv, OneOwner, Recorded, base_state, Loop, Modes

\* A step that touches neither the port nor the record keeps what they say.
LEMMA QuietInv ==
    ASSUME StatusInv, child' = child, maintenance' = maintenance, status' = status,
           worktree' = worktree \/ pc' \notin {"start-previous", "retry-previous"},
           \/ pc' = pc /\ job' = job
           \/ pc' = "down"
           \/ pc \in Loop /\ pc' \in Loop \cup {"guards"}
           \/ pc = "guards" /\ pc' \in Loop
    PROVE  StatusInv'
BY DEF StatusInv, OneOwner, Recorded, Runs, base_state, Loop

\* Between the guards and the swap only the state changes.
LEMMA BusyInv ==
    ASSUME TypeOK, StatusInv, UNCHANGED port, NEW state, set_state(state),
           pc \in Loop \cup {"guards", "preflight", "safe-point", "exec"},
           \/ pc' \in {"preflight", "safe-point"}
           \/ pc' \in Loop /\ state = base_state
    PROVE  StatusInv'
<1>1. /\ status'.state = state /\ status'.mode = status.mode
      /\ status'.commit = status.commit /\ status'.failed = status.failed
  BY StateAs
<1>2. OneOwner' /\ Recorded'
  BY <1>1 DEF StatusInv, OneOwner, Recorded, port, Loop
<1>3. pc' \in Loop => status'.state = base_state'
  BY <1>1 DEF base_state, Loop
<1> QED
  BY <1>2, <1>3 DEF StatusInv, Loop

LEMMA StatusStep == TypeOK /\ StatusInv /\ [Next]_vars => StatusInv'
<1> SUFFICES ASSUME TypeOK, StatusInv, [Next]_vars PROVE StatusInv'
  OBVIOUS
<1> USE DEF port, copy, supervisor
<1>1. CASE Start
  <2>1. child' # NoChild /\ ~maintenance'
    BY <1>1, ServerRuns DEF Start, Modes
  <2>2. CASE pc' = "start"
    <3>1. Puts(Server("principal", head), FALSE) /\ job'.target = head
      BY <1>1, <2>2 DEF Start, NoJob
    <3>2. child'.mode = "principal" /\ child'.commit = head
      BY <3>1, ServerRuns DEF Modes
    <3> QED
      BY <2>1, <2>2, <3>1, <3>2 DEF StatusInv, OneOwner, Runs, Loop
  <2>3. CASE pc' = "start-previous"
    <3>1. Puts(Server("anterior", worktree), FALSE) /\ worktree' = worktree
      BY <1>1, <2>3 DEF Start
    <3>2. child'.mode = "anterior" /\ child'.commit = worktree
      BY <3>1, ServerRuns DEF Modes
    <3> QED
      BY <2>1, <2>3, <3>1, <3>2 DEF StatusInv, OneOwner, Runs, Loop
  <2> QED
    BY <1>1, <2>2, <2>3 DEF Start
<1>2. CASE StartPreviousUp
  <2>1. Runs("anterior", worktree)
    BY <1>2 DEF StartPreviousUp, StatusInv
  <2> QED
    BY <1>2, <2>1, UpInv, FinishType DEF StartPreviousUp, Modes
<1>3. CASE StartPreviousFails
  BY <1>3, GiveUpInv DEF StartPreviousFails
<1>4. CASE StartUp
  <2>1. Runs("principal", job.target)
    BY <1>4 DEF StartUp, StatusInv
  <2> QED
    BY <1>4, <2>1, UpInv, FinishType DEF StartUp, Modes
<1>5. CASE StartFails
  <2>1. ~maintenance
    BY <1>5 DEF StartFails, StatusInv, OneOwner, Runs, TypeOK
  <2> QED
    BY <1>5, <2>1, RollbackInv DEF StartFails
<1>6. CASE Stop
  BY <1>6, QuietInv DEF Stop
<1>7. CASE Kill
  BY <1>7 DEF Kill, StatusInv, OneOwner, Loop
<1>8. CASE Guards
  <2>1. CASE tree = "clear"
    BY <1>8, <2>1, BusyInv DEF Guards
  <2>2. CASE tree # "clear"
    <3>1. pc' \in Loop
      BY <1>8, <2>2, FinishType DEF Guards, TypeOK, Jobs
    <3> QED
      BY <1>8, <2>2, <3>1, QuietInv DEF Guards, Loop
  <2> QED
    BY <2>1, <2>2
<1>9. CASE PreflightFails
  BY <1>9, BusyInv, FinishType DEF PreflightFails, Base
<1>10. CASE PreflightPasses
  BY <1>10, BusyInv DEF PreflightPasses
<1>11. CASE Swap
  <2>1. child' # NoChild /\ child'.mode = "principal" /\ child'.commit = job.target /\ ~maintenance'
    BY <1>11, ServerRuns DEF Swap, Modes
  <2> QED
    BY <1>11, <2>1 DEF Swap, StatusInv, OneOwner, Runs, Loop
<1>12. CASE NoSafePoint
  BY <1>12, BusyInv, FinishType DEF NoSafePoint, Base
<1>13. CASE PublishUp
  <2>1. Runs("principal", job.target)
    BY <1>13 DEF PublishUp, StatusInv
  <2>2. pc' \in Loop \cup {"exec"}
    BY <1>13, FinishType DEF PublishUp
  <2> QED
    BY <1>13, <2>1, <2>2, UpInv DEF PublishUp, Modes
<1>14. CASE PublishFails
  <2>1. ~maintenance
    BY <1>14 DEF PublishFails, StatusInv, OneOwner, Runs, TypeOK
  <2> QED
    BY <1>14, <2>1, RollbackInv DEF PublishFails
<1>15. CASE Resume
  BY <1>15, BusyInv DEF Resume, Loop
<1>16. CASE RollbackUp
  <2>1. Runs("anterior", job.from)
    BY <1>16 DEF RollbackUp, StatusInv
  <2> QED
    BY <1>16, <2>1, UpInv, FinishType DEF RollbackUp, Modes
<1>17. CASE RollbackFails
  BY <1>17, GiveUpInv DEF RollbackFails
<1>18. CASE NoteCrash
  BY <1>18, QuietInv DEF NoteCrash, Loop
<1>19. CASE RestartChild
  <2>1. child \in Servers /\ child # NoChild
    BY <1>19 DEF RestartChild, Crashed, TypeOK
  <2>2. child' # NoChild /\ child'.mode = child.mode /\ child'.commit = child.commit /\ maintenance' = maintenance
    BY <1>19, <2>1, ServerRuns DEF RestartChild, Servers
  <2> QED
    BY <1>19, <2>1, <2>2 DEF RestartChild, StatusInv, OneOwner, Recorded, base_state, Loop
<1>20. CASE CrashRollback
  <2> DEFINE previous == IF memory.previous # NoCommit THEN memory.previous ELSE worktree
  <2>1. ~maintenance
    BY <1>20 DEF CrashRollback, Crashed, StatusInv, OneOwner, TypeOK
  <2>2. CASE previous \in {NoCommit, child.commit}
    BY <1>20, <2>2, RecordAs, PageInv DEF CrashRollback, Puts, Loop
  <2>3. CASE previous \notin {NoCommit, child.commit}
    <3>1. Puts(Server("anterior", previous), maintenance)
      BY <1>20, <2>3 DEF CrashRollback
    <3>2. pc' = "rollback" /\ job'.from = previous
      BY <1>20, <2>3 DEF CrashRollback, NoJob
    <3> HIDE DEF previous
    <3>3. child' # NoChild /\ child'.mode = "anterior" /\ child'.commit = previous /\ ~maintenance'
      BY <2>1, <3>1, ServerRuns DEF Modes
    <3> QED
      BY <3>2, <3>3 DEF StatusInv, OneOwner, Runs, Loop
  <2> QED
    BY <2>2, <2>3
<1>21. CASE RetryPrevious
  <2>1. child' # NoChild /\ child'.mode = "anterior" /\ child'.commit = worktree /\ ~maintenance'
    BY <1>21, ServerRuns DEF RetryPrevious, Modes
  <2>2. status.mode = "manutencao" /\ status.commit = NoCommit
    BY <1>21 DEF RetryPrevious, StatusInv, Recorded, base_state, Loop
  <2> QED
    BY <1>21, <2>1, <2>2 DEF RetryPrevious, StatusInv, OneOwner, Runs, Loop
<1>22. CASE RetryPreviousUp
  <2>1. Runs("anterior", worktree)
    BY <1>22 DEF RetryPreviousUp, StatusInv
  <2> QED
    BY <1>22, <2>1, UpInv DEF RetryPreviousUp, Modes, Loop
<1>23. CASE RetryPreviousFails
  <2>1. status.state = "fora-do-ar" /\ status.mode = "manutencao" /\ status.commit = NoCommit
    BY <1>23 DEF RetryPreviousFails, StatusInv
  <2> QED
    BY <1>23, <2>1, PageInv DEF RetryPreviousFails, Puts, Loop
<1>24. CASE TakeRequest
  BY <1>24, QuietInv DEF TakeRequest, Loop
<1>25. CASE AutoPublish
  BY <1>25, QuietInv DEF AutoPublish, Loop
<1>26. CASE Pass
  BY <1>26, QuietInv DEF Pass, Loop
<1>27. CASE Shutdown
  BY <1>27 DEF Shutdown, Puts, StatusInv, OneOwner, Loop
<1>28. CASE Merge
  BY <1>28, QuietInv DEF Merge
<1>29. CASE Pull
  BY <1>29, QuietInv DEF Pull
<1>30. CASE Touch
  BY <1>30, QuietInv DEF Touch
<1>31. CASE Dies
  <2>1. child \in Servers
    BY <1>31 DEF Dies, TypeOK
  <2>2. child' \in Servers /\ child'.mode = child.mode /\ child'.commit = child.commit
    BY <1>31, <2>1 DEF Dies, Servers
  <2>3. child # NoChild /\ child' # NoChild
    BY <2>1, <2>2 DEF Servers, NoChild, Modes
  <2> QED
    BY <1>31, <2>2, <2>3 DEF Dies, StatusInv, OneOwner, Recorded, Runs, base_state
<1>32. CASE Converse
  BY <1>32, QuietInv DEF Converse
<1>33. CASE Ask
  BY <1>33, QuietInv DEF Ask
<1>34. CASE AskAtTerminal
  BY <1>34, QuietInv DEF AskAtTerminal
<1>35. CASE UNCHANGED vars
  BY <1>35, QuietInv DEF vars
<1> QED
  BY <1>1, <1>2, <1>3, <1>4, <1>5, <1>6, <1>7, <1>8, <1>9, <1>10, <1>11, <1>12, <1>13,
     <1>14, <1>15, <1>16, <1>17, <1>18, <1>19, <1>20, <1>21, <1>22, <1>23, <1>24, <1>25,
     <1>26, <1>27, <1>28, <1>29, <1>30, <1>31, <1>32, <1>33, <1>34, <1>35
     DEF Next, Supervising, Environment, Starting, Publishing, Looping

LEMMA StatusInvAlways == Spec => []StatusInv
<1>1. Init => StatusInv
  BY DEF Init, StatusInv, OneOwner, Loop, NoChild
<1>2. TypeOK /\ StatusInv /\ [Next]_vars => StatusInv'
  BY StatusStep
<1> QED
  BY <1>1, <1>2, TypeCorrect, PTL DEF Spec

\* Whichever way a publication, a rollback, a crash or a new process of the
\* supervisor went, status.json says what is on the port once the loop is at
\* rest: for every history of commits.
THEOREM StatusIsTruthful == Spec => []StatusTruthful
BY StatusInvImplies, StatusInvAlways, PTL

\* The supervisor never has the maintenance page on the port together with a
\* server it started: each is stopped before the other starts, however the steps
\* of a publication, a rollback and a shutdown interleave with a child's death.
THEOREM OneOwnerAlways == Spec => []OneOwner
BY StatusInvImplies, StatusInvAlways, PTL

-----------------------------------------------------------------------------
(* What failed is not tried again alone.                                   *)

\* Every commit on record was HEAD once.
SeenBy(h) ==
    /\ status.failed <= h /\ status.commit <= h
    /\ worktree <= h
    /\ child # NoChild => child.commit <= h
    /\ job.target <= h /\ job.from <= h
    /\ memory.previous <= h
    /\ \A c \in memory.failed : c <= h

Behind == head <= origin /\ SeenBy(head)

\* An automatic publication is of a commit that did not fail before.
Untried ==
    /\ pc = "guards" /\ job.trigger = "auto" =>
         head # status.failed /\ head \notin memory.failed
    /\ pc \in {"preflight", "safe-point", "swap"} /\ job.trigger = "auto" =>
         job.target # status.failed /\ job.target \notin memory.failed

LEMMA KnownNat == Known \subseteq Nat /\ Commits \subseteq Nat
BY PublisherAssumption DEF Known, Commits, NoCommit

LEMMA TypedNat ==
    ASSUME TypeOK
    PROVE  /\ head \in Nat /\ origin \in Nat /\ worktree \in Nat
           /\ status.failed \in Nat /\ status.commit \in Nat
           /\ job.target \in Nat /\ job.from \in Nat
           /\ memory.previous \in Nat /\ memory.failed \subseteq Nat
           /\ child # NoChild => child.commit \in Nat
BY KnownNat DEF TypeOK, Statuses, Jobs, Memories, Servers

LEMMA FinishSeen ==
    ASSUME Finish
    PROVE  job'.target = NoCommit /\ job'.from = NoCommit /\ job'.trigger = "none"
BY DEF Finish, NoJob

LEMMA ServerSeen ==
    ASSUME NEW mode, NEW commit, NEW page, Puts(Server(mode, commit), page)
    PROVE  child'.commit = commit
BY DEF Puts, Server

\* HEAD moves forward and nothing else is put on record.
LEMMA ForwardSeen ==
    ASSUME TypeOK, Behind, TypeOK', head <= head', head' <= origin',
           status'.failed = status.failed, status'.commit = status.commit, worktree' = worktree,
           child' # NoChild => child # NoChild /\ child'.commit = child.commit,
           job'.target = job.target \/ job'.target = NoCommit,
           job'.from = job.from \/ job'.from = NoCommit,
           memory'.previous = memory.previous,
           memory'.failed = memory.failed
    PROVE  Behind'
<1>1. head \in Nat /\ head' \in Nat
  BY KnownNat DEF TypeOK
<1>2. \A c \in Nat : c <= head => c <= head'
  BY <1>1
<1>3. child' # NoChild => child'.commit <= head'
  BY <1>2, TypedNat DEF Behind, SeenBy
<1>4. \A c \in memory'.failed : c <= head'
  BY <1>2, TypedNat DEF Behind, SeenBy
<1>5. /\ status'.failed <= head' /\ status'.commit <= head' /\ worktree' <= head'
      /\ memory'.previous <= head'
  BY <1>2, TypedNat DEF Behind, SeenBy
<1>6. job'.target <= head' /\ job'.from <= head'
  BY <1>1, <1>2, TypedNat DEF Behind, SeenBy, NoCommit
<1> QED
  BY <1>3, <1>4, <1>5, <1>6 DEF Behind, SeenBy

LEMMA GiveUpSeen ==
    ASSUME TypeOK, Behind, UNCHANGED <<head, origin, memory>>,
           NEW failed \in Known, failed <= head, GiveUp(failed)
    PROVE  Behind'
<1>1. child' = NoChild /\ worktree' = worktree
  BY DEF GiveUp, Puts
<1>2. status'.failed = failed /\ status'.commit = NoCommit
  BY RecordAs DEF GiveUp
<1> QED
  BY <1>1, <1>2, FinishSeen, TypedNat DEF GiveUp, Behind, SeenBy, NoCommit

LEMMA RollbackSeen ==
    ASSUME TypeOK, Behind, UNCHANGED <<head, origin, memory>>, NEW failed \in Known, failed <= head,
           NEW previous \in Known, previous <= head, Rollback(failed, previous)
    PROVE  Behind'
<1>1. CASE previous = NoCommit
  BY <1>1, GiveUpSeen DEF Rollback
<1>2. CASE previous # NoCommit
  <2>1. worktree' = previous /\ child'.commit = previous
    BY <1>2, ServerSeen DEF Rollback
  <2>2. status'.failed = status.failed /\ status'.commit = status.commit
    BY <1>2, StateAs DEF Rollback
  <2>3. job'.target = failed /\ job'.from = previous
    BY <1>2 DEF Rollback, TypeOK, Jobs
  <2> QED
    BY <2>1, <2>2, <2>3, TypedNat DEF Behind, SeenBy
<1> QED
  BY <1>1, <1>2 DEF Rollback

LEMMA BehindStep == TypeOK /\ TypeOK' /\ Behind /\ [Next]_vars => Behind'
<1> SUFFICES ASSUME TypeOK, TypeOK', Behind, [Next]_vars PROVE Behind'
  OBVIOUS
<1> USE DEF port, copy, supervisor
<1>0. head \in Nat /\ head <= head /\ head <= origin /\ origin \in Nat
  BY TypedNat DEF Behind
<1>1. CASE Start
  <2>1. status'.commit = NoCommit /\ status'.failed = status.failed
    BY <1>1 DEF Start, TypeOK, Statuses
  <2>2. job'.target = head /\ job'.from = status.commit
    BY <1>1 DEF Start, NoJob
  <2>3. memory'.previous = NoCommit /\ memory'.failed = {}
    BY <1>1 DEF Start, Fresh, NoMemory
  <2>4. child'.commit \in {head, worktree}
    BY <1>1, ServerSeen DEF Start
  <2> QED
    BY <1>1, <2>1, <2>2, <2>3, <2>4, TypedNat DEF Start, Behind, SeenBy, NoCommit
<1>2. CASE StartPreviousUp
  <2>1. status'.commit = worktree /\ status'.failed = status.failed
    BY <1>2, RecordAs DEF StartPreviousUp
  <2>2. memory'.previous = worktree /\ memory'.failed = memory.failed
    BY <1>2 DEF StartPreviousUp, TypeOK, Memories
  <2> QED
    BY <1>2, <2>1, <2>2, FinishSeen, TypedNat DEF StartPreviousUp, Behind, SeenBy, NoCommit
<1>3. CASE StartPreviousFails
  <2>1. status.failed \in Known /\ status.failed <= head
    BY DEF TypeOK, Statuses, Behind, SeenBy
  <2> QED
    BY <1>3, <2>1, GiveUpSeen DEF StartPreviousFails
<1>4. CASE StartUp
  <2>1. status'.commit = job.target /\ status'.failed = NoCommit
    BY <1>4, RecordAs DEF StartUp
  <2>2. memory'.previous \in {memory.previous, worktree} /\ memory'.failed = memory.failed
    BY <1>4 DEF StartUp, TypeOK, Memories
  <2> QED
    BY <1>4, <2>1, <2>2, FinishSeen, TypedNat DEF StartUp, Behind, SeenBy, NoCommit
<1>5. CASE StartFails
  <2> DEFINE previous == LET candidate == IF job.from \notin {NoCommit, job.target} THEN job.from ELSE worktree IN
                         IF candidate # job.target THEN candidate ELSE NoCommit
  <2>1. job.target \in Known /\ job.target <= head
    BY DEF TypeOK, Jobs, Behind, SeenBy
  <2>2. previous \in Known /\ previous <= head
    BY KnownCommits, TypedNat DEF TypeOK, Jobs, Behind, SeenBy, NoCommit
  <2>3. Rollback(job.target, previous)
    BY <1>5 DEF StartFails
  <2> HIDE DEF previous
  <2> QED
    BY <1>5, <2>1, <2>2, <2>3, RollbackSeen DEF StartFails
<1>6. CASE Stop
  <2>1. memory'.previous = memory.previous /\ memory'.failed = memory.failed
    BY <1>6 DEF Stop, TypeOK, Memories
  <2> QED
    BY <1>6, <1>0, <2>1, ForwardSeen DEF Stop
<1>7. CASE Kill
  BY <1>7, TypedNat DEF Kill, Behind, SeenBy, NoJob, NoMemory, NoCommit
<1>8. CASE Guards
  <2>1. status'.failed = status.failed /\ status'.commit = status.commit
    BY <1>8, StateAs DEF Guards, TypeOK
  <2>2. \A c \in memory'.failed : c \in memory.failed \/ c = head
    BY <1>8 DEF Guards, TypeOK, Memories
  <2>3. memory'.previous = memory.previous
    BY <1>8 DEF Guards, TypeOK, Memories
  <2>4. job'.target \in {NoCommit, head} /\ job'.from \in {NoCommit, status.commit}
    <3>1. CASE tree = "clear"
      BY <1>8, <3>1 DEF Guards, TypeOK, Jobs
    <3>2. CASE tree # "clear"
      BY <1>8, <3>2, FinishSeen DEF Guards, NoJob, TypeOK
    <3> QED
      BY <3>1, <3>2
  <2> QED
    BY <1>8, <2>1, <2>2, <2>3, <2>4, TypedNat DEF Guards, Behind, SeenBy, NoCommit
<1>9. CASE PreflightFails
  <2>1. status'.failed = status.failed /\ status'.commit = status.commit
    BY <1>9, StateAs DEF PreflightFails, Base
  <2>2. \A c \in memory'.failed : c \in memory.failed \/ c = job.target
    BY <1>9 DEF PreflightFails, TypeOK, Memories
  <2>3. memory'.previous = memory.previous
    BY <1>9 DEF PreflightFails, TypeOK, Memories
  <2> QED
    BY <1>9, <2>1, <2>2, <2>3, FinishSeen, TypedNat
       DEF PreflightFails, Base, Behind, SeenBy, NoCommit
<1>10. CASE PreflightPasses
  BY <1>10, <1>0, StateAs, ForwardSeen DEF PreflightPasses
<1>11. CASE Swap
  <2>1. child'.commit = job.target
    BY <1>11, ServerSeen DEF Swap
  <2> QED
    BY <1>11, <2>1, StateAs DEF Swap, Behind, SeenBy
<1>12. CASE NoSafePoint
  BY <1>12, <1>0, StateAs, FinishSeen, ForwardSeen DEF NoSafePoint, Base
<1>13. CASE PublishUp
  <2>1. status'.commit = job.target /\ status'.failed = NoCommit
    BY <1>13, RecordAs DEF PublishUp
  <2>2. memory'.previous \in {memory.previous, job.from} /\ memory'.failed \subseteq memory.failed
    BY <1>13 DEF PublishUp, TypeOK, Memories
  <2>3. worktree' \in {worktree, job.from}
    BY <1>13 DEF PublishUp
  <2>4. job'.target \in {NoCommit, job.target} /\ job'.from \in {NoCommit, job.from}
    BY <1>13, FinishSeen DEF PublishUp
  <2> QED
    BY <1>13, <2>1, <2>2, <2>3, <2>4, TypedNat DEF PublishUp, Behind, SeenBy, NoCommit
<1>14. CASE PublishFails
  <2> DEFINE previous == IF job.from \notin {NoCommit, job.target} THEN job.from ELSE worktree
  <2>1. job.target \in Known /\ job.target <= head
    BY DEF TypeOK, Jobs, Behind, SeenBy
  <2>2. previous \in Known /\ previous <= head
    BY KnownCommits, TypedNat DEF TypeOK, Jobs, Behind, SeenBy, NoCommit
  <2>3. Rollback(job.target, previous)
    BY <1>14 DEF PublishFails
  <2> HIDE DEF previous
  <2> QED
    BY <1>14, <2>1, <2>2, <2>3, RollbackSeen DEF PublishFails
<1>15. CASE Resume
  <2>1. memory'.previous = worktree /\ memory'.failed = {}
    BY <1>15 DEF Resume, Fresh, NoMemory
  <2> QED
    BY <1>15, <2>1, StateAs, TypedNat DEF Resume, NoJob, Behind, SeenBy, NoCommit
<1>16. CASE RollbackUp
  <2>1. status'.commit = job.from /\ status'.failed = job.target
    BY <1>16, RecordAs DEF RollbackUp
  <2>2. memory'.previous = job.from /\ memory'.failed = memory.failed
    BY <1>16 DEF RollbackUp, TypeOK, Memories
  <2> QED
    BY <1>16, <2>1, <2>2, FinishSeen, TypedNat DEF RollbackUp, Behind, SeenBy, NoCommit
<1>17. CASE RollbackFails
  <2>1. job.target \in Known /\ job.target <= head
    BY DEF TypeOK, Jobs, Behind, SeenBy
  <2> QED
    BY <1>17, <2>1, GiveUpSeen DEF RollbackFails
<1>18. CASE NoteCrash
  <2>1. memory'.previous = memory.previous /\ memory'.failed = memory.failed
    BY <1>18 DEF NoteCrash, TypeOK, Memories
  <2> QED
    BY <1>18, <1>0, <2>1, ForwardSeen DEF NoteCrash
<1>19. CASE RestartChild
  <2>1. child # NoChild /\ child'.commit = child.commit
    BY <1>19, ServerSeen DEF RestartChild, Crashed
  <2>2. memory'.previous = memory.previous /\ memory'.failed = memory.failed
    BY <1>19 DEF RestartChild, TypeOK, Memories
  <2> QED
    BY <1>19, <2>1, <2>2 DEF RestartChild, Behind, SeenBy
<1>20. CASE CrashRollback
  <2> DEFINE previous == IF memory.previous # NoCommit THEN memory.previous ELSE worktree
  <2>1. previous <= head /\ child.commit <= head
    BY <1>20 DEF CrashRollback, Crashed, Behind, SeenBy
  <2>2. memory'.previous = memory.previous /\ memory'.failed = memory.failed
    BY <1>20 DEF CrashRollback, TypeOK, Memories
  <2>3. CASE previous \in {NoCommit, child.commit}
    <3>1. child' = NoChild /\ status'.failed = child.commit /\ status'.commit = NoCommit
      BY <1>20, <2>3, RecordAs DEF CrashRollback, Puts
    <3>2. UNCHANGED <<head, origin, worktree, job>>
      BY <1>20, <2>3 DEF CrashRollback
    <3> QED
      BY <2>1, <2>2, <3>1, <3>2, TypedNat DEF Behind, SeenBy, NoCommit
  <2>4. CASE previous \notin {NoCommit, child.commit}
    <3>1. Puts(Server("anterior", previous), maintenance) /\ worktree' = previous
      BY <1>20, <2>4 DEF CrashRollback
    <3>2. job'.target = child.commit /\ job'.from = previous
      BY <1>20, <2>4 DEF CrashRollback, NoJob
    <3>3. status'.failed = status.failed /\ status'.commit = status.commit
      BY <1>20, <2>4, StateAs DEF CrashRollback
    <3> HIDE DEF previous
    <3>4. child'.commit = previous
      BY <3>1, ServerSeen
    <3> QED
      BY <1>20, <2>1, <2>2, <3>1, <3>2, <3>3, <3>4 DEF CrashRollback, Behind, SeenBy
  <2> QED
    BY <2>3, <2>4
<1>21. CASE RetryPrevious
  <2>1. child'.commit = worktree
    BY <1>21, ServerSeen DEF RetryPrevious
  <2> QED
    BY <1>21, <2>1 DEF RetryPrevious, Behind, SeenBy
<1>22. CASE RetryPreviousUp
  <2>1. status'.commit = worktree /\ status'.failed = status.failed
    BY <1>22, RecordAs DEF RetryPreviousUp
  <2>2. memory'.previous = worktree /\ memory'.failed = memory.failed
    BY <1>22 DEF RetryPreviousUp, TypeOK, Memories
  <2> QED
    BY <1>22, <2>1, <2>2, TypedNat DEF RetryPreviousUp, Behind, SeenBy, NoCommit
<1>23. CASE RetryPreviousFails
  BY <1>23 DEF RetryPreviousFails, Puts, Behind, SeenBy
<1>24. CASE TakeRequest
  <2>1. head <= head' /\ head' <= origin'
    BY <1>24, <1>0 DEF TakeRequest, Synced
  <2>2. job'.target = NoCommit /\ job'.from = NoCommit
    BY <1>24 DEF TakeRequest, NoJob
  <2> QED
    BY <1>24, <2>1, <2>2, ForwardSeen DEF TakeRequest
<1>25. CASE AutoPublish
  <2>1. head <= head' /\ head' <= origin'
    BY <1>25, <1>0 DEF AutoPublish, Synced
  <2>2. \/ job'.target = NoCommit /\ job'.from = NoCommit
        \/ job' = job
    BY <1>25 DEF AutoPublish, NoJob
  <2> QED
    BY <1>25, <2>1, <2>2, ForwardSeen DEF AutoPublish
<1>26. CASE Pass
  BY <1>26, <1>0, ForwardSeen DEF Pass
<1>27. CASE Shutdown
  <2>1. status'.failed = status.failed /\ status'.commit = status.commit
    BY <1>27 DEF Shutdown, TypeOK, Statuses
  <2> QED
    BY <1>27, <2>1, TypedNat DEF Shutdown, Puts, NoMemory, Behind, SeenBy, NoCommit
<1>28. CASE Merge
  BY <1>28, <1>0, ForwardSeen DEF Merge
<1>29. CASE Pull
  BY <1>29, <1>0, ForwardSeen DEF Pull
<1>30. CASE Touch
  BY <1>30, <1>0, ForwardSeen DEF Touch
<1>31. CASE Dies
  <2>1. child' # NoChild => child # NoChild /\ child'.commit = child.commit
    BY <1>31 DEF Dies, TypeOK, Servers
  <2> QED
    BY <1>31, <1>0, <2>1, ForwardSeen DEF Dies
<1>32. CASE Converse
  BY <1>32, <1>0, ForwardSeen DEF Converse
<1>33. CASE Ask
  BY <1>33, <1>0, ForwardSeen DEF Ask
<1>34. CASE AskAtTerminal
  BY <1>34, <1>0, ForwardSeen DEF AskAtTerminal
<1>35. CASE UNCHANGED vars
  BY <1>35, <1>0, ForwardSeen DEF vars
<1> QED
  BY <1>1, <1>2, <1>3, <1>4, <1>5, <1>6, <1>7, <1>8, <1>9, <1>10, <1>11, <1>12,
     <1>13, <1>14, <1>15, <1>16, <1>17, <1>18, <1>19, <1>20, <1>21, <1>22, <1>23, <1>24,
     <1>25, <1>26, <1>27, <1>28, <1>29, <1>30, <1>31, <1>32, <1>33, <1>34, <1>35
     DEF Next, Supervising, Environment, Starting, Publishing, Looping

\* Where nothing is published HEAD may only move to a commit not yet seen.
LEMMA UntriedKept ==
    ASSUME TypeOK, Behind, Untried, head' \in Nat, head <= head',
           status' = status, memory'.failed = memory.failed, pc' = pc, job' = job
    PROVE  Untried'
<1>1. status.failed <= head /\ \A c \in memory.failed : c <= head
  BY DEF Behind, SeenBy
<1>2. CASE head' = head
  BY <1>2 DEF Untried
<1>3. CASE head' # head
  <2>1. head < head'
    BY <1>3, TypedNat
  <2>2. head' # status.failed /\ head' \notin memory.failed
    BY <1>1, <2>1, TypedNat
  <2> QED
    BY <2>2 DEF Untried
<1> QED
  BY <1>2, <1>3

LEMMA UntriedElsewhere ==
    ASSUME \/ pc' \notin {"guards", "preflight", "safe-point", "swap"}
           \/ job'.trigger # "auto"
    PROVE  Untried'
BY DEF Untried

LEMMA UntriedStep == TypeOK /\ TypeOK' /\ Behind /\ Untried /\ [Next]_vars => Untried'
<1> SUFFICES ASSUME TypeOK, TypeOK', Behind, Untried, [Next]_vars PROVE Untried'
  OBVIOUS
<1> USE DEF port, copy, supervisor
<1>0. head \in Nat /\ head <= head /\ head <= origin /\ origin \in Nat
  BY TypedNat DEF Behind
<1>1. CASE Start
  BY <1>1, UntriedElsewhere DEF Start, Loop
<1>2. CASE StartPreviousUp
  BY <1>2, FinishType, UntriedElsewhere DEF StartPreviousUp, Loop
<1>3. CASE StartPreviousFails
  BY <1>3, FinishType, UntriedElsewhere DEF StartPreviousFails, GiveUp, Loop
<1>4. CASE StartUp
  BY <1>4, FinishType, UntriedElsewhere DEF StartUp, Loop
<1>5. CASE StartFails
  BY <1>5, FinishType, UntriedElsewhere DEF StartFails, Rollback, GiveUp, Loop
<1>6. CASE Stop
  <2>1. memory'.failed = memory.failed
    BY <1>6 DEF Stop, TypeOK, Memories
  <2> QED
    BY <1>6, <1>0, <2>1, UntriedKept DEF Stop
<1>7. CASE Kill
  BY <1>7, UntriedElsewhere DEF Kill, Loop
<1>8. CASE Guards
  <2>1. CASE tree = "clear"
    <3>1. pc' = "preflight" /\ job'.trigger = job.trigger /\ job'.target = head
      BY <1>8, <2>1 DEF Guards, TypeOK, Jobs
    <3>2. status'.failed = status.failed /\ memory'.failed = memory.failed
      BY <1>8, <2>1, StateAs DEF Guards
    <3> QED
      BY <1>8, <3>1, <3>2 DEF Guards, Untried
  <2>2. CASE tree # "clear"
    <3>1. pc' \in Loop
      BY <1>8, <2>2, FinishType DEF Guards, TypeOK, Jobs
    <3> QED
      BY <3>1, UntriedElsewhere DEF Loop
  <2> QED
    BY <2>1, <2>2
<1>9. CASE PreflightFails
  BY <1>9, FinishType, UntriedElsewhere DEF PreflightFails, Base, Loop
<1>10. CASE PreflightPasses
  BY <1>10, StateAs DEF PreflightPasses, Untried
<1>11. CASE Swap
  BY <1>11, StateAs DEF Swap, Untried
<1>12. CASE NoSafePoint
  BY <1>12, FinishType, UntriedElsewhere DEF NoSafePoint, Base, Loop
<1>13. CASE PublishUp
  BY <1>13, FinishType, UntriedElsewhere DEF PublishUp, Loop
<1>14. CASE PublishFails
  BY <1>14, FinishType, UntriedElsewhere DEF PublishFails, Rollback, GiveUp, Loop
<1>15. CASE Resume
  BY <1>15, UntriedElsewhere DEF Resume, Loop
<1>16. CASE RollbackUp
  BY <1>16, FinishType, UntriedElsewhere DEF RollbackUp, Loop
<1>17. CASE RollbackFails
  BY <1>17, FinishType, UntriedElsewhere DEF RollbackFails, GiveUp, Loop
<1>18. CASE NoteCrash
  BY <1>18, UntriedElsewhere DEF NoteCrash, Loop
<1>19. CASE RestartChild
  BY <1>19, UntriedElsewhere DEF RestartChild, Loop
<1>20. CASE CrashRollback
  BY <1>20, UntriedElsewhere DEF CrashRollback, Loop
<1>21. CASE RetryPrevious
  BY <1>21, UntriedElsewhere DEF RetryPrevious, Loop
<1>22. CASE RetryPreviousUp
  BY <1>22, UntriedElsewhere DEF RetryPreviousUp, Loop
<1>23. CASE RetryPreviousFails
  BY <1>23, UntriedElsewhere DEF RetryPreviousFails, Loop
<1>24. CASE TakeRequest
  <2>1. job'.trigger = "request"
    BY <1>24 DEF TakeRequest, NoJob
  <2> QED
    BY <2>1, UntriedElsewhere
<1>25. CASE AutoPublish
  <2>1. CASE pc' = "cycle"
    BY <2>1, UntriedElsewhere
  <2>2. CASE pc' = "guards"
    BY <1>25, <2>2 DEF AutoPublish, NeedsPublish, Untried
  <2> QED
    BY <1>25, <2>1, <2>2 DEF AutoPublish
<1>26. CASE Pass
  BY <1>26, UntriedElsewhere DEF Pass, Loop
<1>27. CASE Shutdown
  BY <1>27, UntriedElsewhere DEF Shutdown, Loop
<1>28. CASE Merge
  BY <1>28, <1>0, UntriedKept DEF Merge
<1>29. CASE Pull
  BY <1>29, <1>0, UntriedKept DEF Pull
<1>30. CASE Touch
  BY <1>30, <1>0, UntriedKept DEF Touch
<1>31. CASE Dies
  BY <1>31, <1>0, UntriedKept DEF Dies
<1>32. CASE Converse
  BY <1>32, <1>0, UntriedKept DEF Converse
<1>33. CASE Ask
  BY <1>33, <1>0, UntriedKept DEF Ask
<1>34. CASE AskAtTerminal
  BY <1>34, <1>0, UntriedKept DEF AskAtTerminal
<1>35. CASE UNCHANGED vars
  BY <1>35, <1>0, UntriedKept DEF vars
<1> QED
  BY <1>1, <1>2, <1>3, <1>4, <1>5, <1>6, <1>7, <1>8, <1>9, <1>10, <1>11, <1>12,
     <1>13, <1>14, <1>15, <1>16, <1>17, <1>18, <1>19, <1>20, <1>21, <1>22, <1>23, <1>24,
     <1>25, <1>26, <1>27, <1>28, <1>29, <1>30, <1>31, <1>32, <1>33, <1>34, <1>35
     DEF Next, Supervising, Environment, Starting, Publishing, Looping

\* A commit seen to fail is put on the air again only on request, or by a start
\* that knows no other: HEAD never goes back, so what the guards take as the
\* target is what was found untried or is newer than all that failed.
THEOREM NotRetriedAloneAlways == Spec => NotRetriedAlone
<1> DEFINE
      Alone == /\ pc' = "swap" /\ job'.trigger = "auto" =>
                    job'.target # status.failed /\ job'.target \notin memory.failed
               /\ pc = "down" /\ pc' = "start" /\ status.failed = child'.commit =>
                    worktree \in {NoCommit, child'.commit}
<1>1. Init => Behind /\ Untried
  BY DEF Init, Behind, SeenBy, Untried, NoCommit, NoChild, NoJob, NoMemory
<1>2. TypeOK /\ TypeOK' /\ Behind /\ Untried /\ [Next]_vars => Behind' /\ Untried'
  BY BehindStep, UntriedStep
<1>3. TypeOK /\ TypeOK' /\ Behind /\ Untried /\ [Next]_vars => [Alone]_vars
  <2> SUFFICES ASSUME TypeOK, TypeOK', Behind, Untried, Next PROVE Alone
    BY DEF Alone
  <2>1. ASSUME pc' = "swap" PROVE pc \in {"safe-point", "swap"} /\ job' = job
    <3>1. CASE Starting
      BY <2>1, <3>1, FinishType
         DEF Starting, StartPreviousUp, StartPreviousFails, StartUp, StartFails,
             Rollback, GiveUp, Loop
    <3>2. CASE Publishing
      <4>1. CASE Guards
        BY <2>1, <4>1, FinishType DEF Guards, TypeOK, Jobs, Loop
      <4>2. CASE PreflightFails
        BY <2>1, <4>2, FinishType DEF PreflightFails, Base, Loop
      <4>3. CASE PreflightPasses
        BY <2>1, <4>3, FinishType DEF PreflightPasses, Loop
      <4>4. CASE Swap
        BY <2>1, <4>4, FinishType DEF Swap, Loop
      <4>5. CASE NoSafePoint
        BY <2>1, <4>5, FinishType DEF NoSafePoint, Base, Loop
      <4>6. CASE PublishUp
        BY <2>1, <4>6, FinishType DEF PublishUp, Loop
      <4>7. CASE PublishFails
        BY <2>1, <4>7, FinishType DEF PublishFails, Rollback, GiveUp, Loop
      <4>8. CASE Resume
        BY <2>1, <4>8, FinishType DEF Resume, Loop
      <4>9. CASE RollbackUp
        BY <2>1, <4>9, FinishType DEF RollbackUp, Loop
      <4>10. CASE RollbackFails
        BY <2>1, <4>10, FinishType DEF RollbackFails, GiveUp, Loop
      <4> QED
        BY <3>2, <4>1, <4>2, <4>3, <4>4, <4>5, <4>6, <4>7, <4>8, <4>9, <4>10 DEF Publishing
    <3>3. CASE Looping
      BY <2>1, <3>3
         DEF Looping, NoteCrash, RestartChild, CrashRollback, RetryPrevious,
             RetryPreviousUp, RetryPreviousFails, TakeRequest, AutoPublish, Pass,
             Shutdown, Loop
    <3>4. CASE Environment
      BY <2>1, <3>4
         DEF Environment, Start, Stop, Kill, Merge, Pull, Touch, Dies, Converse, Ask,
             AskAtTerminal, supervisor
    <3> QED
      BY <3>1, <3>2, <3>3, <3>4 DEF Next, Supervising
  <2>2. ASSUME pc = "down", pc' = "start" PROVE Start
    <3>1. CASE Starting
      BY <2>2, <3>1
         DEF Starting, StartPreviousUp, StartPreviousFails, StartUp, StartFails, Loop
    <3>2. CASE Publishing
      BY <2>2, <3>2
         DEF Publishing, Guards, PreflightFails, PreflightPasses, Swap, NoSafePoint,
             PublishUp, PublishFails, Resume, RollbackUp, RollbackFails, Loop
    <3>3. CASE Looping
      BY <2>2, <3>3
         DEF Looping, NoteCrash, RestartChild, CrashRollback, RetryPrevious,
             RetryPreviousUp, RetryPreviousFails, TakeRequest, AutoPublish, Pass,
             Shutdown, Loop
    <3>4. CASE Environment
      BY <2>2, <3>4
         DEF Environment, Stop, Kill, Merge, Pull, Touch, Dies, Converse, Ask,
             AskAtTerminal, supervisor
    <3> QED
      BY <3>1, <3>2, <3>3, <3>4 DEF Next, Supervising
  <2>3. ASSUME pc = "down", pc' = "start", status.failed = child'.commit
        PROVE  worktree \in {NoCommit, child'.commit}
    <3>1. child'.commit = head /\ ~(status.failed = head /\ worktree \notin {NoCommit, head})
      BY <2>2, <2>3, ServerSeen DEF Start
    <3> QED
      BY <2>3, <3>1
  <2> QED
    BY <2>1, <2>3 DEF Alone, Untried
<1>4. Spec => [][Alone]_vars
  BY <1>1, <1>2, <1>3, TypeCorrect, PTL DEF Spec
<1> QED
  BY <1>4 DEF NotRetriedAlone, Alone

-----------------------------------------------------------------------------
(* The way back.                                                           *)

\* The worktree is older than what failed, and than what is on the air.
Ready ==
    /\ status.mode = "principal" => worktree < status.commit
    /\ status.mode = "anterior" => status.commit = worktree /\ worktree < status.failed
    /\ status.mode = "manutencao" => status.commit = NoCommit /\ worktree < status.failed

\* It is older than a commit under way, too, and than the one to go back to, or
\* is that one.
WayInv ==
    /\ worktree < head /\ memory.previous <= worktree
    /\ pc \in Loop \cup {"guards", "preflight", "safe-point", "exec"} => Ready
    /\ pc \in {"start-previous", "retry-previous"} => worktree < status.failed
    /\ pc \in {"start", "preflight", "safe-point", "swap"} =>
         worktree < job.target /\ job.from <= job.target
    /\ pc = "start" => memory.previous = NoCommit
    /\ pc \in {"preflight", "safe-point", "swap"} =>
         (job.from # NoCommit => worktree <= job.from)
    /\ pc = "rollback" => worktree = job.from /\ worktree < job.target

LEMMA WayRest ==
    ASSUME pc' \in Loop \cup {"exec"}, worktree' < head', memory'.previous <= worktree', Ready'
    PROVE  WayInv'
BY DEF WayInv, Loop

\* The step leaves the record, the worktree and what is under way as they are.
LEMMA WayKept ==
    ASSUME TypeOK, TypeOK', WayInv, head <= head', worktree' = worktree,
           memory'.previous \in {memory.previous, NoCommit},
           status'.mode = status.mode, status'.commit = status.commit,
           status'.failed = status.failed,
           \/ pc' = pc /\ job'.target = job.target /\ job'.from = job.from
           \/ /\ pc \in Loop \cup {"guards", "preflight", "safe-point", "exec"}
              /\ pc' \in Loop \cup {"guards", "exec"}
           \/ pc = "preflight" /\ pc' = "safe-point" /\ job' = job
           \/ pc' = "down"
    PROVE  WayInv'
<1>1. worktree < head' /\ memory'.previous <= worktree
  <2>1. head \in Nat /\ head' \in Nat /\ worktree \in Nat
    BY KnownNat DEF TypeOK
  <2> QED
    BY <2>1 DEF WayInv, NoCommit
<1>2. Ready => Ready'
  BY DEF Ready
<1>3. memory.previous = NoCommit => memory'.previous = NoCommit
  OBVIOUS
<1> QED
  BY <1>1, <1>2, <1>3 DEF WayInv, Loop

LEMMA GiveUpWay ==
    ASSUME TypeOK, WayInv, UNCHANGED <<head, memory>>,
           NEW failed, worktree < failed, GiveUp(failed)
    PROVE  WayInv'
<1>1. worktree' = worktree /\ pc' \in Loop
  BY FinishType DEF GiveUp
<1>2. status'.mode = "manutencao" /\ status'.commit = NoCommit /\ status'.failed = failed
  BY RecordAs DEF GiveUp
<1>3. Ready'
  BY <1>1, <1>2 DEF Ready
<1> QED
  BY <1>1, <1>3, WayRest DEF WayInv

LEMMA RollbackWay ==
    ASSUME TypeOK, WayInv, UNCHANGED <<head, memory>>,
           NEW failed \in Known, failed <= head, NEW previous \in Known, previous < failed,
           previous = NoCommit => worktree < failed,
           previous # NoCommit => memory.previous <= previous,
           Rollback(failed, previous)
    PROVE  WayInv'
<1>1. CASE previous = NoCommit
  BY <1>1, GiveUpWay DEF Rollback
<1>2. CASE previous # NoCommit
  <2>1. worktree' = previous /\ pc' = "rollback"
    BY <1>2 DEF Rollback
  <2>2. job'.target = failed /\ job'.from = previous
    BY <1>2 DEF Rollback, TypeOK, Jobs
  <2>3. previous < head
    BY KnownNat DEF TypeOK
  <2> QED
    BY <1>2, <2>1, <2>2, <2>3 DEF WayInv, Loop
<1> QED
  BY <1>1, <1>2 DEF Rollback

LEMMA WayStep == TypeOK /\ TypeOK' /\ Behind /\ Behind' /\ StatusInv /\ WayInv /\ [Next]_vars => WayInv'
<1> SUFFICES ASSUME TypeOK, TypeOK', Behind, Behind', StatusInv, WayInv, [Next]_vars PROVE WayInv'
  OBVIOUS
<1> USE DEF port, copy, supervisor
<1>0. head \in Nat /\ head <= head /\ head <= origin /\ origin \in Nat
  BY TypedNat DEF Behind
<1>1. CASE Start
  <2>1. status'.commit = NoCommit /\ status'.failed = status.failed
    BY <1>1 DEF Start, TypeOK, Statuses
  <2>2. job'.target = head /\ job'.from = status.commit /\ status.commit <= head
    BY <1>1 DEF Start, NoJob, Behind, SeenBy
  <2>3. memory'.previous = NoCommit
    BY <1>1 DEF Start, Fresh, NoMemory
  <2>4. worktree' = worktree /\ head' = head /\ pc' \in {"start", "start-previous"}
    BY <1>1 DEF Start
  <2>5. pc' = "start-previous" => status.failed = head
    BY <1>1 DEF Start
  <2> QED
    BY <2>1, <2>2, <2>3, <2>4, <2>5, TypedNat DEF WayInv, Loop, NoCommit
<1>2. CASE StartPreviousUp
  <2>1. status'.mode = "anterior" /\ status'.commit = worktree /\ status'.failed = status.failed
    BY <1>2, RecordAs DEF StartPreviousUp
  <2>2. memory'.previous = worktree
    BY <1>2 DEF StartPreviousUp, TypeOK, Memories
  <2>3. worktree' = worktree /\ head' = head /\ pc' \in Loop
    BY <1>2, FinishType DEF StartPreviousUp, Loop
  <2>4. Ready'
    BY <1>2, <2>1, <2>3 DEF StartPreviousUp, WayInv, Ready
  <2> QED
    BY <1>2, <2>2, <2>3, <2>4, WayRest, TypedNat DEF StartPreviousUp, WayInv, NoCommit
<1>3. CASE StartPreviousFails
  BY <1>3, GiveUpWay DEF StartPreviousFails, WayInv
<1>4. CASE StartUp
  <2>1. status'.mode = "principal" /\ status'.commit = job.target /\ status'.failed = NoCommit
    BY <1>4, RecordAs DEF StartUp
  <2>2. memory'.previous \in {memory.previous, worktree}
    BY <1>4 DEF StartUp, TypeOK, Memories
  <2>3. worktree' = worktree /\ head' = head /\ pc' \in Loop
    BY <1>4, FinishType DEF StartUp, Loop
  <2>4. Ready'
    BY <1>4, <2>1, <2>3 DEF StartUp, WayInv, Ready
  <2> QED
    BY <1>4, <2>2, <2>3, <2>4, WayRest, TypedNat DEF StartUp, WayInv, NoCommit
<1>5. CASE StartFails
  <2> DEFINE previous == LET candidate == IF job.from \notin {NoCommit, job.target} THEN job.from ELSE worktree IN
                         IF candidate # job.target THEN candidate ELSE NoCommit
  <2>1. job.target \in Known /\ job.target <= head
    BY DEF TypeOK, Jobs, Behind, SeenBy
  <2>2. worktree < job.target /\ job.from <= job.target
    BY <1>5 DEF StartFails, WayInv
  <2>3. previous \in Known /\ previous < job.target
    BY <2>2, KnownCommits, TypedNat DEF TypeOK, Jobs, NoCommit
  <2>4. previous # NoCommit => memory.previous <= previous
    BY <1>5, <2>2, TypedNat DEF StartFails, WayInv, NoCommit
  <2>5. Rollback(job.target, previous)
    BY <1>5 DEF StartFails
  <2> HIDE DEF previous
  <2> QED
    BY <1>5, <2>1, <2>2, <2>3, <2>4, <2>5, RollbackWay DEF StartFails
<1>6. CASE Stop
  <2>1. memory'.previous = memory.previous
    BY <1>6 DEF Stop, TypeOK, Memories
  <2> QED
    BY <1>6, <1>0, <2>1, WayKept DEF Stop
<1>7. CASE Kill
  BY <1>7, <1>0, WayKept DEF Kill, NoMemory
<1>8. CASE Guards
  <2>1. status'.mode = status.mode /\ status'.failed = status.failed /\ status'.commit = status.commit
    BY <1>8, StateAs DEF Guards, TypeOK
  <2>2. CASE tree = "clear"
    <3>1. job'.target = head /\ job'.from = status.commit /\ pc' = "preflight"
      BY <1>8, <2>2 DEF Guards, TypeOK, Jobs
    <3>2. status.commit <= head
      BY DEF Behind, SeenBy
    <3>3. Ready /\ Recorded
      BY <1>8 DEF Guards, WayInv, StatusInv
    <3>4. status.commit # NoCommit => worktree <= status.commit
      BY <3>3, TypedNat DEF Ready, Recorded
    <3>5. UNCHANGED <<head, worktree, memory>>
      BY <1>8, <2>2 DEF Guards
    <3>6. Ready'
      BY <2>1, <3>3, <3>5 DEF Ready
    <3> QED
      BY <3>1, <3>2, <3>4, <3>5, <3>6 DEF WayInv, Loop
  <2>3. CASE tree # "clear"
    <3>1. pc' \in Loop
      BY <1>8, <2>3, FinishType DEF Guards, TypeOK, Jobs
    <3>2. memory'.previous = memory.previous
      BY <1>8 DEF Guards, TypeOK, Memories
    <3> QED
      BY <1>8, <1>0, <2>1, <3>1, <3>2, WayKept DEF Guards
  <2> QED
    BY <2>2, <2>3
<1>9. CASE PreflightFails
  <2>1. memory'.previous = memory.previous
    BY <1>9 DEF PreflightFails, TypeOK, Memories
  <2> QED
    BY <1>9, <1>0, <2>1, StateAs, FinishType, WayKept DEF PreflightFails, Base
<1>10. CASE PreflightPasses
  BY <1>10, <1>0, StateAs, WayKept DEF PreflightPasses
<1>11. CASE Swap
  <2>1. UNCHANGED <<head, worktree, memory, job>> /\ pc' = "swap"
    BY <1>11 DEF Swap
  <2> QED
    BY <1>11, <2>1 DEF Swap, WayInv, Loop
<1>12. CASE NoSafePoint
  BY <1>12, <1>0, StateAs, FinishType, WayKept DEF NoSafePoint, Base
<1>13. CASE PublishUp
  <2> DEFINE moved == job.from \notin {NoCommit, job.target}
  <2>1. status'.mode = "principal" /\ status'.commit = job.target
    BY <1>13, RecordAs DEF PublishUp
  <2>2. memory'.previous = IF moved THEN job.from ELSE memory.previous
    BY <1>13 DEF PublishUp, TypeOK, Memories
  <2>3. worktree' = (IF moved THEN job.from ELSE worktree) /\ head' = head
    BY <1>13 DEF PublishUp
  <2>4. pc' \in Loop \cup {"exec"}
    BY <1>13, FinishType DEF PublishUp
  <2>5. worktree < job.target /\ job.from <= job.target /\ job.target <= head
    BY <1>13 DEF PublishUp, WayInv, Behind, SeenBy
  <2>6. worktree' < job.target /\ memory'.previous <= worktree'
    BY <2>2, <2>3, <2>5, TypedNat DEF WayInv
  <2>7. worktree' < head'
    BY <2>3, <2>5, <2>6, TypedNat
  <2>8. Ready'
    BY <2>1, <2>6 DEF Ready
  <2> QED
    BY <2>4, <2>6, <2>7, <2>8, WayRest
<1>14. CASE PublishFails
  <2> DEFINE previous == IF job.from \notin {NoCommit, job.target} THEN job.from ELSE worktree
  <2>1. job.target \in Known /\ job.target <= head
    BY DEF TypeOK, Jobs, Behind, SeenBy
  <2>2. worktree < job.target /\ job.from <= job.target
    BY <1>14 DEF PublishFails, WayInv
  <2>3. previous \in Known /\ previous < job.target
    BY <2>2, KnownCommits, TypedNat DEF TypeOK, Jobs, NoCommit
  <2>4. previous # NoCommit => memory.previous <= previous
    BY <1>14, <2>2, TypedNat DEF PublishFails, WayInv, NoCommit
  <2>5. Rollback(job.target, previous)
    BY <1>14 DEF PublishFails
  <2> HIDE DEF previous
  <2> QED
    BY <1>14, <2>1, <2>2, <2>3, <2>4, <2>5, RollbackWay DEF PublishFails
<1>15. CASE Resume
  <2>1. memory'.previous = worktree
    BY <1>15 DEF Resume, Fresh, NoMemory
  <2>2. Ready'
    BY <1>15, StateAs DEF Resume, WayInv, Ready
  <2> QED
    BY <1>15, <2>1, <2>2, TypedNat, WayRest DEF Resume, WayInv, Loop
<1>16. CASE RollbackUp
  <2>1. status'.mode = "anterior" /\ status'.commit = job.from /\ status'.failed = job.target
    BY <1>16, RecordAs DEF RollbackUp
  <2>2. memory'.previous = job.from
    BY <1>16 DEF RollbackUp, TypeOK, Memories
  <2>3. worktree' = worktree /\ head' = head /\ pc' \in Loop
    BY <1>16, FinishType DEF RollbackUp, Loop
  <2>4. Ready'
    BY <1>16, <2>1, <2>3 DEF RollbackUp, WayInv, Ready
  <2> QED
    BY <1>16, <2>2, <2>3, <2>4, WayRest, TypedNat DEF RollbackUp, WayInv, NoCommit
<1>17. CASE RollbackFails
  BY <1>17, GiveUpWay DEF RollbackFails, WayInv
<1>18. CASE NoteCrash
  <2>1. memory'.previous = memory.previous
    BY <1>18 DEF NoteCrash, TypeOK, Memories
  <2> QED
    BY <1>18, <1>0, <2>1, WayKept DEF NoteCrash, Loop
<1>19. CASE RestartChild
  <2>1. memory'.previous = memory.previous
    BY <1>19 DEF RestartChild, TypeOK, Memories
  <2> QED
    BY <1>19, <1>0, <2>1, WayKept DEF RestartChild, Loop
<1>20. CASE CrashRollback
  <2> DEFINE previous == IF memory.previous # NoCommit THEN memory.previous ELSE worktree
  <2>1. child.mode = "principal" /\ child # NoChild /\ pc = "cycle"
    BY <1>20 DEF CrashRollback, Crashed, TooManyCrashes
  <2>2. status.mode = "principal" /\ status.commit = child.commit
    BY <2>1 DEF StatusInv, Recorded, Loop
  <2>3. worktree < child.commit /\ child.commit <= head /\ child.commit \in Nat
    BY <2>1, <2>2, TypedNat DEF WayInv, Ready, Loop, Behind, SeenBy
  <2>4. previous <= worktree /\ previous < child.commit /\ previous < head
    BY <2>3, TypedNat DEF WayInv
  <2>5. memory'.previous = memory.previous /\ head' = head
    BY <1>20 DEF CrashRollback, TypeOK, Memories
  <2>6. CASE previous = NoCommit
    <3>1. status'.mode = "manutencao" /\ status'.failed = child.commit /\ status'.commit = NoCommit
      <4>1. record("fora-do-ar", NoCommit, "manutencao", child.commit)
        BY <1>20, <2>6 DEF CrashRollback
      <4> QED
        BY <4>1, RecordAs
    <3>2. worktree' = worktree /\ pc' = "requests"
      BY <1>20, <2>6 DEF CrashRollback
    <3>3. Ready'
      BY <2>3, <3>1, <3>2 DEF Ready
    <3> QED
      BY <2>5, <3>2, <3>3, WayRest DEF WayInv, Loop
  <2>7. CASE previous # NoCommit
    <3>1. previous \notin {NoCommit, child.commit}
      BY <2>3, <2>4, <2>7, TypedNat
    <3>2. worktree' = previous /\ pc' = "rollback"
      BY <1>20, <3>1 DEF CrashRollback
    <3>3. job'.target = child.commit /\ job'.from = previous
      BY <1>20, <3>1 DEF CrashRollback, NoJob
    <3>4. memory.previous <= previous
      BY TypedNat DEF NoCommit
    <3> HIDE DEF previous
    <3> QED
      BY <2>4, <2>5, <3>2, <3>3, <3>4 DEF WayInv, Loop
  <2> QED
    BY <2>6, <2>7
<1>21. CASE RetryPrevious
  <2>1. status.mode = "manutencao"
    BY <1>21 DEF RetryPrevious, StatusInv, base_state, Loop
  <2>2. worktree < status.failed
    BY <1>21, <2>1 DEF RetryPrevious, WayInv, Ready, Loop
  <2> QED
    BY <1>21, <2>2 DEF RetryPrevious, WayInv, Loop
<1>22. CASE RetryPreviousUp
  <2>1. status'.mode = "anterior" /\ status'.commit = worktree /\ status'.failed = status.failed
    BY <1>22, RecordAs DEF RetryPreviousUp
  <2>2. memory'.previous = worktree
    BY <1>22 DEF RetryPreviousUp, TypeOK, Memories
  <2>3. worktree' = worktree /\ head' = head /\ pc' \in Loop
    BY <1>22 DEF RetryPreviousUp, Loop
  <2>4. Ready'
    BY <1>22, <2>1, <2>3 DEF RetryPreviousUp, WayInv, Ready
  <2> QED
    BY <1>22, <2>2, <2>3, <2>4, WayRest, TypedNat DEF RetryPreviousUp, WayInv, NoCommit
<1>23. CASE RetryPreviousFails
  <2>1. status.mode = "manutencao" /\ status.commit = NoCommit /\ worktree < status.failed
    BY <1>23 DEF RetryPreviousFails, StatusInv, WayInv
  <2>2. Ready'
    BY <1>23, <2>1 DEF RetryPreviousFails, Ready
  <2> QED
    BY <1>23, <2>2, WayRest DEF RetryPreviousFails, WayInv, Loop
<1>24. CASE TakeRequest
  <2>1. head <= head'
    BY <1>24, <1>0 DEF TakeRequest, Synced
  <2> QED
    BY <1>24, <2>1, WayKept DEF TakeRequest, Loop
<1>25. CASE AutoPublish
  <2>1. head <= head'
    BY <1>25, <1>0 DEF AutoPublish, Synced
  <2> QED
    BY <1>25, <2>1, WayKept DEF AutoPublish, Loop
<1>26. CASE Pass
  BY <1>26, <1>0, WayKept DEF Pass, Loop
<1>27. CASE Shutdown
  <2>1. status'.mode = status.mode /\ status'.failed = status.failed /\ status'.commit = status.commit
    BY <1>27 DEF Shutdown, TypeOK, Statuses
  <2> QED
    BY <1>27, <1>0, <2>1, WayKept DEF Shutdown, NoMemory
<1>28. CASE Merge
  BY <1>28, <1>0, WayKept DEF Merge, Loop
<1>29. CASE Pull
  BY <1>29, <1>0, WayKept DEF Pull, Loop
<1>30. CASE Touch
  BY <1>30, <1>0, WayKept DEF Touch, Loop
<1>31. CASE Dies
  BY <1>31, <1>0, WayKept DEF Dies, Loop
<1>32. CASE Converse
  BY <1>32, <1>0, WayKept DEF Converse, Loop
<1>33. CASE Ask
  BY <1>33, <1>0, WayKept DEF Ask, Loop
<1>34. CASE AskAtTerminal
  BY <1>34, <1>0, WayKept DEF AskAtTerminal, Loop
<1>35. CASE UNCHANGED vars
  BY <1>35, <1>0, WayKept DEF vars
<1> QED
  BY <1>1, <1>2, <1>3, <1>4, <1>5, <1>6, <1>7, <1>8, <1>9, <1>10, <1>11, <1>12,
     <1>13, <1>14, <1>15, <1>16, <1>17, <1>18, <1>19, <1>20, <1>21, <1>22, <1>23, <1>24,
     <1>25, <1>26, <1>27, <1>28, <1>29, <1>30, <1>31, <1>32, <1>33, <1>34, <1>35
     DEF Next, Supervising, Environment, Starting, Publishing, Looping

\* Whatever the panel fell back to is older than what failed and stands in the
\* worktree, and what is on the air has something older to fall back to.
THEOREM WayBackAlways == Spec => []WayBack
<1>1. Init => Behind /\ WayInv
  BY DEF Init, Behind, SeenBy, WayInv, Loop, NoCommit, NoChild, NoJob, NoMemory
<1>2. TypeOK /\ TypeOK' /\ Behind /\ [Next]_vars => Behind'
  BY BehindStep
<1>3. Init => StatusInv
  BY DEF Init, StatusInv, OneOwner, Loop, NoChild
<1>4. TypeOK /\ StatusInv /\ [Next]_vars => StatusInv'
  BY StatusStep
<1>5. TypeOK /\ TypeOK' /\ Behind /\ Behind' /\ StatusInv /\ WayInv /\ [Next]_vars => WayInv'
  BY WayStep
<1>6. StatusInv /\ WayInv => WayBack
  <2> SUFFICES ASSUME StatusInv, WayInv, pc \in Loop
               PROVE  /\ status.state = "revertido" => status.commit = worktree /\ worktree < status.failed
                      /\ status.state = "no-ar" => worktree < status.commit
    BY DEF WayBack
  <2>1. Ready /\ Recorded /\ status.state = base_state
    BY DEF StatusInv, WayInv
  <2> QED
    BY <2>1 DEF Ready, Recorded, base_state
<1> QED
  BY <1>1, <1>2, <1>3, <1>4, <1>5, <1>6, TypeCorrect, PTL DEF Spec

-----------------------------------------------------------------------------
(* The test environment: what the log tells of it.                         *)

IsEnv(e) ==
  /\ e = [state |-> e.state, demand |-> e.demand, commit |-> e.commit, stopped |-> e.stopped]
  /\ e.state \in {"livre", "publicando", "ocupado", "falhou"}
  /\ e.demand \in Demands \cup {"none"}
  /\ e.state = "livre" <=> e.demand = "none"
  /\ e.demand # "none" => e.commit[1] = e.demand

\* Nobody waits twice or for what it has.
IsQueue(q, occupant) ==
  /\ IsSequence(q)
  /\ \A i \in DOMAIN q : q[i] \in Demands /\ q[i] # occupant
  /\ \A i, j \in DOMAIN q : q[i] = q[j] => i = j

\* Who waits, and an occupant to be published again, asked for it since its last time.
IsOwed(q, again, occupant) ==
  /\ owed = [d \in Demands |-> owed[d]]
  /\ \A i \in DOMAIN q : owed[q[i]]
  /\ again => occupant # "none" /\ owed[occupant]

DerivedInv == IsEnv(env) /\ IsQueue(queue, env.demand) /\ IsOwed(queue, republish, env.demand)

LEMMA TestCounts ==
  ASSUME NEW S
  PROVE  Test!Cardinality(S) = Cardinality(S)
BY DEF Test!Cardinality, Cardinality, Test!IsFiniteSet, IsFiniteSet

\* What stays in the queue was there, at one place, and is none of those that leave.
LEMMA WithoutIs ==
  ASSUME NEW ds, IsSequence(queue), \A i, j \in DOMAIN queue : queue[i] = queue[j] => i = j
  PROVE  LET left == Test!Without(ds) IN
         /\ IsSequence(left)
         /\ \A i \in DOMAIN left : left[i] \notin ds /\ \E j \in DOMAIN queue : left[i] = queue[j]
         /\ \A i, j \in DOMAIN left : left[i] = left[j] => i = j
<1> DEFINE S == {i \in DOMAIN queue : queue[i] \notin ds}
           k == Cardinality(S)
           o == InOrder(S)
           left == Test!Without(ds)
<1>1. S \subseteq Nat /\ IsFiniteSet(S)
  BY DomainOf, FS_Subset
<1>2. k \in Nat /\ o \in [1..k -> S] /\ \A i, j \in 1..k : i # j => o[i] # o[j]
  BY <1>1, InOrderIs
<1>3. Test!Cardinality(S) = k
  BY TestCounts
<1>4. Test!InOrder(S) = o
  BY <1>3, Zenon DEF Test!InOrder, InOrder
<1>5. left = [i \in 1..k |-> queue[o[i]]]
  BY <1>3, <1>4 DEF Test!Kept, Test!Without
<1>6. \A x \in S : x \in DOMAIN queue /\ queue[x] \notin ds
  OBVIOUS
<1> HIDE DEF k, o, S
<1>7. DOMAIN left = 1..k /\ Len(left) = k
  BY <1>2, <1>5
<1>8. IsSequence(left)
  BY <1>2, <1>5, <1>7 DEF IsSequence
<1>9. \A i \in 1..k : left[i] = queue[o[i]] /\ o[i] \in DOMAIN queue /\ queue[o[i]] \notin ds
  BY <1>2, <1>5, <1>6
<1> HIDE DEF left
<1>10. \A i, j \in 1..k : left[i] = left[j] => i = j
  BY <1>2, <1>9
<1> QED
  BY <1>7, <1>8, <1>9, <1>10 DEF left

\* A queue some left is one still, also for another occupant that is not in it.
LEMMA QueueLeft ==
  ASSUME NEW q, NEW occupant, NEW other, NEW left, IsQueue(q, occupant), IsSequence(left),
         \A i \in DOMAIN left : left[i] # other /\ \E j \in DOMAIN q : left[i] = q[j],
         \A i, j \in DOMAIN left : left[i] = left[j] => i = j
  PROVE  IsQueue(left, other) /\ ((\A i \in DOMAIN q : owed[q[i]]) => \A i \in DOMAIN left : owed[left[i]])
BY DEF IsQueue

\* A request: the occupant and what it shows stay, but that it may be stopped.
LEMMA AskedKeeps ==
  ASSUME DerivedInv, NEW d, NEW action, Test!LogAsked(d, action), action = "publish" => d \in Demands, "none" \notin Demands
  PROVE  /\ DerivedInv'
         /\ env'.state = env.state /\ env'.demand = env.demand /\ env'.commit = env.commit
         /\ env.stopped => env'.stopped
         /\ \A e \in Demands : owed[e] => owed'[e]
<1>1. env' = [state |-> env.state, demand |-> env.demand, commit |-> env.commit, stopped |-> env'.stopped] /\ (env.stopped => env'.stopped)
  BY DEF Test!LogAsked, DerivedInv, IsEnv
<1>2. IsEnv(env)'
  BY <1>1 DEF DerivedInv, IsEnv
<1>3. /\ owed' = [e \in Demands |-> owed'[e]]
      /\ \A e \in Demands : (owed[e] => owed'[e]) /\ (action = "publish" /\ e = d => owed'[e])
  <2>1. owed = [e \in Demands |-> owed[e]]
    BY DEF DerivedInv, IsOwed
  <2>2. owed' = IF action = "publish" THEN [owed EXCEPT ![d] = TRUE] ELSE owed
    BY DEF Test!LogAsked
  <2> QED
    BY <2>1, <2>2
<1>4. republish' => env.demand # "none" /\ owed'[env.demand]
  <2>1. republish => env.demand \in Demands /\ owed[env.demand]
    BY DEF DerivedInv, IsOwed, IsEnv
  <2>2. republish' => republish \/ (action = "publish" /\ d = env.demand)
    BY DEF Test!LogAsked
  <2> QED
    BY <1>3, <2>1, <2>2
<1>5. IsQueue(queue', env.demand) /\ \A i \in DOMAIN queue' : owed'[queue'[i]]
  <2>1. \A i \in DOMAIN queue : queue[i] \in Demands /\ owed'[queue[i]]
    BY <1>3 DEF DerivedInv, IsQueue, IsOwed
  <2>2. CASE queue' = queue
    BY <2>1, <2>2 DEF DerivedInv
  <2>3. CASE queue' = Test!Without({d})
    <3> DEFINE left == Test!Without({d})
    <3>1. IsSequence(queue) /\ \A i, j \in DOMAIN queue : queue[i] = queue[j] => i = j
      BY DEF DerivedInv, IsQueue
    <3>2. /\ IsSequence(left) /\ \A i \in DOMAIN left : \E j \in DOMAIN queue : left[i] = queue[j]
          /\ \A i, j \in DOMAIN left : left[i] = left[j] => i = j
      BY <3>1, WithoutIs
    <3> HIDE DEF left
    <3>3. IsQueue(left, env.demand)
      BY <3>2 DEF DerivedInv, IsQueue
    <3>4. \A i \in DOMAIN left : owed'[left[i]]
      BY <2>1, <3>2
    <3> QED
      BY <2>3, <3>3, <3>4 DEF left
  <2>4. CASE queue' = Append(queue, d) /\ action = "publish" /\ d # env.demand /\ ~Test!Waiting(d)
    <3>1. d \in Demands /\ \A i \in DOMAIN queue : queue[i] # d
      BY <2>4 DEF Test!Waiting
    <3>2. IsSequence(queue)
      BY DEF DerivedInv, IsQueue
    <3> DEFINE longer == Append(queue, d)
    <3>3. /\ IsSequence(longer) /\ DOMAIN longer = DOMAIN queue \cup {Len(queue) + 1}
          /\ \A j \in DOMAIN queue : longer[j] = queue[j]
          /\ longer[Len(queue) + 1] = d
      BY <3>2, Appended
    <3> HIDE DEF longer
    <3>4. IsQueue(longer, env.demand)
      BY <2>4, <3>1, <3>3 DEF DerivedInv, IsQueue
    <3>5. \A i \in DOMAIN longer : owed'[longer[i]]
      BY <1>3, <2>1, <2>4, <3>1, <3>3
    <3> QED
      BY <2>4, <3>4, <3>5 DEF longer
  <2> QED
    BY <2>2, <2>3, <2>4 DEF Test!LogAsked
<1>6. env'.state = env.state /\ env'.demand = env.demand /\ env'.commit = env.commit
  BY <1>1
<1>7. IsOwed(queue, republish, env.demand)'
  BY <1>3, <1>4, <1>5, <1>6 DEF IsOwed
<1>8. \A e \in Demands : owed[e] => owed'[e]
  BY <1>3
<1> QED
  BY <1>1, <1>2, <1>5, <1>6, <1>7, <1>8 DEF DerivedInv

\* A failure changes nothing but the state, and only of what is being published.
LEMMA FailedKeeps ==
  ASSUME DerivedInv, NEW d, Test!LogFailed(d), owed' = owed
  PROVE  /\ DerivedInv' /\ republish' = republish
         /\ env'.demand = env.demand /\ env'.commit = env.commit /\ env'.stopped = env.stopped
         /\ env'.state = env.state \/ env'.state = "falhou"
<1>1. queue' = queue /\ republish' = republish
  BY DEF Test!LogFailed
<1>2. \/ env' = env
      \/ env.state = "publicando" /\ env' = [state |-> "falhou", demand |-> env.demand, commit |-> env.commit, stopped |-> env.stopped]
  BY DEF Test!LogFailed, DerivedInv, IsEnv
<1>3. env'.demand = env.demand /\ IsEnv(env)'
  BY <1>2 DEF DerivedInv, IsEnv
<1> QED
  BY <1>1, <1>2, <1>3 DEF DerivedInv, IsOwed

LEMMA PublishedKeeps ==
  ASSUME DerivedInv, NEW c, Test!LogPublished(env.demand, c), env.demand # "none", c[1] = env.demand, owed' = owed
  PROVE  DerivedInv' /\ env' = [state |-> "ocupado", demand |-> env.demand, commit |-> c, stopped |-> env.stopped]
<1>1. queue' = queue /\ republish' = republish
  BY DEF Test!LogPublished
<1>2. env' = [state |-> "ocupado", demand |-> env.demand, commit |-> c, stopped |-> env.stopped]
  BY DEF Test!LogPublished, DerivedInv, IsEnv
<1>3. env'.demand = env.demand /\ IsEnv(env)'
  BY <1>2 DEF DerivedInv, IsEnv
<1> QED
  BY <1>1, <1>2, <1>3 DEF DerivedInv, IsOwed

\* Those released leave the queue, and the environment if one of them has it.
LEMMA ReleasedKeeps ==
  ASSUME DerivedInv, NEW ds, Test!LogReleased(ds), owed' = owed, "none" \notin Demands
  PROVE  DerivedInv' /\ (env' = env \/ env'.state = "livre")
<1>1. env' = IF env.demand \in ds THEN Test!Free ELSE env
  BY DEF Test!LogReleased
<1>2. IsEnv(env)' /\ (env' = env \/ (env'.state = "livre" /\ env'.demand = "none" /\ ~republish'))
  <2>1. CASE env.demand \in ds
    <3>1. env' = Test!Free /\ ~republish'
      BY <1>1, <2>1 DEF Test!LogReleased
    <3>2. Test!Free = [state |-> "livre", demand |-> "none", commit |-> Test!NoCommit, stopped |-> FALSE]
      BY DEF Test!Free, Test!NoDemand
    <3>3. IsEnv(Test!Free) /\ Test!Free.state = "livre" /\ Test!Free.demand = "none"
      BY <3>2 DEF IsEnv
    <3> QED
      BY <3>1, <3>3 DEF IsEnv
  <2>2. CASE env.demand \notin ds
    BY <1>1, <2>2 DEF DerivedInv, IsEnv
  <2> QED
    BY <2>1, <2>2
<1> DEFINE left == Test!Without(ds)
<1>3. IsSequence(queue) /\ \A i, j \in DOMAIN queue : queue[i] = queue[j] => i = j
  BY DEF DerivedInv, IsQueue
<1>4. /\ IsSequence(left) /\ \A i \in DOMAIN left : \E j \in DOMAIN queue : left[i] = queue[j]
      /\ \A i, j \in DOMAIN left : left[i] = left[j] => i = j
  BY <1>3, WithoutIs
<1>5. queue' = left /\ (republish' => republish)
  BY DEF Test!LogReleased
<1> HIDE DEF left
<1>6. \A i \in DOMAIN left : left[i] \in Demands /\ left[i] # env.demand /\ owed[left[i]]
  BY <1>4 DEF DerivedInv, IsQueue, IsOwed
<1>7. IsQueue(left, env'.demand)
  BY <1>2, <1>4, <1>6 DEF IsQueue
<1>8. IsOwed(queue, republish, env.demand)'
  BY <1>2, <1>5, <1>6 DEF DerivedInv, IsOwed
<1> QED
  BY <1>2, <1>5, <1>7, <1>8 DEF DerivedInv

LEMMA PublishingKeeps ==
  ASSUME DerivedInv, NEW d \in Demands, NEW c, c[1] = d, Test!LogPublishing(d, c),
         owed' = owed \/ owed' = [owed EXCEPT ![d] = FALSE], "none" \notin Demands
  PROVE  DerivedInv' /\ env' = [state |-> "publicando", demand |-> d, commit |-> c, stopped |-> FALSE]
<1>1. env' = [state |-> "publicando", demand |-> d, commit |-> c, stopped |-> FALSE] /\ ~republish'
  BY DEF Test!LogPublishing
<1>2. env'.demand = d /\ IsEnv(env)'
  BY <1>1 DEF IsEnv
<1> DEFINE left == Test!Without({d})
<1>3. IsSequence(queue) /\ \A i, j \in DOMAIN queue : queue[i] = queue[j] => i = j
  BY DEF DerivedInv, IsQueue
<1>4. /\ IsSequence(left) /\ \A i \in DOMAIN left : left[i] \notin {d} /\ \E j \in DOMAIN queue : left[i] = queue[j]
      /\ \A i, j \in DOMAIN left : left[i] = left[j] => i = j
  BY <1>3, WithoutIs
<1>5. queue' = left
  BY DEF Test!LogPublishing
<1> HIDE DEF left
<1>6. \A i \in DOMAIN left : left[i] \in Demands /\ left[i] # d /\ owed[left[i]]
  BY <1>4 DEF DerivedInv, IsQueue, IsOwed
<1>7. owed' = [e \in Demands |-> owed'[e]] /\ \A e \in Demands : e # d => owed'[e] = owed[e]
  BY DEF DerivedInv, IsOwed
<1>8. IsQueue(left, d)
  BY <1>4, <1>6 DEF IsQueue
<1>9. IsOwed(queue, republish, env.demand)'
  BY <1>1, <1>5, <1>6, <1>7 DEF IsOwed
<1> QED
  BY <1>1, <1>2, <1>5, <1>8, <1>9 DEF DerivedInv

-----------------------------------------------------------------------------
(* The test environment: the process that holds the lock, and containers.  *)

IsOp(p) ==
  /\ p = [field \in {"pc", "demand", "commit", "then", "round", "erased"} |-> p[field]]
  /\ p.then \in {"idle", "head", "round"} /\ p.erased \in BOOLEAN
  /\ p.pc \in {"idle", "round"} => ~p.erased
  /\ p.pc \in {"asked", "publish", "build", "up", "smoke"} => p.demand \in Demands
  /\ p.pc \in {"publish", "build", "up", "smoke"} \/ (p.pc = "asked" /\ p.erased) => p.commit[1] = p.demand

\* A publication puts back what was erased, or does what was asked for; from its
\* event on it has the environment.
Publishes(p, e) ==
  /\ p.pc \in {"asked", "publish"} /\ p.erased => e.demand = p.demand
  /\ p.pc = "publish" /\ ~p.erased => owed[p.demand]
  /\ p.pc \in {"build", "up", "smoke"} => e.state = "publicando" /\ e.demand = p.demand /\ e.commit = p.commit

\* What is announced is what the containers have, if they are there.
Carries(p, e, s) ==
  /\ s = [commit |-> s.commit, health |-> s.health]
  /\ e.state = "ocupado" /\ ~e.stopped /\ s.health # "none" => s.commit = e.commit
  /\ p.pc = "smoke" => s.commit = p.commit

TestInv ==
  /\ DerivedInv
  /\ asking.action = "publish" => asking.demand \in Demands
  /\ IsOp(op) /\ Publishes(op, env) /\ Carries(op, env, stack)

\* Steps of a process that has nothing to do with a publication yet, or no more.
Rests(p) == IsOp(p) /\ p.pc \notin {"asked", "publish", "build", "up", "smoke"}

LEMMA NoneIsNoDemand == Test!TestEnvironmentAssumption => "none" \notin Demands /\ Test!NoDemand = "none"
BY DEF Test!TestEnvironmentAssumption, Test!NoDemand

LEMMA RestsAtEnd ==
  ASSUME IsOp(op)
  PROVE  Rests(Test!NoOp) /\ Rests(Test!Done("round"))
<1>1. Rests(Test!NoOp)
  BY DEF Rests, IsOp, Test!NoOp
<1> DEFINE done == Test!Done("round")
<1>2. /\ done = [field \in {"pc", "demand", "commit", "then", "round", "erased"} |-> done[field]]
      /\ done.pc = "round" /\ done.then = "idle" /\ done.erased = FALSE
  BY DEF IsOp, Test!Done
<1> HIDE DEF done
<1>3. Rests(done)
  BY <1>2 DEF Rests, IsOp
<1> QED
  BY <1>1, <1>3 DEF done

LEMMA EndsRests ==
  ASSUME IsOp(op), Test!Ends \/ Test!Refused
  PROVE  Rests(op')
BY RestsAtEnd DEF Test!Ends, Test!Refused

\* What a step that does not publish has to leave as it was.
LEMMA RestKeeps ==
  ASSUME TestInv, DerivedInv', asking' = asking \/ asking' = Test!NoAsk, Rests(op'),
         stack' = [commit |-> stack'.commit, health |-> stack'.health],
         env'.state = "ocupado" /\ ~env'.stopped /\ stack'.health # "none" => stack'.commit = env'.commit
  PROVE  TestInv'
<1>1. asking'.action = "publish" => asking'.demand \in Demands
  BY DEF TestInv, Test!NoAsk
<1>2. Publishes(op, env)' /\ Carries(op, env, stack)'
  BY DEF Rests, Publishes, Carries
<1> QED
  BY <1>1, <1>2 DEF TestInv, Rests

\* Others move while a process holds the lock or none does.
LEMMA OthersKeep ==
  ASSUME TestInv, DerivedInv', asking'.action = "publish" => asking'.demand \in Demands, op' = op,
         env'.state = env.state, env'.demand = env.demand, env'.commit = env.commit, env.stopped => env'.stopped,
         \A e \in Demands : owed[e] => owed'[e],
         stack' = [commit |-> stack.commit, health |-> stack'.health], stack.health = "none" => stack'.health = "none"
  PROVE  TestInv'
<1>1. stack'.commit = stack.commit
  OBVIOUS
<1>2. IsOp(op)'
  BY DEF TestInv, IsOp
<1>3. Publishes(op, env)'
  <2>1. op.pc = "publish" /\ ~op.erased => owed'[op.demand]
    BY DEF TestInv, IsOp, Publishes
  <2> QED
    BY <2>1 DEF TestInv, Publishes
<1>4. Carries(op, env, stack)'
  BY <1>1 DEF TestInv, Carries
<1> QED
  BY <1>2, <1>3, <1>4 DEF TestInv

LEMMA DerivedStays ==
  ASSUME DerivedInv, UNCHANGED Test!derived, owed' = owed
  PROVE  /\ DerivedInv' /\ env' = env /\ queue' = queue /\ republish' = republish
         /\ \A e \in Demands : owed[e] => owed'[e]
BY DEF DerivedInv, IsEnv, IsQueue, IsOwed, Test!derived

\* GitHub, the log's other events, and containers that fall or come back.
LEMMA WorldKeeps ==
  ASSUME TestInv,
         \/ \E d \in Demands : \/ Test!OpenPr(d) \/ Test!Push(d) \/ Test!EndPr(d)
                              \/ Test!ReviewSync(d) \/ Test!CancelDemand(d)
         \/ Test!ContainersChange
  PROVE  TestInv'
<1>1. UNCHANGED Test!derived /\ owed' = owed /\ op' = op /\ asking' = asking
  BY DEF Test!OpenPr, Test!Push, Test!EndPr, Test!ReviewSync, Test!CancelDemand, Test!ContainersChange, Test!Outside
<1>2. stack' = [commit |-> stack.commit, health |-> stack'.health] /\ (stack.health = "none" => stack'.health = "none")
  <2>1. stack = [commit |-> stack.commit, health |-> stack.health]
    BY DEF TestInv, Carries
  <2>2. CASE stack' = stack
    BY <2>1, <2>2
  <2>3. CASE Test!ContainersChange
    BY <2>1, <2>3 DEF Test!ContainersChange
  <2> QED
    BY <2>2, <2>3 DEF Test!OpenPr, Test!Push, Test!EndPr, Test!ReviewSync, Test!CancelDemand, Test!Outside, Test!machine
<1>3. DerivedInv
  BY DEF TestInv
<1>4. DerivedInv' /\ env' = env /\ \A e \in Demands : owed[e] => owed'[e]
  BY <1>1, <1>3, DerivedStays
<1>5. asking'.action = "publish" => asking'.demand \in Demands
  BY <1>1 DEF TestInv
<1> QED
  BY <1>1, <1>2, <1>4, <1>5, OthersKeep

\* The human's requests, which take no lock.
LEMMA RequestsKeep ==
  ASSUME TestInv, Test!TestEnvironmentAssumption,
         \/ \E d \in Demands, action \in {"publish", "cancel"} : Test!RequestRead(d, action)
         \/ \E action \in {"reset-data", "down"} : Test!RequestOther(action)
         \/ Test!RequestWrite
  PROVE  TestInv'
<1>0. "none" \notin Demands /\ Test!NoDemand = "none" /\ DerivedInv
  BY NoneIsNoDemand DEF TestInv
<1>1. stack' = [commit |-> stack.commit, health |-> stack'.health] /\ stack'.health = stack.health /\ op' = op
  BY DEF TestInv, Carries, Test!RequestRead, Test!RequestOther, Test!RequestWrite, Test!machine
<1>2. CASE \E d \in Demands, action \in {"publish", "cancel"} : Test!RequestRead(d, action)
  <2>1. UNCHANGED Test!derived /\ owed' = owed /\ asking'.demand \in Demands
    BY <1>2 DEF Test!RequestRead
  <2> QED
    BY <1>0, <1>1, <2>1, DerivedStays, OthersKeep
<1>3. CASE \E action \in {"reset-data", "down"} : Test!RequestOther(action)
  <2>1. PICK action \in {"reset-data", "down"} : Test!LogAsked(Test!NoDemand, action) /\ asking' = asking
    BY <1>3 DEF Test!RequestOther
  <2>2. action # "publish"
    OBVIOUS
  <2>3. /\ DerivedInv' /\ env'.state = env.state /\ env'.demand = env.demand /\ env'.commit = env.commit
        /\ env.stopped => env'.stopped
        /\ \A e \in Demands : owed[e] => owed'[e]
    BY <1>0, <2>1, <2>2, AskedKeeps
  <2>4. asking'.action = "publish" => asking'.demand \in Demands
    BY <2>1 DEF TestInv
  <2> QED
    BY <1>1, <2>3, <2>4, OthersKeep
<1>4. CASE Test!RequestWrite
  <2>1. Test!LogAsked(asking.demand, asking.action) /\ asking' = Test!NoAsk
    BY <1>4 DEF Test!RequestWrite
  <2>2. asking.action = "publish" => asking.demand \in Demands
    BY DEF TestInv
  <2>3. /\ DerivedInv' /\ env'.state = env.state /\ env'.demand = env.demand /\ env'.commit = env.commit
        /\ env.stopped => env'.stopped
        /\ \A e \in Demands : owed[e] => owed'[e]
    BY <1>0, <2>1, <2>2, AskedKeeps
  <2>4. asking'.action # "publish"
    BY <2>1 DEF Test!NoAsk
  <2> QED
    BY <1>1, <2>3, <2>4, OthersKeep
<1> QED
  BY <1>2, <1>3, <1>4

\* A publication begins: on a request, or to put back what was erased.
LEMMA BeginKeeps ==
  ASSUME TestInv, DerivedInv', env' = env, stack' = stack, asking' = asking, op'.pc = "asked",
         IsOp(op'), op'.erased => env.demand = op'.demand
  PROVE  TestInv'
BY DEF TestInv, Publishes, Carries

LEMMA CommandsKeep ==
  ASSUME TestInv, Test!TestEnvironmentAssumption,
         (\E d \in Demands : Test!CliPublish(d) \/ Test!CliRelease(d)) \/ Test!CliReset \/ Test!CliDown
  PROVE  TestInv'
<1>0. "none" \notin Demands /\ Test!NoDemand = "none" /\ DerivedInv /\ IsOp(op)
  BY NoneIsNoDemand DEF TestInv
<1>1. /\ stack = [commit |-> stack.commit, health |-> stack.health]
      /\ env.state = "ocupado" /\ ~env.stopped /\ stack.health # "none" => stack.commit = env.commit
  BY DEF TestInv, Carries
<1>2. ASSUME NEW d \in Demands, Test!CliPublish(d) PROVE TestInv'
  <2>1. /\ UNCHANGED Test!derived /\ owed' = owed /\ stack' = stack /\ asking' = asking
        /\ op' = Test!PublishOf(d, Test!NoCommit, "idle", FALSE)
    BY <1>2 DEF Test!CliPublish, Test!machine
  <2> DEFINE now == Test!PublishOf(d, Test!NoCommit, "idle", FALSE)
  <2>2. /\ now = [field \in {"pc", "demand", "commit", "then", "round", "erased"} |-> now[field]]
        /\ now.pc = "asked" /\ now.demand = d /\ now.then = "idle" /\ now.erased = FALSE
    BY <1>0 DEF IsOp, Test!PublishOf
  <2> HIDE DEF now
  <2>3. IsOp(now)
    BY <2>2 DEF IsOp
  <2>4. op' = now
    BY <2>1 DEF now
  <2> QED
    BY <1>0, <2>1, <2>2, <2>3, <2>4, DerivedStays, BeginKeeps
<1>3. ASSUME NEW d \in Demands, Test!CliRelease(d) PROVE TestInv'
  <2>1. stack' = stack /\ asking' = asking /\ owed' = owed /\ Test!Idle
    BY <1>3 DEF Test!CliRelease, Test!machine
  <2>2. CASE op' = [Test!NoOp EXCEPT !.pc = "release", !.demand = d] /\ UNCHANGED Test!derived
    <3>1. Rests([Test!NoOp EXCEPT !.pc = "release", !.demand = d])
      BY DEF Rests, IsOp, Test!NoOp
    <3> QED
      BY <1>0, <1>1, <2>1, <2>2, <3>1, DerivedStays, RestKeeps
  <2>3. CASE Test!LogReleased({d}) /\ UNCHANGED op
    <3>1. DerivedInv' /\ (env' = env \/ env'.state = "livre")
      BY <1>0, <2>1, <2>3, ReleasedKeeps
    <3>2. Rests(op')
      BY <1>0, <2>1, <2>3 DEF Rests, Test!Idle
    <3> QED
      BY <1>1, <2>1, <3>1, <3>2, RestKeeps
  <2> QED
    BY <1>3, <2>2, <2>3 DEF Test!CliRelease
<1>4. CASE Test!CliReset
  <2>1. UNCHANGED Test!derived /\ owed' = owed /\ stack' = stack /\ asking' = asking /\ op' = [Test!NoOp EXCEPT !.pc = "reset"]
    BY <1>4 DEF Test!CliReset, Test!machine
  <2>2. Rests([Test!NoOp EXCEPT !.pc = "reset"])
    BY DEF Rests, IsOp, Test!NoOp
  <2> QED
    BY <1>0, <1>1, <2>1, <2>2, DerivedStays, RestKeeps
<1>5. CASE Test!CliDown
  <2>1. /\ Test!LogAsked(env.demand, "down") /\ asking' = asking /\ op' = op /\ Test!Idle
        /\ Test!ContainersDown \/ stack' = stack
    BY <1>5 DEF Test!CliDown
  <2>2. /\ DerivedInv' /\ env'.state = env.state /\ env'.demand = env.demand /\ env'.commit = env.commit
        /\ env.stopped => env'.stopped
    BY <1>0, <2>1, AskedKeeps
  <2>3. stack' = [commit |-> stack'.commit, health |-> stack'.health] /\ (stack' = stack \/ stack'.health = "none")
    BY <1>1, <2>1 DEF Test!ContainersDown
  <2>4. Rests(op')
    BY <1>0, <2>1 DEF Rests, Test!Idle
  <2> QED
    BY <1>1, <2>1, <2>2, <2>3, <2>4, RestKeeps
<1> QED
  BY <1>2, <1>3, <1>4, <1>5

\* publish(), up to its event: refused, or the log and the PR as they are now.
LEMMA PublishRefusedKeeps ==
  ASSUME TestInv, "none" \notin Demands, Test!PublishRefused
  PROVE  TestInv'
<1>1. /\ UNCHANGED Test!derived \/ Test!LogFailed(op.demand) \/ Test!LogReleased({op.demand})
      /\ Test!Refused /\ stack' = stack /\ asking' = asking /\ owed' = owed
  BY DEF Test!PublishRefused, Test!machine
<1>2. DerivedInv /\ IsOp(op) /\ Carries(op, env, stack)
  BY DEF TestInv
<1>3. Rests(op')
  BY <1>1, <1>2, EndsRests
<1>4. DerivedInv' /\ (env'.state = "ocupado" => env'.state = env.state /\ env'.stopped = env.stopped /\ env'.commit = env.commit)
  <2>1. CASE UNCHANGED Test!derived
    BY <1>1, <1>2, <2>1, DerivedStays
  <2>2. CASE Test!LogFailed(op.demand)
    BY <1>1, <1>2, <2>2, FailedKeeps
  <2>3. CASE Test!LogReleased({op.demand})
    BY <1>1, <1>2, <2>3, ReleasedKeeps
  <2> QED
    BY <1>1, <2>1, <2>2, <2>3
<1> QED
  BY <1>1, <1>2, <1>3, <1>4, RestKeeps DEF Carries

LEMMA PublishReadKeeps ==
  ASSUME TestInv, "none" \notin Demands, Test!NoDemand = "none", Test!PublishRead
  PROVE  TestInv'
<1>1. /\ UNCHANGED Test!derived /\ owed' = owed /\ stack' = stack /\ asking' = asking
      /\ op.pc = "asked" /\ (op.erased \/ Test!Asked(op.demand))
      /\ op' = [op EXCEPT !.pc = "publish", !.commit = IF op.erased THEN @ ELSE <<op.demand, pr[op.demand].head>>]
  BY DEF Test!PublishRead, Test!machine
<1>2. DerivedInv /\ IsOp(op) /\ Publishes(op, env) /\ Carries(op, env, stack)
  BY DEF TestInv
<1>3. DerivedInv' /\ env' = env
  BY <1>1, <1>2, DerivedStays
<1>4. /\ op' = [field \in {"pc", "demand", "commit", "then", "round", "erased"} |-> op'[field]]
      /\ op'.pc = "publish" /\ op'.demand = op.demand /\ op'.then = op.then /\ op'.erased = op.erased
      /\ op'.commit = IF op.erased THEN op.commit ELSE <<op.demand, pr[op.demand].head>>
  BY <1>1, <1>2 DEF IsOp
<1>5. op'.commit[1] = op'.demand
  BY <1>1, <1>2, <1>4 DEF IsOp
<1>6. IsOp(op')
  BY <1>1, <1>2, <1>4, <1>5 DEF IsOp
<1>7. ~op.erased => owed[op.demand]
  BY <1>1, <1>2 DEF Test!Asked, Test!Waiting, DerivedInv, IsOwed
<1>8. Publishes(op, env)'
  BY <1>1, <1>2, <1>3, <1>4, <1>7 DEF Publishes
<1>9. Carries(op, env, stack)'
  BY <1>1, <1>2, <1>3, <1>4 DEF Carries
<1>10. asking'.action = "publish" => asking'.demand \in Demands
  BY <1>1 DEF TestInv
<1> QED
  BY <1>3, <1>6, <1>8, <1>9, <1>10 DEF TestInv

\* The process goes on with what it publishes.
LEMMA MovesOn ==
  ASSUME IsOp(op), NEW place, place \in {"build", "up", "smoke"}, op.pc \in {"publish", "build", "up"}, op' = [op EXCEPT !.pc = place]
  PROVE  IsOp(op') /\ op'.pc = place /\ op'.demand = op.demand /\ op'.commit = op.commit /\ op'.erased = op.erased
<1>1. /\ op' = [field \in {"pc", "demand", "commit", "then", "round", "erased"} |-> op'[field]]
      /\ op'.pc = place /\ op'.demand = op.demand /\ op'.commit = op.commit /\ op'.then = op.then /\ op'.erased = op.erased
  BY DEF IsOp
<1> QED
  BY <1>1 DEF IsOp

LEMMA PublishStartKeeps ==
  ASSUME TestInv, "none" \notin Demands, Test!PublishStart
  PROVE  TestInv'
<1>1. /\ op.pc = "publish" /\ Test!LogPublishing(op.demand, op.commit) /\ op' = [op EXCEPT !.pc = "build"]
      /\ owed' = owed \/ owed' = [owed EXCEPT ![op.demand] = FALSE]
      /\ stack' = stack /\ asking' = asking
  BY DEF Test!PublishStart, Test!machine
<1>2. DerivedInv /\ IsOp(op) /\ Carries(op, env, stack)
  BY DEF TestInv
<1>3. op.demand \in Demands /\ op.commit[1] = op.demand
  BY <1>1, <1>2 DEF IsOp
<1>4. DerivedInv' /\ env' = [state |-> "publicando", demand |-> op.demand, commit |-> op.commit, stopped |-> FALSE]
  BY <1>1, <1>2, <1>3, PublishingKeeps
<1>5. IsOp(op') /\ op'.pc = "build" /\ op'.demand = op.demand /\ op'.commit = op.commit
  BY <1>1, <1>2, MovesOn
<1>6. Publishes(op, env)' /\ Carries(op, env, stack)'
  BY <1>1, <1>2, <1>4, <1>5 DEF Publishes, Carries
<1>7. asking'.action = "publish" => asking'.demand \in Demands
  BY <1>1 DEF TestInv
<1> QED
  BY <1>4, <1>5, <1>6, <1>7 DEF TestInv

\* A publication under way fails: the environment is not announced.
LEMMA FailsKeeps ==
  ASSUME TestInv, op.pc \in {"build", "up", "smoke"}, Test!LogFailed(op.demand), Test!Refused, asking' = asking, owed' = owed,
         stack' = [commit |-> stack'.commit, health |-> stack'.health]
  PROVE  TestInv'
<1>1. DerivedInv /\ IsOp(op) /\ env.state = "publicando"
  BY DEF TestInv, Publishes
<1>2. DerivedInv' /\ env'.state # "ocupado"
  BY <1>1, FailedKeeps
<1>3. Rests(op')
  BY <1>1, EndsRests
<1> QED
  BY <1>2, <1>3, RestKeeps

\* The build, or the start of the containers, is done.
LEMMA GoesOnKeeps ==
  ASSUME TestInv, NEW place, place \in {"up", "smoke"}, op.pc \in {"build", "up"}, op' = [op EXCEPT !.pc = place],
         UNCHANGED Test!derived, asking' = asking, owed' = owed,
         stack' = [commit |-> stack'.commit, health |-> stack'.health], place = "smoke" => stack'.commit = op.commit
  PROVE  TestInv'
<1>1. DerivedInv /\ IsOp(op) /\ Publishes(op, env)
  BY DEF TestInv
<1>2. DerivedInv' /\ env' = env
  BY <1>1, DerivedStays
<1>3. IsOp(op') /\ op'.pc = place /\ op'.demand = op.demand /\ op'.commit = op.commit
  BY <1>1, MovesOn
<1>4. Publishes(op, env)' /\ Carries(op, env, stack)'
  BY <1>1, <1>2, <1>3 DEF Publishes, Carries
<1>5. asking'.action = "publish" => asking'.demand \in Demands
  BY DEF TestInv
<1> QED
  BY <1>2, <1>3, <1>4, <1>5 DEF TestInv

LEMMA BuildKeeps ==
  ASSUME TestInv, Test!PublishBuild \/ Test!PublishUp
  PROVE  TestInv'
<1>1. asking' = asking /\ owed' = owed /\ op.pc \in {"build", "up"}
  BY DEF Test!PublishBuild, Test!PublishUp
<1>2. stack = [commit |-> stack.commit, health |-> stack.health]
  BY DEF TestInv, Carries
<1>3. CASE Test!PublishBuild
  <2>1. stack' = stack
    BY <1>3 DEF Test!PublishBuild
  <2>2. CASE Test!LogFailed(op.demand) /\ Test!Refused
    BY <1>1, <1>2, <2>1, <2>2, FailsKeeps
  <2>3. CASE op' = [op EXCEPT !.pc = "up"] /\ UNCHANGED Test!derived
    BY <1>1, <1>2, <2>1, <2>3, GoesOnKeeps
  <2> QED
    BY <1>3, <2>2, <2>3 DEF Test!PublishBuild
<1>4. CASE Test!PublishUp
  <2>1. CASE stack' = [commit |-> op.commit, health |-> "healthy"] /\ op' = [op EXCEPT !.pc = "smoke"] /\ UNCHANGED Test!derived
    <3>1. stack' = [commit |-> stack'.commit, health |-> stack'.health] /\ stack'.commit = op.commit
      BY <2>1
    <3> QED
      BY <1>1, <2>1, <3>1, GoesOnKeeps
  <2>2. CASE stack' \in {stack, [commit |-> op.commit, health |-> "unhealthy"]} /\ Test!LogFailed(op.demand) /\ Test!Refused
    <3>1. stack' = [commit |-> stack'.commit, health |-> stack'.health]
      BY <1>2, <2>2
    <3> QED
      BY <1>1, <2>2, <3>1, FailsKeeps
  <2> QED
    BY <1>4, <2>1, <2>2 DEF Test!PublishUp
<1> QED
  BY <1>3, <1>4

LEMMA SmokeKeeps ==
  ASSUME TestInv, "none" \notin Demands, Test!PublishSmoke
  PROVE  TestInv'
<1>1. op.pc = "smoke" /\ stack' = stack /\ asking' = asking /\ owed' = owed
  BY DEF Test!PublishSmoke, Test!machine
<1>2. DerivedInv /\ IsOp(op) /\ Publishes(op, env) /\ Carries(op, env, stack)
  BY DEF TestInv
<1>3. CASE Test!LogFailed(op.demand) /\ Test!Refused
  BY <1>1, <1>2, <1>3, FailsKeeps DEF Carries
<1>4. CASE Test!LogPublished(op.demand, op.commit) /\ Test!Ends
  <2>1. env.demand = op.demand /\ op.demand \in Demands /\ op.commit[1] = op.demand /\ stack.commit = op.commit
    BY <1>1, <1>2 DEF IsOp, Publishes, Carries
  <2>2. DerivedInv' /\ env' = [state |-> "ocupado", demand |-> env.demand, commit |-> op.commit, stopped |-> env.stopped]
    BY <1>1, <1>2, <1>4, <2>1, PublishedKeeps
  <2>3. Rests(op')
    BY <1>2, <1>4, EndsRests
  <2>4. env'.commit = op.commit
    BY <2>2
  <2> QED
    BY <1>1, <1>2, <2>1, <2>2, <2>3, <2>4, RestKeeps DEF Carries
<1> QED
  BY <1>3, <1>4 DEF Test!PublishSmoke

\* do_release and do_reset.
LEMMA ReleaseKeeps ==
  ASSUME TestInv, "none" \notin Demands, Test!ReleaseStop \/ Test!ReleaseLog
  PROVE  TestInv'
<1>1. asking' = asking /\ owed' = owed
  BY DEF Test!ReleaseStop, Test!ReleaseLog
<1>2. DerivedInv /\ IsOp(op) /\ Carries(op, env, stack)
  BY DEF TestInv
<1>3. CASE Test!ReleaseStop
  <2>1. UNCHANGED Test!derived /\ op' = [op EXCEPT !.pc = "released"] /\ (stack' = stack \/ stack' = [stack EXCEPT !.health = "stopped"])
    BY <1>3 DEF Test!ReleaseStop
  <2>2. DerivedInv' /\ env' = env
    BY <1>1, <1>2, <2>1, DerivedStays
  <2>3. /\ op' = [field \in {"pc", "demand", "commit", "then", "round", "erased"} |-> op'[field]]
        /\ op'.pc = "released" /\ op'.then = op.then /\ op'.erased = op.erased
    BY <1>2, <2>1 DEF IsOp
  <2>4. Rests(op')
    BY <1>2, <2>3 DEF Rests, IsOp
  <2>5. stack.health = "none" => stack' = stack
    BY <1>3 DEF Test!ReleaseStop
  <2>6. stack' = [commit |-> stack.commit, health |-> stack'.health]
    BY <1>2, <2>1 DEF Carries
  <2>7. stack'.commit = stack.commit /\ (stack'.health # "none" => stack.health # "none")
    BY <2>5, <2>6
  <2> QED
    BY <1>1, <1>2, <2>2, <2>4, <2>6, <2>7, RestKeeps DEF Carries
<1>4. CASE Test!ReleaseLog
  <2>1. Test!LogReleased({op.demand}) /\ Test!Ends /\ stack' = stack
    BY <1>4 DEF Test!ReleaseLog, Test!machine
  <2>2. DerivedInv' /\ (env' = env \/ env'.state = "livre")
    BY <1>1, <1>2, <2>1, ReleasedKeeps
  <2>3. Rests(op')
    BY <1>2, <2>1, EndsRests
  <2> QED
    BY <1>1, <1>2, <2>1, <2>2, <2>3, RestKeeps DEF Carries
<1> QED
  BY <1>3, <1>4

LEMMA EraseKeeps ==
  ASSUME TestInv, Test!Erase
  PROVE  TestInv'
<1>1. asking' = asking /\ owed' = owed /\ op.pc = "reset"
  BY DEF Test!Erase
<1>2. DerivedInv /\ IsOp(op) /\ Carries(op, env, stack)
  BY DEF TestInv
<1>3. CASE Test!ContainersDown /\ op' = [op EXCEPT !.pc = "erased"] /\ UNCHANGED Test!derived
  <2>1. DerivedInv'
    BY <1>1, <1>2, <1>3, DerivedStays
  <2>2. /\ op' = [field \in {"pc", "demand", "commit", "then", "round", "erased"} |-> op'[field]]
        /\ op'.pc = "erased" /\ op'.then = op.then /\ op'.erased = op.erased
    BY <1>2, <1>3 DEF IsOp
  <2>3. Rests(op')
    BY <1>2, <2>2 DEF Rests, IsOp
  <2>4. stack' = [commit |-> stack'.commit, health |-> stack'.health] /\ stack'.health = "none"
    BY <1>3 DEF Test!ContainersDown
  <2> QED
    BY <1>1, <2>1, <2>3, <2>4, RestKeeps
<1>4. CASE Test!LogFailed(env.demand) /\ Test!Ends /\ UNCHANGED stack
  <2>1. /\ DerivedInv' /\ env'.commit = env.commit /\ env'.stopped = env.stopped
        /\ env'.state = env.state \/ env'.state = "falhou"
    BY <1>1, <1>2, <1>4, FailedKeeps
  <2>2. Rests(op')
    BY <1>2, <1>4, EndsRests
  <2> QED
    BY <1>1, <1>2, <1>4, <2>1, <2>2, RestKeeps DEF Carries
<1> QED
  BY <1>3, <1>4 DEF Test!Erase

LEMMA EraseLogKeeps ==
  ASSUME TestInv, "none" \notin Demands, Test!NoDemand = "none", Test!EraseLog
  PROVE  TestInv'
<1>1. /\ env' = env /\ queue' = queue /\ republish' = republish /\ owed' = owed /\ stack' = stack /\ asking' = asking
      /\ (op' = Test!PublishOf(env.demand, env.commit, op.then, TRUE) /\ env.demand # "none") \/ Test!Ends
  BY DEF Test!EraseLog, Test!machine
<1>2. DerivedInv /\ IsOp(op) /\ Carries(op, env, stack)
  BY DEF TestInv
<1>3. DerivedInv'
  BY <1>1, <1>2 DEF DerivedInv, IsEnv, IsQueue, IsOwed
<1>4. CASE Test!Ends
  BY <1>1, <1>2, <1>3, <1>4, EndsRests, RestKeeps DEF Carries
<1>5. CASE op' = Test!PublishOf(env.demand, env.commit, op.then, TRUE) /\ env.demand # "none"
  <2>1. env.demand \in Demands /\ env.commit[1] = env.demand
    BY <1>2, <1>5 DEF DerivedInv, IsEnv
  <2>2. /\ op' = [field \in {"pc", "demand", "commit", "then", "round", "erased"} |-> op'[field]]
        /\ op'.pc = "asked" /\ op'.demand = env.demand /\ op'.commit = env.commit /\ op'.then = op.then /\ op'.erased = TRUE
    BY <1>2, <1>5 DEF IsOp, Test!PublishOf
  <2>3. IsOp(op')
    BY <1>2, <2>1, <2>2 DEF IsOp
  <2> QED
    BY <1>1, <1>3, <2>2, <2>3, BeginKeeps
<1> QED
  BY <1>1, <1>4, <1>5

\* reconcile(), round by round.
LEMMA RoundRests ==
  ASSUME IsOp(op), op.pc \in {"idle", "round"}, NEW now, now \notin {"asked", "publish", "build", "up", "smoke"}
  PROVE  Rests(Test!RoundTo(now)) /\ \A d : Rests([Test!RoundTo(now) EXCEPT !.demand = d])
<1> DEFINE r == Test!RoundTo(now)
<1>1. /\ r = [field \in {"pc", "demand", "commit", "then", "round", "erased"} |-> r[field]]
      /\ r.pc = now /\ r.then = "round" /\ r.erased = op.erased
  BY DEF IsOp, Test!RoundTo
<1> HIDE DEF r
<1>2. Rests(r)
  BY <1>1 DEF Rests, IsOp
<1>3. ASSUME NEW d PROVE Rests([r EXCEPT !.demand = d])
  <2> DEFINE s == [r EXCEPT !.demand = d]
  <2>1. /\ s = [field \in {"pc", "demand", "commit", "then", "round", "erased"} |-> s[field]]
        /\ s.pc = now /\ s.then = "round" /\ s.erased = op.erased
    BY <1>1
  <2> HIDE DEF s
  <2>2. Rests(s)
    BY <1>2, <2>1 DEF Rests, IsOp
  <2> QED
    BY <2>2 DEF s
<1> QED
  BY <1>2, <1>3 DEF r

LEMMA FirstIsDemand ==
  ASSUME NEW occupant, IsQueue(queue, occupant), queue # << >>
  PROVE  Head(queue) \in Demands
<1>1. DOMAIN queue = 1..Len(queue) /\ Len(queue) \in Nat /\ queue = [i \in 1..Len(queue) |-> queue[i]]
  BY DomainOf DEF IsQueue, IsSequence
<1>2. \A i \in 1..Len(queue) : queue[i] \in Demands
  BY <1>1 DEF IsQueue
<1>3. queue \in [1..Len(queue) -> Demands]
  BY <1>1, <1>2
<1>4. queue \in Seq(Demands)
  BY <1>1, <1>3
<1> QED
  BY <1>4

\* What a round starts to publish is the occupant that asked again, or the first of the queue.
LEMMA RoundBegins ==
  ASSUME IsOp(op), op.pc \in {"idle", "round"}, NEW d \in Demands, NEW then, then \in {"idle", "head"},
         op' = [Test!RoundTo("asked") EXCEPT !.demand = d, !.then = then]
  PROVE  IsOp(op') /\ op'.pc = "asked" /\ ~op'.erased
<1>1. /\ op' = [field \in {"pc", "demand", "commit", "then", "round", "erased"} |-> op'[field]]
      /\ op'.pc = "asked" /\ op'.demand = d /\ op'.then = then /\ op'.erased = op.erased
  BY DEF IsOp, Test!RoundTo
<1> QED
  BY <1>1 DEF IsOp

LEMMA ReconcileKeeps ==
  ASSUME TestInv, "none" \notin Demands, Test!NoDemand = "none", Test!ReconcileRound
  PROVE  TestInv'
<1>1. asking' = asking /\ owed' = owed /\ stack' = stack /\ op.pc \in {"idle", "round"}
  BY DEF Test!ReconcileRound, Test!Idle, Test!machine
<1>2. DerivedInv /\ IsOp(op) /\ Carries(op, env, stack)
  BY DEF TestInv
<1>3. CASE Test!CloseInterrupted
  <2>1. Test!LogFailed(env.demand) /\ op' = Test!RoundTo("round")
    BY <1>3 DEF Test!CloseInterrupted
  <2>2. /\ DerivedInv' /\ env'.commit = env.commit /\ env'.stopped = env.stopped
        /\ env'.state = env.state \/ env'.state = "falhou"
    BY <1>1, <1>2, <2>1, FailedKeeps
  <2>3. Rests(op')
    BY <1>1, <1>2, <2>1, RoundRests
  <2> QED
    BY <1>1, <1>2, <2>2, <2>3, RestKeeps DEF Carries
<1>4. CASE Test!DropObsolete
  <2>1. Test!LogReleased(Test!Obsolete) /\ op' = Test!RoundTo("round")
    BY <1>4 DEF Test!DropObsolete
  <2>2. DerivedInv' /\ (env' = env \/ env'.state = "livre")
    BY <1>1, <1>2, <2>1, ReleasedKeeps
  <2>3. Rests(op')
    BY <1>1, <1>2, <2>1, RoundRests
  <2> QED
    BY <1>1, <1>2, <2>2, <2>3, RestKeeps DEF Carries
<1>5. ASSUME UNCHANGED Test!derived, Rests(op') PROVE TestInv'
  <2>1. DerivedInv' /\ env' = env
    BY <1>1, <1>2, <1>5, DerivedStays
  <2> QED
    BY <1>1, <1>2, <1>5, <2>1, RestKeeps DEF Carries
<1>6. CASE op' = [Test!RoundTo("release") EXCEPT !.demand = env.demand] /\ UNCHANGED Test!derived
  BY <1>1, <1>2, <1>5, <1>6, RoundRests
<1>7. CASE op' \in {Test!RoundTo("reset"), Test!NoOp} /\ UNCHANGED Test!derived
  BY <1>1, <1>2, <1>5, <1>7, RoundRests, RestsAtEnd
<1>8. ASSUME UNCHANGED Test!derived, NEW d \in Demands, NEW then, then \in {"idle", "head"},
             op' = [Test!RoundTo("asked") EXCEPT !.demand = d, !.then = then]
      PROVE  TestInv'
  <2>1. DerivedInv' /\ env' = env
    BY <1>1, <1>2, <1>8, DerivedStays
  <2>2. IsOp(op') /\ op'.pc = "asked" /\ ~op'.erased
    BY <1>1, <1>2, <1>8, RoundBegins
  <2> QED
    BY <1>1, <2>1, <2>2, BeginKeeps
<1>9. CASE UNCHANGED Test!derived /\ republish /\ op' = [Test!RoundTo("asked") EXCEPT !.demand = env.demand, !.then = "idle"]
  <2>1. env.demand \in Demands
    BY <1>2, <1>9 DEF DerivedInv, IsEnv, IsOwed
  <2> QED
    BY <1>8, <1>9, <2>1
<1>10. CASE /\ UNCHANGED Test!derived /\ Test!FirstCanGo
            /\ op' = [Test!RoundTo("asked") EXCEPT !.demand = Head(queue), !.then = "head"]
  <2>1. Head(queue) \in Demands
    BY <1>2, <1>10, FirstIsDemand DEF DerivedInv, Test!FirstCanGo
  <2> QED
    BY <1>8, <1>10, <2>1
<1> QED
  BY <1>3, <1>4, <1>6, <1>7, <1>9, <1>10 DEF Test!ReconcileRound

LEMMA StopsKeep ==
  ASSUME TestInv, Test!ReconcileEnd \/ Test!Killed
  PROVE  TestInv'
<1>1. UNCHANGED Test!derived /\ owed' = owed /\ stack' = stack /\ asking' = asking /\ op' = Test!NoOp
  BY DEF Test!ReconcileEnd, Test!Killed, Test!machine
<1>2. DerivedInv /\ IsOp(op) /\ Carries(op, env, stack)
  BY DEF TestInv
<1>3. DerivedInv' /\ env' = env
  BY <1>1, <1>2, DerivedStays
<1>4. Rests(op')
  BY <1>1, <1>2, RestsAtEnd
<1> QED
  BY <1>1, <1>2, <1>3, <1>4, RestKeeps DEF Carries

LEMMA TestStep ==
  ASSUME Test!TestEnvironmentAssumption, TestInv, [Test!Next]_(Test!vars)
  PROVE  TestInv'
<1>0. "none" \notin Demands /\ Test!NoDemand = "none"
  BY NoneIsNoDemand
<1>1. CASE UNCHANGED Test!vars
  <2>1. UNCHANGED Test!derived /\ owed' = owed /\ stack' = stack /\ asking' = asking /\ op' = op
    BY <1>1 DEF Test!vars, Test!machine
  <2>2. DerivedInv /\ IsOp(op) /\ Publishes(op, env) /\ Carries(op, env, stack) /\ (asking.action = "publish" => asking.demand \in Demands)
    BY DEF TestInv
  <2>3. DerivedInv' /\ env' = env
    BY <2>1, <2>2, DerivedStays
  <2>4. IsOp(op') /\ Publishes(op, env)' /\ Carries(op, env, stack)'
    BY <2>1, <2>2, <2>3 DEF IsOp, Publishes, Carries
  <2> QED
    BY <2>1, <2>2, <2>3, <2>4 DEF TestInv
<1>2. CASE Test!Next
  <2>1. CASE \/ \E d \in Demands : \/ Test!OpenPr(d) \/ Test!Push(d) \/ Test!EndPr(d)
                                 \/ Test!ReviewSync(d) \/ Test!CancelDemand(d)
             \/ Test!ContainersChange
    BY <2>1, WorldKeeps
  <2>2. CASE \/ \E d \in Demands, action \in {"publish", "cancel"} : Test!RequestRead(d, action)
             \/ \E action \in {"reset-data", "down"} : Test!RequestOther(action)
             \/ Test!RequestWrite
    BY <2>2, RequestsKeep
  <2>3. CASE (\E d \in Demands : Test!CliPublish(d) \/ Test!CliRelease(d)) \/ Test!CliReset \/ Test!CliDown
    BY <2>3, CommandsKeep
  <2>4. CASE Test!Work
    BY <1>0, <2>4, PublishRefusedKeeps, PublishReadKeeps, PublishStartKeeps, BuildKeeps, SmokeKeeps, ReleaseKeeps,
       EraseKeeps, EraseLogKeeps, ReconcileKeeps, StopsKeep DEF Test!Work
  <2>5. CASE Test!Killed
    BY <2>5, StopsKeep
  <2> QED
    BY <1>2, <2>1, <2>2, <2>3, <2>4, <2>5 DEF Test!Next
<1> QED
  BY <1>1, <1>2

LEMMA TestStart ==
  ASSUME Test!TestEnvironmentAssumption, Test!Init
  PROVE  TestInv
<1>0. "none" \notin Demands /\ Test!NoDemand = "none"
  BY NoneIsNoDemand
<1>1. env = Test!Free /\ queue = << >> /\ republish = FALSE /\ asking = Test!NoAsk /\ op = Test!NoOp
  BY DEF Test!Init
<1>2. IsEnv(env)
  BY <1>0, <1>1 DEF IsEnv, Test!Free
<1>3. IsSequence(queue) /\ DOMAIN queue = {}
  BY <1>1 DEF IsSequence
<1>4. DerivedInv
  BY <1>1, <1>2, <1>3 DEF DerivedInv, IsQueue, IsOwed, Test!Init
<1>5. IsOp(op)
  BY <1>1 DEF IsOp, Test!NoOp
<1>6. Publishes(op, env) /\ Carries(op, env, stack)
  BY <1>1 DEF Publishes, Carries, Test!NoOp, Test!Free, Test!Init
<1> QED
  BY <1>1, <1>4, <1>5, <1>6 DEF TestInv, Test!NoAsk

LEMMA TestInvariant ==
  ASSUME Test!TestEnvironmentAssumption
  PROVE  Test!Spec => []TestInv
<1>1. Test!Init => TestInv
  BY TestStart
<1>2. TestInv /\ [Test!Next]_(Test!vars) => TestInv'
  BY TestStep
<1> QED
  BY <1>1, <1>2, PTL DEF Test!Spec

\* Whatever failed, was killed, erased or asked for meanwhile, what the panel announces
\* as ready to test is what the containers run, and nobody waits twice or for what it
\* has: for any number of demands, commits, requests and mishaps (testenv.py).
THEOREM ReadyMeansRunningAlways ==
  ASSUME Test!TestEnvironmentAssumption
  PROVE  Test!Spec => []ReadyMeansRunning
<1>1. TestInv => Test!ReadyMeansRunning
  <2> SUFFICES ASSUME TestInv PROVE Test!ReadyMeansRunning
    OBVIOUS
  <2>1. Test!NoDemand = "none" /\ DerivedInv /\ Carries(op, env, stack)
    BY DEF TestInv, Test!NoDemand
  <2>2. Test!Shown = "ocupado" /\ ~env.stopped => stack.commit = env.commit
    <3>1. SUFFICES ASSUME Test!Shown = "ocupado", ~env.stopped PROVE stack.commit = env.commit
      OBVIOUS
    <3>2. env.state = "ocupado" /\ stack.health = "healthy"
      BY <3>1 DEF Test!Shown, Test!Healthy
    <3> QED
      BY <2>1, <3>1, <3>2 DEF Carries
  <2>3. /\ env.state = "livre" <=> env.demand = "none"
        /\ env.demand # "none" => env.commit[1] = env.demand
    BY <2>1 DEF DerivedInv, IsEnv
  <2>4. ~Test!Waiting(env.demand) /\ \A i, j \in DOMAIN queue : queue[i] = queue[j] => i = j
    BY <2>1 DEF DerivedInv, IsQueue, Test!Waiting
  <2> QED
    BY <2>1, <2>2, <2>3, <2>4 DEF Test!ReadyMeansRunning
<1> QED
  BY <1>1, TestInvariant, PTL DEF ReadyMeansRunning

\* Only the event of a publication makes the environment one that publishes.
LEMMA OnlyStartPublishes ==
  ASSUME TestInv, Test!Next, env'.state = "publicando", env.state # "publicando"
  PROVE  Test!PublishStart
<1>1. DOMAIN env = {"state", "demand", "commit", "stopped"}
  BY DEF TestInv, DerivedInv, IsEnv
<1>2. ASSUME NEW d, NEW action, Test!LogAsked(d, action) PROVE FALSE
  BY <1>1, <1>2 DEF Test!LogAsked
<1>3. ASSUME NEW d, Test!LogFailed(d) PROVE FALSE
  BY <1>1, <1>3 DEF Test!LogFailed
<1>4. ASSUME NEW d, NEW c, Test!LogPublished(d, c) PROVE FALSE
  BY <1>1, <1>4 DEF Test!LogPublished
<1>5. ASSUME NEW ds, Test!LogReleased(ds) PROVE FALSE
  BY <1>5 DEF Test!LogReleased, Test!Free
<1>6. env' # env
  OBVIOUS
<1>7. ~UNCHANGED Test!derived
  BY <1>6 DEF Test!derived
<1>8. ~ \E d \in Demands : \/ Test!OpenPr(d) \/ Test!Push(d) \/ Test!EndPr(d)
                         \/ Test!ReviewSync(d) \/ Test!CancelDemand(d)
  BY <1>7 DEF Test!OpenPr, Test!Push, Test!EndPr, Test!ReviewSync, Test!CancelDemand, Test!Outside
<1>9. ~Test!ContainersChange /\ ~Test!Killed /\ ~Test!ReconcileEnd /\ ~Test!CliReset
  BY <1>7 DEF Test!ContainersChange, Test!Killed, Test!ReconcileEnd, Test!CliReset
<1>10. /\ ~ \E d \in Demands, action \in {"publish", "cancel"} : Test!RequestRead(d, action)
       /\ ~ \E action \in {"reset-data", "down"} : Test!RequestOther(action)
       /\ ~Test!RequestWrite /\ ~Test!CliDown
  BY <1>2, <1>7 DEF Test!RequestRead, Test!RequestOther, Test!RequestWrite, Test!CliDown
<1>11. ~ \E d \in Demands : Test!CliPublish(d) \/ Test!CliRelease(d)
  BY <1>5, <1>7 DEF Test!CliPublish, Test!CliRelease
<1>12. ~Test!PublishRefused
  BY <1>3, <1>5, <1>7 DEF Test!PublishRefused, Test!derived
<1>13. ~Test!PublishRead /\ ~Test!PublishBuild /\ ~Test!PublishUp
  BY <1>3, <1>7 DEF Test!PublishRead, Test!PublishBuild, Test!PublishUp
<1>14. ~Test!PublishSmoke /\ ~Test!ReleaseStop /\ ~Test!ReleaseLog
  BY <1>3, <1>4, <1>5, <1>7 DEF Test!PublishSmoke, Test!ReleaseStop, Test!ReleaseLog
<1>15. ~Test!Erase /\ ~Test!EraseLog
  BY <1>3, <1>6, <1>7 DEF Test!Erase, Test!EraseLog
<1>16. ~Test!ReconcileRound
  BY <1>3, <1>5, <1>7 DEF Test!ReconcileRound, Test!CloseInterrupted, Test!DropObsolete
<1> QED
  BY <1>8, <1>9, <1>10, <1>11, <1>12, <1>13, <1>14, <1>15, <1>16 DEF Test!Next, Test!Work

\* One request of the human pays for one publication, whatever reconcile, the command,
\* the log and a killed process do in between; only erased data are put back unasked.
THEOREM PublishedOnRequestAlways ==
  ASSUME Test!TestEnvironmentAssumption
  PROVE  Test!Spec => PublishedOnRequest
<1> DEFINE Paid == \A d \in Demands :
                     env'.state = "publicando" /\ env'.demand = d /\ env.state # "publicando" =>
                       owed[d] \/ (op.erased /\ env.demand = d)
<1>1. TestInv /\ [Test!Next]_(Test!vars) => [Paid]_(Test!vars)
  <2> SUFFICES ASSUME TestInv, Test!Next, NEW d \in Demands,
                      env'.state = "publicando", env'.demand = d, env.state # "publicando"
               PROVE  owed[d] \/ (op.erased /\ env.demand = d)
    OBVIOUS
  <2>1. Test!PublishStart
    BY OnlyStartPublishes
  <2>2. op.pc = "publish" /\ op.demand = d
    BY <2>1 DEF Test!PublishStart, Test!LogPublishing
  <2> QED
    BY <2>2 DEF TestInv, Publishes
<1> QED
  BY <1>1, TestInvariant, PTL DEF PublishedOnRequest, Test!Spec, Test!PublishedOnRequest
=============================================================================
