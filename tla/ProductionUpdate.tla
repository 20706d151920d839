---- MODULE ProductionUpdate ----
(* The incremental update of the local production: tools/squad/prod.py.     *)
(* After a merge only the services that changed since the last commit the   *)
(* log calls deployed are built and recreated; what does not come up is     *)
(* taken back by image tags, unless the database may have migrated.  Merges *)
(* and pulls of the main copy go on meanwhile, several callers compete for  *)
(* one lock, commands fail, and the process may be killed.                  *)
EXTENDS Naturals, FiniteSets

CONSTANTS
  App,           \* APP_SERVICES: built from the repository
  Infra,         \* services of the compose file that are only restarted
  MaxCommit,     \* the commits of develop are 1..MaxCommit
  Source,        \* what each service is made of at each commit
  Definition,    \* its definition in docker-compose.yml at each commit
  Migrations,    \* the migrations each commit carries
  Unseen,        \* services whose change between two commits git reports under no path
                 \* of theirs: a file renamed out of a service, or one no rule names
  Unhealthy,     \* sources whose containers never become healthy
  Callers,       \* processes that call update: review-sync's and the human's
  MaxMishap,     \* bound: commands that fail by chance and killed processes
  MaxRace        \* bound: pulls of the main copy while an update runs

Services == App \cup Infra
Commits == 1..MaxCommit

ProductionAssumption ==
  /\ App \cap Infra = {}
  /\ MaxCommit \in Nat \ {0}
  /\ Source \in [Commits -> [Services -> Nat]]
  /\ Definition \in [Commits -> [Services -> Nat]]
  /\ DOMAIN Migrations = Commits
  /\ Unseen \in [Commits -> [Commits -> SUBSET Services]]
  /\ {MaxMishap, MaxRace} \subseteq Nat

VARIABLES
  origin, head,  \* origin/develop and HEAD of the main copy
  image,         \* the image tagged `:local`: [source, revision label]
  running,       \* the image the container of each service was made of
  defined,       \* the definition it was created with
  log,           \* the last production event: [type, commit, rolledBack, deployed]
  caller,        \* a caller that has read the log and wants the lock
  op,            \* the update that holds the lock; histories: what ran `before` it, the
                 \* services put `back` on it, and those already `astray` when it started
  mishaps, races

copy == <<origin, head>>
docker == <<image, running, defined>>
vars == <<copy, docker, log, caller, op, mishaps, races>>

NoOp == [pc |-> "idle"]
NoTags == << >>
NoEvent == [type |-> "none", rolledBack |-> FALSE, deployed |-> 0]

\* What a build at commit c with `--build-arg REVISION=r` makes.
Built(s, c, r) == [source |-> Source[c][s], revision |-> r]
ByHand == [s \in Services |-> Built(s, 1, 0)]

\* The stack as it was brought up by hand at commit 1, before prod.py.
Init ==
  /\ origin = 1 /\ head = 1
  /\ image = ByHand /\ running = ByHand /\ defined = Definition[1]
  /\ log = NoEvent
  /\ caller = [u \in Callers |-> [pc |-> "idle", rows |-> 0]]
  /\ op = NoOp /\ mishaps = 0 /\ races = 0

Mishap == mishaps < MaxMishap /\ mishaps' = mishaps + 1
Idle == op.pc = "idle"

\* A merge on GitHub, and gitflow.sync_develop in the main copy.
Merge ==
  /\ origin < MaxCommit /\ origin' = origin + 1
  /\ UNCHANGED <<head, docker, log, caller, op, mishaps, races>>

SyncDevelop ==
  /\ head < origin /\ head' = origin
  /\ IF Idle THEN UNCHANGED races ELSE races < MaxRace /\ races' = races + 1
  /\ UNCHANGED <<origin, docker, log, caller, op, mishaps>>
----
(* The plan.                                                                *)

\* plan_paths: what `git diff from..head` shows the two commits to differ in.
Differs(from, to) == {s \in Services : Source[from][s] # Source[to][s]} \ Unseen[from][to]
PlanOfPaths(from, to) ==
  IF from = 0 THEN [build |-> App, restart |-> {}, recreate |-> {}, migrations |-> FALSE]
  ELSE [build      |-> Differs(from, to) \cap App,
        restart    |-> Differs(from, to) \cap Infra,
        recreate   |-> {},
        migrations |-> Migrations[to] \ Migrations[from] # {}]
Plan(from, to) ==
  IF from = 0 THEN [build |-> App, restart |-> {}, recreate |-> {}, migrations |-> FALSE]
  ELSE [build      |-> Differs(from, to) \cap App,
        restart    |-> Differs(from, to) \cap Infra,
        recreate   |-> {s \in Services : Definition[from][s] # Definition[to][s]},
        migrations |-> Migrations[to] \ Migrations[from] # {}]

\* image_revision: the revision all the images of the application are labelled with.
ImageRevision ==
  LET labels == {image[s].revision : s \in App} IN
  IF Cardinality(labels) = 1 THEN CHOOSE c \in labels : TRUE ELSE 0

Updated(commit) == log' = [type |-> "updated", rolledBack |-> FALSE, deployed |-> commit]
Failed(rolled) == log' = [log EXCEPT !.type = "failed", !.rolledBack = rolled]
----
(* update(): the log is read before the lock is tried.                      *)

ReadLog(u) ==
  /\ caller[u].pc = "idle"
  /\ caller' = [caller EXCEPT ![u] = [pc |-> "read", rows |-> log.deployed]]
  /\ UNCHANGED <<copy, docker, log, op, mishaps, races>>

LockTaken(u) ==
  /\ caller[u].pc = "read" /\ ~Idle
  /\ caller' = [caller EXCEPT ![u] = [pc |-> "idle", rows |-> 0]]
  /\ UNCHANGED <<copy, docker, log, op, mishaps, races>>

\* guard(): the main copy is on develop, at the commit of the origin.
Guarded == head = origin

AsMade(s, c) == running[s].source = Source[c][s] /\ defined[s] = Definition[c][s]

\* What the update does not answer for: a service it does not build that is not what
\* the commit it starts from made, or whose change it does not see.
Astray(from, build, shown) ==
  LET base == IF from = 0 THEN head ELSE from IN
  {s \in Services \ build :
     \/ ~AsMade(s, base)
     \/ s \in App /\ image[s].source # Source[base][s]
     \/ s \in Unseen[base][head]
     \/ ~shown /\ Definition[base][s] # Definition[head][s]}

\* The update that a plan makes; without targets or restarts it has only to be recorded.
Planned(from, shown) ==
  LET plan == Plan(from, head)
      targets == plan.build \cup (IF shown THEN plan.recreate ELSE {})
      restarts == plan.restart \ targets
  IN [pc |-> IF targets \cup restarts = {} THEN "restart" ELSE "points",
      commit |-> head, build |-> plan.build, targets |-> targets, restarts |-> restarts,
      migrations |-> plan.migrations, points |-> NoTags, back |-> {},
      before |-> running, astray |-> Astray(from, plan.build, shown)]

\* guard() and the plan; nothing is touched yet.  Where a command fails, guard() and
\* `git diff` abort, the images pass for unlabelled, and a compose file that `git show`
\* does not give passes for unchanged.
Start(u) ==
  /\ caller[u].pc = "read" /\ Idle
  /\ caller' = [caller EXCEPT ![u] = [pc |-> "idle", rows |-> 0]]
  /\ \/ /\ IF Guarded THEN Mishap ELSE UNCHANGED mishaps
        /\ Failed(FALSE) /\ UNCHANGED op
     \/ /\ Guarded /\ UNCHANGED log
        /\ \E labelled, shown \in BOOLEAN :
             LET from == IF caller[u].rows # 0 THEN caller[u].rows
                         ELSE IF labelled THEN ImageRevision ELSE 0 IN
             /\ IF labelled /\ shown THEN UNCHANGED mishaps ELSE Mishap
             /\ op' = Planned(from, shown)
  /\ UNCHANGED <<copy, docker, races>>

\* rollback_points: tag `:rollback` from the image of the running container; a service
\* whose inspect or tag fails has none, and the update goes on.
SavePoints(images) ==
  /\ op.pc = "points"
  /\ \E saved \in SUBSET op.build :
       /\ IF saved = op.build THEN UNCHANGED mishaps ELSE Mishap
       /\ op' = [op EXCEPT !.points = [s \in saved |-> images[s]],
                            !.pc = IF op.build # {} THEN "build" ELSE "up"]
  /\ UNCHANGED <<copy, docker, log, caller, races>>
RollbackPointsOfTags == SavePoints(image)
RollbackPoints == SavePoints(running)

\* `compose build` works on the copy as it is now, and may rewrite some of the
\* tags before it fails.
Rebuild(services) ==
  image' = [s \in Services |-> IF s \in services THEN Built(s, head, op.commit) ELSE image[s]]
Build ==
  /\ op.pc = "build"
  /\ \/ /\ Rebuild(op.build)
        /\ op' = [op EXCEPT !.pc = "up"]
        /\ UNCHANGED <<log, mishaps>>
     \/ /\ Mishap
        /\ \E built \in SUBSET op.build : Rebuild(built)
        /\ Failed(FALSE) /\ op' = NoOp
  /\ UNCHANGED <<copy, running, defined, caller, races>>

\* `up -d --no-deps`: containers of these services, with the tags as they are.
Recreate(services) ==
  /\ running' = [s \in Services |-> IF s \in services
                                      THEN IF s \in App THEN image[s] ELSE Built(s, head, 0)
                                      ELSE running[s]]
  /\ defined' = [s \in Services |-> IF s \in services THEN Definition[head][s] ELSE defined[s]]
AllHealthy(services) == \A s \in services : running'[s].source \notin Unhealthy

Up ==
  /\ op.pc = "up"
  /\ \/ /\ Recreate(op.targets)
        /\ AllHealthy(op.targets) /\ UNCHANGED mishaps
        /\ op' = [op EXCEPT !.pc = "restart"]
        /\ UNCHANGED log
     \/ /\ \E reached \in SUBSET op.targets :
             /\ Recreate(reached)
             /\ IF AllHealthy(reached) THEN Mishap ELSE UNCHANGED mishaps
        /\ IF op.migrations \/ DOMAIN op.points = {}
             THEN Failed(FALSE) /\ op' = NoOp
             ELSE op' = [op EXCEPT !.pc = "retag"] /\ UNCHANGED log
  /\ UNCHANGED <<copy, image, caller, races>>

\* `docker tag` of each saved image, whose result nobody looks at.
PutBack(services) ==
  image' = [s \in Services |-> IF s \in services THEN op.points[s] ELSE image[s]]
Retag ==
  /\ op.pc = "retag"
  /\ \E back \in SUBSET DOMAIN op.points :
       /\ IF back = DOMAIN op.points THEN UNCHANGED mishaps ELSE Mishap
       /\ PutBack(back)
       /\ op' = [op EXCEPT !.back = back, !.pc = "rollback"]
  /\ UNCHANGED <<copy, running, defined, log, caller, races>>

Rollback ==
  /\ op.pc = "rollback"
  /\ \/ /\ Recreate(DOMAIN op.points) /\ AllHealthy(DOMAIN op.points)
        /\ Failed(TRUE) /\ UNCHANGED mishaps
     \/ /\ \E reached \in SUBSET DOMAIN op.points :
             /\ Recreate(reached)
             /\ IF AllHealthy(reached) THEN Mishap ELSE UNCHANGED mishaps
        /\ Failed(FALSE)
  /\ op' = NoOp
  /\ UNCHANGED <<copy, image, caller, races>>

\* `compose restart`: the container reads its files again, its definition stays.
Reload(services) == running' = [s \in Services |-> IF s \in services THEN Built(s, head, 0) ELSE running[s]]
Restart ==
  /\ op.pc = "restart"
  /\ \/ /\ Reload(op.restarts)
        /\ Updated(op.commit)
        /\ UNCHANGED mishaps
     \/ /\ op.restarts # {} /\ Mishap
        /\ Failed(FALSE)
        /\ \E reached \in SUBSET op.restarts : Reload(reached)
  /\ op' = NoOp
  /\ UNCHANGED <<copy, image, defined, caller, races>>

\* baseline(): HEAD is recorded as deployed, whatever runs.
Baseline ==
  /\ Idle /\ Guarded
  /\ Updated(head)
  /\ UNCHANGED <<copy, docker, caller, op, mishaps, races>>

\* The process is killed: docker has done some of what it was asked to.
Killed ==
  /\ ~Idle /\ Mishap
  /\ op' = NoOp
  /\ \/ op.pc = "points" /\ UNCHANGED docker
     \/ /\ op.pc = "build" /\ UNCHANGED <<running, defined>>
        /\ \E built \in SUBSET op.build : Rebuild(built)
     \/ /\ op.pc = "up" /\ UNCHANGED image
        /\ \E reached \in SUBSET op.targets : Recreate(reached)
     \/ /\ op.pc = "retag" /\ UNCHANGED <<running, defined>>
        /\ \E back \in SUBSET DOMAIN op.points : PutBack(back)
     \/ /\ op.pc = "rollback" /\ UNCHANGED image
        /\ \E reached \in SUBSET DOMAIN op.points : Recreate(reached)
     \/ /\ op.pc = "restart" /\ UNCHANGED <<image, defined>>
        /\ \E reached \in SUBSET op.restarts : Reload(reached)
  /\ UNCHANGED <<copy, log, caller, races>>

Next ==
  \/ Merge \/ SyncDevelop
  \/ \E u \in Callers : ReadLog(u) \/ LockTaken(u) \/ Start(u)
  \/ RollbackPoints \/ Build \/ Up \/ Retag \/ Rollback \/ Restart
  \/ Baseline \/ Killed

Spec == Init /\ [][Next]_vars
----
TypeOK ==
  /\ origin \in Commits /\ head \in 1..origin
  /\ {image, running} \subseteq [Services -> [source : Nat, revision : 0..MaxCommit]]
  /\ defined \in [Services -> Nat]
  /\ log \in [type : {"none", "updated", "failed"}, rolledBack : BOOLEAN, deployed : 0..MaxCommit]
  /\ caller \in [Callers -> [pc : {"idle", "read"}, rows : 0..MaxCommit]]
  /\ op.pc \in {"idle", "points", "build", "up", "retag", "rollback", "restart"}
  /\ mishaps \in 0..MaxMishap /\ races \in 0..MaxRace

\* What the log calls deployed is what runs: an update recorded at the commit the
\* copy stands on leaves every service as that commit makes it, source and definition,
\* but for those it does not answer for.  Builds, restarts, recreations for a changed
\* definition and services left alone have to make up the difference between them.
UpdatedIsDeployed ==
  [][Restart /\ log'.type = "updated" /\ head = op.commit =>
       \A s \in Services \ op.astray :
         running'[s].source = Source[head][s] /\ defined'[s] = Definition[head][s]]_vars

\* CA15, for the services whose image was saved and tagged again: an update that says
\* it was rolled back left them on what they ran before it, tag and container, healthy.
RolledBackIsBefore ==
  [][log'.rolledBack /\ Rollback =>
       \A s \in op.back : running'[s] = op.before[s] /\ image'[s] = op.before[s] /\ running'[s].source \notin Unhealthy]_vars
====
