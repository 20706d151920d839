--------------------------- MODULE SquadPartsProofs ---------------------------
(***************************************************************************)
(* Proofs about the parts of SquadParts, for every value of their          *)
(* constants:                                                              *)
(*   the production update, every set of services and callers and every    *)
(*   history of commits (prod.py);                                         *)
(*   the intake of demands and bugs, every number of requests, threads and *)
(*   tasks older than their codes (server.py, product.py, bugs.py,         *)
(*   triage.py, log.py);                                                   *)
(*   the mirror on GitHub, every set of agents and gates, every log found  *)
(*   and any number of events, failing calls and restarts                  *)
(*   (github_sync.py).                                                     *)
(***************************************************************************)
EXTENDS SquadParts, FiniteSetFacts

-----------------------------------------------------------------------------
(* The production update.                                                  *)

OpRow ==
  /\ prodOp \in [pc : {"points", "build", "up", "retag", "rollback", "restart"}, commit : Nat,
                 build : SUBSET App, targets : SUBSET Production!Services, restarts : SUBSET Infra,
                 migrations : BOOLEAN, points : {prodOp.points}, back : SUBSET App, before : {prodOp.before},
                 astray : SUBSET Production!Services]
  /\ prodOp.build \subseteq prodOp.targets

Answered == Production!Services \ prodOp.astray

\* Until the targets are brought up, each service the update answers for is built, or is
\* as its commit makes it but for what will be brought up or restarted.
Planned ==
  prodOp.pc \in {"points", "build", "up"} =>
    \A s \in Answered \ prodOp.build :
      /\ s \in App => running[s].source = Source[prodOp.commit][s] /\ image[s].source = Source[prodOp.commit][s]
      /\ s \notin prodOp.targets \cup prodOp.restarts => running[s].source = Source[prodOp.commit][s]
      /\ s \notin prodOp.targets => defined[s] = Definition[prodOp.commit][s]

\* What was built, and then what runs, is of the commit, unless HEAD has moved.
OfTheCommit ==
  head = prodOp.commit =>
    /\ prodOp.pc = "up" => \A s \in prodOp.build : image[s].source = Source[head][s]
    /\ prodOp.pc = "restart" =>
         \A s \in Answered :
           /\ defined[s] = Definition[head][s]
           /\ s \in prodOp.restarts \/ running[s].source = Source[head][s]

\* The images to go back to are of what ran before the update.
WayBack ==
  /\ prodOp.pc = "points" => prodOp.before = running
  /\ prodOp.pc \in {"build", "up", "retag", "rollback"} =>
       /\ DOMAIN prodOp.points \subseteq prodOp.build
       /\ \A s \in DOMAIN prodOp.points : prodOp.points[s] = prodOp.before[s]
  /\ prodOp.pc = "rollback" =>
       /\ prodOp.back \subseteq DOMAIN prodOp.points
       /\ \A s \in prodOp.back : image[s] = prodOp.before[s]

ProdRow ==
  prodLog \in [type : {"none", "updated", "failed"}, rolledBack : BOOLEAN, deployed : {prodLog.deployed}]

UpdateInv ==
  /\ origin \in Nat /\ head \in Nat
  /\ Production!Idle \/ (OpRow /\ prodOp.commit <= head /\ Planned /\ OfTheCommit /\ WayBack)

LEMMA AppIsNotInfra == App \cap Infra = {} /\ Production!Services = App \cup Infra
BY PartAssumptions DEF Production!ProductionAssumption, Production!Services

-----------------------------------------------------------------------------
(* The steps of an update.                                                 *)

\* A step that ends an update, or leaves it and the copy alone.
LEMMA EndKeeps ==
  ASSUME UpdateInv, prodOp' = Production!NoOp, UNCHANGED Production!copy PROVE UpdateInv'
BY DEF UpdateInv, Production!Idle, Production!NoOp, Production!copy

LEMMA AsideKeeps ==
  ASSUME UpdateInv, origin' \in Nat, UNCHANGED <<head, Production!docker, prodOp>> PROVE UpdateInv'
BY DEF UpdateInv, Production!Idle, Production!docker, OpRow, Answered, Planned, OfTheCommit, WayBack

\* The plan leaves alone what it need not change: a service is astray, or built, or
\* else what the commit it starts from made, which differs from what HEAD makes of it
\* only where the plan says so.
LEMMA PlanCovers ==
  ASSUME NEW from, NEW shown \in BOOLEAN, NEW s \in Production!Services,
         s \notin Production!Plan(from, head).build, s \notin Production!Astray(from, Production!Plan(from, head).build, shown)
  PROVE  /\ s \in App => running[s].source = Source[head][s] /\ image[s].source = Source[head][s]
         /\ s \notin Production!Plan(from, head).restart => running[s].source = Source[head][s]
         /\ ~shown \/ s \notin Production!Plan(from, head).recreate => defined[s] = Definition[head][s]
<1> DEFINE base == IF from = 0 THEN head ELSE from
<1>1. /\ running[s].source = Source[base][s] /\ defined[s] = Definition[base][s]
      /\ s \in App => image[s].source = Source[base][s]
      /\ s \notin Unseen[base][head]
      /\ shown \/ Definition[base][s] = Definition[head][s]
  BY DEF Production!Astray, Production!AsMade
<1>2. CASE from = 0
  BY <1>1, <1>2 DEF Production!Plan
<1>3. CASE from # 0
  <2>1. base = from
    BY <1>3
  <2>2. /\ Production!Plan(from, head).build = Production!Differs(from, head) \cap App
        /\ Production!Plan(from, head).restart = Production!Differs(from, head) \cap Infra
        /\ Production!Plan(from, head).recreate = {t \in Production!Services : Definition[from][t] # Definition[head][t]}
    BY <1>3 DEF Production!Plan
  <2>3. Source[from][s] # Source[head][s] => s \in Production!Differs(from, head)
    BY <1>1, <2>1 DEF Production!Differs
  <2> QED
    BY <1>1, <2>1, <2>2, <2>3, AppIsNotInfra
<1> QED
  BY <1>2, <1>3

LEMMA StartKeeps ==
  ASSUME UpdateInv, NEW u \in Callers, Production!Start(u) PROVE UpdateInv'
<1>1. UNCHANGED <<origin, head, image, running, defined>> /\ Production!Idle
  BY DEF Production!Start, Production!copy, Production!docker
<1>2. CASE UNCHANGED prodOp
  BY <1>1, <1>2, AsideKeeps DEF UpdateInv, Production!docker
<1>3. ASSUME NEW from, NEW shown \in BOOLEAN, prodOp' = Production!Planned(from, shown) PROVE UpdateInv'
  <2> DEFINE plan == Production!Plan(from, head)
             targets == plan.build \cup (IF shown THEN plan.recreate ELSE {})
             restarts == plan.restart \ targets
  <2>0. prodOp' = [pc |-> IF targets \cup restarts = {} THEN "restart" ELSE "points",
                   commit |-> head, build |-> plan.build, targets |-> targets, restarts |-> restarts,
                   migrations |-> plan.migrations, points |-> Production!NoTags, back |-> {},
                   before |-> running, astray |-> Production!Astray(from, plan.build, shown)]
    BY <1>3, Zenon DEF Production!Planned
  <2>1. /\ plan.build \subseteq App /\ plan.restart \subseteq Infra /\ plan.recreate \subseteq Production!Services
        /\ plan.migrations \in BOOLEAN
    BY <2>0, AppIsNotInfra DEF Production!Plan
  <2>2. /\ prodOp'.pc = (IF targets \cup restarts = {} THEN "restart" ELSE "points") /\ prodOp'.commit = head
        /\ prodOp'.build = plan.build /\ prodOp'.targets = targets /\ prodOp'.restarts = restarts
        /\ prodOp'.migrations = plan.migrations /\ prodOp'.back = {} /\ prodOp'.before = running
        /\ prodOp'.astray = Production!Astray(from, plan.build, shown)
    BY <2>0
  <2>3. head \in Nat /\ Production!Astray(from, plan.build, shown) \subseteq Production!Services
    BY DEF UpdateInv, Production!Astray
  <2>4. OpRow'
    BY <2>0, <2>1, <2>2, <2>3, AppIsNotInfra DEF OpRow
  <2>5. ASSUME NEW s \in Answered', s \notin plan.build
        PROVE  /\ s \in App => running[s].source = Source[head][s] /\ image[s].source = Source[head][s]
               /\ s \notin targets \cup restarts => running[s].source = Source[head][s]
               /\ s \notin targets => defined[s] = Definition[head][s]
    <3>1. s \in Production!Services /\ s \notin Production!Astray(from, plan.build, shown)
      BY <2>2, <2>5 DEF Answered
    <3>2. /\ s \in App => running[s].source = Source[head][s] /\ image[s].source = Source[head][s]
          /\ s \notin plan.restart => running[s].source = Source[head][s]
          /\ ~shown \/ s \notin plan.recreate => defined[s] = Definition[head][s]
      BY <2>0, <2>5, <3>1, PlanCovers
    <3> QED
      BY <2>0, <2>5, <3>2
  <2>6. Planned'
    BY <1>1, <2>2, <2>5 DEF Planned
  <2>7. OfTheCommit'
    <3>1. prodOp'.pc = "restart" => targets = {} /\ restarts = {} /\ plan.build = {}
      BY <2>0, <2>2
    <3> QED
      BY <1>1, <2>2, <2>5, <3>1 DEF OfTheCommit
  <2>8. WayBack'
    BY <1>1, <2>2 DEF WayBack
  <2> QED
    BY <1>1, <2>2, <2>3, <2>4, <2>6, <2>7, <2>8 DEF UpdateInv
<1> QED
  BY <1>2, <1>3 DEF Production!Start

\* What a step that goes on keeps of the update.
Same(pc) ==
  /\ prodOp'.pc = pc /\ prodOp'.commit = prodOp.commit /\ prodOp'.build = prodOp.build
  /\ prodOp'.targets = prodOp.targets /\ prodOp'.restarts = prodOp.restarts
  /\ prodOp'.before = prodOp.before /\ prodOp'.astray = prodOp.astray

LEMMA Underway ==
  ASSUME UpdateInv, prodOp.pc # "idle"
  PROVE  OpRow /\ prodOp.commit <= head /\ Planned /\ OfTheCommit /\ WayBack /\ origin \in Nat /\ head \in Nat
BY DEF UpdateInv, Production!Idle

LEMMA RollbackPointsKeeps == ASSUME UpdateInv, Production!RollbackPoints PROVE UpdateInv'
<1>1. prodOp.pc = "points" /\ UNCHANGED <<origin, head, image, running, defined>>
  BY DEF Production!RollbackPoints, Production!SavePoints, Production!copy, Production!docker
<1>2. OpRow /\ prodOp.commit <= head /\ Planned /\ WayBack /\ origin \in Nat /\ head \in Nat
  BY <1>1, Underway
<1>3. PICK tagged \in SUBSET prodOp.build :
        prodOp' = [prodOp EXCEPT !.points = [s \in tagged |-> running[s]],
                                 !.pc = IF prodOp.build # {} THEN "build" ELSE "up"]
  BY DEF Production!RollbackPoints, Production!SavePoints
<1>4. PICK pc \in {"build", "up"} : Same(pc) /\ (pc = "up" => prodOp.build = {})
  BY <1>2, <1>3 DEF OpRow, Same
<1>5. OpRow' /\ prodOp'.points = [s \in tagged |-> running[s]]
  BY <1>2, <1>3 DEF OpRow
<1>6. Planned'
  BY <1>1, <1>2, <1>4 DEF Planned, Same, Answered
<1>7. OfTheCommit'
  BY <1>4 DEF OfTheCommit, Same
<1>8. WayBack'
  BY <1>1, <1>2, <1>3, <1>4, <1>5 DEF WayBack, Same
<1> QED
  BY <1>1, <1>2, <1>4, <1>5, <1>6, <1>7, <1>8 DEF UpdateInv, Same

LEMMA BuildKeeps == ASSUME UpdateInv, Production!Build PROVE UpdateInv'
<1>1. prodOp.pc = "build" /\ UNCHANGED <<origin, head, running, defined>>
  BY DEF Production!Build, Production!copy
<1>2. OpRow /\ prodOp.commit <= head /\ Planned /\ WayBack /\ origin \in Nat /\ head \in Nat
  BY <1>1, Underway
<1>3. CASE Production!Rebuild(prodOp.build) /\ prodOp' = [prodOp EXCEPT !.pc = "up"]
  <2>1. Same("up") /\ OpRow' /\ prodOp'.points = prodOp.points
    BY <1>2, <1>3 DEF OpRow, Same
  <2>2. /\ \A s \in prodOp.build : image'[s].source = Source[head][s]
        /\ \A s \in Production!Services \ prodOp.build : image'[s] = image[s]
    BY <1>2, <1>3, AppIsNotInfra DEF Production!Rebuild, Production!Built, OpRow
  <2>3. Planned'
    BY <1>1, <1>2, <2>1, <2>2 DEF Planned, Same, Answered
  <2>4. OfTheCommit' /\ WayBack'
    BY <1>1, <1>2, <2>1, <2>2 DEF OfTheCommit, WayBack, Same
  <2> QED
    BY <1>1, <1>2, <2>1, <2>3, <2>4 DEF UpdateInv, Same
<1>4. CASE prodOp' = Production!NoOp
  BY <1>1, <1>4, EndKeeps DEF Production!copy
<1> QED
  BY <1>3, <1>4 DEF Production!Build

LEMMA Recreated ==
  ASSUME NEW S \in SUBSET Production!Services, Production!Recreate(S)
  PROVE  /\ \A s \in Production!Services \ S : running'[s] = running[s] /\ defined'[s] = defined[s]
         /\ \A s \in S : /\ defined'[s] = Definition[head][s]
                         /\ s \in App => running'[s] = image[s]
                         /\ s \notin App => running'[s].source = Source[head][s]
BY DEF Production!Recreate, Production!Built

LEMMA UpKeeps == ASSUME UpdateInv, Production!Up PROVE UpdateInv'
<1>1. prodOp.pc = "up" /\ UNCHANGED <<origin, head, image>>
  BY DEF Production!Up, Production!copy
<1>2. OpRow /\ prodOp.commit <= head /\ Planned /\ OfTheCommit /\ WayBack /\ origin \in Nat /\ head \in Nat
  BY <1>1, Underway
<1>3. CASE Production!Recreate(prodOp.targets) /\ prodOp' = [prodOp EXCEPT !.pc = "restart"]
  <2>1. Same("restart") /\ OpRow' /\ prodOp.targets \subseteq Production!Services /\ prodOp.build \subseteq prodOp.targets
    BY <1>2, <1>3 DEF OpRow, Same
  <2>2. ASSUME head = prodOp.commit, NEW s \in Answered
        PROVE  defined'[s] = Definition[head][s] /\ (s \in prodOp.restarts \/ running'[s].source = Source[head][s])
    <3>1. s \in Production!Services
      BY <2>2 DEF Answered
    <3>2. CASE s \notin prodOp.targets
      BY <1>1, <1>2, <1>3, <2>1, <2>2, <3>1, <3>2, Recreated DEF Planned
    <3>3. CASE s \in prodOp.targets /\ s \notin App
      BY <1>3, <2>1, <3>3, Recreated
    <3>4. CASE s \in prodOp.targets /\ s \in App
      <4>1. image[s].source = Source[head][s]
        BY <1>1, <1>2, <2>2, <3>4 DEF Planned, OfTheCommit
      <4> QED
        BY <1>3, <2>1, <3>4, <4>1, Recreated
    <3> QED
      BY <3>2, <3>3, <3>4
  <2>3. OfTheCommit'
    BY <1>1, <2>1, <2>2 DEF OfTheCommit, Same, Answered
  <2>4. Planned' /\ WayBack'
    BY <2>1 DEF Planned, WayBack, Same
  <2> QED
    BY <1>1, <1>2, <2>1, <2>3, <2>4 DEF UpdateInv, Same
<1>4. CASE prodOp' = Production!NoOp
  BY <1>1, <1>4, EndKeeps DEF Production!copy
<1>5. CASE prodOp' = [prodOp EXCEPT !.pc = "retag"]
  <2>1. Same("retag") /\ OpRow' /\ prodOp'.points = prodOp.points
    BY <1>2, <1>5 DEF OpRow, Same
  <2>2. Planned' /\ OfTheCommit' /\ WayBack'
    BY <1>1, <1>2, <2>1 DEF Planned, OfTheCommit, WayBack, Same
  <2> QED
    BY <1>1, <1>2, <2>1, <2>2 DEF UpdateInv, Same
<1> QED
  BY <1>3, <1>4, <1>5 DEF Production!Up

LEMMA RetagKeeps == ASSUME UpdateInv, Production!Retag PROVE UpdateInv'
<1>1. prodOp.pc = "retag" /\ UNCHANGED <<origin, head>>
  BY DEF Production!Retag, Production!copy
<1>2. OpRow /\ prodOp.commit <= head /\ WayBack /\ origin \in Nat /\ head \in Nat
  BY <1>1, Underway
<1>3. PICK back \in SUBSET DOMAIN prodOp.points :
        Production!PutBack(back) /\ prodOp' = [prodOp EXCEPT !.back = back, !.pc = "rollback"]
  BY DEF Production!Retag
<1>4. DOMAIN prodOp.points \subseteq prodOp.build /\ prodOp.build \subseteq App /\ prodOp.build \subseteq Production!Services
  BY <1>1, <1>2, AppIsNotInfra DEF WayBack, OpRow
<1>5. Same("rollback") /\ OpRow' /\ prodOp'.points = prodOp.points /\ prodOp'.back = back
  BY <1>2, <1>3, <1>4 DEF OpRow, Same
<1>6. \A s \in back : image'[s] = prodOp.points[s]
  BY <1>3, <1>4 DEF Production!PutBack
<1>7. Planned' /\ OfTheCommit'
  BY <1>5 DEF Planned, OfTheCommit, Same
<1>8. WayBack'
  BY <1>1, <1>2, <1>3, <1>5, <1>6 DEF WayBack, Same
<1> QED
  BY <1>1, <1>2, <1>5, <1>7, <1>8 DEF UpdateInv, Same

\* A pull of the main copy while an update runs moves HEAD past its commit.
LEMMA SyncDevelopKeeps == ASSUME UpdateInv, Production!SyncDevelop PROVE UpdateInv'
<1>1. head' \in Nat /\ origin' \in Nat /\ head < head' /\ UNCHANGED <<image, running, defined, prodOp>> /\ head \in Nat
  BY DEF UpdateInv, Production!SyncDevelop, Production!docker
<1>2. CASE Production!Idle
  BY <1>1, <1>2 DEF UpdateInv, Production!Idle
<1>3. CASE prodOp.pc # "idle"
  <2>1. OpRow /\ prodOp.commit <= head /\ Planned /\ WayBack
    BY <1>3, Underway
  <2>2. prodOp'.commit <= head' /\ head' # prodOp'.commit
    BY <1>1, <2>1 DEF OpRow
  <2>3. OpRow' /\ Planned' /\ WayBack'
    BY <1>1, <2>1 DEF OpRow, Planned, WayBack, Answered
  <2> QED
    BY <1>1, <2>2, <2>3 DEF UpdateInv, OfTheCommit
<1> QED
  BY <1>2, <1>3 DEF Production!Idle

-----------------------------------------------------------------------------
LEMMA UpdateInvStep == ASSUME UpdateInv, [Production!Next]_(Production!vars) PROVE UpdateInv'
<1>0. origin \in Nat
  BY DEF UpdateInv
<1>1. CASE Production!Merge
  BY <1>0, <1>1, AsideKeeps DEF Production!Merge
<1>2. ASSUME NEW u \in Callers, Production!ReadLog(u) \/ Production!LockTaken(u) PROVE UpdateInv'
  BY <1>0, <1>2, AsideKeeps DEF Production!ReadLog, Production!LockTaken, Production!copy
<1>3. CASE Production!Rollback \/ Production!Restart \/ Production!Killed
  BY <1>3, EndKeeps DEF Production!Rollback, Production!Restart, Production!Killed
<1>4. CASE Production!Baseline
  BY <1>0, <1>4, AsideKeeps DEF Production!Baseline, Production!copy
<1>5. CASE UNCHANGED Production!vars
  BY <1>0, <1>5, AsideKeeps DEF Production!vars, Production!copy
<1> QED
  BY <1>1, <1>2, <1>3, <1>4, <1>5, SyncDevelopKeeps, StartKeeps, RollbackPointsKeeps, BuildKeeps, UpKeeps, RetagKeeps
     DEF Production!Next

LEMMA ProdRowStep == ASSUME ProdRow, [Production!Next]_(Production!vars) PROVE ProdRow'
<1>1. ASSUME NEW rolled \in BOOLEAN, Production!Failed(rolled) PROVE ProdRow'
  BY <1>1 DEF ProdRow, Production!Failed
<1>2. ASSUME NEW c, Production!Updated(c) PROVE ProdRow'
  BY <1>2 DEF ProdRow, Production!Updated
<1>3. CASE UNCHANGED prodLog
  BY <1>3 DEF ProdRow
<1> QED
  BY <1>1, <1>2, <1>3 DEF Production!Next, Production!vars, Production!Merge, Production!SyncDevelop, Production!ReadLog,
     Production!LockTaken, Production!Start, Production!RollbackPoints, Production!SavePoints, Production!Build, Production!Up,
     Production!Retag, Production!Rollback, Production!Restart, Production!Baseline, Production!Killed

LEMMA UpdateInvAlways == Production!Spec => [](UpdateInv /\ ProdRow)
<1>1. Production!Init => UpdateInv /\ ProdRow
  BY DEF Production!Init, UpdateInv, Production!NoOp, Production!Idle, ProdRow, Production!NoEvent
<1>2. UpdateInv /\ ProdRow /\ [Production!Next]_(Production!vars) => (UpdateInv /\ ProdRow)'
  BY UpdateInvStep, ProdRowStep
<1> QED
  BY <1>1, <1>2, PTL DEF Production!Spec

\* For every history of commits, whatever the plan does not see, and whatever fails,
\* dies or races: an update of prod.py recorded at the commit the copy stands on leaves
\* every service it answers for as that commit makes it.
THEOREM DeployedIsRunning == Production!Spec => Production!UpdatedIsDeployed
<1>1. ASSUME UpdateInv, ProdRow, Production!Restart, prodLog'.type = "updated", head = prodOp.commit,
             NEW s \in Production!Services \ prodOp.astray
      PROVE  running'[s].source = Source[head][s] /\ defined'[s] = Definition[head][s]
  <2>1. prodOp.pc = "restart" /\ UNCHANGED defined
    BY <1>1 DEF Production!Restart
  <2>2. OfTheCommit
    BY <1>1, <2>1, Underway
  <2>3. /\ defined[s] = Definition[head][s]
        /\ s \in prodOp.restarts \/ running[s].source = Source[head][s]
    BY <1>1, <2>1, <2>2 DEF OfTheCommit, Answered
  <2>4. CASE Production!Reload(prodOp.restarts)
    BY <2>1, <2>3, <2>4, <1>1 DEF Production!Reload, Production!Built
  <2>5. CASE Production!Failed(FALSE)
    <3>1. prodLog' = [prodLog EXCEPT !.type = "failed", !.rolledBack = FALSE]
      BY <2>5 DEF Production!Failed
    <3> QED
      BY <1>1, <3>1 DEF ProdRow
  <2> QED
    BY <1>1, <2>4, <2>5 DEF Production!Restart
<1>2. UpdateInv /\ ProdRow =>
        [Production!Restart /\ prodLog'.type = "updated" /\ head = prodOp.commit =>
           \A s \in Production!Services \ prodOp.astray :
             running'[s].source = Source[head][s] /\ defined'[s] = Definition[head][s]]_(Production!vars)
  BY <1>1
<1> QED
  BY <1>2, UpdateInvAlways, PTL DEF Production!UpdatedIsDeployed

\* An update that says it was rolled back left the services it tagged and tagged again
\* on the image that ran before it (rollback_points, then `up` of the tagged tags).
THEOREM RollbackRestores == Production!Spec => Production!RolledBackIsBefore
<1>1. ASSUME UpdateInv, ProdRow, prodLog'.rolledBack, Production!Rollback, NEW s \in prodOp.back
      PROVE  running'[s] = prodOp.before[s] /\ image'[s] = prodOp.before[s] /\ running'[s].source \notin Unhealthy
  <2>1. prodOp.pc = "rollback" /\ UNCHANGED image
    BY <1>1 DEF Production!Rollback
  <2>2. OpRow /\ WayBack
    BY <1>1, <2>1, Underway
  <2>3. /\ s \in DOMAIN prodOp.points /\ image[s] = prodOp.before[s]
        /\ DOMAIN prodOp.points \subseteq App /\ DOMAIN prodOp.points \in SUBSET Production!Services
    BY <1>1, <2>1, <2>2, AppIsNotInfra DEF WayBack, OpRow
  <2>4. Production!Recreate(DOMAIN prodOp.points) /\ Production!AllHealthy(DOMAIN prodOp.points)
    <3>1. ~Production!Failed(FALSE)
      BY <1>1 DEF Production!Failed, ProdRow
    <3> QED
      BY <1>1, <3>1, Zenon DEF Production!Rollback
  <2>5. running'[s] = image[s]
    BY <2>3, <2>4, Recreated
  <2> QED
    BY <2>1, <2>3, <2>4, <2>5 DEF Production!AllHealthy
<1>2. UpdateInv /\ ProdRow =>
        [prodLog'.rolledBack /\ Production!Rollback =>
           \A s \in prodOp.back : running'[s] = prodOp.before[s] /\ image'[s] = prodOp.before[s] /\ running'[s].source \notin Unhealthy]_(Production!vars)
  BY <1>1
<1> QED
  BY <1>2, UpdateInvAlways, PTL DEF Production!RolledBackIsBefore

-----------------------------------------------------------------------------
(* Intake: the log, its requests, codes and bugs.                          *)

\* The lines of a log that can be parsed, and those of a type.
ReadOf(s) == {i \in DOMAIN s : ~s[i].torn}
OfType(s, type) == {i \in ReadOf(s) : s[i].type = type}
Later(s) == {i \in OfType(s, "task") : i > Legacy}

\* A validation answered, and every question of it, before place n.
ReadyBefore(s, d, n) ==
  \E v \in OfType(s, "validation") :
    /\ s[v].demand = d /\ v < n
    /\ s[v].ok \/ \E c \in OfType(s, "clarification") : v < c /\ c < n /\ s[c].code = s[v].code

\* What the log holds when the newest demand has the id n: the legacy tasks, then
\* tasks each with a demand of its own and a higher code.
TasksInv(s, n) ==
  /\ IsSequence(s) /\ Legacy <= Len(s) /\ \A i \in 1..Legacy : s[i] = Intake!Row("task", i)
  /\ \A i \in Later(s) : s[i].demand \in (Legacy + 1)..n /\ s[i].code \in Nat /\ s[i].code > Legacy
  /\ \A i, j \in Later(s) : i < j => s[i].code < s[j].code /\ s[i].demand # s[j].demand
StartsInv(s) ==
  /\ \A i \in OfType(s, "validation") : s[i].code = i
  /\ \A i \in OfType(s, "clarification") : s[i].code \in Nat /\ s[i].code < i
  /\ \A i \in OfType(s, "start") : ~s[i].ok => ReadyBefore(s, s[i].demand, i)

\* Requests.
Stages == [task |-> {"append", "write"}, bug |-> {"verified", "files", "append", "write"},
           evidence |-> {"verified", "files", "log"}, start |-> {"append", "inbox"}, triage |-> {"reading"},
           idle |-> {"idle"}, clarification |-> {"append"}, edit |-> {"append"}, pause |-> {"append"},
           cancel |-> {"append"}, validation |-> {"append"}]
IsRequest(r) ==
  /\ DOMAIN r = {"do", "pc", "d", "draft", "top", "mark", "ok"}
  /\ r.do \in DOMAIN Stages /\ r.pc \in Stages[r.do] /\ {r.d, r.draft, r.top, r.mark} \subseteq Nat /\ r.ok \in BOOLEAN
NewestDemand == Legacy + asked
ReqInv ==
  /\ req = [t \in Threads |-> req[t]] /\ asked \in Nat
  /\ \A t \in Threads : IsRequest(req[t]) /\ req[t].d <= NewestDemand

Creating(t) == req[t].do \in {"task", "bug"}
FreshInv ==
  /\ \A t \in Threads : Creating(t) =>
       /\ req[t].d > Legacy /\ req[t].d \notin DOMAIN told /\ \A i \in Later(rows) : rows[i].demand # req[t].d
  /\ \A t, u \in Threads : t # u /\ Creating(t) /\ Creating(u) => req[t].d # req[u].d
CodesInv ==
  /\ \A t \in Threads : Creating(t) /\ req[t].pc = "write" =>
       codesLock = t /\ req[t].top >= Legacy /\ \A i \in Later(rows) : rows[i].code <= req[t].top
  /\ \A d \in DOMAIN told : d \in (Legacy + 1)..NewestDemand /\ \A i \in Later(rows) : rows[i].demand = d => rows[i].code = told[d]

WaitingInv ==
  \A t \in Threads :
    /\ req[t].do = "clarification" => req[t].top <= Len(rows)
    /\ req[t].do = "start" /\ req[t].pc = "append" /\ ~req[t].ok => ReadyBefore(rows, req[t].d, Len(rows) + 1)

\* Bugs: whoever is past its verification holds the lock.
Holds(t) == req[t].do \in {"bug", "evidence"} /\ req[t].pc # "verified"
Indexed(d) == \E i \in DOMAIN index : index[i] = d
EvidenceOf(s, d) == {i \in OfType(s, "bug-evidence") : s[i].demand = d}
Logging(d) == \E t \in Threads : req[t].do = "evidence" /\ req[t].pc = "log" /\ req[t].d = d
BugReqInv ==
  \A t \in Threads :
    /\ Holds(t) => bugsLock = t
    /\ req[t].do \in {"bug", "evidence"} => req[t].draft \in 1..drafted
    /\ req[t].do = "bug" => req[t].d \notin DOMAIN fromDraft
    /\ req[t].do = "bug" /\ Holds(t) => \A d \in DOMAIN fromDraft : fromDraft[d] # req[t].draft
    /\ req[t].do = "bug" /\ req[t].pc \in {"verified", "files"} =>
         req[t].d \notin DOMAIN folders /\ ~Indexed(req[t].d) /\ EvidenceOf(rows, req[t].d) = {}
    /\ req[t].do = "bug" /\ req[t].pc \in {"append", "write"} =>
         /\ req[t].d \in DOMAIN folders /\ Len(index) = req[t].mark + 1
         /\ \A i \in DOMAIN index : index[i] = req[t].d <=> i = Len(index)
    /\ req[t].do = "evidence" /\ req[t].pc = "log" => req[t].d \in DOMAIN folders
DraftsInv ==
  /\ drafted \in Nat /\ drafts \subseteq 1..drafted
  /\ \A d \in DOMAIN fromDraft : fromDraft[d] \in (1..drafted) \ drafts
  /\ \A d, e \in DOMAIN fromDraft : fromDraft[d] = fromDraft[e] => d = e
FoldersInv ==
  /\ IsSequence(index)
  /\ \A d \in DOMAIN fromDraft : d \in DOMAIN folders /\ Indexed(d)
  /\ \A d : d \in DOMAIN folders \/ Indexed(d) => Intake!InFlight(d) \/ d \in DOMAIN fromDraft \cup cut
  /\ \A d : d \in DOMAIN folders \/ Indexed(d) \/ EvidenceOf(rows, d) # {} => d \in Nat /\ d <= NewestDemand
EvidenceInv ==
  \A d \in DOMAIN folders :
    \E m \in Nat \ {0} :
      /\ folders[d] = 1..m
      /\ d \notin cut => Cardinality(EvidenceOf(rows, d)) < IF Logging(d) THEN m - 1 ELSE m

-----------------------------------------------------------------------------
(* The codes of product._compute, in closed form.                          *)

\* The code of the human task at place n, and of the demand d.
CodeAt(n) == IF n <= Legacy THEN n ELSE rows[n].code
CodeOf(d) == CodeAt(CHOOSE m \in Intake!HumanTasks : rows[m].demand = d)
Upto(S, n) == {k \in S : k <= n}
DemandsAt(S) == {rows[m].demand : m \in S}
CodesAt(S) == {CodeAt(m) : m \in S}

LEMMA UptoNext ==
  ASSUME NEW S, S \subseteq Nat, NEW n \in Nat \ {0}
  PROVE  Upto(S, n) = IF n \in S THEN Upto(S, n - 1) \cup {n} ELSE Upto(S, n - 1)
<1>1. \A k \in S : k <= n <=> (k <= n - 1 \/ k = n)
  OBVIOUS
<1> QED
  BY <1>1 DEF Upto

\* Human tasks are the legacy ones and the later ones, each of another demand, with
\* codes that ascend.
LEMMA TasksAre ==
  ASSUME NEW top \in Nat, TasksInv(rows, top)
  PROVE  /\ Legacy \in Nat /\ Until \in Nat /\ Until <= Legacy
         /\ Len(rows) \in Nat /\ Legacy <= Len(rows) /\ Intake!HumanTasks \subseteq 1..Len(rows)
         /\ Intake!HumanTasks = (1..Legacy) \cup Later(rows) /\ Later(rows) \cap (1..Legacy) = {}
         /\ \A n \in 1..Legacy : rows[n].demand = n /\ CodeAt(n) = n /\ rows[n].code = 0
         /\ \A n \in Later(rows) : rows[n].demand \in Nat /\ rows[n].demand > Legacy /\ CodeAt(n) = rows[n].code
         /\ \A n \in Intake!HumanTasks : CodeAt(n) \in Nat \ {0}
         /\ \A m, n \in Intake!HumanTasks : m < n => CodeAt(m) < CodeAt(n)
         /\ \A m, n \in Intake!HumanTasks : rows[m].demand = rows[n].demand => m = n
         /\ \A n \in Intake!HumanTasks : CodeOf(rows[n].demand) = CodeAt(n)
         /\ \A m \in Later(rows), d \in 1..Legacy : rows[m].demand # d /\ rows[m].code > d
<1>1. Legacy \in Nat /\ Until \in Nat /\ Until <= Legacy
  BY PartAssumptions DEF Intake!IntakeAssumption
<1>2. DOMAIN rows = 1..Len(rows) /\ Len(rows) \in Nat /\ Legacy <= Len(rows)
  BY DomainOf DEF TasksInv
<1>3. \A n \in 1..Legacy : n \in DOMAIN rows /\ rows[n] = Intake!Row("task", n)
  BY <1>1, <1>2 DEF TasksInv
<1>4. \A n \in 1..Legacy : /\ ~rows[n].torn /\ rows[n].type = "task" /\ rows[n].demand = n /\ rows[n].code = 0
                           /\ CodeAt(n) = n
  <2>1. \A n \in 1..Legacy : /\ rows[n].torn = FALSE /\ rows[n].type = "task" /\ rows[n].demand = n /\ rows[n].code = 0
    <3>1. \A n : LET e == Intake!Row("task", n) IN e.torn = FALSE /\ e.type = "task" /\ e.demand = n /\ e.code = 0
      BY DEF Intake!Row
    <3> QED
      BY <1>3, <3>1
  <2>2. \A n \in 1..Legacy : CodeAt(n) = n
    BY <1>1 DEF CodeAt
  <2> QED
    BY <2>1, <2>2
<1>5. Intake!HumanTasks = OfType(rows, "task")
  BY DEF Intake!HumanTasks, Intake!ReadRows, OfType, ReadOf
<1>6. Intake!HumanTasks \subseteq 1..Len(rows)
  BY <1>2, <1>5 DEF OfType, ReadOf
<1>7. Intake!HumanTasks = (1..Legacy) \cup Later(rows) /\ Later(rows) \cap (1..Legacy) = {}
  <2>1. 1..Legacy \subseteq OfType(rows, "task")
    BY <1>3, <1>4 DEF OfType, ReadOf
  <2>2. \A n \in OfType(rows, "task") : n \in 1..Legacy \/ n > Legacy
    BY <1>1, <1>5, <1>6
  <2> QED
    BY <1>1, <1>5, <2>1, <2>2 DEF Later
<1>8. \A n \in Later(rows) : /\ rows[n].demand \in Nat /\ rows[n].demand > Legacy /\ n \in Nat
                             /\ rows[n].code \in Nat /\ rows[n].code > Legacy /\ CodeAt(n) = rows[n].code
  BY <1>1, <1>2, <1>5, <1>6, <1>7 DEF TasksInv, Later, CodeAt
<1>9. \A n \in Intake!HumanTasks : CodeAt(n) \in Nat \ {0}
  BY <1>1, <1>4, <1>7, <1>8
<1>10. ASSUME NEW m \in Intake!HumanTasks, NEW n \in Intake!HumanTasks, m < n PROVE CodeAt(m) < CodeAt(n)
  <2>1. CASE m \in Later(rows) /\ n \in Later(rows)
    BY <1>8, <1>10, <2>1 DEF TasksInv
  <2>2. CASE m \in 1..Legacy /\ n \in 1..Legacy
    BY <1>4, <1>10, <2>2
  <2>3. CASE m \in 1..Legacy /\ n \in Later(rows)
    BY <1>1, <1>4, <1>8, <2>3
  <2>4. CASE m \in Later(rows) /\ n \in 1..Legacy
    BY <1>1, <1>10, <2>4 DEF Later
  <2> QED
    BY <1>7, <2>1, <2>2, <2>3, <2>4
<1>11. ASSUME NEW m \in Intake!HumanTasks, NEW n \in Intake!HumanTasks, rows[m].demand = rows[n].demand PROVE m = n
  <2>1. CASE m \in Later(rows) /\ n \in Later(rows)
    <3>1. m < n \/ n < m \/ m = n
      BY <1>8, <2>1
    <3> QED
      BY <1>11, <2>1, <3>1 DEF TasksInv
  <2>2. CASE m \in 1..Legacy \/ n \in 1..Legacy
    BY <1>1, <1>4, <1>7, <1>8, <1>11, <2>2
  <2> QED
    BY <1>7, <2>1, <2>2
<1>12. ASSUME NEW n \in Intake!HumanTasks PROVE CodeOf(rows[n].demand) = CodeAt(n)
  <2> DEFINE d == rows[n].demand
             m == CHOOSE k \in Intake!HumanTasks : rows[k].demand = d
  <2>1. m \in Intake!HumanTasks /\ rows[m].demand = d
    BY <1>12
  <2>2. m = n
    BY <1>11, <1>12, <2>1
  <2> QED
    BY <2>2 DEF CodeOf
<1>13. ASSUME NEW m \in Later(rows), NEW d \in 1..Legacy PROVE rows[m].demand # d /\ rows[m].code > d
  BY <1>1, <1>8
<1> QED
  BY <1>1, <1>2, <1>4, <1>6, <1>7, <1>8, <1>9, <1>10, <1>11, <1>12, <1>13

\* The codes recorded in the log are accepted, in their order.
LEMMA AcceptedAre ==
  ASSUME NEW top \in Nat, TasksInv(rows, top)
  PROVE  Intake!Accepted[Len(rows)] =
           [owned |-> (1..Until) \cup CodesAt(Later(rows)),
            codes |-> [d \in DemandsAt(Later(rows)) |-> CodeOf(d)]]
<1> DEFINE L == Later(rows)
           A(n) == [owned |-> (1..Until) \cup CodesAt(Upto(L, n)), codes |-> [d \in DemandsAt(Upto(L, n)) |-> CodeOf(d)]]
           Adding(acc, n) ==
             LET e == rows[n]
             IN IF n \notin Intake!HumanTasks \/ e.demand \in DOMAIN Intake!Frozen \/ e.code = 0 \/ e.code \in acc.owned THEN acc
                ELSE [owned |-> acc.owned \cup {e.code}, codes |-> Intake!Put(acc.codes, e.demand, e.code)]
           Empty == [owned |-> Intake!FrozenHeld, codes |-> << >>]
           Is(f) == f = [n \in 0..Len(rows) |-> IF n = 0 THEN Empty ELSE Adding(f[n - 1], n)]
<1>1. Intake!Accepted = CHOOSE f : Is(f)
  BY DEF Intake!Accepted

<1>2. /\ L \subseteq Nat /\ L \subseteq Intake!HumanTasks /\ Len(rows) \in Nat /\ Until \in Nat /\ Legacy \in Nat /\ Until <= Legacy
      /\ \A n \in L : /\ n \in 1..Len(rows) /\ n \notin 1..Legacy /\ CodeOf(rows[n].demand) = rows[n].code
                      /\ rows[n].code \in Nat /\ rows[n].code > Legacy
                      /\ rows[n].demand \in Nat /\ rows[n].demand > Legacy
      /\ \A n \in Intake!HumanTasks : n \in 1..Legacy \/ n \in L
      /\ \A n \in 1..Legacy : rows[n].demand = n /\ rows[n].code = 0
  <2>1. \A n \in Intake!HumanTasks : CodeAt(n) \in Nat \ {0} /\ CodeOf(rows[n].demand) = CodeAt(n) /\ n \in 1..Len(rows)
    BY TasksAre
  <2>2. L \subseteq Intake!HumanTasks /\ \A n \in L : n \notin 1..Legacy /\ CodeAt(n) = rows[n].code
    BY TasksAre
  <2>3. \A n \in L : rows[n].code > Legacy
    BY DEF TasksInv
  <2>4. Legacy \in Nat /\ Until \in Nat /\ Until <= Legacy /\ Len(rows) \in Nat
    BY TasksAre
  <2>5. \A n \in L : rows[n].demand \in Nat /\ rows[n].demand > Legacy
    BY TasksAre
  <2>6. /\ \A n \in Intake!HumanTasks : n \in 1..Legacy \/ n \in L
        /\ \A n \in 1..Legacy : rows[n].demand = n /\ rows[n].code = 0
    BY TasksAre
  <2> HIDE DEF L
  <2> QED
    BY <2>1, <2>2, <2>3, <2>4, <2>5, <2>6
<1>3. Empty = A(0)
  <2>1. Upto(L, 0) = {}
    BY <1>2 DEF Upto
  <2>2. Intake!FrozenHeld = 1..Until
    <3>1. DOMAIN Intake!Frozen = 1..Until /\ \A d \in 1..Until : Intake!Frozen[d] = d
      BY DEF Intake!Frozen
    <3>2. 1..Until \subseteq Intake!Known
      <4>1. \A d \in 1..Until : d \in 1..Legacy /\ d \in Intake!HumanTasks /\ rows[d].demand = d
        BY <1>2, TasksAre
      <4> QED
        BY <4>1 DEF Intake!Known
    <3> QED
      BY <3>1, <3>2 DEF Intake!FrozenHeld
  <2>3. CodesAt(Upto(L, 0)) = {} /\ DemandsAt(Upto(L, 0)) = {}
    BY <2>1 DEF CodesAt, DemandsAt
  <2>4. [d \in {} |-> CodeOf(d)] = << >>
    OBVIOUS
  <2> QED
    BY <2>2, <2>3, <2>4
<1>4. ASSUME NEW n \in 1..Len(rows) PROVE Adding(A(n - 1), n) = A(n)
  <2>1. Upto(L, n) = IF n \in L THEN Upto(L, n - 1) \cup {n} ELSE Upto(L, n - 1)
    BY <1>2, <1>4, UptoNext
  <2>2. CASE n \notin L
    <3>1. n \notin Intake!HumanTasks \/ (n \in 1..Legacy /\ rows[n].code = 0)
      BY <1>2, <2>2
    <3>2. Upto(L, n) = Upto(L, n - 1)
      BY <2>1, <2>2
    <3> QED
      BY <3>1, <3>2
  <2>3. CASE n \in L
    <3> DEFINE e == rows[n]
               before == Upto(L, n - 1)
    <3>1. n \in Intake!HumanTasks /\ e.demand \notin DOMAIN Intake!Frozen /\ e.code # 0
      BY <1>2, <2>3 DEF Intake!Frozen
    <3>2. e.code \notin (1..Until) \cup CodesAt(before)
      <4>1. e.code \notin 1..Until
        BY <1>2, <2>3
      <4>2. \A m \in before : m \in Later(rows) /\ m < n /\ CodeAt(m) = rows[m].code
        <5>1. \A m \in before : m \in L /\ m <= n - 1 /\ m \in Nat
          BY <1>2 DEF Upto
        <5> QED
          BY <1>4, <5>1, TasksAre
      <4>3. \A m \in before : rows[m].code < e.code /\ rows[m].code \in Nat
        BY <1>2, <2>3, <4>2 DEF TasksInv
      <4> QED
        BY <1>2, <2>3, <4>1, <4>2, <4>3 DEF CodesAt
    <3>3. Upto(L, n) = before \cup {n}
      BY <2>1, <2>3
    <3>4. CodesAt(Upto(L, n)) = CodesAt(before) \cup {e.code}
      BY <2>3, <3>3, TasksAre DEF CodesAt
    <3>5. DemandsAt(Upto(L, n)) = DemandsAt(before) \cup {e.demand}
      BY <3>3 DEF DemandsAt
    <3>6. CodeOf(e.demand) = e.code
      BY <1>2, <2>3
    <3> DEFINE f == [d \in DemandsAt(before) |-> CodeOf(d)]
    <3>7. Intake!Put(f, e.demand, e.code) = [d \in DemandsAt(Upto(L, n)) |-> CodeOf(d)]
      BY <3>5, <3>6 DEF Intake!Put
    <3>8. A(n - 1).owned = (1..Until) \cup CodesAt(before) /\ A(n - 1).codes = f
      OBVIOUS
    <3>9. Adding(A(n - 1), n) = [owned |-> A(n - 1).owned \cup {e.code}, codes |-> Intake!Put(A(n - 1).codes, e.demand, e.code)]
      BY <3>1, <3>2, <3>8
    <3> QED
      BY <3>4, <3>7, <3>8, <3>9
  <2> QED
    BY <2>2, <2>3
<1> HIDE DEF A, Adding, Empty
<1>5. Is([n \in 0..Len(rows) |-> A(n)])
  <2> DEFINE f == [n \in 0..Len(rows) |-> A(n)]
  <2>1. ASSUME NEW n \in 0..Len(rows) PROVE f[n] = IF n = 0 THEN Empty ELSE Adding(f[n - 1], n)
    <3>1. CASE n = 0
      BY <1>3, <3>1
    <3>2. CASE n # 0
      <4>1. n \in 1..Len(rows) /\ n - 1 \in 0..Len(rows)
        BY <1>2, <3>2
      <4> QED
        BY <1>4, <3>2, <4>1
    <3> QED
      BY <3>1, <3>2
  <2> QED
    BY <2>1
<1>6. Is(Intake!Accepted)
  <2> HIDE DEF Is
  <2> QED
    BY <1>1, <1>5
<1>7. \A n \in 0..Len(rows) : Intake!Accepted[n] = A(n)
  <2> DEFINE bad == {n \in 0..Len(rows) : Intake!Accepted[n] # A(n)}
  <2> SUFFICES ASSUME bad # {} PROVE FALSE
    OBVIOUS
  <2>1. PICK n \in bad : \A m \in bad : n <= m
    <3>1. bad \subseteq Nat
      BY <1>2
    <3> HIDE DEF bad
    <3> QED
      BY <3>1, LeastElement
  <2>2. Intake!Accepted[n] = IF n = 0 THEN Empty ELSE Adding(Intake!Accepted[n - 1], n)
    BY <1>6
  <2>3. n # 0
    BY <1>3, <2>2
  <2>4. n - 1 \in 0..Len(rows) /\ n - 1 \notin bad
    BY <1>2, <2>1, <2>3
  <2>5. Intake!Accepted[n - 1] = A(n - 1)
    BY <2>4
  <2> QED
    BY <1>2, <1>4, <2>2, <2>3, <2>5
<1>8. Upto(L, Len(rows)) = L
  BY <1>2 DEF Upto
<1>9. Len(rows) \in 0..Len(rows)
  BY <1>2
<1>10. Intake!Accepted[Len(rows)] = A(Len(rows))
  BY <1>7, <1>9
<1>11. A(Len(rows)) = [owned |-> 1..Until \cup CodesAt(L), codes |-> [d \in DemandsAt(L) |-> CodeOf(d)]]
  BY <1>8 DEF A
<1> QED
  BY <1>10, <1>11

\* Every human task has its code: the frozen ones and the other legacy ones their
\* number, the later ones what was recorded.
LEMMA CodesAre ==
  ASSUME NEW top \in Nat, TasksInv(rows, top)
  PROVE  Intake!DemandCodes = [d \in DemandsAt(Intake!HumanTasks) |-> CodeOf(d)]
<1> DEFINE H == Intake!HumanTasks
           accepted == Intake!Accepted[Len(rows)]
           Last(n) == CHOOSE c \in {0} \cup CodesAt(Upto(H, n)) : \A k \in {0} \cup CodesAt(Upto(H, n)) : k <= c
           G(n) == [codes |-> [d \in DemandsAt(Upto(H, n)) |-> CodeOf(d)],
                    taken |-> accepted.owned \cup CodesAt(Upto(H, n)), last |-> Last(n)]
           Adding(acc, n) ==
             LET d == rows[n].demand
                 c == IF d \in DOMAIN Intake!Frozen THEN Intake!Frozen[d]
                      ELSE IF d \in DOMAIN accepted.codes THEN accepted.codes[d]
                      ELSE Intake!FreeAfter(acc.last, acc.taken)
             IN IF n \notin Intake!HumanTasks THEN acc
                ELSE [codes |-> Intake!Put(acc.codes, d, c), taken |-> acc.taken \cup {c},
                      last |-> IF c > acc.last THEN c ELSE acc.last]
           Empty == [codes |-> << >>, taken |-> accepted.owned, last |-> 0]
           Is(f) == f = [n \in 0..Len(rows) |-> IF n = 0 THEN Empty ELSE Adding(f[n - 1], n)]
<1>1. Intake!Given = CHOOSE f : Is(f)
  BY DEF Intake!Given
<1>2. /\ Legacy \in Nat /\ Until \in Nat /\ Until <= Legacy /\ Len(rows) \in Nat
      /\ H \subseteq 1..Len(rows) /\ H = (1..Legacy) \cup Later(rows) /\ Later(rows) \cap (1..Legacy) = {}
      /\ \A n \in 1..Legacy : rows[n].demand = n /\ CodeAt(n) = n
      /\ \A n \in Later(rows) : rows[n].demand \in Nat /\ rows[n].demand > Legacy /\ CodeAt(n) = rows[n].code
      /\ \A n \in H : CodeAt(n) \in Nat \ {0} /\ CodeOf(rows[n].demand) = CodeAt(n)
      /\ \A m, n \in H : m < n => CodeAt(m) < CodeAt(n)
  <2> HIDE DEF H
  <2>1. /\ Legacy \in Nat /\ Until \in Nat /\ Until <= Legacy /\ Len(rows) \in Nat
        /\ H \subseteq 1..Len(rows) /\ H = (1..Legacy) \cup Later(rows) /\ Later(rows) \cap (1..Legacy) = {}
    BY TasksAre DEF H
  <2>2. \A n \in 1..Legacy : rows[n].demand = n /\ CodeAt(n) = n
    BY TasksAre
  <2>3. \A n \in Later(rows) : rows[n].demand \in Nat /\ rows[n].demand > Legacy /\ CodeAt(n) = rows[n].code
    BY TasksAre
  <2>4. \A n \in H : CodeAt(n) \in Nat \ {0} /\ CodeOf(rows[n].demand) = CodeAt(n)
    BY TasksAre DEF H
  <2>5. \A m, n \in H : m < n => CodeAt(m) < CodeAt(n)
    BY TasksAre DEF H
  <2> QED
    BY <2>1, <2>2, <2>3, <2>4, <2>5
<1>3. /\ accepted.owned = (1..Until) \cup CodesAt(Later(rows))
      /\ DOMAIN accepted.codes = DemandsAt(Later(rows)) /\ \A d \in DOMAIN accepted.codes : accepted.codes[d] = CodeOf(d)
  <2> DEFINE a == [owned |-> (1..Until) \cup CodesAt(Later(rows)),
                   codes |-> [d \in DemandsAt(Later(rows)) |-> CodeOf(d)]]
  <2>1. accepted = a
    BY AcceptedAre
  <2>2. a.owned = (1..Until) \cup CodesAt(Later(rows)) /\ a.codes = [d \in DemandsAt(Later(rows)) |-> CodeOf(d)]
    OBVIOUS
  <2> HIDE DEF accepted, a
  <2> QED
    BY <2>1, <2>2
<1> HIDE DEF H, accepted
\* The greatest code so far is that of the last task.
<1>4. Upto(H, 0) = {} /\ Last(0) = 0
  <2>1. Upto(H, 0) = {}
    BY <1>2 DEF Upto
  <2> QED
    BY <2>1 DEF CodesAt
<1>5. ASSUME NEW n \in 1..Len(rows)
      PROVE  Upto(H, n) = IF n \in H THEN Upto(H, n - 1) \cup {n} ELSE Upto(H, n - 1)
  <2>1. H \subseteq Nat /\ n \in Nat \ {0}
    BY <1>2
  <2> QED
    BY <2>1, UptoNext
<1>6. ASSUME NEW n \in H
      PROVE  /\ Last(n - 1) \in Nat /\ Last(n - 1) < CodeAt(n) /\ Last(n) = CodeAt(n)
  <2> DEFINE S == {0} \cup CodesAt(Upto(H, n - 1))
             T == {0} \cup CodesAt(Upto(H, n))
  <2>1. n \in 1..Len(rows) /\ CodeAt(n) \in Nat
    BY <1>2
  <2>2. \A c \in S : c \in Nat /\ c < CodeAt(n)
    <3>1. \A m \in Upto(H, n - 1) : m \in H /\ m < n
      BY <1>2, <2>1 DEF Upto
    <3>2. CodeAt(n) \in Nat /\ 0 < CodeAt(n)
      BY <1>2
    <3>3. \A m \in Upto(H, n - 1) : CodeAt(m) \in Nat /\ CodeAt(m) < CodeAt(n)
      BY <1>2, <3>1
    <3>4. \A c \in CodesAt(Upto(H, n - 1)) : c \in Nat /\ c < CodeAt(n)
      BY <3>3 DEF CodesAt
    <3> QED
      BY <3>2, <3>4
  <2>3. T = S \cup {CodeAt(n)}
    BY <1>5, <2>1 DEF CodesAt
  <2>4. 0 \in S /\ S \subseteq Nat
    BY <2>2
  <2> HIDE DEF S, T
  <2>5. PICK c \in S : \A k \in S : k <= c
    <3>1. \A k \in S : k <= CodeAt(n)
      BY <2>1, <2>2
    <3> QED
      BY <2>1, <2>4, <3>1, GreatestElement
  <2>6. Last(n - 1) \in S
    <3>1. Last(n - 1) = CHOOSE g \in S : \A k \in S : k <= g
      BY DEF S
    <3> QED
      BY <2>5, <3>1
  <2>7. Last(n) = CodeAt(n)
    <3>1. Last(n) = CHOOSE g \in T : \A k \in T : k <= g
      BY DEF T
    <3>2. \A g \in T : (\A k \in T : k <= g) => g = CodeAt(n)
      <4>1. \A g \in S : g < CodeAt(n) /\ g \in Nat
        BY <2>2
      <4> QED
        BY <2>1, <2>3, <4>1
    <3>3. CodeAt(n) \in T /\ \A k \in T : k <= CodeAt(n)
      BY <2>1, <2>2, <2>3
    <3> HIDE DEF Last
    <3> QED
      BY <3>1, <3>2, <3>3
  <2> HIDE DEF Last
  <2> QED
    BY <2>2, <2>6, <2>7
<1>7. Empty = G(0)
  <2>1. CodesAt(Upto(H, 0)) = {} /\ DemandsAt(Upto(H, 0)) = {}
    BY <1>4 DEF CodesAt, DemandsAt
  <2>2. [d \in {} |-> CodeOf(d)] = << >>
    OBVIOUS
  <2> HIDE DEF Last
  <2> QED
    BY <1>4, <2>1, <2>2
<1>8. ASSUME NEW n \in 1..Len(rows) PROVE Adding(G(n - 1), n) = G(n)
  <2>1. CASE n \notin H
    <3>1. Upto(H, n) = Upto(H, n - 1)
      BY <1>5, <1>8, <2>1
    <3> QED
      BY <2>1, <3>1 DEF H
  <2>2. CASE n \in H
    <3> DEFINE d == rows[n].demand
               before == Upto(H, n - 1)
               f == [x \in DemandsAt(before) |-> CodeOf(x)]
               acc == G(n - 1)
               c == IF d \in DOMAIN Intake!Frozen THEN Intake!Frozen[d]
                    ELSE IF d \in DOMAIN accepted.codes THEN accepted.codes[d]
                    ELSE Intake!FreeAfter(acc.last, acc.taken)
    <3>1. acc.codes = f /\ acc.taken = accepted.owned \cup CodesAt(before) /\ acc.last = Last(n - 1)
      OBVIOUS
    <3>2. Upto(H, n) = before \cup {n}
      BY <1>5, <2>2
    <3>3. CodesAt(Upto(H, n)) = CodesAt(before) \cup {CodeAt(n)} /\ DemandsAt(Upto(H, n)) = DemandsAt(before) \cup {d}
      BY <3>2 DEF CodesAt, DemandsAt
    <3>4. CodeOf(d) = CodeAt(n) /\ CodeAt(n) \in Nat
      BY <1>2, <2>2
    <3>5. c = CodeAt(n)
      <4>1. CASE n \in 1..Until
        <5>1. d = n /\ d \in DOMAIN Intake!Frozen /\ Intake!Frozen[d] = n /\ CodeAt(n) = n
          BY <1>2, <4>1 DEF Intake!Frozen
        <5> QED
          BY <5>1
      <4>2. CASE n \in Later(rows)
        <5>1. d \notin DOMAIN Intake!Frozen
          BY <1>2, <4>2 DEF Intake!Frozen
        <5>2. d \in DOMAIN accepted.codes
          BY <1>3, <4>2 DEF DemandsAt
        <5> QED
          BY <1>3, <3>4, <5>1, <5>2
      <4>3. CASE n \in (Until + 1)..Legacy
        <5>1. n \in 1..Legacy /\ d = n /\ CodeAt(n) = n /\ d \notin DOMAIN Intake!Frozen
          BY <1>2, <4>3 DEF Intake!Frozen
        <5>2. d \notin DOMAIN accepted.codes
          BY <1>2, <1>3, <5>1 DEF DemandsAt
        <5>3. Last(n - 1) = n - 1
          <6>1. CASE n = 1
            BY <1>4, <6>1
          <6>2. CASE n # 1
            <7>1. n - 1 \in 1..Legacy /\ n - 1 \in H
              BY <1>2, <5>1, <6>2
            <7> HIDE DEF Last
            <7> QED
              BY <1>2, <1>6, <7>1
          <6> QED
            BY <6>1, <6>2
        <5> DEFINE taken == accepted.owned \cup CodesAt(before)
        <5>4. n \notin taken
          <6>1. \A k \in CodesAt(before) : k \in Nat /\ k < n
            <7>1. \A m \in before : m \in H /\ m < n
              BY <1>2, <5>1 DEF Upto
            <7>2. \A m \in before : CodeAt(m) \in Nat /\ CodeAt(m) < n
              <8>1. \A m \in H : CodeAt(m) \in Nat /\ (m < n => CodeAt(m) < CodeAt(n))
                BY <1>2, <2>2
              <8> QED
                BY <5>1, <7>1, <8>1
            <7> QED
              BY <7>2 DEF CodesAt
          <6>2. n \notin 1..Until
            BY <1>2, <4>3
          <6>3. \A k \in CodesAt(Later(rows)) : k > Legacy
            BY <1>2 DEF CodesAt, TasksInv
          <6>4. n \notin CodesAt(before)
            BY <5>1, <6>1
          <6>5. n \notin CodesAt(Later(rows))
            BY <1>2, <5>1, <6>3
          <6> QED
            BY <1>3, <6>2, <6>4, <6>5
        <5>5. Intake!FreeAfter(n - 1, taken) = n
          <6> DEFINE N == Intake!Cardinality(taken)
          <6>1. N \in Nat
            <7>1. IsFiniteSet(taken)
              <8>1. IsFiniteSet(1..Until) /\ IsFiniteSet(H)
                <9>1. IsFiniteSet(1..Len(rows)) /\ IsFiniteSet(1..Until)
                  BY <1>2, FS_Interval
                <9> QED
                  BY <1>2, <9>1, FS_Subset
              <8>2. taken \subseteq (1..Until) \cup CodesAt(H)
                BY <1>2, <1>3 DEF CodesAt, Upto
              <8>3. IsFiniteSet(CodesAt(H))
                <9>1. [m \in H |-> CodeAt(m)] \in Surjection(H, CodesAt(H))
                  BY DEF Surjection, CodesAt
                <9> QED
                  BY <8>1, <9>1, FS_Surjection
              <8> QED
                BY <8>1, <8>2, <8>3, FS_Union, FS_Subset
            <7>2. Intake!Cardinality(taken) = Cardinality(taken)
              BY DEF Intake!Cardinality, Cardinality, Intake!IsFiniteSet, IsFiniteSet
            <7> QED
              BY <7>1, <7>2, FS_CardinalityType
          <6> HIDE DEF taken, N
          <6>2. Intake!FreeAfter(n - 1, taken) =
                  CHOOSE m \in (n - 1 + 1)..(n - 1 + 1 + N) : m \notin taken /\ \A k \in (n - 1 + 1)..(m - 1) : k \in taken
            BY DEF Intake!FreeAfter, N
          <6>3. n - 1 + 1 = n /\ n \in n..(n + N) /\ n..(n - 1) = {}
            BY <1>8, <6>1
          <6>4. Intake!FreeAfter(n - 1, taken) = CHOOSE m \in n..(n + N) : m \notin taken /\ \A k \in n..(m - 1) : k \in taken
            BY <6>2, <6>3
          <6>5. ASSUME NEW m \in n..(n + N), m \notin taken, \A k \in n..(m - 1) : k \in taken
                PROVE  m = n
            <7>1. m = n \/ n \in n..(m - 1)
              BY <1>8, <6>1
            <7> QED
              BY <5>4, <6>5, <7>1
          <6>6. \E m \in n..(n + N) : m \notin taken /\ \A k \in n..(m - 1) : k \in taken
            BY <5>4, <6>3
          <6> QED
            BY <6>4, <6>5, <6>6
        <5> HIDE DEF Last, taken
        <5> QED
          BY <3>1, <5>1, <5>2, <5>3, <5>5 DEF taken
      <4>4. n \in 1..Until \/ n \in Later(rows) \/ n \in (Until + 1)..Legacy
        BY <1>2, <2>2
      <4> QED
        BY <4>1, <4>2, <4>3, <4>4
    <3>6. Adding(acc, n) = [codes |-> Intake!Put(acc.codes, d, c), taken |-> acc.taken \cup {c},
                          last |-> IF c > acc.last THEN c ELSE acc.last]
      BY <2>2 DEF H
    <3> HIDE DEF acc, c, Last, Adding
    <3>7. Intake!Put(f, d, CodeAt(n)) = [x \in DemandsAt(Upto(H, n)) |-> CodeOf(x)]
      BY <3>3, <3>4 DEF Intake!Put
    <3>8. Last(n - 1) \in Nat /\ Last(n - 1) < CodeAt(n) /\ Last(n) = CodeAt(n)
      BY <1>6, <2>2
    <3>9. (IF c > acc.last THEN c ELSE acc.last) = Last(n)
      BY <3>1, <3>4, <3>5, <3>8
    <3>10. acc.taken \cup {c} = accepted.owned \cup CodesAt(Upto(H, n))
      BY <3>1, <3>3, <3>5
    <3> HIDE DEF f
    <3>11. Adding(acc, n) = G(n)
      BY <3>1, <3>5, <3>6, <3>7, <3>9, <3>10
    <3> QED
      BY <3>11 DEF acc
  <2> QED
    BY <2>1, <2>2
<1> HIDE DEF G, Adding, Empty
<1>9. Is([n \in 0..Len(rows) |-> G(n)])
  <2> DEFINE f == [n \in 0..Len(rows) |-> G(n)]
  <2>1. ASSUME NEW n \in 0..Len(rows) PROVE f[n] = IF n = 0 THEN Empty ELSE Adding(f[n - 1], n)
    <3>1. CASE n = 0
      BY <1>7, <3>1
    <3>2. CASE n # 0
      <4>1. n \in 1..Len(rows) /\ n - 1 \in 0..Len(rows)
        BY <1>2, <3>2
      <4> QED
        BY <1>8, <3>2, <4>1
    <3> QED
      BY <3>1, <3>2
  <2> QED
    BY <2>1
<1>10. Is(Intake!Given)
  <2> HIDE DEF Is
  <2> QED
    BY <1>1, <1>9
<1>11. \A n \in 0..Len(rows) : Intake!Given[n] = G(n)
  <2> DEFINE bad == {n \in 0..Len(rows) : Intake!Given[n] # G(n)}
  <2> SUFFICES ASSUME bad # {} PROVE FALSE
    OBVIOUS
  <2>1. PICK n \in bad : \A m \in bad : n <= m
    <3>1. bad \subseteq Nat
      BY <1>2
    <3> HIDE DEF bad
    <3> QED
      BY <3>1, LeastElement
  <2>2. Intake!Given[n] = IF n = 0 THEN Empty ELSE Adding(Intake!Given[n - 1], n)
    BY <1>10
  <2>3. n # 0
    BY <1>7, <2>2
  <2>4. n - 1 \in 0..Len(rows) /\ n - 1 \notin bad
    BY <1>2, <2>1, <2>3
  <2>5. Intake!Given[n - 1] = G(n - 1)
    BY <2>4
  <2> QED
    BY <1>2, <1>8, <2>2, <2>3, <2>5
<1>12. Upto(H, Len(rows)) = H
  BY <1>2 DEF Upto
<1>13. Intake!Given[Len(rows)] = G(Len(rows))
  BY <1>2, <1>11
<1>14. Intake!Given[Len(rows)].codes = [d \in DemandsAt(Upto(H, Len(rows))) |-> CodeOf(d)]
  BY <1>13 DEF G
<1> QED
  BY <1>12, <1>14 DEF Intake!DemandCodes, H

-----------------------------------------------------------------------------
(* The log grows: a line more that can be read, or none.                   *)

Grows(s, r, new) ==
  /\ IsSequence(s) /\ IsSequence(r) /\ Len(s) <= Len(r)
  /\ \A i \in ReadOf(s) : i \in ReadOf(r) /\ r[i] = s[i]
  /\ \A i \in ReadOf(r) : i \in ReadOf(s) \/ (i = Len(s) + 1 /\ r[i] \in new)

LEMMA LogStays ==
  ASSUME NEW s, IsSequence(s)
  PROVE  Grows(s, s, {})
BY DEF Grows, IsSequence

\* A whole line, or one torn half way.
LEMMA LogGrows ==
  ASSUME NEW s, IsSequence(s), NEW e, "torn" \in DOMAIN e
  PROVE  Grows(s, Intake!Appended(s, e), {e}) /\ (e.torn => Grows(s, Intake!Appended(s, e), {}))
<1> DEFINE r == Intake!Appended(s, e)
<1>1. DOMAIN s = 1..Len(s) /\ Len(s) \in Nat
  BY DomainOf
<1>2. CASE s # << >> /\ Intake!CutShort(s[Len(s)])
  <2> DEFINE l == Len(s)
             f == [e EXCEPT !.torn = TRUE]
  <2>1. r = [s EXCEPT ![l] = f]
    BY <1>2 DEF Intake!Appended
  <2>2. l \in DOMAIN s
    BY <1>1, <1>2 DEF IsSequence
  <2>3. f.torn = TRUE
    OBVIOUS
  <2> HIDE DEF f, r
  <2>4. IsSequence(r) /\ DOMAIN r = DOMAIN s
    BY <2>1, <2>2, Replaced
  <2>5. Len(r) = Len(s)
    BY <1>1, <2>4, DomainOf
  <2>6. r[l] = f /\ \A i \in DOMAIN s : i # l => r[i] = s[i]
    BY <2>1, <2>2
  <2>7. l \notin ReadOf(s) /\ l \notin ReadOf(r)
    BY <1>2, <2>3, <2>6 DEF ReadOf, Intake!CutShort
  <2>8. ReadOf(s) = ReadOf(r)
    BY <2>4, <2>6, <2>7 DEF ReadOf
  <2> QED
    BY <1>1, <2>4, <2>5, <2>6, <2>7, <2>8 DEF Grows, ReadOf, r
<1>3. CASE ~(s # << >> /\ Intake!CutShort(s[Len(s)]))
  <2>1. r = Append(s, e)
    BY <1>3 DEF Intake!Appended
  <2> HIDE DEF r
  <2>2. /\ IsSequence(r) /\ Len(r) = Len(s) + 1 /\ DOMAIN r = DOMAIN s \cup {Len(s) + 1} /\ Len(s) + 1 \notin DOMAIN s
        /\ \A j \in DOMAIN s : r[j] = s[j]
        /\ r[Len(s) + 1] = e
    BY <2>1, Appended
  <2> QED
    BY <1>1, <2>2 DEF Grows, ReadOf, r
<1> QED
  BY <1>2, <1>3

\* Lines of a type nobody writes stay as they are.
LEMMA OthersStay ==
  ASSUME NEW s, NEW r, NEW new, Grows(s, r, new), NEW type, \A e \in new : e.type # type
  PROVE  OfType(r, type) = OfType(s, type) /\ \A i \in OfType(s, type) : r[i] = s[i] /\ i \in DOMAIN s
BY DEF Grows, OfType, ReadOf

LEMMA ReadySince ==
  ASSUME NEW s, NEW r, NEW new, Grows(s, r, new), NEW d, NEW n \in Nat, NEW m \in Nat, n <= m, ReadyBefore(s, d, n)
  PROVE  ReadyBefore(r, d, m)
<1>1. \A type : \A i \in OfType(s, type) : i \in OfType(r, type) /\ r[i] = s[i] /\ i \in Nat
  <2>1. ReadOf(s) \subseteq Nat
    BY DomainOf DEF Grows, ReadOf
  <2> QED
    BY <2>1 DEF Grows, OfType
<1>2. PICK v \in OfType(s, "validation") :
        /\ s[v].demand = d /\ v < n
        /\ s[v].ok \/ \E c \in OfType(s, "clarification") : v < c /\ c < n /\ s[c].code = s[v].code
  BY DEF ReadyBefore
<1>3. v \in OfType(r, "validation") /\ r[v] = s[v] /\ v < m
  BY <1>1, <1>2
<1>4. CASE s[v].ok
  BY <1>2, <1>3, <1>4 DEF ReadyBefore
<1>5. ASSUME NEW c \in OfType(s, "clarification"), v < c, c < n, s[c].code = s[v].code PROVE ReadyBefore(r, d, m)
  <2>1. c \in OfType(r, "clarification") /\ r[c] = s[c] /\ c < m
    BY <1>1, <1>5
  <2> QED
    BY <1>2, <1>3, <1>5, <2>1 DEF ReadyBefore
<1> QED
  BY <1>2, <1>4, <1>5

-----------------------------------------------------------------------------
(* What a step does to the log and to a request.                           *)

\* Thread t goes on with the request r.
Serves(t, r) == t \in Threads /\ IsRequest(r) /\ req' = [req EXCEPT ![t] = r]

LEMMA ServesIs ==
  ASSUME ReqInv, NEW t, NEW r, Serves(t, r)
  PROVE  /\ req' = [u \in Threads |-> req'[u]] /\ req'[t] = r /\ \A u \in Threads : u # t => req'[u] = req[u]
         /\ \A u \in Threads : IsRequest(req'[u])
BY DEF ReqInv, Serves

\* Tasks survive whatever line comes that is no task.
LEMMA TasksStay ==
  ASSUME NEW s, NEW r, NEW new, Grows(s, r, new), \A e \in new : e.type # "task",
         NEW n \in Nat, NEW m \in Nat, n <= m, TasksInv(s, n), Legacy \in Nat
  PROVE  TasksInv(r, m) /\ Later(r) = Later(s) /\ \A i \in Later(s) : r[i] = s[i]
<1>1. OfType(r, "task") = OfType(s, "task") /\ \A i \in OfType(s, "task") : r[i] = s[i]
  BY OthersStay
<1>2. Later(r) = Later(s) /\ \A i \in Later(s) : r[i] = s[i]
  BY <1>1 DEF Later
<1>3. IsSequence(r) /\ Legacy <= Len(r) /\ Len(r) \in Nat
  BY DomainOf DEF Grows, TasksInv
<1>4. ASSUME NEW i \in 1..Legacy PROVE r[i] = Intake!Row("task", i)
  <2>1. s[i] = Intake!Row("task", i) /\ i \in DOMAIN s
    BY <1>4, DomainOf DEF TasksInv
  <2>2. Intake!Row("task", i).torn = FALSE
    BY DEF Intake!Row
  <2> QED
    BY <2>1, <2>2 DEF Grows, ReadOf
<1>5. \A i \in Later(s) : s[i].demand \in (Legacy + 1)..m
  BY DEF TasksInv
<1>6. \A i \in Later(r) : r[i].demand \in (Legacy + 1)..m /\ r[i].code \in Nat /\ r[i].code > Legacy
  BY <1>2, <1>5 DEF TasksInv
<1>7. \A i, j \in Later(r) : i < j => r[i].code < r[j].code /\ r[i].demand # r[j].demand
  BY <1>2 DEF TasksInv
<1> QED
  BY <1>2, <1>3, <1>4, <1>6, <1>7 DEF TasksInv

\* A new task brings a demand of its own and a code after the others.
LEMMA TaskComes ==
  ASSUME NEW s, NEW r, NEW new, Grows(s, r, new), NEW e, \A x \in new : x = e, NEW n \in Nat, TasksInv(s, n), Legacy \in Nat,
         e.demand \in (Legacy + 1)..n, e.code \in Nat, e.code > Legacy,
         \A i \in Later(s) : s[i].demand # e.demand /\ s[i].code < e.code
  PROVE  /\ TasksInv(r, n) /\ \A i \in Later(s) : r[i] = s[i]
         /\ \A i \in Later(r) : i \in Later(s) \/ r[i] = e
<1>1. IsSequence(r) /\ Legacy <= Len(r) /\ Len(r) \in Nat /\ Len(s) \in Nat /\ DOMAIN s = 1..Len(s)
  BY DomainOf DEF Grows, TasksInv
<1>2. ASSUME NEW i \in 1..Legacy PROVE r[i] = Intake!Row("task", i)
  <2>1. s[i] = Intake!Row("task", i) /\ i \in DOMAIN s
    BY <1>1, <1>2 DEF TasksInv
  <2>2. Intake!Row("task", i).torn = FALSE
    BY DEF Intake!Row
  <2> QED
    BY <2>1, <2>2 DEF Grows, ReadOf
<1>3. \A i \in Later(s) : r[i] = s[i] /\ i \in 1..Len(s)
  BY <1>1 DEF Grows, Later, OfType, ReadOf
<1>4. \A i \in Later(r) : i \in Later(s) \/ (i = Len(s) + 1 /\ r[i] = e)
  <2>1. \A i \in Later(r) : i \in ReadOf(r) /\ r[i].type = "task" /\ i > Legacy
    BY DEF Later, OfType
  <2>2. \A i \in ReadOf(s) : r[i] = s[i]
    BY DEF Grows
  <2> QED
    BY <2>1, <2>2 DEF Grows, Later, OfType
<1>5. \A i \in Later(r) : r[i].demand \in (Legacy + 1)..n /\ r[i].code \in Nat /\ r[i].code > Legacy
  BY <1>3, <1>4 DEF TasksInv
<1>6. ASSUME NEW i \in Later(r), NEW j \in Later(r), i < j PROVE r[i].code < r[j].code /\ r[i].demand # r[j].demand
  <2>1. i \in Later(s)
    BY <1>1, <1>3, <1>4, <1>6
  <2> QED
    BY <1>3, <1>4, <1>6, <2>1 DEF TasksInv
<1> QED
  BY <1>1, <1>2, <1>3, <1>4, <1>5, <1>6 DEF TasksInv

\* The greatest code given is no less than any.
LEMMA TopCodeIs ==
  ASSUME NEW top \in Nat, TasksInv(rows, top)
  PROVE  Intake!TopCode \in Nat /\ Legacy <= Intake!TopCode /\ \A i \in Later(rows) : rows[i].code <= Intake!TopCode
<1> DEFINE H == Intake!HumanTasks
           S == {0} \cup CodesAt(H)
<1>1. /\ Legacy \in Nat /\ H = (1..Legacy) \cup Later(rows) /\ \A n \in 1..Legacy : CodeAt(n) = n
      /\ \A n \in Later(rows) : CodeAt(n) = rows[n].code
      /\ H \subseteq 1..Len(rows) /\ Len(rows) \in Nat
  BY TasksAre
<1>2. \A n \in H : CodeAt(n) \in Nat /\ CodeOf(rows[n].demand) = CodeAt(n)
  BY TasksAre
<1>3. Intake!TopCode = CHOOSE c \in S : \A k \in S : c >= k
  <2>1. DOMAIN Intake!DemandCodes = DemandsAt(H) /\ \A d \in DemandsAt(H) : Intake!DemandCodes[d] = CodeOf(d)
    BY CodesAre
  <2>2. {Intake!DemandCodes[d] : d \in DOMAIN Intake!DemandCodes} = CodesAt(H)
    BY <1>2, <2>1 DEF CodesAt, DemandsAt
  <2>3. Intake!TopCode = Intake!Max(S)
    BY <2>2 DEF Intake!TopCode
  <2> QED
    BY <2>3 DEF Intake!Max
<1>4. \A m, n \in H : m < n => CodeAt(m) < CodeAt(n)
  BY TasksAre
<1> HIDE DEF H
<1>5. PICK c \in S : \A k \in S : k <= c
  <2>1. CASE H = {}
    BY <2>1 DEF CodesAt
  <2>2. CASE H # {}
    <3>1. PICK n \in H : \A m \in H : m <= n
      <4>1. H \subseteq Nat /\ \A m \in H : m <= Len(rows)
        BY <1>1
      <4> QED
        BY <1>1, <2>2, <4>1, GreatestElement
    <3>2. \A m \in H : CodeAt(m) <= CodeAt(n)
      <4>1. \A m \in H : m = n \/ m < n
        BY <1>1, <3>1
      <4> QED
        BY <1>2, <1>4, <3>1, <4>1
    <3> QED
      BY <1>2, <3>1, <3>2 DEF CodesAt
  <2> QED
    BY <2>1, <2>2
<1>6. Intake!TopCode \in S /\ \A k \in S : k <= Intake!TopCode
  <2>1. S \subseteq Nat
    BY <1>2 DEF CodesAt
  <2> HIDE DEF S
  <2>2. \A k \in S : c >= k
    BY <1>5, <2>1
  <2>3. Intake!TopCode \in S /\ \A k \in S : Intake!TopCode >= k
    BY <1>3, <2>2
  <2> QED
    BY <2>1, <2>3
<1>7. S \subseteq Nat
  BY <1>2 DEF CodesAt
<1>8. Legacy \in S
  <2>1. CASE Legacy = 0
    BY <2>1
  <2>2. CASE Legacy # 0
    <3>1. Legacy \in 1..Legacy
      BY <1>1, <2>2
    <3> QED
      BY <1>1, <3>1 DEF CodesAt
  <2> QED
    BY <2>1, <2>2
<1>9. \A i \in Later(rows) : rows[i].code \in S
  BY <1>1 DEF CodesAt
<1> HIDE DEF S
<1> QED
  BY <1>6, <1>7, <1>8, <1>9

-----------------------------------------------------------------------------
(* A request comes: what each route read and checked before it serves.     *)

Asks(t, r) ==
  /\ Serves(t, r) /\ req[t].do = "idle" /\ r.pc \notin {"write", "files", "log", "inbox"} /\ r.do # "idle"
  /\ asked' = asked + 1 /\ r.d <= NewestDemand + 1
  /\ r.do \in {"task", "bug"} => r.d = NewestDemand + 1
  /\ r.do \in {"bug", "evidence"} => r.pc = "verified" /\ r.draft \in drafts
  /\ r.do = "clarification" => \E v \in OfType(rows, "validation") : r.top = rows[v].code
  /\ r.do = "start" /\ ~r.ok => Intake!Ready(r.d)
  /\ Intake!Keep

LEMMA IdleIs ==
  ASSUME ReqInv, NEW t \in Threads
  PROVE  req[t].pc = "idle" <=> req[t].do = "idle"
BY DEF ReqInv, IsRequest, Stages

\* The demands of the log are those that were asked for.
LEMMA KnownAre ==
  ASSUME NEW top \in Nat, TasksInv(rows, top), Legacy <= top
  PROVE  \A d \in Intake!Known : d \in Nat /\ d <= top
<1>1. /\ Intake!HumanTasks = (1..Legacy) \cup Later(rows) /\ Legacy \in Nat
      /\ \A n \in 1..Legacy : rows[n].demand = n
  BY TasksAre
<1>2. \A n \in Later(rows) : rows[n].demand \in (Legacy + 1)..top
  BY DEF TasksInv
<1>3. \A n \in 1..Legacy : rows[n].demand \in Nat /\ rows[n].demand <= top
  BY <1>1
<1>4. \A n \in Later(rows) : rows[n].demand \in Nat /\ rows[n].demand <= top
  BY <1>1, <1>2
<1> QED
  BY <1>1, <1>3, <1>4 DEF Intake!Known

LEMMA AskingAsks ==
  ASSUME PartAssumptions, ReqInv, TasksInv(rows, NewestDemand), StartsInv(rows), DraftsInv, NEW t \in Threads,
         \/ Intake!CreateTask(t) \/ Intake!CreateBug(t) \/ Intake!AskEvidence(t)
         \/ Intake!Clarify(t) \/ Intake!Edit(t) \/ Intake!Control(t) \/ Intake!Start(t) \/ Intake!Triage(t)
  PROVE  \E r : Asks(t, r)
<1>1. Legacy \in Nat /\ asked \in Nat /\ NewestDemand \in Nat /\ NewestDemand + 1 \in Nat /\ Intake!NextId + 1 = NewestDemand + 1
  BY DEF PartAssumptions, Intake!IntakeAssumption, ReqInv, NewestDemand, Intake!NextId
<1>2. \A d \in Intake!Known : d \in Nat /\ d <= NewestDemand /\ d <= NewestDemand + 1
  <2>1. Legacy <= NewestDemand
    BY <1>1 DEF NewestDemand
  <2> QED
    BY <1>1, <2>1, KnownAre
<1>3. req[t].pc = "idle" => req[t].do = "idle"
  BY IdleIs
<1>4. drafts \subseteq Nat
  BY DEF DraftsInv
<1> USE <1>1
<1>5. CASE Intake!CreateTask(t)
  <2>1. PICK backlog \in BOOLEAN : req' = [req EXCEPT ![t] = [Intake!Idle EXCEPT !.do = "task", !.pc = "append", !.d = Intake!NextId + 1, !.ok = backlog]]
    BY <1>5 DEF Intake!CreateTask, Intake!Serve
  <2> DEFINE r == [Intake!Idle EXCEPT !.do = "task", !.pc = "append", !.d = Intake!NextId + 1, !.ok = backlog]
  <2>2. req' = [req EXCEPT ![t] = r] /\ Intake!Ask(t, "task") /\ Intake!Keep
    BY <2>1, <1>5 DEF Intake!CreateTask, Intake!Keep
  <2>3. r.do = "task" /\ r.pc = "append" /\ r.d = NewestDemand + 1 /\ r.ok = backlog
    BY DEF Intake!Idle
  <2>4. IsRequest(r)
    <3>1. DOMAIN r = {"do", "pc", "d", "draft", "top", "mark", "ok"} /\ {r.d, r.draft, r.top, r.mark} \subseteq Nat /\ r.ok \in BOOLEAN
      BY <1>2, <1>4 DEF Intake!Idle
    <3> HIDE DEF r
    <3> QED
      BY <2>3, <3>1 DEF IsRequest, Stages
  <2> HIDE DEF r
  <2>5. req[t].do = "idle" /\ asked' = asked + 1
    BY <1>3, <2>2 DEF Intake!Ask
  <2>6. r.d = NewestDemand + 1 /\ r.d <= NewestDemand + 1
    BY <2>3
  <2> QED
    BY <2>1, <2>2, <2>3, <2>4, <2>5, <2>6 DEF Asks, Serves
<1>6. CASE Intake!CreateBug(t)
  <2>1. PICK f \in drafts : req' = [req EXCEPT ![t] = [Intake!Idle EXCEPT !.do = "bug", !.pc = "verified", !.d = Intake!NextId + 1, !.draft = f]]
    BY <1>6 DEF Intake!CreateBug, Intake!Serve
  <2> DEFINE r == [Intake!Idle EXCEPT !.do = "bug", !.pc = "verified", !.d = Intake!NextId + 1, !.draft = f]
  <2>2. req' = [req EXCEPT ![t] = r] /\ Intake!Ask(t, "bug") /\ Intake!Keep
    BY <2>1, <1>6 DEF Intake!CreateBug, Intake!Keep
  <2>3. r.do = "bug" /\ r.pc = "verified" /\ r.d = NewestDemand + 1 /\ r.draft = f
    BY DEF Intake!Idle
  <2>4. IsRequest(r)
    <3>1. DOMAIN r = {"do", "pc", "d", "draft", "top", "mark", "ok"} /\ {r.d, r.draft, r.top, r.mark} \subseteq Nat /\ r.ok \in BOOLEAN
      BY <1>2, <1>4 DEF Intake!Idle
    <3> HIDE DEF r
    <3> QED
      BY <2>3, <3>1 DEF IsRequest, Stages
  <2> HIDE DEF r
  <2>5. req[t].do = "idle" /\ asked' = asked + 1
    BY <1>3, <2>2 DEF Intake!Ask
  <2>6. r.d = NewestDemand + 1 /\ r.d <= NewestDemand + 1
    BY <2>3
  <2> QED
    BY <2>1, <2>2, <2>3, <2>4, <2>5, <2>6 DEF Asks, Serves
<1>7. CASE Intake!AskEvidence(t)
  <2>1. PICK f \in drafts, d \in Intake!Known : req' = [req EXCEPT ![t] = [Intake!Idle EXCEPT !.do = "evidence", !.pc = "verified", !.d = d, !.draft = f]]
    BY <1>7 DEF Intake!AskEvidence, Intake!Serve
  <2> DEFINE r == [Intake!Idle EXCEPT !.do = "evidence", !.pc = "verified", !.d = d, !.draft = f]
  <2>2. req' = [req EXCEPT ![t] = r] /\ Intake!Ask(t, "evidence") /\ Intake!Keep
    BY <2>1, <1>7 DEF Intake!AskEvidence, Intake!Keep
  <2>3. r.do = "evidence" /\ r.pc = "verified" /\ r.d = d /\ r.draft = f
    BY DEF Intake!Idle
  <2>4. IsRequest(r)
    <3>1. DOMAIN r = {"do", "pc", "d", "draft", "top", "mark", "ok"} /\ {r.d, r.draft, r.top, r.mark} \subseteq Nat /\ r.ok \in BOOLEAN
      BY <1>2, <1>4 DEF Intake!Idle
    <3> HIDE DEF r
    <3> QED
      BY <2>3, <3>1 DEF IsRequest, Stages
  <2> HIDE DEF r
  <2> QED
    BY <1>2, <1>4, <1>3, <2>1, <2>2, <2>3, <2>4 DEF Asks, Serves, Intake!Ask
<1>8. CASE Intake!Clarify(t)
  <2>1. PICK d \in Intake!Known, v \in DOMAIN rows : rows[v].type = "validation" /\ ~rows[v].torn /\ req' = [req EXCEPT ![t] = [Intake!Idle EXCEPT !.do = "clarification", !.pc = "append", !.d = d, !.top = rows[v].code]]
    BY <1>8 DEF Intake!Clarify, Intake!Serve
  <2> DEFINE r == [Intake!Idle EXCEPT !.do = "clarification", !.pc = "append", !.d = d, !.top = rows[v].code]
  <2>5. v \in OfType(rows, "validation") /\ rows[v].code \in Nat
    <3>1. v \in OfType(rows, "validation")
      BY <2>1 DEF OfType, ReadOf
    <3>2. v \in Nat
      BY DomainOf DEF TasksInv
    <3> QED
      BY <3>1, <3>2 DEF StartsInv
  <2>2. req' = [req EXCEPT ![t] = r] /\ Intake!Ask(t, "clarify") /\ Intake!Keep
    BY <2>1, <1>8 DEF Intake!Clarify, Intake!Keep
  <2>3. r.do = "clarification" /\ r.pc = "append" /\ r.d = d /\ r.top = rows[v].code
    BY DEF Intake!Idle
  <2>4. IsRequest(r)
    <3>1. DOMAIN r = {"do", "pc", "d", "draft", "top", "mark", "ok"} /\ {r.d, r.draft, r.top, r.mark} \subseteq Nat /\ r.ok \in BOOLEAN
      BY <1>2, <1>4, <2>5 DEF Intake!Idle
    <3> HIDE DEF r
    <3> QED
      BY <2>3, <3>1 DEF IsRequest, Stages
  <2> HIDE DEF r
  <2> QED
    BY <1>2, <1>4, <1>3, <2>1, <2>2, <2>3, <2>4, <2>5 DEF Asks, Serves, Intake!Ask
<1>9. CASE Intake!Edit(t) \/ Intake!Control(t)
  <2>1. PICK do \in {"edit", "pause", "cancel"}, d \in Intake!Known :
          /\ Intake!Ask(t, do) /\ Intake!Keep
          /\ req' = [req EXCEPT ![t] = [Intake!Idle EXCEPT !.do = do, !.pc = "append", !.d = d, !.ok = FALSE]]
    <3>1. \E do \in {"edit", "pause", "cancel"}, d \in Intake!Known : Intake!Ask(t, do) /\ Intake!Keep /\ Intake!Later(t, do, d, FALSE)
      BY <1>9 DEF Intake!Edit, Intake!Control
    <3> QED
      BY <3>1 DEF Intake!Later, Intake!Serve
  <2> DEFINE r == [Intake!Idle EXCEPT !.do = do, !.pc = "append", !.d = d, !.ok = FALSE]
  <2>2. req' = [req EXCEPT ![t] = r] /\ Intake!Ask(t, do) /\ Intake!Keep
    BY <2>1, <1>9 DEF Intake!Edit, Intake!Control, Intake!Keep
  <2>3. r.do = do /\ r.pc = "append" /\ r.d = d
    BY DEF Intake!Idle
  <2>4. IsRequest(r)
    <3>1. DOMAIN r = {"do", "pc", "d", "draft", "top", "mark", "ok"} /\ {r.d, r.draft, r.top, r.mark} \subseteq Nat /\ r.ok \in BOOLEAN
      BY <1>2, <1>4 DEF Intake!Idle
    <3> HIDE DEF r
    <3> QED
      BY <2>3, <3>1 DEF IsRequest, Stages
  <2> HIDE DEF r
  <2> QED
    BY <1>2, <1>4, <1>3, <2>1, <2>2, <2>3, <2>4 DEF Asks, Serves, Intake!Ask
<1>10. CASE Intake!Start(t)
  <2>1. PICK d \in Intake!Known, ok \in BOOLEAN :
          /\ ok \/ Intake!Ready(d)
          /\ req' = [req EXCEPT ![t] = [Intake!Idle EXCEPT !.do = "start", !.pc = "append", !.d = d, !.ok = ok]]
    <3>1. PICK d \in Intake!Known, forced \in BOOLEAN :
            /\ Intake!InBacklog(d) \/ forced \/ Intake!Ready(d)
            /\ Intake!Later(t, "start", d, forced \/ Intake!InBacklog(d))
      BY <1>10 DEF Intake!Start
    <3> DEFINE ok == forced \/ Intake!InBacklog(d)
    <3>2. ok \in BOOLEAN /\ (ok \/ Intake!Ready(d)) /\ Intake!Later(t, "start", d, ok)
      BY <3>1
    <3> HIDE DEF ok
    <3> QED
      BY <3>2 DEF Intake!Later, Intake!Serve
  <2> DEFINE r == [Intake!Idle EXCEPT !.do = "start", !.pc = "append", !.d = d, !.ok = ok]
  <2>2. req' = [req EXCEPT ![t] = r] /\ Intake!Ask(t, "start") /\ Intake!Keep
    BY <2>1, <1>10 DEF Intake!Start, Intake!Keep
  <2>3. r.do = "start" /\ r.pc = "append" /\ r.d = d /\ r.ok = ok
    BY DEF Intake!Idle
  <2>4. IsRequest(r)
    <3>1. DOMAIN r = {"do", "pc", "d", "draft", "top", "mark", "ok"} /\ {r.d, r.draft, r.top, r.mark} \subseteq Nat /\ r.ok \in BOOLEAN
      BY <1>2, <1>4 DEF Intake!Idle
    <3> HIDE DEF r
    <3> QED
      BY <2>3, <3>1 DEF IsRequest, Stages
  <2> HIDE DEF r
  <2> QED
    BY <1>2, <1>4, <1>3, <2>1, <2>2, <2>3, <2>4 DEF Asks, Serves, Intake!Ask
<1>11. CASE Intake!Triage(t)
  <2>1. PICK d \in Intake!Known : req' = [req EXCEPT ![t] = [Intake!Idle EXCEPT !.do = "triage", !.pc = "reading", !.d = d]]
    BY <1>11 DEF Intake!Triage, Intake!Serve
  <2> DEFINE r == [Intake!Idle EXCEPT !.do = "triage", !.pc = "reading", !.d = d]
  <2>2. req' = [req EXCEPT ![t] = r] /\ Intake!Ask(t, "triage") /\ Intake!Keep
    BY <2>1, <1>11 DEF Intake!Triage, Intake!Keep
  <2>3. r.do = "triage" /\ r.pc = "reading" /\ r.d = d
    BY DEF Intake!Idle
  <2>4. IsRequest(r)
    <3>1. DOMAIN r = {"do", "pc", "d", "draft", "top", "mark", "ok"} /\ {r.d, r.draft, r.top, r.mark} \subseteq Nat /\ r.ok \in BOOLEAN
      BY <1>2, <1>4 DEF Intake!Idle
    <3> HIDE DEF r
    <3> QED
      BY <2>3, <3>1 DEF IsRequest, Stages
  <2> HIDE DEF r
  <2> QED
    BY <1>2, <1>4, <1>3, <2>1, <2>2, <2>3, <2>4 DEF Asks, Serves, Intake!Ask
<1> QED
  BY <1>5, <1>6, <1>7, <1>8, <1>9, <1>10, <1>11

-----------------------------------------------------------------------------
(* A request goes on, or is answered.                                      *)

Moves(t, r) ==
  /\ Serves(t, r) /\ asked' = asked /\ r.d <= NewestDemand
  /\ r.do \in {"task", "bug"} => r.do = req[t].do /\ r.d = req[t].d
  /\ r.pc = "write" => Intake!TakeCodes(t) /\ r.top = Intake!TopCode
  /\ r.do # "clarification" /\ (r.do = "start" => r.pc = "inbox")

LEMMA IdleRequest ==
  /\ IsRequest(Intake!Idle) /\ Intake!Idle.do = "idle" /\ Intake!Idle.pc = "idle" /\ Intake!Idle.d = 0
BY DEF IsRequest, Intake!Idle, Stages

\* A request keeps what it is about when it goes on.
LEMMA GoesOn ==
  ASSUME ReqInv, NEW t \in Threads, NEW pc \in Stages[req[t].do], NEW r, r = [req[t] EXCEPT !.pc = pc]
  PROVE  IsRequest(r) /\ r.do = req[t].do /\ r.pc = pc /\ r.d = req[t].d /\ r.draft = req[t].draft /\ r.top = req[t].top /\ r.mark = req[t].mark
<1>1. IsRequest(req[t])
  BY DEF ReqInv
<1> QED
  BY <1>1 DEF IsRequest

LEMMA AnswerMoves ==
  ASSUME ReqInv, NEW t \in Threads, Intake!Answer(t), asked' = asked, Legacy \in Nat
  PROVE  Moves(t, Intake!Idle)
BY IdleRequest DEF Moves, Serves, Intake!Answer, Intake!Serve, ReqInv, NewestDemand

LEMMA GoMoves ==
  ASSUME ReqInv, NEW t \in Threads, NEW pc \in Stages[req[t].do], Intake!Go(t, pc), asked' = asked,
         pc # "write", req[t].do # "clarification", req[t].do = "start" => pc = "inbox"
  PROVE  \E r : Moves(t, r)
<1> DEFINE r == [req[t] EXCEPT !.pc = pc]
<1>1. IsRequest(r) /\ r.do = req[t].do /\ r.pc = pc /\ r.d = req[t].d
  BY GoesOn
<1>2. req' = [req EXCEPT ![t] = r]
  BY DEF Intake!Go, Intake!Serve
<1> HIDE DEF r
<1>3. Moves(t, r)
  BY <1>1, <1>2 DEF Moves, Serves, ReqInv
<1> QED
  BY <1>3

LEMMA ThreadMoves ==
  ASSUME PartAssumptions, ReqInv, TasksInv(rows, NewestDemand), IsSequence(index), NEW t \in Threads,
         \/ Intake!TakeCodes(t) \/ Intake!WriteTask(t) \/ Intake!CodesBusy(t)
         \/ Intake!TakeBugs(t) \/ Intake!PutBug(t) \/ Intake!AddEvidence(t) \/ Intake!LogEvidence(t)
         \/ Intake!Verdict(t) \/ Intake!AppendLog(t) \/ Intake!WriteInbox(t)
  PROVE  \E r : Moves(t, r)
<1>1. Legacy \in Nat /\ NewestDemand \in Nat
  BY DEF PartAssumptions, Intake!IntakeAssumption, ReqInv, NewestDemand
<1>2. IsRequest(req[t]) /\ req[t].d <= NewestDemand
  BY DEF ReqInv
<1>3. ASSUME Intake!Answer(t), asked' = asked PROVE \E r : Moves(t, r)
  BY <1>1, <1>3, AnswerMoves
<1>4. CASE Intake!TakeCodes(t)
  <2>0. PICK r : r = [req[t] EXCEPT !.pc = "write", !.top = Intake!TopCode]
    OBVIOUS
  <2>1. Intake!TopCode \in Nat
    BY <1>1, TopCodeIs
  <2>2. "write" \in Stages[req[t].do]
    BY <1>4 DEF Intake!TakeCodes, Intake!Creates, Stages
  <2>3. IsRequest(r) /\ r.do = req[t].do /\ r.d = req[t].d /\ r.top = Intake!TopCode
    BY <1>2, <2>0, <2>1, <2>2 DEF IsRequest
  <2>4. req' = [req EXCEPT ![t] = r] /\ asked' = asked /\ req[t].do \in {"task", "bug"}
    BY <1>4, <2>0 DEF Intake!TakeCodes, Intake!Serve, Intake!Creates
  <2>5. Moves(t, r)
    BY <1>2, <1>4, <2>3, <2>4 DEF Moves, Serves
  <2> QED
    BY <2>5
<1>5. CASE Intake!WriteTask(t)
  BY <1>3, <1>5 DEF Intake!WriteTask
<1>6. CASE Intake!CodesBusy(t)
  BY <1>3, <1>6 DEF Intake!CodesBusy
<1>7. CASE Intake!TakeBugs(t)
  <2>1. CASE Intake!Answer(t)
    BY <1>3, <1>7, <2>1 DEF Intake!TakeBugs
  <2>2. CASE Intake!Go(t, "files")
    <3>1. "files" \in Stages[req[t].do] /\ req[t].do \notin {"clarification", "start"}
      BY <1>2, <1>7 DEF Intake!TakeBugs, IsRequest, Stages
    <3>2. asked' = asked
      BY <1>7 DEF Intake!TakeBugs
    <3> QED
      BY <2>2, <3>1, <3>2, GoMoves
  <2> QED
    BY <1>7, <2>1, <2>2 DEF Intake!TakeBugs
<1>8. CASE Intake!PutBug(t)
  <2>0. PICK r : r = [req[t] EXCEPT !.pc = "append", !.mark = Len(index)]
    OBVIOUS
  <2>1. "append" \in Stages[req[t].do] /\ Len(index) \in Nat
    BY <1>8 DEF Intake!PutBug, Intake!At, Stages, IsSequence
  <2>2. IsRequest(r) /\ r.do = req[t].do /\ r.pc = "append" /\ r.d = req[t].d
    BY <1>2, <2>0, <2>1 DEF IsRequest
  <2>3. req' = [req EXCEPT ![t] = r] /\ asked' = asked /\ req[t].do = "bug"
    BY <1>8, <2>0 DEF Intake!PutBug, Intake!Serve, Intake!At
  <2>4. Moves(t, r)
    BY <1>2, <2>2, <2>3 DEF Moves, Serves
  <2> QED
    BY <2>4
<1>9. CASE Intake!AddEvidence(t)
  <2>1. CASE Intake!Answer(t)
    BY <1>3, <1>9, <2>1 DEF Intake!AddEvidence
  <2>2. CASE Intake!Go(t, "log")
    <3>1. "log" \in Stages[req[t].do] /\ req[t].do = "evidence" /\ asked' = asked
      BY <1>9 DEF Intake!AddEvidence, Intake!At, Stages
    <3> QED
      BY <2>2, <3>1, GoMoves
  <2> QED
    BY <1>9, <2>1, <2>2 DEF Intake!AddEvidence
<1>10. CASE Intake!LogEvidence(t)
  BY <1>3, <1>10 DEF Intake!LogEvidence
<1>11. CASE Intake!Verdict(t)
  <2>1. CASE Intake!Answer(t)
    BY <1>3, <1>11, <2>1 DEF Intake!Verdict
  <2>2. CASE \E ok \in BOOLEAN : Intake!Later(t, "validation", req[t].d, ok)
    <3>1. PICK ok \in BOOLEAN : Intake!Later(t, "validation", req[t].d, ok)
      BY <2>2
    <3> DEFINE d == req[t].d
               r == [Intake!Idle EXCEPT !.do = "validation", !.pc = "append", !.d = d, !.ok = ok]
    <3>2. req' = [req EXCEPT ![t] = r]
      BY <3>1 DEF Intake!Later, Intake!Serve
    <3>3. d \in Nat
      BY <1>2 DEF IsRequest
    <3> HIDE DEF d
    <3>4. r.do = "validation" /\ r.pc = "append" /\ r.d = d
      BY DEF Intake!Idle
    <3>5. DOMAIN r = {"do", "pc", "d", "draft", "top", "mark", "ok"} /\ {r.d, r.draft, r.top, r.mark} \subseteq Nat /\ r.ok \in BOOLEAN
      BY <3>3 DEF Intake!Idle
    <3> HIDE DEF r
    <3>6. IsRequest(r)
      BY <3>4, <3>5 DEF IsRequest, Stages
    <3>7. asked' = asked /\ d <= NewestDemand
      BY <1>2, <1>11 DEF Intake!Verdict, d
    <3>8. Moves(t, r)
      BY <3>2, <3>4, <3>6, <3>7 DEF Moves, Serves
    <3> QED
      BY <3>8
  <2> QED
    BY <1>11, <2>1, <2>2 DEF Intake!Verdict
<1>12. CASE Intake!AppendLog(t)
  <2>1. asked' = asked /\ req[t].do \in Intake!Appends
    BY <1>12 DEF Intake!AppendLog
  <2>2. CASE Intake!Answer(t)
    BY <1>3, <2>1, <2>2
  <2>3. CASE req[t].do = "start" /\ Intake!Go(t, "inbox")
    <3>1. "inbox" \in Stages[req[t].do]
      BY <2>3 DEF Stages
    <3> QED
      BY <2>1, <2>3, <3>1, GoMoves
  <2> QED
    BY <1>12, <2>2, <2>3 DEF Intake!AppendLog
<1>13. CASE Intake!WriteInbox(t)
  BY <1>3, <1>13 DEF Intake!WriteInbox
<1> QED
  BY <1>4, <1>5, <1>6, <1>7, <1>8, <1>9, <1>10, <1>11, <1>12, <1>13

-----------------------------------------------------------------------------
(* Codes: what the tasks of the log, the answers and the requests say.     *)

CodesPart == ReqInv /\ TasksInv(rows, NewestDemand) /\ FreshInv /\ CodesInv

\* No task comes, and no request gets further in creating one.
LEMMA CodesStay ==
  ASSUME Legacy \in Nat, CodesPart, ReqInv', asked' \in Nat, asked <= asked', told' = told,
         NEW new, Grows(rows, rows', new), \A e \in new : e.type # "task",
         \A t \in Threads : Creating(t)' =>
           /\ Creating(t) /\ req'[t].d = req[t].d
           /\ req'[t].pc = "write" => req[t].pc = "write" /\ req'[t].top = req[t].top /\ codesLock' = codesLock
  PROVE  CodesPart'
<1>1. NewestDemand \in Nat /\ NewestDemand' \in Nat /\ NewestDemand <= NewestDemand'
  BY DEF CodesPart, ReqInv, NewestDemand
<1>2. TasksInv(rows', NewestDemand') /\ Later(rows') = Later(rows) /\ \A i \in Later(rows) : rows'[i] = rows[i]
  BY <1>1, TasksStay DEF CodesPart
<1>3. FreshInv'
  BY <1>2 DEF FreshInv, CodesPart, Creating
<1>4. CodesInv'
  <2>1. \A d \in (Legacy + 1)..NewestDemand : d \in (Legacy + 1)..NewestDemand'
    BY <1>1
  <2> QED
    BY <1>2, <2>1 DEF CodesInv, CodesPart, Creating
<1> QED
  BY <1>2, <1>3, <1>4 DEF CodesPart

LEMMA AskKeepsReq ==
  ASSUME ReqInv, Legacy \in Nat, NEW t, NEW r, Asks(t, r)
  PROVE  ReqInv' /\ NewestDemand' = NewestDemand + 1 /\ t \in Threads /\ req'[t] = r /\ \A u \in Threads : u # t => req'[u] = req[u]
<1>1. /\ req' = [u \in Threads |-> req'[u]] /\ req'[t] = r /\ \A u \in Threads : u # t => req'[u] = req[u]
      /\ \A u \in Threads : IsRequest(req'[u])
  BY ServesIs DEF Asks
<1>2. asked' = asked + 1 /\ r.d <= NewestDemand + 1 /\ t \in Threads
  BY DEF Asks, Serves
<1>3. asked' \in Nat /\ NewestDemand' = NewestDemand + 1 /\ NewestDemand \in Nat
  BY <1>2 DEF ReqInv, NewestDemand
<1>4. \A u \in Threads : req'[u].d <= NewestDemand'
  <2>1. \A u \in Threads : req[u].d <= NewestDemand /\ req[u].d \in Nat
    BY DEF ReqInv, IsRequest
  <2> QED
    BY <1>1, <1>2, <1>3, <2>1
<1> QED
  BY <1>1, <1>2, <1>3, <1>4 DEF ReqInv

LEMMA MoveKeepsReq ==
  ASSUME ReqInv, NEW t, NEW r, Moves(t, r)
  PROVE  ReqInv' /\ NewestDemand' = NewestDemand /\ t \in Threads /\ req'[t] = r /\ \A u \in Threads : u # t => req'[u] = req[u]
<1>1. /\ req' = [u \in Threads |-> req'[u]] /\ req'[t] = r /\ \A u \in Threads : u # t => req'[u] = req[u]
      /\ \A u \in Threads : IsRequest(req'[u])
  BY ServesIs DEF Moves
<1>2. asked' = asked /\ r.d <= NewestDemand /\ t \in Threads
  BY DEF Moves, Serves
<1>3. NewestDemand' = NewestDemand
  BY <1>2 DEF NewestDemand
<1>4. \A u \in Threads : req'[u].d <= NewestDemand'
  BY <1>1, <1>2, <1>3 DEF ReqInv
<1> QED
  BY <1>1, <1>2, <1>3, <1>4 DEF ReqInv

LEMMA AskKeepsCodes ==
  ASSUME Legacy \in Nat, CodesPart, NEW t, NEW r, Asks(t, r)
  PROVE  CodesPart'
<1>1. ReqInv' /\ NewestDemand' = NewestDemand + 1 /\ t \in Threads /\ req'[t] = r /\ \A u \in Threads : u # t => req'[u] = req[u]
  BY AskKeepsReq DEF CodesPart
<1>2. rows' = rows /\ told' = told /\ codesLock' = codesLock
  BY DEF Asks, Intake!Keep
<1>3. NewestDemand \in Nat /\ \A d \in (Legacy + 1)..NewestDemand : d \in (Legacy + 1)..NewestDemand' /\ d # NewestDemand + 1
  BY <1>1 DEF CodesPart, ReqInv, NewestDemand
<1>4. TasksInv(rows', NewestDemand')
  BY <1>2, <1>3 DEF TasksInv, CodesPart
<1>5. r.pc # "write" /\ (r.do \in {"task", "bug"} => r.d = NewestDemand + 1)
  BY DEF Asks
<1>6. FreshInv'
  <2>1. \A u \in Threads : req[u].d \in Nat /\ req[u].d # NewestDemand + 1
    BY <1>3 DEF CodesPart, ReqInv, IsRequest
  <2>2. NewestDemand + 1 > Legacy /\ NewestDemand + 1 \notin DOMAIN told /\ \A i \in Later(rows) : rows[i].demand # NewestDemand + 1
    BY <1>3 DEF CodesPart, TasksInv, CodesInv, NewestDemand, ReqInv
  <2>3. \A u \in Threads : Creating(u)' => (u = t /\ req'[u].d = NewestDemand + 1) \/ (u # t /\ Creating(u) /\ req'[u].d = req[u].d)
    BY <1>1, <1>5 DEF Creating
  <2>4. \A u \in Threads : Creating(u) => req[u].d > Legacy /\ req[u].d \notin DOMAIN told /\ \A i \in Later(rows) : rows[i].demand # req[u].d
    BY DEF CodesPart, FreshInv
  <2>5. \A u, v \in Threads : u # v /\ Creating(u) /\ Creating(v) => req[u].d # req[v].d
    BY DEF CodesPart, FreshInv
  <2>6. \A u \in Threads : Creating(u)' =>
          req'[u].d > Legacy /\ req'[u].d \notin DOMAIN told' /\ \A i \in Later(rows') : rows'[i].demand # req'[u].d
    BY <1>2, <2>2, <2>3, <2>4
  <2>7. \A u, v \in Threads : u # v /\ Creating(u)' /\ Creating(v)' => req'[u].d # req'[v].d
    BY <2>1, <2>3, <2>5
  <2> QED
    BY <2>6, <2>7 DEF FreshInv, Creating
<1>7. CodesInv'
  <2>1. \A u \in Threads : Creating(u)' /\ req'[u].pc = "write" => Creating(u) /\ req[u].pc = "write" /\ req'[u] = req[u]
    BY <1>1, <1>5 DEF Creating
  <2>2. \A d \in DOMAIN told' : d \in (Legacy + 1)..NewestDemand' /\ \A i \in Later(rows') : rows'[i].demand = d => rows'[i].code = told'[d]
    BY <1>2, <1>3 DEF CodesPart, CodesInv
  <2> QED
    BY <1>2, <2>1, <2>2 DEF CodesPart, CodesInv, Creating
<1> QED
  BY <1>1, <1>4, <1>6, <1>7 DEF CodesPart

\* The code is read under codes.lock, and greater than all.
LEMMA TakeKeepsCodes ==
  ASSUME Legacy \in Nat, CodesPart, NEW t, NEW r, Moves(t, r), Intake!TakeCodes(t), "nobody" \notin Threads
  PROVE  CodesPart'
<1>1. ReqInv' /\ NewestDemand' = NewestDemand /\ t \in Threads /\ req'[t] = r /\ \A u \in Threads : u # t => req'[u] = req[u]
  BY MoveKeepsReq DEF CodesPart
<1>2. rows' = rows /\ told' = told /\ codesLock = "nobody" /\ codesLock' = t
  BY DEF Intake!TakeCodes, Intake!None
<1>3. \A u \in Threads : Creating(u)' => Creating(u) /\ req'[u].d = req[u].d
  BY <1>1 DEF Creating, Moves
<1>4. NewestDemand \in Nat
  BY DEF CodesPart, ReqInv, NewestDemand
<1>5. Legacy <= Intake!TopCode /\ \A i \in Later(rows) : rows[i].code <= Intake!TopCode
  BY <1>4, TopCodeIs DEF CodesPart
<1>6. \A u \in Threads : Creating(u)' /\ req'[u].pc = "write" => u = t /\ req'[u].top = Intake!TopCode
  <2>1. \A u \in Threads : ~(Creating(u) /\ req[u].pc = "write")
    BY <1>2 DEF CodesPart, CodesInv
  <2> QED
    BY <1>1, <2>1 DEF Creating, Moves
<1>7. Legacy \in Nat /\ Intake!TopCode \in Nat /\ Intake!TopCode >= Legacy
  BY <1>4, <1>5, TopCodeIs DEF CodesPart
<1>8. TasksInv(rows', NewestDemand') /\ Later(rows') = Later(rows)
  BY <1>1, <1>2 DEF CodesPart
<1>9. FreshInv'
  BY <1>2, <1>3, <1>8 DEF CodesPart, FreshInv, Creating
<1>10. CodesInv'
  BY <1>1, <1>2, <1>5, <1>6, <1>7, <1>8 DEF CodesPart, CodesInv, Creating
<1> QED
  BY <1>1, <1>8, <1>9, <1>10 DEF CodesPart

LEMMA TornIs ==
  ASSUME NEW r
  PROVE  LET e == Intake!NewTask(r)
         IN  /\ "torn" \in DOMAIN e /\ e.torn = FALSE /\ e.type = "task" /\ e.demand = r.d /\ e.code = r.top + 1
             /\ "torn" \in DOMAIN Intake!HalfTask(r) /\ Intake!HalfTask(r).torn
BY DEF Intake!HalfTask, Intake!NewTask, Intake!Row

\* The task is written with that code, and the answer says so.
LEMMA WriteKeepsCodes ==
  ASSUME Legacy \in Nat, CodesPart, NEW t, NEW r, Moves(t, r), Intake!WriteTask(t)
  PROVE  CodesPart'
<1>1. ReqInv' /\ NewestDemand' = NewestDemand /\ t \in Threads /\ req'[t] = r /\ \A u \in Threads : u # t => req'[u] = req[u]
  BY MoveKeepsReq DEF CodesPart
<1> DEFINE q == req[t]
<1>0. PICK e : e = Intake!NewTask(q)
  OBVIOUS
<1>2. /\ Creating(t) /\ q.pc = "write" /\ rows' = Intake!Appended(rows, e) /\ codesLock' = Intake!None
      /\ told' = Intake!Put(told, q.d, q.top + 1)
      /\ req' = [req EXCEPT ![t] = Intake!Idle]
  BY <1>0 DEF Intake!WriteTask, Intake!Creates, Creating, Intake!Answer, Intake!Serve
<1>3. "torn" \in DOMAIN e /\ e.type = "task" /\ e.demand = q.d /\ e.code = q.top + 1
  BY <1>0, TornIs
<1>4. Grows(rows, rows', {e})
  BY <1>2, <1>3, LogGrows DEF CodesPart, TasksInv
<1>5. /\ q.d \in (Legacy + 1)..NewestDemand /\ q.top \in Nat /\ q.top >= Legacy /\ codesLock = t
      /\ \A i \in Later(rows) : rows[i].demand # q.d /\ rows[i].code <= q.top /\ rows[i].code \in Nat
  BY <1>1, <1>2 DEF CodesPart, ReqInv, IsRequest, FreshInv, CodesInv, TasksInv, NewestDemand
<1>6. NewestDemand \in Nat
  BY DEF CodesPart, ReqInv, NewestDemand
<1>7. /\ TasksInv(rows', NewestDemand) /\ \A i \in Later(rows) : rows'[i] = rows[i]
      /\ \A i \in Later(rows') : i \in Later(rows) \/ rows'[i] = e
  <2>1. e.demand \in (Legacy + 1)..NewestDemand /\ e.code \in Nat /\ e.code > Legacy
    BY <1>3, <1>5
  <2>2. \A i \in Later(rows) : rows[i].demand # e.demand /\ rows[i].code < e.code
    BY <1>3, <1>5
  <2>3. TasksInv(rows, NewestDemand)
    BY DEF CodesPart
  <2>4. PICK new : new = {e}
    OBVIOUS
  <2>5. Grows(rows, rows', new) /\ \A x \in new : x = e
    BY <1>4, <2>4
  <2> QED
    BY <1>6, <2>1, <2>2, <2>3, <2>5, TaskComes
<1>8. DOMAIN told' = DOMAIN told \cup {q.d} /\ told'[q.d] = q.top + 1 /\ \A d \in DOMAIN told : d # q.d => told'[d] = told[d]
  BY <1>2 DEF Intake!Put
<1>9. \A u \in Threads : Creating(u)' => u # t /\ Creating(u) /\ req'[u] = req[u] /\ req[u].pc # "write"
  <2>1. ~Creating(t)'
    BY <1>1, <1>2, IdleRequest DEF Creating, CodesPart, ReqInv
  <2>2. \A u \in Threads : u # t /\ Creating(u) => req[u].pc # "write"
    BY <1>5 DEF CodesPart, CodesInv
  <2> QED
    BY <1>1, <2>1, <2>2 DEF Creating
<1>10. FreshInv'
  <2>1. \A u \in Threads : u # t /\ Creating(u) => req[u].d # q.d
    BY <1>1, <1>2 DEF CodesPart, FreshInv
  <2>2. \A u \in Threads : Creating(u)' =>
          req'[u].d > Legacy /\ req'[u].d \notin DOMAIN told' /\ \A i \in Later(rows') : rows'[i].demand # req'[u].d
    BY <1>3, <1>7, <1>8, <1>9, <2>1 DEF CodesPart, FreshInv
  <2>3. \A u, v \in Threads : u # v /\ Creating(u)' /\ Creating(v)' => req'[u].d # req'[v].d
    BY <1>9 DEF CodesPart, FreshInv
  <2> QED
    BY <2>2, <2>3 DEF FreshInv, Creating
<1>11. CodesInv'
  <2>1. ASSUME NEW d \in DOMAIN told', NEW i \in Later(rows'), rows'[i].demand = d PROVE rows'[i].code = told'[d]
    <3>1. CASE i \in Later(rows)
      BY <1>5, <1>7, <1>8, <2>1, <3>1 DEF CodesPart, CodesInv
    <3>2. CASE rows'[i] = e
      BY <1>3, <1>8, <2>1, <3>2
    <3> QED
      BY <1>7, <3>1, <3>2
  <2>2. \A d \in DOMAIN told' : d \in (Legacy + 1)..NewestDemand'
    BY <1>1, <1>5, <1>8 DEF CodesPart, CodesInv
  <2>3. \A u \in Threads : ~(Creating(u)' /\ req'[u].pc = "write")
    BY <1>9
  <2> QED
    BY <2>1, <2>2, <2>3 DEF CodesInv, Creating
<1> QED
  BY <1>1, <1>7, <1>10, <1>11 DEF CodesPart

-----------------------------------------------------------------------------
(* Steps that write the log, tasks aside.                                  *)

\* What is written for a request that creates nothing, or by the squad.
LEMMA RowIs ==
  ASSUME NEW type, NEW d
  PROVE  LET e == Intake!Row(type, d) IN e.type = type /\ e.demand = d /\ "torn" \in DOMAIN e
BY DEF Intake!Row

LEMMA EventIs ==
  ASSUME NEW type, NEW d, NEW ok, NEW code
  PROVE  LET e == [Intake!Row(type, d) EXCEPT !.ok = ok, !.code = code]
         IN  e.type = type /\ e.demand = d /\ e.ok = ok /\ e.code = code /\ "torn" \in DOMAIN e
BY DEF Intake!Row

EventOf(t) ==
  [Intake!Row(req[t].do, req[t].d) EXCEPT !.ok = req[t].ok,
     !.code = IF req[t].do = "validation" THEN Len(rows) + 1 ELSE req[t].top]

LEMMA AppendLogWrites ==
  ASSUME IsSequence(rows), NEW t, Intake!AppendLog(t)
  PROVE  /\ Grows(rows, rows', {EventOf(t)})
         /\ EventOf(t).type = req[t].do /\ EventOf(t).demand = req[t].d /\ EventOf(t).ok = req[t].ok
         /\ EventOf(t).code = IF req[t].do = "validation" THEN Len(rows) + 1 ELSE req[t].top
<1>1. rows' = Intake!Appended(rows, EventOf(t))
  BY DEF Intake!AppendLog, EventOf
<1>2. /\ "torn" \in DOMAIN EventOf(t)
      /\ EventOf(t).type = req[t].do /\ EventOf(t).demand = req[t].d /\ EventOf(t).ok = req[t].ok
      /\ EventOf(t).code = IF req[t].do = "validation" THEN Len(rows) + 1 ELSE req[t].top
  BY EventIs DEF EventOf
<1> QED
  BY <1>1, <1>2, LogGrows

LEMMA LogEvidenceWrites ==
  ASSUME IsSequence(rows), NEW t, Intake!LogEvidence(t)
  PROVE  \E e : e.type = "bug-evidence" /\ e.demand = req[t].d /\ Grows(rows, rows', {e})
BY RowIs, LogGrows DEF Intake!LogEvidence

LEMMA SquadWritesIt ==
  ASSUME IsSequence(rows), Intake!SquadWrites
  PROVE  \E e : e.type \in {"gate", "delivered"} /\ Grows(rows, rows', {e})
<1>1. PICK d \in inbox, type \in {"gate", "delivered"} : rows' = Intake!Appended(rows, Intake!Row(type, d))
  BY DEF Intake!SquadWrites
<1>2. PICK e : e = Intake!Row(type, d)
  OBVIOUS
<1>3. e.type = type /\ "torn" \in DOMAIN e
  BY <1>2, RowIs
<1>4. Grows(rows, rows', {e})
  BY <1>1, <1>2, <1>3, LogGrows
<1> QED
  BY <1>1, <1>3, <1>4

\* A stop leaves at most half a line.
LEMMA StopWrites ==
  ASSUME IsSequence(rows), Intake!Stop
  PROVE  Grows(rows, rows', {})
<1>1. CASE rows' = rows
  BY <1>1, LogStays
<1>2. ASSUME NEW t, rows' = Intake!Appended(rows, Intake!HalfTask(req[t])) PROVE Grows(rows, rows', {})
  BY <1>2, TornIs, LogGrows
<1> QED
  BY <1>1, <1>2 DEF Intake!Stop

LEMMA TaskWrites ==
  ASSUME IsSequence(rows), NEW t, Intake!WriteTask(t)
  PROVE  Grows(rows, rows', {Intake!NewTask(req[t])}) /\ Intake!NewTask(req[t]).type = "task"
BY TornIs, LogGrows DEF Intake!WriteTask

LEMMA StopKeepsReq ==
  ASSUME ReqInv, Intake!Stop, Legacy \in Nat
  PROVE  ReqInv' /\ asked' = asked /\ \A t \in Threads : req'[t] = Intake!Idle
BY IdleRequest DEF ReqInv, Intake!Stop, NewestDemand

OtherMoves(t) ==
  \/ Intake!CodesBusy(t) \/ Intake!TakeBugs(t) \/ Intake!PutBug(t) \/ Intake!AddEvidence(t) \/ Intake!LogEvidence(t)
  \/ Intake!Verdict(t) \/ Intake!AppendLog(t) \/ Intake!WriteInbox(t)

LEMMA MovesWrite ==
  ASSUME IsSequence(rows), NEW t, OtherMoves(t)
  PROVE  /\ told' = told /\ codesLock' = codesLock
         /\ \E new : Grows(rows, rows', new) /\ \A e \in new : e.type # "task"
<1>1. told' = told /\ codesLock' = codesLock
  BY DEF OtherMoves, Intake!CodesBusy, Intake!TakeBugs, Intake!PutBug, Intake!AddEvidence, Intake!LogEvidence, Intake!Verdict,
         Intake!AppendLog, Intake!WriteInbox
<1>2. CASE Intake!LogEvidence(t)
  <2>1. PICK e : e.type = "bug-evidence" /\ Grows(rows, rows', {e})
    BY <1>2, LogEvidenceWrites
  <2>2. \A x \in {e} : x.type # "task"
    BY <2>1
  <2> QED
    BY <1>1, <2>1, <2>2
<1>3. CASE Intake!AppendLog(t)
  <2>1. PICK e : e.type = req[t].do /\ Grows(rows, rows', {e})
    BY <1>3, AppendLogWrites
  <2>2. \A x \in {e} : x.type # "task"
    BY <1>3, <2>1 DEF Intake!AppendLog, Intake!Appends
  <2> QED
    BY <1>1, <2>1, <2>2
<1>4. CASE ~Intake!LogEvidence(t) /\ ~Intake!AppendLog(t)
  <2>1. rows' = rows
    BY <1>4 DEF OtherMoves, Intake!CodesBusy, Intake!TakeBugs, Intake!PutBug, Intake!AddEvidence, Intake!Verdict, Intake!WriteInbox, Intake!Files
  <2> QED
    BY <1>1, <2>1, LogStays
<1> QED
  BY <1>2, <1>3, <1>4

LEMMA MoveKeepsCodes ==
  ASSUME Legacy \in Nat, CodesPart, NEW t, NEW r, Moves(t, r), OtherMoves(t)
  PROVE  CodesPart'
<1>1. ReqInv' /\ NewestDemand' = NewestDemand /\ t \in Threads /\ req'[t] = r /\ \A u \in Threads : u # t => req'[u] = req[u]
  BY MoveKeepsReq DEF CodesPart
<1>2. asked' = asked /\ asked \in Nat /\ asked' \in Nat /\ asked <= asked'
  BY DEF Moves, CodesPart, ReqInv
<1>3. told' = told /\ codesLock' = codesLock
  BY MovesWrite DEF CodesPart, TasksInv
<1>4. PICK new : Grows(rows, rows', new) /\ \A e \in new : e.type # "task"
  BY MovesWrite DEF CodesPart, TasksInv
<1>5. ~(Creating(t)' /\ req'[t].pc = "write")
  <2>1. req[t].pc = "append" => ~(r.pc = "write")
    <3>1. CASE Intake!CodesBusy(t)
      <4>1. req' = [req EXCEPT ![t] = Intake!Idle]
        BY <3>1 DEF Intake!CodesBusy, Intake!Answer, Intake!Serve
      <4> QED
        BY <1>1, <4>1, IdleRequest DEF CodesPart, ReqInv
    <3>2. CASE ~Intake!CodesBusy(t)
      BY <3>2 DEF Moves, OtherMoves, Intake!TakeCodes, Intake!TakeBugs, Intake!PutBug, Intake!AddEvidence, Intake!LogEvidence,
                  Intake!Verdict, Intake!AppendLog, Intake!WriteInbox, Intake!At, Intake!Appends, Intake!Creates
    <3> QED
      BY <3>1, <3>2
  <2>2. r.pc = "write" => req[t].pc = "append"
    BY DEF Moves, Intake!TakeCodes
  <2> QED
    BY <1>1, <2>1, <2>2
<1>6. \A u \in Threads : Creating(u)' =>
           /\ Creating(u) /\ req'[u].d = req[u].d
           /\ req'[u].pc = "write" => req[u].pc = "write" /\ req'[u].top = req[u].top /\ codesLock' = codesLock
  BY <1>1, <1>3, <1>5 DEF Creating, Moves
<1> QED
  BY <1>1, <1>2, <1>3, <1>4, <1>6, CodesStay

LEMMA CodesSurviveRest ==
  ASSUME Legacy \in Nat, CodesPart, Intake!ExpireDraft \/ Intake!SquadWrites \/ Intake!Stop \/ \E t \in Threads : Intake!BuildDraft(t)
  PROVE  CodesPart'
<1>1. asked' = asked /\ asked \in Nat /\ told' = told /\ asked' \in Nat /\ asked <= asked'
  BY DEF CodesPart, ReqInv, Intake!ExpireDraft, Intake!SquadWrites, Intake!Stop, Intake!BuildDraft
<1>2. CASE Intake!Stop
  <2>1. ReqInv' /\ \A t \in Threads : ~Creating(t)'
    BY <1>2, StopKeepsReq, IdleRequest DEF CodesPart, Creating
  <2>2. Grows(rows, rows', {})
    BY <1>2, StopWrites DEF CodesPart, TasksInv
  <2> QED
    BY <1>1, <2>1, <2>2, CodesStay
<1>3. CASE ~Intake!Stop
  <2>1. req' = req /\ codesLock' = codesLock
    BY <1>3 DEF Intake!ExpireDraft, Intake!SquadWrites, Intake!BuildDraft
  <2>2. ReqInv'
    BY <1>1, <2>1 DEF CodesPart, ReqInv, NewestDemand
  <2>3. PICK new : Grows(rows, rows', new) /\ \A e \in new : e.type # "task"
    <3>1. CASE Intake!SquadWrites
      <4>1. PICK e : e.type \in {"gate", "delivered"} /\ Grows(rows, rows', {e})
        BY <3>1, SquadWritesIt DEF CodesPart, TasksInv
      <4>2. \A x \in {e} : x.type # "task"
        BY <4>1
      <4> QED
        BY <4>1, <4>2
    <3>2. CASE ~Intake!SquadWrites
      <4>1. rows' = rows
        BY <1>3, <3>2 DEF Intake!ExpireDraft, Intake!BuildDraft
      <4> QED
        BY <4>1, LogStays DEF CodesPart, TasksInv
    <3> QED
      BY <3>1, <3>2
  <2>4. \A t \in Threads : Creating(t)' => Creating(t)
    BY <2>1 DEF Creating
  <2> QED
    BY <1>1, <2>1, <2>2, <2>3, <2>4, CodesStay
<1> QED
  BY <1>2, <1>3

LEMMA CodesPartStands ==
  ASSUME PartAssumptions, CodesPart
  PROVE  Intake!CodesStand
<1> DEFINE H == Intake!HumanTasks
<1>1. NewestDemand \in Nat
  BY DEF PartAssumptions, Intake!IntakeAssumption, CodesPart, ReqInv, NewestDemand
<1>2. /\ Legacy \in Nat /\ Until \in Nat /\ Until <= Legacy
      /\ H = (1..Legacy) \cup Later(rows) /\ \A n \in 1..Legacy : rows[n].demand = n /\ CodeAt(n) = n
      /\ \A n \in Later(rows) : CodeAt(n) = rows[n].code
  BY <1>1, TasksAre DEF CodesPart
<1>3. /\ \A n \in H : CodeAt(n) \in Nat \ {0} /\ CodeOf(rows[n].demand) = CodeAt(n)
      /\ \A m, n \in H : m < n => CodeAt(m) < CodeAt(n)
      /\ H \subseteq 1..Len(rows) /\ Len(rows) \in Nat
  BY <1>1, TasksAre DEF CodesPart
<1>4. DOMAIN Intake!DemandCodes = DemandsAt(H) /\ \A d \in DemandsAt(H) : Intake!DemandCodes[d] = CodeOf(d)
  BY <1>1, CodesAre DEF CodesPart
<1>5. Intake!Known = DemandsAt(H)
  BY DEF Intake!Known, DemandsAt
<1> HIDE DEF H
<1>6. ASSUME NEW d \in DOMAIN told \cap DemandsAt(H) PROVE CodeOf(d) = told[d]
  <2>1. PICK n \in H : rows[n].demand = d
    BY <1>6 DEF DemandsAt
  <2>2. d \in (Legacy + 1)..NewestDemand
    BY <1>6 DEF CodesPart, CodesInv
  <2>3. n \in Later(rows)
    BY <1>1, <1>2, <2>1, <2>2
  <2>4. rows[n].code = told[d]
    BY <1>6, <2>1, <2>3 DEF CodesPart, CodesInv
  <2> QED
    BY <1>2, <1>3, <2>1, <2>3, <2>4
<1>7. ASSUME NEW d \in DemandsAt(H), NEW e \in DemandsAt(H), CodeOf(d) = CodeOf(e) PROVE d = e
  <2>1. PICK m \in H : rows[m].demand = d
    BY DEF DemandsAt
  <2>2. PICK n \in H : rows[n].demand = e
    BY DEF DemandsAt
  <2>3. CodeAt(m) = CodeAt(n) /\ CodeAt(m) \in Nat
    BY <1>3, <1>7, <2>1, <2>2
  <2>4. m \in Nat /\ n \in Nat
    BY <1>3
  <2>5. ~(m < n) /\ ~(n < m)
    BY <1>3, <2>3
  <2> QED
    BY <2>1, <2>2, <2>4, <2>5
<1>8. ASSUME NEW d \in DemandsAt(H) \cap DOMAIN Intake!Frozen PROVE CodeOf(d) = Intake!Frozen[d]
  <2>1. d \in 1..Until /\ Intake!Frozen[d] = d
    BY <1>8 DEF Intake!Frozen
  <2>2. d \in 1..Legacy /\ d \in H
    BY <1>2, <2>1
  <2> QED
    BY <1>2, <1>3, <2>1, <2>2
<1> QED
  BY <1>4, <1>5, <1>6, <1>7, <1>8 DEF Intake!CodesStand

-----------------------------------------------------------------------------
(* Starts: what the log and the waiting requests say.                      *)

StartsPart == ReqInv /\ IsSequence(rows) /\ StartsInv(rows) /\ WaitingInv

\* What may be appended: a validation by its place, a clarification of an earlier one,
\* a start that was overridden or is ready.
MayFollow(s, e) ==
  /\ e.type = "validation" => e.code = Len(s) + 1
  /\ e.type = "clarification" => e.code \in Nat /\ e.code <= Len(s)
  /\ e.type = "start" => e.ok \/ ReadyBefore(s, e.demand, Len(s) + 1)

LEMMA StartsFollow ==
  ASSUME NEW s, NEW r, NEW new, Grows(s, r, new), \A e \in new : MayFollow(s, e), StartsInv(s)
  PROVE  StartsInv(r)
<1>1. Len(s) \in Nat /\ ReadOf(s) \subseteq Nat
  BY DomainOf DEF Grows, ReadOf
<1>2. \A type : \A i \in OfType(r, type) : (i \in OfType(s, type) /\ r[i] = s[i]) \/ (i = Len(s) + 1 /\ r[i] \in new /\ r[i].type = type)
  BY DEF Grows, OfType
<1>3. \A i \in OfType(r, "validation") : r[i].code = i
  BY <1>2 DEF StartsInv, MayFollow
<1>4. \A i \in OfType(r, "clarification") : r[i].code \in Nat /\ r[i].code < i
  BY <1>1, <1>2 DEF StartsInv, MayFollow
<1>5. ASSUME NEW i \in OfType(r, "start"), ~r[i].ok PROVE ReadyBefore(r, r[i].demand, i)
  <2>1. i \in Nat /\ ReadyBefore(s, r[i].demand, i)
    <3>1. CASE i \in OfType(s, "start") /\ r[i] = s[i]
      BY <1>1, <1>5, <3>1 DEF StartsInv, OfType
    <3>2. CASE i = Len(s) + 1 /\ r[i] \in new /\ r[i].type = "start"
      BY <1>1, <1>5, <3>2 DEF MayFollow
    <3> QED
      BY <1>2, <3>1, <3>2
  <2> QED
    BY <2>1, ReadySince
<1> QED
  BY <1>3, <1>4, <1>5 DEF StartsInv

Waits(r) == r.do = "clarification" \/ (r.do = "start" /\ r.pc = "append" /\ ~r.ok)

\* The log grows, and nobody new waits.
LEMMA StartsStay ==
  ASSUME StartsPart, ReqInv', NEW new, Grows(rows, rows', new), \A e \in new : MayFollow(rows, e),
         \A t \in Threads : Waits(req'[t]) => req'[t] = req[t]
  PROVE  StartsPart'
<1>1. StartsInv(rows') /\ IsSequence(rows') /\ Len(rows) <= Len(rows')
  BY StartsFollow DEF StartsPart, Grows
<1>2. Len(rows) \in Nat /\ Len(rows') \in Nat
  BY DomainOf DEF Grows
<1>3. ASSUME NEW t \in Threads, req'[t].do = "clarification" PROVE req'[t].top <= Len(rows')
  <2>1. req[t].top <= Len(rows) /\ req'[t] = req[t] /\ req[t].top \in Nat
    BY <1>3 DEF StartsPart, WaitingInv, Waits, ReqInv, IsRequest
  <2> QED
    BY <1>1, <1>2, <2>1
<1>4. ASSUME NEW t \in Threads, req'[t].do = "start", req'[t].pc = "append", ~req'[t].ok
      PROVE  ReadyBefore(rows', req'[t].d, Len(rows') + 1)
  <2>1. req'[t] = req[t] /\ ReadyBefore(rows, req[t].d, Len(rows) + 1)
    BY <1>4 DEF StartsPart, WaitingInv, Waits
  <2>2. Len(rows) + 1 \in Nat /\ Len(rows') + 1 \in Nat /\ Len(rows) + 1 <= Len(rows') + 1
    BY <1>1, <1>2
  <2> QED
    BY <2>1, <2>2, ReadySince
<1> QED
  BY <1>1, <1>3, <1>4 DEF StartsPart, WaitingInv

\* What Ready says of the log read is what ReadyBefore says of its end.
LEMMA ReadyIs ==
  ASSUME IsSequence(rows), StartsInv(rows), NEW d, Intake!Ready(d)
  PROVE  ReadyBefore(rows, d, Len(rows) + 1)
<1> DEFINE vals == Intake!Events("validation", d)
           last == Intake!Max(vals)
<1>1. \A i : i \in Intake!ReadRows <=> i \in ReadOf(rows)
  BY DEF Intake!ReadRows, ReadOf
<1>2. ReadOf(rows) \subseteq 1..Len(rows) /\ Len(rows) \in Nat
  BY DomainOf DEF ReadOf
<1>3. vals # {} /\ vals \subseteq Nat /\ \A v \in vals : v \in OfType(rows, "validation") /\ rows[v].demand = d /\ v <= Len(rows)
  BY <1>1, <1>2 DEF Intake!Ready, Intake!Events, OfType
<1>4. rows[last].ok \/ \E i \in Intake!ReadRows : rows[i].type = "clarification" /\ rows[i].code = rows[last].code
  BY DEF Intake!Ready
<1> HIDE DEF vals
<1>5. last \in vals
  <2>1. PICK v \in vals : \A w \in vals : w <= v
    BY <1>2, <1>3, GreatestElement
  <2>2. \A w \in vals : v >= w
    BY <1>3, <2>1
  <2>3. last = CHOOSE x \in vals : \A y \in vals : x >= y
    BY DEF Intake!Max
  <2> QED
    BY <2>2, <2>3
<1> HIDE DEF last
<1>6. last \in OfType(rows, "validation") /\ rows[last].demand = d /\ last < Len(rows) + 1 /\ rows[last].code = last /\ last \in Nat
  <2>1. last \in OfType(rows, "validation") /\ rows[last].demand = d /\ last <= Len(rows) /\ last \in Nat
    BY <1>3, <1>5
  <2>2. rows[last].code = last
    BY <2>1 DEF StartsInv
  <2>3. last < Len(rows) + 1
    BY <1>2, <2>1
  <2> QED
    BY <2>1, <2>2, <2>3
<1>7. CASE rows[last].ok
  BY <1>6, <1>7 DEF ReadyBefore
<1>8. ASSUME NEW i \in Intake!ReadRows, rows[i].type = "clarification", rows[i].code = rows[last].code
      PROVE  ReadyBefore(rows, d, Len(rows) + 1)
  <2>1. i \in OfType(rows, "clarification") /\ i \in 1..Len(rows)
    BY <1>1, <1>2, <1>8 DEF OfType
  <2>2. last < i /\ i < Len(rows) + 1
    BY <1>2, <1>6, <1>8, <2>1 DEF StartsInv
  <2> QED
    BY <1>6, <1>8, <2>1, <2>2 DEF ReadyBefore
<1> QED
  BY <1>4, <1>7, <1>8

LEMMA AskKeepsStarts ==
  ASSUME Legacy \in Nat, StartsPart, NEW t, NEW r, Asks(t, r)
  PROVE  StartsPart'
<1>1. ReqInv' /\ t \in Threads /\ req'[t] = r /\ \A u \in Threads : u # t => req'[u] = req[u]
  BY AskKeepsReq DEF StartsPart
<1>2. rows' = rows
  BY DEF Asks, Intake!Keep
<1>3. r.do = "clarification" => r.top <= Len(rows)
  <2> SUFFICES ASSUME r.do = "clarification" PROVE r.top <= Len(rows)
    OBVIOUS
  <2>1. PICK v \in OfType(rows, "validation") : r.top = rows[v].code
    BY DEF Asks
  <2>2. r.top = v /\ v \in DOMAIN rows
    BY <2>1 DEF StartsPart, StartsInv, OfType, ReadOf
  <2> QED
    BY <2>2, DomainOf DEF StartsPart
<1>4. r.do = "start" /\ ~r.ok => ReadyBefore(rows, r.d, Len(rows) + 1)
  BY ReadyIs DEF Asks, StartsPart
<1>5. WaitingInv'
  BY <1>1, <1>2, <1>3, <1>4 DEF StartsPart, WaitingInv
<1> QED
  BY <1>1, <1>2, <1>5 DEF StartsPart

LEMMA MoveKeepsStarts ==
  ASSUME StartsPart, NEW t, NEW r, Moves(t, r), OtherMoves(t) \/ Intake!TakeCodes(t) \/ Intake!WriteTask(t)
  PROVE  StartsPart'
<1>1. ReqInv' /\ t \in Threads /\ req'[t] = r /\ \A u \in Threads : u # t => req'[u] = req[u]
  BY MoveKeepsReq DEF StartsPart
<1>2. \A u \in Threads : Waits(req'[u]) => req'[u] = req[u]
  BY <1>1 DEF Waits, Moves
<1>3. \E new : Grows(rows, rows', new) /\ \A e \in new : MayFollow(rows, e)
  <2>1. CASE Intake!LogEvidence(t)
    <3>1. PICK e : e.type = "bug-evidence" /\ Grows(rows, rows', {e})
      BY <2>1, LogEvidenceWrites DEF StartsPart
    <3>2. \A x \in {e} : MayFollow(rows, x)
      BY <3>1 DEF MayFollow
    <3> QED
      BY <3>1, <3>2
  <2>2. CASE Intake!WriteTask(t)
    <3>1. PICK e : e.type = "task" /\ Grows(rows, rows', {e})
      BY <2>2, TaskWrites DEF StartsPart
    <3>2. \A x \in {e} : MayFollow(rows, x)
      BY <3>1 DEF MayFollow
    <3> QED
      BY <3>1, <3>2
  <2>3. CASE Intake!AppendLog(t)
    <3>1. PICK e : /\ Grows(rows, rows', {e}) /\ e.type = req[t].do /\ e.demand = req[t].d /\ e.ok = req[t].ok
                   /\ e.code = IF req[t].do = "validation" THEN Len(rows) + 1 ELSE req[t].top
      BY <2>3, AppendLogWrites DEF StartsPart
    <3>2. IsRequest(req[t]) /\ req[t].pc = "append"
      BY <1>1, <2>3 DEF StartsPart, ReqInv, Intake!AppendLog
    <3>3. MayFollow(rows, e)
      BY <1>1, <3>1, <3>2 DEF MayFollow, StartsPart, WaitingInv, IsRequest
    <3>4. \A x \in {e} : MayFollow(rows, x)
      BY <3>3
    <3> QED
      BY <3>1, <3>4
  <2>4. CASE ~Intake!LogEvidence(t) /\ ~Intake!WriteTask(t) /\ ~Intake!AppendLog(t)
    <3>1. rows' = rows
      BY <2>4 DEF OtherMoves, Intake!CodesBusy, Intake!TakeBugs, Intake!PutBug, Intake!AddEvidence, Intake!Verdict, Intake!WriteInbox,
                  Intake!Files, Intake!TakeCodes
    <3> QED
      BY <3>1, LogStays DEF StartsPart
  <2> QED
    BY <2>1, <2>2, <2>3, <2>4
<1> QED
  BY <1>1, <1>2, <1>3, StartsStay

LEMMA StartsSurviveRest ==
  ASSUME Legacy \in Nat, StartsPart, Intake!ExpireDraft \/ Intake!SquadWrites \/ Intake!Stop \/ \E t \in Threads : Intake!BuildDraft(t)
  PROVE  StartsPart'
<1>1. CASE Intake!Stop
  <2>1. ReqInv' /\ \A t \in Threads : ~Waits(req'[t])
    BY <1>1, StopKeepsReq, IdleRequest DEF StartsPart, Waits
  <2>2. Grows(rows, rows', {})
    BY <1>1, StopWrites DEF StartsPart
  <2> QED
    BY <2>1, <2>2, StartsStay
<1>2. CASE ~Intake!Stop
  <2>1. req' = req /\ asked' = asked
    BY <1>2 DEF Intake!ExpireDraft, Intake!SquadWrites, Intake!BuildDraft
  <2>2. ReqInv'
    BY <2>1 DEF StartsPart, ReqInv, NewestDemand
  <2>3. PICK new : Grows(rows, rows', new) /\ \A e \in new : MayFollow(rows, e)
    <3>1. CASE Intake!SquadWrites
      <4>1. PICK e : e.type \in {"gate", "delivered"} /\ Grows(rows, rows', {e})
        BY <3>1, SquadWritesIt DEF StartsPart
      <4>2. \A x \in {e} : MayFollow(rows, x)
        BY <4>1 DEF MayFollow
      <4> QED
        BY <4>1, <4>2
    <3>2. CASE ~Intake!SquadWrites
      <4>1. rows' = rows
        BY <1>2, <3>2 DEF Intake!ExpireDraft, Intake!BuildDraft
      <4> QED
        BY <4>1, LogStays DEF StartsPart
    <3> QED
      BY <3>1, <3>2
  <2> QED
    BY <2>1, <2>2, <2>3, StartsStay
<1> QED
  BY <1>1, <1>2

LEMMA StartsPartReady ==
  ASSUME StartsPart
  PROVE  Intake!StartsReady
<1>1. \A i : i \in Intake!ReadRows <=> i \in ReadOf(rows)
  BY DEF Intake!ReadRows, ReadOf
<1> SUFFICES ASSUME NEW s \in Intake!ReadRows, rows[s].type = "start", ~rows[s].ok
             PROVE  \E v \in Intake!Events("validation", rows[s].demand) :
                      /\ v < s
                      /\ \/ rows[v].ok
                         \/ \E c \in Intake!ReadRows : v < c /\ c < s /\ rows[c].type = "clarification" /\ rows[c].code = rows[v].code
  BY DEF Intake!StartsReady
<1>2. ReadyBefore(rows, rows[s].demand, s)
  BY <1>1 DEF StartsPart, StartsInv, OfType
<1> QED
  BY <1>1, <1>2 DEF ReadyBefore, OfType, Intake!Events

-----------------------------------------------------------------------------
(* Bugs: their drafts, folders, lines of the index and evidence.           *)

BugsPart == ReqInv /\ IsSequence(rows) /\ DraftsInv /\ BugReqInv /\ FoldersInv /\ EvidenceInv

\* Whoever holds bugs.LOCK works on bugs alone.
LEMMA LockKeepsOut ==
  ASSUME BugReqInv, "nobody" \notin Threads, NEW t, Holds(t) \/ bugsLock = "nobody", NEW u \in Threads, u # t, t \in Threads
  PROVE  ~Holds(u)
BY DEF BugReqInv

LEMMA EvidenceStays ==
  ASSUME NEW s, NEW r, NEW new, Grows(s, r, new), \A e \in new : e.type # "bug-evidence"
  PROVE  \A d : EvidenceOf(r, d) = EvidenceOf(s, d)
<1>1. OfType(r, "bug-evidence") = OfType(s, "bug-evidence") /\ \A i \in OfType(s, "bug-evidence") : r[i] = s[i]
  BY OthersStay
<1> QED
  BY <1>1 DEF EvidenceOf

\* A request that is none of a bug, or goes on with it and leaves its files alone.
IsBugs(q) == q.do \in {"bug", "evidence"}
GoesOnWith(q, r) ==
  /\ IsBugs(q) <=> IsBugs(r)
  /\ IsBugs(r) => /\ r.do = q.do /\ r.d = q.d /\ r.draft = q.draft /\ r.mark = q.mark
                  /\ r.pc = q.pc \/ (q.pc = "append" /\ r.pc = "write" /\ r.do = "bug")

LEMMA BugsStay ==
  ASSUME BugsPart, ReqInv', NewestDemand \in Nat, NewestDemand' \in Nat, NewestDemand <= NewestDemand',
         bugsLock' = bugsLock, folders' = folders, index' = index, fromDraft' = fromDraft, cut' = cut,
         drafted' \in Nat, drafted <= drafted', \A f \in drafts' : f \in drafts \/ f \in (drafted + 1)..drafted',
         NEW new, Grows(rows, rows', new), \A e \in new : e.type # "bug-evidence",
         \A t \in Threads : GoesOnWith(req[t], req'[t])
  PROVE  BugsPart'
<1>1. IsSequence(rows') /\ \A d : EvidenceOf(rows', d) = EvidenceOf(rows, d)
  BY EvidenceStays DEF Grows
<1>2. \A d : (Logging(d)' <=> Logging(d)) /\ (Intake!InFlight(d)' <=> Intake!InFlight(d)) /\ (Indexed(d)' <=> Indexed(d))
  BY DEF Logging, Intake!InFlight, GoesOnWith, IsBugs, Indexed
<1>3. DraftsInv'
  <2>1. drafted \in Nat /\ drafts \subseteq 1..drafted /\ \A f \in 1..drafted : f \in 1..drafted' /\ f \notin (drafted + 1)..drafted'
    BY DEF BugsPart, DraftsInv
  <2>2. drafts' \subseteq 1..drafted'
    <3>1. \A f \in drafts : f \in 1..drafted'
      BY <2>1
    <3>2. \A f \in (drafted + 1)..drafted' : f \in 1..drafted'
      BY <2>1
    <3> QED
      BY <3>1, <3>2
  <2>3. \A d \in DOMAIN fromDraft : fromDraft[d] \in (1..drafted') \ drafts'
    BY <2>1 DEF BugsPart, DraftsInv
  <2> QED
    BY <2>2, <2>3 DEF BugsPart, DraftsInv
<1>4. BugReqInv'
  <2>1. \A t \in Threads : (Holds(t)' <=> Holds(t)) /\ (IsBugs(req'[t]) <=> IsBugs(req[t]))
    BY DEF Holds, GoesOnWith, IsBugs
  <2>2. drafted \in Nat /\ \A f \in 1..drafted : f \in 1..drafted'
    BY DEF BugsPart, DraftsInv
  <2>3. ASSUME NEW t \in Threads
        PROVE  /\ Holds(t)' => bugsLock' = t
               /\ req'[t].do \in {"bug", "evidence"} => req'[t].draft \in 1..drafted'
               /\ req'[t].do = "bug" => req'[t].d \notin DOMAIN fromDraft'
               /\ req'[t].do = "bug" /\ Holds(t)' => \A d \in DOMAIN fromDraft' : fromDraft'[d] # req'[t].draft
    BY <2>1, <2>2 DEF BugsPart, BugReqInv, GoesOnWith, IsBugs
  <2>4. ASSUME NEW t \in Threads, req'[t].do = "bug", req'[t].pc \in {"verified", "files"}
        PROVE  req'[t].d \notin DOMAIN folders' /\ ~Indexed(req[t].d)' /\ EvidenceOf(rows', req'[t].d) = {}
    <3>1. req[t].do = "bug" /\ req[t].pc \in {"verified", "files"} /\ req'[t].d = req[t].d
      BY <2>4 DEF GoesOnWith, IsBugs
    <3>2. req[t].d \notin DOMAIN folders /\ ~Indexed(req[t].d) /\ EvidenceOf(rows, req[t].d) = {}
      BY <3>1 DEF BugsPart, BugReqInv
    <3> DEFINE d == req[t].d
    <3>3. d \notin DOMAIN folders' /\ ~(\E i \in DOMAIN index' : index'[i] = d) /\ EvidenceOf(rows', d) = {}
      BY <1>1, <3>2 DEF Indexed
    <3> QED
      BY <3>1, <3>3 DEF Indexed
  <2>5. ASSUME NEW t \in Threads, req'[t].do = "bug", req'[t].pc \in {"append", "write"}
        PROVE  /\ req'[t].d \in DOMAIN folders' /\ Len(index') = req'[t].mark + 1
               /\ \A i \in DOMAIN index' : index'[i] = req'[t].d <=> i = Len(index')
    <3>1. req[t].do = "bug" /\ req[t].pc \in {"append", "write"} /\ req'[t].d = req[t].d /\ req'[t].mark = req[t].mark
      BY <2>5 DEF GoesOnWith, IsBugs
    <3>2. /\ req[t].d \in DOMAIN folders /\ Len(index) = req[t].mark + 1
          /\ \A i \in DOMAIN index : index[i] = req[t].d <=> i = Len(index)
      BY <3>1 DEF BugsPart, BugReqInv
    <3> QED
      BY <3>1, <3>2
  <2>6. \A t \in Threads : req'[t].do = "evidence" /\ req'[t].pc = "log" => req'[t].d \in DOMAIN folders'
    BY DEF BugsPart, BugReqInv, GoesOnWith, IsBugs
  <2>7. \A t \in Threads :
          /\ req'[t].do = "bug" /\ req'[t].pc \in {"verified", "files"} =>
               req'[t].d \notin DOMAIN folders' /\ ~Indexed(req[t].d)' /\ EvidenceOf(rows', req'[t].d) = {}
          /\ req'[t].do = "bug" /\ req'[t].pc \in {"append", "write"} =>
               /\ req'[t].d \in DOMAIN folders' /\ Len(index') = req'[t].mark + 1
               /\ \A i \in DOMAIN index' : index'[i] = req'[t].d <=> i = Len(index')
    BY <2>4, <2>5
  <2> QED
    BY <2>3, <2>6, <2>7 DEF BugReqInv, Indexed, Holds, EvidenceOf, OfType, ReadOf
<1>5. FoldersInv'
  <2>1. \A d \in DOMAIN fromDraft' : d \in DOMAIN folders' /\ Indexed(d)'
    BY <1>2 DEF BugsPart, FoldersInv
  <2>2. \A d : d \in DOMAIN folders' \/ Indexed(d)' => Intake!InFlight(d)' \/ d \in DOMAIN fromDraft' \cup cut'
    BY <1>2 DEF BugsPart, FoldersInv
  <2>3. \A d : d \in DOMAIN folders' \/ Indexed(d)' \/ EvidenceOf(rows', d) # {} => d \in Nat /\ d <= NewestDemand'
    BY <1>1, <1>2 DEF BugsPart, FoldersInv
  <2>4. IsSequence(index')
    BY DEF BugsPart, FoldersInv
  <2> QED
    BY <2>1, <2>2, <2>3, <2>4 DEF FoldersInv, Indexed, Intake!InFlight, EvidenceOf
<1>6. EvidenceInv'
  BY <1>1, <1>2 DEF BugsPart, EvidenceInv
<1> QED
  BY <1>1, <1>3, <1>4, <1>5, <1>6 DEF BugsPart

LEMMA AskKeepsBugs ==
  ASSUME Legacy \in Nat, BugsPart, NEW t, NEW r, Asks(t, r)
  PROVE  BugsPart'
<1>1. ReqInv' /\ NewestDemand' = NewestDemand + 1 /\ t \in Threads /\ req'[t] = r /\ \A u \in Threads : u # t => req'[u] = req[u]
  BY AskKeepsReq DEF BugsPart
<1>2. /\ rows' = rows /\ bugsLock' = bugsLock /\ drafts' = drafts /\ folders' = folders /\ index' = index
      /\ fromDraft' = fromDraft /\ cut' = cut /\ drafted' = drafted
  BY DEF Asks, Intake!Keep, Intake!Files
<1>3. /\ req[t].do = "idle" /\ r.pc \notin {"write", "files", "log"}
      /\ r.do = "bug" => r.d = NewestDemand + 1
      /\ r.do \in {"bug", "evidence"} => r.pc = "verified" /\ r.draft \in drafts
  BY DEF Asks
<1>4. NewestDemand \in Nat /\ \A d : d \in Nat /\ d <= NewestDemand => d <= NewestDemand + 1 /\ d # NewestDemand + 1
  BY DEF BugsPart, ReqInv, NewestDemand
<1>5. \A d : (Logging(d)' <=> Logging(d)) /\ (Intake!InFlight(d) => Intake!InFlight(d)')
  BY <1>1, <1>3 DEF Logging, Intake!InFlight
<1>6. DraftsInv' /\ EvidenceInv'
  BY <1>2, <1>5 DEF BugsPart, DraftsInv, EvidenceInv, EvidenceOf, OfType, ReadOf
<1>7. FoldersInv'
  <2>1. \A d : d \in DOMAIN folders \/ Indexed(d) => Intake!InFlight(d)' \/ d \in DOMAIN fromDraft \cup cut
    BY <1>5 DEF BugsPart, FoldersInv
  <2>2. \A d : d \in DOMAIN folders \/ Indexed(d) \/ EvidenceOf(rows, d) # {} => d \in Nat /\ d <= NewestDemand'
    BY <1>1, <1>4 DEF BugsPart, FoldersInv
  <2> QED
    BY <1>2, <2>1, <2>2 DEF BugsPart, FoldersInv, Indexed, EvidenceOf, OfType, ReadOf
<1>8. BugReqInv'
  <2>1. \A u \in Threads : Holds(u)' => Holds(u) /\ req'[u] = req[u]
    BY <1>1, <1>3 DEF Holds
  <2>2. \A u \in Threads : req'[u].do \in {"bug", "evidence"} => req'[u].draft \in 1..drafted
    BY <1>1, <1>3 DEF BugsPart, BugReqInv, DraftsInv
  <2>3. LET d == NewestDemand + 1 IN d \notin DOMAIN folders /\ ~Indexed(d) /\ EvidenceOf(rows, d) = {} /\ d \notin DOMAIN fromDraft
    BY <1>4 DEF BugsPart, FoldersInv
  <2>4. \A u \in Threads : req'[u].do = "bug" => req'[u].d \notin DOMAIN fromDraft
    BY <1>1, <1>3, <2>3 DEF BugsPart, BugReqInv
  <2>5. \A u \in Threads : req'[u].do = "bug" /\ req'[u].pc \in {"verified", "files"} =>
          req'[u].d \notin DOMAIN folders /\ ~Indexed(req'[u].d) /\ EvidenceOf(rows, req'[u].d) = {}
    BY <1>1, <1>3, <2>3 DEF BugsPart, BugReqInv
  <2>6. \A u \in Threads : /\ req'[u].do = "bug" /\ req'[u].pc \in {"append", "write"} => req'[u] = req[u]
                           /\ req'[u].do = "evidence" /\ req'[u].pc = "log" => req'[u] = req[u]
    BY <1>1, <1>3
  <2> QED
    BY <1>2, <2>1, <2>2, <2>4, <2>5, <2>6 DEF BugsPart, BugReqInv, Holds, Indexed, EvidenceOf, OfType, ReadOf
<1> QED
  BY <1>1, <1>2, <1>6, <1>7, <1>8 DEF BugsPart

\* The steps of a thread that leave bugs alone.
QuietMoves(t) ==
  \/ Intake!TakeCodes(t) \/ Intake!Verdict(t) \/ Intake!AppendLog(t) \/ Intake!WriteInbox(t)
  \/ req[t].do = "task" /\ (Intake!WriteTask(t) \/ Intake!CodesBusy(t))

LEMMA QuietKeepsBugs ==
  ASSUME Legacy \in Nat, BugsPart, NEW t, NEW r, Moves(t, r), QuietMoves(t)
  PROVE  BugsPart'
<1>1. ReqInv' /\ NewestDemand' = NewestDemand /\ t \in Threads /\ req'[t] = r /\ \A u \in Threads : u # t => req'[u] = req[u]
  BY MoveKeepsReq DEF BugsPart
<1>2. NewestDemand \in Nat /\ drafted \in Nat /\ IsSequence(rows) /\ IsRequest(req[t])
  BY <1>1 DEF BugsPart, ReqInv, NewestDemand, DraftsInv
<1>3. /\ bugsLock' = bugsLock /\ folders' = folders /\ index' = index /\ fromDraft' = fromDraft /\ cut' = cut
      /\ drafted' = drafted /\ drafts' = drafts
  BY DEF QuietMoves, Intake!TakeCodes, Intake!Verdict, Intake!AppendLog, Intake!WriteInbox, Intake!WriteTask, Intake!CodesBusy, Intake!Files
<1>4. GoesOnWith(req[t], req'[t])
  <2>1. CASE Intake!TakeCodes(t)
    <3>1. req[t].pc = "append" /\ req[t].do \in {"task", "bug"} /\ r = [req[t] EXCEPT !.pc = "write", !.top = Intake!TopCode]
      BY <1>1, <2>1 DEF Intake!TakeCodes, Intake!Serve, Intake!Creates, BugsPart, ReqInv
    <3>2. r.do = req[t].do /\ r.pc = "write" /\ r.d = req[t].d /\ r.draft = req[t].draft /\ r.mark = req[t].mark
      BY <1>2, <3>1 DEF IsRequest
    <3> QED
      BY <1>1, <3>1, <3>2 DEF GoesOnWith, IsBugs
  <2>2. CASE ~Intake!TakeCodes(t)
    <3>1. ~IsBugs(req[t])
      BY <2>2 DEF QuietMoves, Intake!Verdict, Intake!AppendLog, Intake!WriteInbox, Intake!At, Intake!Appends, IsBugs
    <3>2. r.do # "bug"
      BY <3>1 DEF Moves, IsBugs
    <3>3. CASE Intake!Verdict(t) /\ ~Intake!Answer(t)
      <4>1. PICK ok \in BOOLEAN : Intake!Later(t, "validation", req[t].d, ok)
        BY <3>3 DEF Intake!Verdict
      <4>2. r = [Intake!Idle EXCEPT !.do = "validation", !.pc = "append", !.d = req[t].d, !.ok = ok]
        BY <1>1, <4>1 DEF Intake!Later, Intake!Serve, BugsPart, ReqInv
      <4>3. r.do = "validation"
        BY <4>2 DEF Intake!Idle
      <4> QED
        BY <1>1, <3>1, <4>3 DEF GoesOnWith, IsBugs
    <3>4. CASE Intake!AppendLog(t) /\ ~Intake!Answer(t)
      <4>1. req[t].do = "start" /\ r = [req[t] EXCEPT !.pc = "inbox"]
        BY <1>1, <3>4 DEF Intake!AppendLog, Intake!Go, Intake!Serve, BugsPart, ReqInv
      <4>2. r.do = "start"
        BY <1>2, <4>1 DEF IsRequest
      <4> QED
        BY <1>1, <3>1, <4>2 DEF GoesOnWith, IsBugs
    <3>5. CASE Intake!Answer(t)
      <4>1. r.do = "idle"
        BY <1>1, <3>5, IdleRequest DEF Intake!Answer, Intake!Serve, BugsPart, ReqInv
      <4> QED
        BY <1>1, <3>1, <4>1 DEF GoesOnWith, IsBugs
    <3>6. Intake!Answer(t) \/ Intake!Verdict(t) \/ Intake!AppendLog(t)
      BY <2>2 DEF QuietMoves, Intake!WriteInbox, Intake!WriteTask, Intake!CodesBusy
    <3> QED
      BY <3>3, <3>4, <3>5, <3>6
  <2> QED
    BY <2>1, <2>2
<1>5. \A u \in Threads : GoesOnWith(req[u], req'[u])
  <2>1. \A u \in Threads : u # t => GoesOnWith(req[u], req'[u])
    BY <1>1 DEF GoesOnWith
  <2> QED
    BY <1>4, <2>1
<1>6. \E new : Grows(rows, rows', new) /\ \A e \in new : e.type # "bug-evidence"
  <2>1. CASE Intake!AppendLog(t)
    <3>1. PICK e : e.type = req[t].do /\ Grows(rows, rows', {e})
      BY <1>2, <2>1, AppendLogWrites
    <3>2. \A x \in {e} : x.type # "bug-evidence"
      BY <2>1, <3>1 DEF Intake!AppendLog, Intake!Appends
    <3> QED
      BY <3>1, <3>2
  <2>2. CASE Intake!WriteTask(t)
    <3>1. PICK e : e.type = "task" /\ Grows(rows, rows', {e})
      BY <1>2, <2>2, TaskWrites
    <3>2. \A x \in {e} : x.type # "bug-evidence"
      BY <3>1
    <3> QED
      BY <3>1, <3>2
  <2>3. CASE ~Intake!AppendLog(t) /\ ~Intake!WriteTask(t)
    <3>1. rows' = rows
      BY <2>3 DEF QuietMoves, Intake!TakeCodes, Intake!Verdict, Intake!WriteInbox, Intake!CodesBusy
    <3> QED
      BY <1>2, <3>1, LogStays
  <2> QED
    BY <2>1, <2>2, <2>3
<1>7. NewestDemand' \in Nat /\ NewestDemand <= NewestDemand' /\ drafted' \in Nat /\ drafted <= drafted' /\ \A f \in drafts' : f \in drafts
  BY <1>1, <1>2, <1>3
<1> QED
  BY <1>1, <1>2, <1>3, <1>5, <1>6, <1>7, BugsStay

\* Drafts come and go, and the squad writes what is its own.
LEMMA DraftsKeepBugs ==
  ASSUME Legacy \in Nat, BugsPart, Intake!ExpireDraft \/ Intake!SquadWrites \/ \E t \in Threads : Intake!BuildDraft(t)
  PROVE  BugsPart'
<1>1. /\ bugsLock' = bugsLock /\ folders' = folders /\ index' = index /\ fromDraft' = fromDraft /\ cut' = cut
      /\ req' = req /\ asked' = asked
  BY DEF Intake!ExpireDraft, Intake!SquadWrites, Intake!BuildDraft, Intake!Files
<1>2. ReqInv' /\ NewestDemand \in Nat /\ NewestDemand' = NewestDemand /\ drafted \in Nat
  BY <1>1 DEF BugsPart, ReqInv, NewestDemand, DraftsInv
<1>3. drafted' \in Nat /\ drafted <= drafted' /\ \A f \in drafts' : f \in drafts \/ f \in (drafted + 1)..drafted'
  <2>1. (drafted' = drafted /\ \A f \in drafts' : f \in drafts) \/ (drafted' = drafted + 1 /\ drafts' = drafts \cup {drafted + 1})
    BY DEF Intake!ExpireDraft, Intake!SquadWrites, Intake!BuildDraft, Intake!Files
  <2> QED
    BY <1>2, <2>1
<1>4. \E new : Grows(rows, rows', new) /\ \A e \in new : e.type # "bug-evidence"
  <2>1. CASE Intake!SquadWrites
    <3>1. PICK e : e.type \in {"gate", "delivered"} /\ Grows(rows, rows', {e})
      BY <2>1, SquadWritesIt DEF BugsPart
    <3>2. \A x \in {e} : x.type # "bug-evidence"
      BY <3>1
    <3> QED
      BY <3>1, <3>2
  <2>2. CASE ~Intake!SquadWrites
    <3>1. rows' = rows
      BY <2>2 DEF Intake!ExpireDraft, Intake!BuildDraft
    <3> QED
      BY <3>1, LogStays DEF BugsPart
  <2> QED
    BY <2>1, <2>2
<1>5. \A t \in Threads : GoesOnWith(req[t], req'[t])
  BY <1>1 DEF GoesOnWith
<1>6. NewestDemand' \in Nat /\ NewestDemand <= NewestDemand'
  BY <1>2
<1> QED
  BY <1>1, <1>2, <1>3, <1>4, <1>5, <1>6, BugsStay

\* Under the lock, or when it is free, the other requests are at most verified.
LEMMA OthersWait ==
  ASSUME BugsPart, FreshInv, "nobody" \notin Threads, NEW t, NEW r, Moves(t, r), Holds(t) \/ bugsLock = "nobody"
  PROVE  /\ ReqInv' /\ NewestDemand' = NewestDemand /\ t \in Threads /\ req'[t] = r /\ IsRequest(req[t]) /\ drafted \in Nat
         /\ \A u \in Threads : u # t => req'[u] = req[u] /\ ~Holds(u)
         /\ \A d : Logging(d) <=> req[t].do = "evidence" /\ req[t].pc = "log" /\ req[t].d = d
         /\ \A d : Logging(d)' <=> r.do = "evidence" /\ r.pc = "log" /\ r.d = d
         /\ \A d : Intake!InFlight(d) => Intake!InFlight(d)' \/ (req[t].do = "bug" /\ req[t].d = d)
         /\ r.do = "bug" => Intake!InFlight(r.d)'
         /\ \A u \in Threads : u # t /\ req[u].do = "bug" =>
              /\ req[t].do = "bug" => req[u].d # req[t].d
              /\ req[u].pc = "verified" /\ req[u].d \notin DOMAIN fromDraft /\ req[u].d \notin DOMAIN folders
              /\ ~Indexed(req[u].d) /\ EvidenceOf(rows, req[u].d) = {}
<1>1. ReqInv' /\ NewestDemand' = NewestDemand /\ t \in Threads /\ req'[t] = r /\ \A u \in Threads : u # t => req'[u] = req[u]
  BY MoveKeepsReq DEF BugsPart
<1>2. IsRequest(req[t]) /\ drafted \in Nat
  BY <1>1 DEF BugsPart, ReqInv, DraftsInv
<1>3. \A u \in Threads : u # t => ~Holds(u)
  BY <1>1, LockKeepsOut DEF BugsPart
<1>4. /\ \A d : Logging(d) <=> req[t].do = "evidence" /\ req[t].pc = "log" /\ req[t].d = d
      /\ \A d : Logging(d)' <=> r.do = "evidence" /\ r.pc = "log" /\ r.d = d
  BY <1>1, <1>3 DEF Logging, Holds
<1>5. /\ \A d : Intake!InFlight(d) => Intake!InFlight(d)' \/ (req[t].do = "bug" /\ req[t].d = d)
      /\ r.do = "bug" => Intake!InFlight(r.d)'
  BY <1>1 DEF Intake!InFlight
<1>6. ASSUME NEW u \in Threads, u # t, req[u].do = "bug"
      PROVE  /\ req[t].do = "bug" => req[u].d # req[t].d
             /\ req[u].pc = "verified" /\ req[u].d \notin DOMAIN fromDraft /\ req[u].d \notin DOMAIN folders
             /\ ~Indexed(req[u].d) /\ EvidenceOf(rows, req[u].d) = {}
  <2>1. req[t].do = "bug" => req[u].d # req[t].d
    BY <1>1, <1>6 DEF FreshInv, Creating
  <2>2. req[u].pc = "verified"
    BY <1>3, <1>6 DEF Holds
  <2> QED
    BY <1>6, <2>1, <2>2 DEF BugsPart, BugReqInv
<1> QED
  BY <1>1, <1>2, <1>3, <1>4, <1>5, <1>6

\* A request takes the lock, with its draft still there, or leaves.
LEMMA TakeBugsKeepsBugs ==
  ASSUME BugsPart, FreshInv, "nobody" \notin Threads, NEW t, NEW r, Moves(t, r), Intake!TakeBugs(t)
  PROVE  BugsPart'
<1>1. /\ rows' = rows /\ drafts' = drafts /\ folders' = folders /\ index' = index
      /\ fromDraft' = fromDraft /\ cut' = cut /\ drafted' = drafted
  BY DEF Intake!TakeBugs, Intake!Files
<1>2. bugsLock = "nobody" /\ req[t].pc = "verified"
  BY DEF Intake!TakeBugs, Intake!None
<1>3. /\ ReqInv' /\ NewestDemand' = NewestDemand /\ t \in Threads /\ req'[t] = r /\ IsRequest(req[t]) /\ drafted \in Nat
      /\ \A u \in Threads : u # t => req'[u] = req[u] /\ ~Holds(u)
      /\ \A d : Logging(d) <=> req[t].do = "evidence" /\ req[t].pc = "log" /\ req[t].d = d
      /\ \A d : Logging(d)' <=> r.do = "evidence" /\ r.pc = "log" /\ r.d = d
      /\ \A d : Intake!InFlight(d) => Intake!InFlight(d)' \/ (req[t].do = "bug" /\ req[t].d = d)
      /\ r.do = "bug" => Intake!InFlight(r.d)'
  BY <1>2, OthersWait
<1>4. \/ r.do = "idle"
      \/ /\ req[t].draft \in drafts /\ bugsLock' = t /\ r.pc = "files" /\ IsBugs(r)
         /\ r.do = req[t].do /\ r.d = req[t].d /\ r.draft = req[t].draft
  <2>1. IsBugs(req[t])
    BY <1>2, <1>3 DEF IsRequest, Stages, IsBugs
  <2>2. CASE Intake!Answer(t)
    BY <1>3, <2>2, IdleRequest DEF Intake!Answer, Intake!Serve, BugsPart, ReqInv
  <2>3. CASE req[t].draft \in drafts /\ bugsLock' = t /\ Intake!Go(t, "files")
    <3>1. r = [req[t] EXCEPT !.pc = "files"]
      BY <1>3, <2>3 DEF Intake!Go, Intake!Serve, BugsPart, ReqInv
    <3>2. r.pc = "files" /\ r.do = req[t].do /\ r.d = req[t].d /\ r.draft = req[t].draft
      BY <1>3, <3>1 DEF IsRequest
    <3> QED
      BY <2>1, <2>3, <3>2 DEF IsBugs
  <2> QED
    BY <2>2, <2>3 DEF Intake!TakeBugs
<1>5. req[t].do = "bug" => /\ req[t].d \notin DOMAIN folders /\ ~Indexed(req[t].d) /\ EvidenceOf(rows, req[t].d) = {}
                           /\ req[t].d \notin DOMAIN fromDraft
  BY <1>2, <1>3 DEF BugsPart, BugReqInv
<1>6. DraftsInv' /\ EvidenceInv'
  <2>1. \A d : Logging(d)' <=> Logging(d)
    BY <1>2, <1>3, <1>4
  <2>2. \A d : EvidenceOf(rows', d) = EvidenceOf(rows, d)
    BY <1>1
  <2>3. DraftsInv'
    BY <1>1 DEF BugsPart, DraftsInv
  <2>4. EvidenceInv'
    BY <1>1, <2>1, <2>2 DEF BugsPart, EvidenceInv
  <2> QED
    BY <2>3, <2>4
<1>7. FoldersInv'
  <2>1. \A d : d \in DOMAIN folders \/ Indexed(d) => Intake!InFlight(d)' \/ d \in DOMAIN fromDraft \cup cut
    BY <1>3, <1>5 DEF BugsPart, FoldersInv
  <2> QED
    BY <1>1, <1>3, <2>1 DEF BugsPart, FoldersInv, Indexed, EvidenceOf, OfType, ReadOf
<1>8. BugReqInv'
  <2>1. \A u \in Threads : u # t => ~Holds(u)'
    BY <1>3 DEF Holds
  <2>2. Holds(t)' => bugsLock' = t
    BY <1>3, <1>4 DEF Holds
  <2>3. \A u \in Threads : /\ req'[u].do \in {"bug", "evidence"} => req'[u].draft \in 1..drafted
                           /\ req'[u].do = "bug" => req'[u].d \notin DOMAIN fromDraft
    <3>1. IsBugs(r) => IsBugs(req[t]) /\ r.do = req[t].do /\ r.d = req[t].d /\ r.draft = req[t].draft
      BY <1>4 DEF IsBugs
    <3> QED
      BY <1>3, <3>1 DEF BugsPart, BugReqInv, IsBugs
  <2>4. Holds(t)' => \A d \in DOMAIN fromDraft : fromDraft[d] # req'[t].draft
    BY <1>3, <1>4 DEF BugsPart, DraftsInv, Holds
  <2>5. \A u \in Threads : req'[u].do = "bug" =>
          /\ req'[u].pc \notin {"append", "write"} /\ req'[u].d \notin DOMAIN folders
          /\ ~Indexed(req'[u].d) /\ EvidenceOf(rows, req'[u].d) = {}
    <3>1. r.do = "bug" => req[t].do = "bug" /\ r.d = req[t].d /\ r.pc = "files"
      BY <1>4
    <3>2. \A u \in Threads : u # t /\ req[u].do = "bug" => req[u].pc = "verified"
      BY <1>3 DEF Holds
    <3>3. \A u \in Threads : req[u].do = "bug" /\ req[u].pc = "verified" =>
            req[u].d \notin DOMAIN folders /\ ~Indexed(req[u].d) /\ EvidenceOf(rows, req[u].d) = {}
      BY DEF BugsPart, BugReqInv
    <3> QED
      BY <1>3, <1>5, <3>1, <3>2, <3>3
  <2>6. \A u \in Threads : ~(req'[u].do = "evidence" /\ req'[u].pc = "log")
    BY <1>3, <1>4 DEF Holds
  <2> QED
    BY <1>1, <2>1, <2>2, <2>3, <2>4, <2>5, <2>6 DEF BugReqInv, Holds, Indexed, EvidenceOf, OfType, ReadOf
<1> QED
  BY <1>1, <1>3, <1>6, <1>7, <1>8 DEF BugsPart

\* The folder and the line of the index are put for a demand that has neither.
LEMMA PutBugKeepsBugs ==
  ASSUME BugsPart, FreshInv, "nobody" \notin Threads, NEW t, NEW r, Moves(t, r), Intake!PutBug(t)
  PROVE  BugsPart'
<1>0. PICK d : d = req[t].d
  OBVIOUS
<1>1. /\ rows' = rows /\ drafts' = drafts /\ bugsLock' = bugsLock /\ fromDraft' = fromDraft /\ cut' = cut /\ drafted' = drafted
      /\ folders' = Intake!Put(folders, d, {1}) /\ index' = Append(index, d)
      /\ req[t].do = "bug" /\ req[t].pc = "files"
  BY <1>0 DEF Intake!PutBug, Intake!At
<1>2. Holds(t)
  BY <1>1 DEF Holds
<1>3. /\ ReqInv' /\ NewestDemand' = NewestDemand /\ t \in Threads /\ req'[t] = r /\ IsRequest(req[t]) /\ drafted \in Nat
      /\ \A u \in Threads : u # t => req'[u] = req[u] /\ ~Holds(u)
      /\ \A x : Logging(x) <=> req[t].do = "evidence" /\ req[t].pc = "log" /\ req[t].d = x
      /\ \A x : Logging(x)' <=> r.do = "evidence" /\ r.pc = "log" /\ r.d = x
      /\ \A x : Intake!InFlight(x) => Intake!InFlight(x)' \/ (req[t].do = "bug" /\ req[t].d = x)
      /\ r.do = "bug" => Intake!InFlight(r.d)'
  BY <1>2, OthersWait
<1>4. \A u \in Threads : u # t /\ req[u].do = "bug" =>
              /\ req[u].d # d
              /\ req[u].pc = "verified" /\ req[u].d \notin DOMAIN fromDraft /\ req[u].d \notin DOMAIN folders
              /\ ~Indexed(req[u].d) /\ EvidenceOf(rows, req[u].d) = {}
  BY <1>0, <1>1, <1>2, OthersWait
<1>5. r.do = "bug" /\ r.pc = "append" /\ r.d = d /\ r.draft = req[t].draft /\ r.mark = Len(index)
  <2>1. r = [req[t] EXCEPT !.pc = "append", !.mark = Len(index)]
    BY <1>3 DEF Intake!PutBug, Intake!Serve, BugsPart, ReqInv
  <2> QED
    BY <1>0, <1>1, <1>3, <2>1 DEF IsRequest
<1>6. /\ d \notin DOMAIN folders /\ ~Indexed(d) /\ EvidenceOf(rows, d) = {} /\ d \notin DOMAIN fromDraft
      /\ bugsLock = t /\ d \in Nat /\ d <= NewestDemand /\ req[t].draft \in 1..drafted
      /\ \A x \in DOMAIN fromDraft : fromDraft[x] # req[t].draft
  BY <1>0, <1>1, <1>2, <1>3 DEF BugsPart, BugReqInv, ReqInv, IsRequest
<1>7. /\ DOMAIN folders' = DOMAIN folders \cup {d} /\ folders'[d] = {1} /\ \A x \in DOMAIN folders : x # d => folders'[x] = folders[x]
  BY <1>1 DEF Intake!Put
<1>8. /\ IsSequence(index') /\ Len(index') = Len(index) + 1 /\ Len(index') \in DOMAIN index' /\ Len(index') \notin DOMAIN index
      /\ DOMAIN index' = DOMAIN index \cup {Len(index')}
      /\ index'[Len(index')] = d /\ \A i \in DOMAIN index : index'[i] = index[i] /\ index[i] # d
  <2>1. IsSequence(index)
    BY DEF BugsPart, FoldersInv
  <2>2. /\ IsSequence(index') /\ Len(index') = Len(index) + 1 /\ DOMAIN index' = DOMAIN index \cup {Len(index) + 1}
        /\ Len(index) + 1 \notin DOMAIN index /\ index'[Len(index) + 1] = d /\ \A i \in DOMAIN index : index'[i] = index[i]
    BY <1>1, <2>1, Appended
  <2> QED
    BY <1>6, <2>2 DEF Indexed
<1>9. \A x : Indexed(x)' <=> Indexed(x) \/ x = d
  BY <1>8 DEF Indexed
<1>10. DraftsInv'
  BY <1>1 DEF BugsPart, DraftsInv
<1>11. EvidenceInv'
  <2>1. ASSUME NEW x \in DOMAIN folders', x # d
        PROVE  \E m \in Nat \ {0} :
                 /\ folders'[x] = 1..m
                 /\ x \notin cut' => Cardinality(EvidenceOf(rows', x)) < IF Logging(x)' THEN m - 1 ELSE m
    <3>1. PICK m \in Nat \ {0} : /\ folders[x] = 1..m
                                 /\ x \notin cut => Cardinality(EvidenceOf(rows, x)) < IF Logging(x) THEN m - 1 ELSE m
      BY <1>7, <2>1 DEF BugsPart, EvidenceInv
    <3>2. ~Logging(x) /\ ~Logging(x)'
      BY <1>1, <1>3, <1>5
    <3> QED
      BY <1>1, <1>7, <2>1, <3>1, <3>2
  <2>2. folders'[d] = 1..1 /\ Cardinality(EvidenceOf(rows', d)) < 1 /\ ~Logging(d)'
    BY <1>1, <1>3, <1>5, <1>6, <1>7, FS_EmptySet
  <2>3. \A x \in DOMAIN folders' :
          \E m \in Nat \ {0} :
            /\ folders'[x] = 1..m
            /\ x \notin cut' => Cardinality(EvidenceOf(rows', x)) < IF Logging(x)' THEN m - 1 ELSE m
    <3>1. 1 \in Nat \ {0}
      OBVIOUS
    <3> QED
      BY <2>1, <2>2, <3>1
  <2> QED
    BY <2>3 DEF EvidenceInv, Logging, EvidenceOf, OfType, ReadOf
<1>12. FoldersInv'
  <2>1. \A x \in DOMAIN fromDraft : x \in DOMAIN folders' /\ Indexed(x)'
    BY <1>7, <1>9 DEF BugsPart, FoldersInv
  <2>2. \A x : x \in DOMAIN folders' \/ Indexed(x)' => Intake!InFlight(x)' \/ x \in DOMAIN fromDraft \cup cut
    <3>1. Intake!InFlight(d)'
      BY <1>3, <1>5
    <3>2. \A x : x \in DOMAIN folders \/ Indexed(x) => Intake!InFlight(x) \/ x \in DOMAIN fromDraft \cup cut
      BY DEF BugsPart, FoldersInv
    <3> QED
      BY <1>0, <1>3, <1>7, <1>9, <3>1, <3>2
  <2>3. \A x : x \in DOMAIN folders' \/ Indexed(x)' \/ EvidenceOf(rows, x) # {} => x \in Nat /\ x <= NewestDemand'
    BY <1>3, <1>6, <1>7, <1>9 DEF BugsPart, FoldersInv
  <2> QED
    BY <1>1, <1>8, <2>1, <2>2, <2>3 DEF FoldersInv, Indexed, EvidenceOf, OfType, ReadOf
<1>13. BugReqInv'
  <2>1. \A u \in Threads : u # t => ~Holds(u)'
    BY <1>3 DEF Holds
  <2>2. \A u \in Threads : /\ req'[u].do \in {"bug", "evidence"} => req'[u].draft \in 1..drafted
                           /\ req'[u].do = "bug" => req'[u].d \notin DOMAIN fromDraft
    BY <1>3, <1>4, <1>5, <1>6 DEF BugsPart, BugReqInv
  <2>3. \A u \in Threads : req'[u].do = "bug" /\ req'[u].pc \in {"verified", "files"} =>
          req'[u].d \notin DOMAIN folders' /\ ~Indexed(req'[u].d) /\ req'[u].d # d /\ EvidenceOf(rows, req'[u].d) = {}
    BY <1>3, <1>4, <1>5, <1>7
  <2>4. \A u \in Threads : req'[u].do = "bug" /\ req'[u].pc \in {"append", "write"} => u = t
    BY <1>3, <1>4
  <2>5. \A u \in Threads : ~(req'[u].do = "evidence" /\ req'[u].pc = "log")
    BY <1>3, <1>5 DEF Holds
  <2>6. \A u \in Threads : req'[u].do = "bug" /\ req'[u].pc \in {"verified", "files"} => ~ \E i \in DOMAIN index' : index'[i] = req'[u].d
    BY <1>8, <2>3 DEF Indexed
  <2>7. /\ d \in DOMAIN folders' /\ Len(index') = r.mark + 1 /\ \A i \in DOMAIN index' : index'[i] = d <=> i = Len(index')
    BY <1>5, <1>7, <1>8
  <2> QED
    BY <1>1, <1>3, <1>5, <1>6, <2>1, <2>2, <2>3, <2>4, <2>5, <2>6, <2>7 DEF BugReqInv, Holds, Indexed, EvidenceOf, OfType, ReadOf
<1> QED
  BY <1>1, <1>3, <1>10, <1>11, <1>12, <1>13 DEF BugsPart

\* A folder gets its next piece of evidence.
LEMMA AddEvidenceKeepsBugs ==
  ASSUME BugsPart, FreshInv, "nobody" \notin Threads, NEW t, NEW r, Moves(t, r), Intake!AddEvidence(t)
  PROVE  BugsPart'
<1>0. PICK d : d = req[t].d
  OBVIOUS
<1>1. /\ rows' = rows /\ drafts' = drafts /\ index' = index /\ fromDraft' = fromDraft /\ cut' = cut /\ drafted' = drafted
      /\ req[t].do = "evidence" /\ req[t].pc = "files"
  BY <1>0 DEF Intake!AddEvidence, Intake!At
<1>2. Holds(t)
  BY <1>1 DEF Holds
<1>3. /\ ReqInv' /\ NewestDemand' = NewestDemand /\ t \in Threads /\ req'[t] = r /\ IsRequest(req[t]) /\ drafted \in Nat
      /\ \A u \in Threads : u # t => req'[u] = req[u] /\ ~Holds(u)
      /\ \A x : Logging(x) <=> req[t].do = "evidence" /\ req[t].pc = "log" /\ req[t].d = x
      /\ \A x : Logging(x)' <=> r.do = "evidence" /\ r.pc = "log" /\ r.d = x
      /\ \A x : Intake!InFlight(x) => Intake!InFlight(x)' \/ (req[t].do = "bug" /\ req[t].d = x)
  BY <1>2, OthersWait
<1>4. \A u \in Threads : u # t /\ req[u].do = "bug" =>
              /\ req[u].pc = "verified" /\ req[u].d \notin DOMAIN fromDraft /\ req[u].d \notin DOMAIN folders
              /\ ~Indexed(req[u].d) /\ EvidenceOf(rows, req[u].d) = {}
  BY <1>2, OthersWait
<1>5. \/ r.do = "idle" /\ folders' = folders
      \/ /\ r.do = "evidence" /\ r.pc = "log" /\ r.d = d /\ r.draft = req[t].draft /\ bugsLock' = bugsLock
         /\ d \in DOMAIN folders
         /\ folders' = [folders EXCEPT ![d] = @ \cup {1 + CHOOSE m \in folders[d] : \A k \in folders[d] : k <= m}]
  <2>1. CASE folders' = folders /\ Intake!Answer(t)
    BY <1>3, <2>1, IdleRequest DEF Intake!Answer, Intake!Serve, BugsPart, ReqInv
  <2>2. CASE /\ Intake!Go(t, "log") /\ bugsLock' = bugsLock /\ d \in DOMAIN folders
             /\ folders' = [folders EXCEPT ![d] = @ \cup {1 + CHOOSE m \in folders[d] : \A k \in folders[d] : k <= m}]
    <3>1. r = [req[t] EXCEPT !.pc = "log"]
      BY <1>3, <2>2 DEF Intake!Go, Intake!Serve, BugsPart, ReqInv
    <3>2. r.do = "evidence" /\ r.pc = "log" /\ r.d = d /\ r.draft = req[t].draft
      BY <1>0, <1>1, <1>3, <3>1 DEF IsRequest
    <3> QED
      BY <2>2, <3>2
  <2> QED
    BY <1>0, <2>1, <2>2 DEF Intake!AddEvidence
<1>6. bugsLock = t /\ req[t].draft \in 1..drafted
  BY <1>1, <1>2, <1>3 DEF BugsPart, BugReqInv
<1>7. DOMAIN folders' = DOMAIN folders /\ \A x \in DOMAIN folders : x # d => folders'[x] = folders[x]
  BY <1>5
<1>8. r.do # "bug" /\ \A u \in Threads : req'[u].do = "bug" => u # t
  BY <1>3, <1>5
<1>9. \A x : ~Logging(x) /\ (Logging(x)' => x = d /\ r.do = "evidence")
  BY <1>1, <1>3, <1>5
<1>10. DraftsInv'
  BY <1>1 DEF BugsPart, DraftsInv
<1>11. EvidenceInv'
  <2>1. ASSUME NEW x \in DOMAIN folders'
        PROVE  \E m \in Nat \ {0} :
                 /\ folders'[x] = 1..m
                 /\ x \notin cut' => Cardinality(EvidenceOf(rows', x)) < IF Logging(x)' THEN m - 1 ELSE m
    <3>1. PICK m \in Nat \ {0} : folders[x] = 1..m /\ (x \notin cut => Cardinality(EvidenceOf(rows, x)) < m)
      BY <1>7, <1>9, <2>1 DEF BugsPart, EvidenceInv
    <3>2. CASE x # d \/ r.do = "idle"
      <4>1. folders'[x] = 1..m /\ ~Logging(x)'
        BY <1>5, <1>7, <1>9, <2>1, <3>1, <3>2
      <4> QED
        BY <1>1, <3>1, <4>1
    <3>3. CASE x = d /\ r.do # "idle"
      <4>1. folders'[x] = (1..m) \cup {1 + CHOOSE k \in 1..m : \A j \in 1..m : j <= k}
        BY <1>5, <2>1, <3>1, <3>3
      <4>2. (CHOOSE k \in 1..m : \A j \in 1..m : j <= k) = m
        <5>1. m \in 1..m /\ \A j \in 1..m : j <= m
          OBVIOUS
        <5>2. \A k \in 1..m : (\A j \in 1..m : j <= k) => k = m
          BY <5>1
        <5> QED
          BY <5>1, <5>2
      <4>3. folders'[x] = 1..m + 1 /\ m + 1 \in Nat \ {0} /\ (m + 1) - 1 = m
        BY <4>1, <4>2
      <4>4. Logging(x)'
        BY <1>3, <1>5, <3>3
      <4>5. x \notin cut' => Cardinality(EvidenceOf(rows', x)) < (m + 1) - 1
        BY <1>1, <3>1, <4>3
      <4> QED
        BY <4>3, <4>4, <4>5
    <3> QED
      BY <3>2, <3>3
  <2> QED
    BY <2>1 DEF EvidenceInv, Logging, EvidenceOf, OfType, ReadOf
<1>12. FoldersInv'
  <2>1. \A x : Intake!InFlight(x) => Intake!InFlight(x)'
    BY <1>1, <1>3
  <2>2. \A x : x \in DOMAIN folders \/ Indexed(x) => Intake!InFlight(x)' \/ x \in DOMAIN fromDraft \cup cut
    BY <2>1 DEF BugsPart, FoldersInv
  <2> QED
    BY <1>1, <1>3, <1>7, <2>2 DEF BugsPart, FoldersInv, Indexed, EvidenceOf, OfType, ReadOf
<1>13. BugReqInv'
  <2>1. \A u \in Threads : u # t => ~Holds(u)'
    BY <1>3 DEF Holds
  <2>2. \A u \in Threads : /\ req'[u].do \in {"bug", "evidence"} => req'[u].draft \in 1..drafted
                           /\ req'[u].do = "bug" => req'[u].d \notin DOMAIN fromDraft
    BY <1>3, <1>5, <1>6, <1>8 DEF BugsPart, BugReqInv
  <2>3. \A u \in Threads : req'[u].do = "bug" =>
          /\ req'[u].pc = "verified" /\ req'[u].d \notin DOMAIN folders'
          /\ ~Indexed(req'[u].d) /\ EvidenceOf(rows, req'[u].d) = {}
    BY <1>3, <1>4, <1>7, <1>8
  <2>4. req'[t].do = "evidence" => bugsLock' = t /\ req'[t].d \in DOMAIN folders'
    BY <1>3, <1>5, <1>6, <1>7
  <2>5. Holds(t)' => bugsLock' = t
    BY <1>8, <2>4, <1>3 DEF Holds
  <2> QED
    BY <1>1, <1>8, <2>1, <2>2, <2>3, <2>4, <2>5 DEF BugReqInv, Holds, Indexed, EvidenceOf, OfType, ReadOf
<1> QED
  BY <1>1, <1>3, <1>10, <1>11, <1>12, <1>13 DEF BugsPart

\* The evidence is logged once its file is there.
LEMMA LogEvidenceKeepsBugs ==
  ASSUME BugsPart, FreshInv, "nobody" \notin Threads, NEW t, NEW r, Moves(t, r), Intake!LogEvidence(t)
  PROVE  BugsPart'
<1>0. PICK d : d = req[t].d
  OBVIOUS
<1>1. /\ drafts' \subseteq drafts /\ index' = index /\ folders' = folders /\ fromDraft' = fromDraft /\ cut' = cut /\ drafted' = drafted
      /\ req[t].do = "evidence" /\ req[t].pc = "log"
  BY DEF Intake!LogEvidence, Intake!At
<1>2. Holds(t)
  BY <1>1 DEF Holds
<1>3. /\ ReqInv' /\ NewestDemand' = NewestDemand /\ t \in Threads /\ req'[t] = r /\ IsRequest(req[t]) /\ drafted \in Nat
      /\ \A u \in Threads : u # t => req'[u] = req[u] /\ ~Holds(u)
      /\ \A x : Logging(x) <=> req[t].do = "evidence" /\ req[t].pc = "log" /\ req[t].d = x
      /\ \A x : Logging(x)' <=> r.do = "evidence" /\ r.pc = "log" /\ r.d = x
      /\ \A x : Intake!InFlight(x) => Intake!InFlight(x)' \/ (req[t].do = "bug" /\ req[t].d = x)
  BY <1>2, OthersWait
<1>4. \A u \in Threads : u # t /\ req[u].do = "bug" =>
              /\ req[u].pc = "verified" /\ req[u].d \notin DOMAIN fromDraft /\ req[u].d \notin DOMAIN folders
              /\ ~Indexed(req[u].d) /\ EvidenceOf(rows, req[u].d) = {}
  BY <1>2, OthersWait
<1>5. r.do = "idle"
  BY <1>3, IdleRequest DEF Intake!LogEvidence, Intake!Answer, Intake!Serve, BugsPart, ReqInv
<1>6. d \in DOMAIN folders /\ d \in Nat /\ d <= NewestDemand
  BY <1>0, <1>1, <1>3 DEF BugsPart, BugReqInv, ReqInv, IsRequest
<1>7. PICK e : e.type = "bug-evidence" /\ e.demand = d /\ Grows(rows, rows', {e})
  BY <1>0, LogEvidenceWrites DEF BugsPart
<1>8. /\ IsSequence(rows') /\ IsFiniteSet(DOMAIN rows)
      /\ \A x : EvidenceOf(rows', x) = EvidenceOf(rows, x) \/ (x = d /\ EvidenceOf(rows', x) = EvidenceOf(rows, x) \cup {Len(rows) + 1})
  <2>1. PICK new : new = {e}
    OBVIOUS
  <2>2. Grows(rows, rows', new) /\ \A z \in new : z = e
    BY <1>7, <2>1
  <2>3. \A x : \A i \in EvidenceOf(rows, x) : i \in EvidenceOf(rows', x)
    BY <2>2 DEF Grows, EvidenceOf, OfType
  <2>4. \A x : \A i \in EvidenceOf(rows', x) : i \in EvidenceOf(rows, x) \/ (i = Len(rows) + 1 /\ x = d)
    BY <1>7, <2>2 DEF Grows, EvidenceOf, OfType
  <2>5. ASSUME NEW x
        PROVE  EvidenceOf(rows', x) = EvidenceOf(rows, x) \/ (x = d /\ EvidenceOf(rows', x) = EvidenceOf(rows, x) \cup {Len(rows) + 1})
    <3>1. PICK old, now : old = EvidenceOf(rows, x) /\ now = EvidenceOf(rows', x)
      OBVIOUS
    <3>2. old \subseteq now /\ \A i \in now : i \in old \/ (i = Len(rows) + 1 /\ x = d)
      BY <2>3, <2>4, <3>1
    <3>3. now = old \/ (x = d /\ now = old \cup {Len(rows) + 1})
      BY <3>2
    <3> QED
      BY <3>1, <3>3
  <2> QED
    BY <1>7, <2>5, DomainOf DEF Grows
<1>9. DraftsInv'
  BY <1>1 DEF BugsPart, DraftsInv
<1>10. EvidenceInv'
  <2>1. ASSUME NEW x \in DOMAIN folders'
        PROVE  \E m \in Nat \ {0} :
                 /\ folders'[x] = 1..m
                 /\ x \notin cut' => Cardinality(EvidenceOf(rows', x)) < IF Logging(x)' THEN m - 1 ELSE m
    <3>1. PICK m \in Nat \ {0} : folders[x] = 1..m /\ (x \notin cut => Cardinality(EvidenceOf(rows, x)) < IF Logging(x) THEN m - 1 ELSE m)
      BY <1>1, <2>1 DEF BugsPart, EvidenceInv
    <3>2. ~Logging(x)' /\ (Logging(x) <=> x = d)
      BY <1>0, <1>1, <1>3, <1>5
    <3>3. IsFiniteSet(EvidenceOf(rows, x)) /\ Cardinality(EvidenceOf(rows, x)) \in Nat
      <4>1. EvidenceOf(rows, x) \subseteq DOMAIN rows
        BY DEF EvidenceOf, OfType, ReadOf
      <4> QED
        BY <1>8, <4>1, FS_Subset, FS_CardinalityType
    <3>4. CASE EvidenceOf(rows', x) = EvidenceOf(rows, x)
      BY <1>1, <3>1, <3>2, <3>3, <3>4
    <3>5. CASE x = d /\ EvidenceOf(rows', x) = EvidenceOf(rows, x) \cup {Len(rows) + 1}
      <4>1. \/ Cardinality(EvidenceOf(rows', x)) = Cardinality(EvidenceOf(rows, x))
            \/ Cardinality(EvidenceOf(rows', x)) = Cardinality(EvidenceOf(rows, x)) + 1
        <5>1. PICK old, i : old = EvidenceOf(rows, x) /\ i = Len(rows) + 1
          OBVIOUS
        <5>2. Cardinality(old \cup {i}) = IF i \in old THEN Cardinality(old) ELSE Cardinality(old) + 1
          BY <3>3, <5>1, FS_AddElement
        <5> QED
          BY <3>5, <5>1, <5>2
      <4> QED
        BY <1>1, <3>1, <3>2, <3>3, <3>5, <4>1
    <3> QED
      BY <1>8, <3>4, <3>5
  <2> QED
    BY <2>1 DEF EvidenceInv, Logging, EvidenceOf, OfType, ReadOf
<1>11. FoldersInv'
  <2>1. \A x : Intake!InFlight(x) => Intake!InFlight(x)'
    BY <1>1, <1>3
  <2>2. \A x : x \in DOMAIN folders \/ Indexed(x) => Intake!InFlight(x)' \/ x \in DOMAIN fromDraft \cup cut
    BY <2>1 DEF BugsPart, FoldersInv
  <2>3. \A x : EvidenceOf(rows', x) # {} => EvidenceOf(rows, x) # {} \/ x = d
    BY <1>8
  <2>4. \A x : x \in DOMAIN folders \/ Indexed(x) \/ EvidenceOf(rows', x) # {} => x \in Nat /\ x <= NewestDemand'
    BY <1>3, <1>6, <2>3 DEF BugsPart, FoldersInv
  <2> QED
    BY <1>1, <2>2, <2>4 DEF BugsPart, FoldersInv, Indexed, EvidenceOf, OfType, ReadOf
<1>12. BugReqInv'
  <2>1. \A u \in Threads : ~Holds(u)'
    BY <1>3, <1>5 DEF Holds
  <2>2. \A u \in Threads : /\ req'[u].do \in {"bug", "evidence"} => req'[u].draft \in 1..drafted
                           /\ req'[u].do = "bug" => req'[u].d \notin DOMAIN fromDraft
    BY <1>3, <1>5 DEF BugsPart, BugReqInv
  <2>3. \A u \in Threads : req'[u].do = "bug" =>
          /\ req'[u].pc = "verified" /\ req'[u].d \notin DOMAIN folders
          /\ ~Indexed(req'[u].d) /\ EvidenceOf(rows', req'[u].d) = {}
    <3>1. \A x : x # d /\ EvidenceOf(rows, x) = {} => EvidenceOf(rows', x) = {}
      BY <1>8
    <3> QED
      BY <1>3, <1>4, <1>5, <1>6, <3>1
  <2>4. \A u \in Threads : ~(req'[u].do = "evidence" /\ req'[u].pc = "log")
    BY <2>1 DEF Holds
  <2> QED
    BY <1>1, <2>1, <2>2, <2>3, <2>4 DEF BugReqInv, Holds, Indexed, EvidenceOf, OfType, ReadOf
<1> QED
  BY <1>3, <1>8, <1>9, <1>10, <1>11, <1>12 DEF BugsPart

\* The task of a bug is written, and its draft is gone.
LEMMA WriteBugKeepsBugs ==
  ASSUME BugsPart, FreshInv, "nobody" \notin Threads, NEW t, NEW r, Moves(t, r), req[t].do = "bug", Intake!WriteTask(t)
  PROVE  BugsPart'
<1>0. PICK d, f : d = req[t].d /\ f = req[t].draft
  OBVIOUS
<1>1. /\ drafts' = drafts \ {f} /\ index' = index /\ folders' = folders /\ cut' = cut /\ drafted' = drafted
      /\ fromDraft' = Intake!Put(fromDraft, d, f) /\ req[t].pc = "write"
  BY <1>0 DEF Intake!WriteTask
<1>2. Holds(t)
  BY <1>1 DEF Holds
<1>3. /\ ReqInv' /\ NewestDemand' = NewestDemand /\ t \in Threads /\ req'[t] = r /\ IsRequest(req[t]) /\ drafted \in Nat
      /\ \A u \in Threads : u # t => req'[u] = req[u] /\ ~Holds(u)
      /\ \A x : Logging(x) <=> req[t].do = "evidence" /\ req[t].pc = "log" /\ req[t].d = x
      /\ \A x : Logging(x)' <=> r.do = "evidence" /\ r.pc = "log" /\ r.d = x
      /\ \A x : Intake!InFlight(x) => Intake!InFlight(x)' \/ (req[t].do = "bug" /\ req[t].d = x)
  BY <1>2, OthersWait
<1>4. \A u \in Threads : u # t /\ req[u].do = "bug" =>
              /\ req[u].d # d
              /\ req[u].pc = "verified" /\ req[u].d \notin DOMAIN fromDraft /\ req[u].d \notin DOMAIN folders
              /\ ~Indexed(req[u].d) /\ EvidenceOf(rows, req[u].d) = {}
  BY <1>0, <1>2, OthersWait
<1>5. r.do = "idle"
  BY <1>3, IdleRequest DEF Intake!WriteTask, Intake!Answer, Intake!Serve, BugsPart, ReqInv
<1>6. /\ d \in DOMAIN folders /\ Indexed(d) /\ d \notin DOMAIN fromDraft /\ f \in 1..drafted
      /\ \A x \in DOMAIN fromDraft : fromDraft[x] # f
  <2>1. /\ d \in DOMAIN folders /\ d \notin DOMAIN fromDraft /\ f \in 1..drafted /\ \A x \in DOMAIN fromDraft : fromDraft[x] # f
        /\ Len(index) = req[t].mark + 1 /\ \A i \in DOMAIN index : index[i] = d <=> i = Len(index)
    BY <1>0, <1>1, <1>2, <1>3 DEF BugsPart, BugReqInv
  <2>2. req[t].mark \in Nat /\ DOMAIN index = 1..Len(index) /\ Len(index) \in Nat
    BY <1>3, DomainOf DEF IsRequest, BugsPart, FoldersInv
  <2>3. Len(index) \in DOMAIN index
    BY <2>1, <2>2
  <2> QED
    BY <2>1, <2>3 DEF Indexed
<1>7. DOMAIN fromDraft' = DOMAIN fromDraft \cup {d} /\ fromDraft'[d] = f /\ \A x \in DOMAIN fromDraft : fromDraft'[x] = fromDraft[x]
  BY <1>1, <1>6 DEF Intake!Put
<1>8. IsSequence(rows') /\ \A x : EvidenceOf(rows', x) = EvidenceOf(rows, x)
  <2>1. PICK e : e.type = "task" /\ Grows(rows, rows', {e})
    BY TaskWrites DEF BugsPart
  <2>2. \A x \in {e} : x.type # "bug-evidence"
    BY <2>1
  <2> QED
    BY <2>1, <2>2, EvidenceStays DEF Grows
<1>9. DraftsInv'
  <2>1. \A x \in DOMAIN fromDraft' : fromDraft'[x] \in (1..drafted) \ drafts'
    BY <1>1, <1>6, <1>7 DEF BugsPart, DraftsInv
  <2>2. \A x, y \in DOMAIN fromDraft' : fromDraft'[x] = fromDraft'[y] => x = y
    BY <1>6, <1>7 DEF BugsPart, DraftsInv
  <2> QED
    BY <1>1, <2>1, <2>2 DEF BugsPart, DraftsInv
<1>10. EvidenceInv'
  <2>1. \A x : ~Logging(x) /\ ~Logging(x)'
    BY <1>3, <1>5
  <2> QED
    BY <1>1, <1>8, <2>1 DEF BugsPart, EvidenceInv
<1>11. FoldersInv'
  <2>1. \A x \in DOMAIN fromDraft' : x \in DOMAIN folders /\ Indexed(x)
    BY <1>6, <1>7 DEF BugsPart, FoldersInv
  <2>2. \A x : x \in DOMAIN folders \/ Indexed(x) => Intake!InFlight(x)' \/ x \in DOMAIN fromDraft' \cup cut
    <3>1. \A x : Intake!InFlight(x) => Intake!InFlight(x)' \/ x = d
      BY <1>0, <1>3
    <3>2. \A x : x \in DOMAIN folders \/ Indexed(x) => Intake!InFlight(x) \/ x \in DOMAIN fromDraft \cup cut
      BY DEF BugsPart, FoldersInv
    <3> QED
      BY <1>7, <3>1, <3>2
  <2>3. \A x : x \in DOMAIN folders \/ Indexed(x) \/ EvidenceOf(rows', x) # {} => x \in Nat /\ x <= NewestDemand'
    BY <1>3, <1>8 DEF BugsPart, FoldersInv
  <2> QED
    BY <1>1, <2>1, <2>2, <2>3 DEF BugsPart, FoldersInv, Indexed
<1>12. BugReqInv'
  <2>1. \A u \in Threads : ~Holds(u)'
    BY <1>3, <1>5 DEF Holds
  <2>2. \A u \in Threads : /\ req'[u].do \in {"bug", "evidence"} => req'[u].draft \in 1..drafted
                           /\ req'[u].do = "bug" => req'[u].d \notin DOMAIN fromDraft'
    BY <1>3, <1>4, <1>5, <1>7 DEF BugsPart, BugReqInv
  <2>3. \A u \in Threads : req'[u].do = "bug" =>
          /\ req'[u].pc = "verified" /\ req'[u].d \notin DOMAIN folders
          /\ ~Indexed(req'[u].d) /\ EvidenceOf(rows', req'[u].d) = {}
    BY <1>3, <1>4, <1>5, <1>8
  <2>4. \A u \in Threads : ~(req'[u].do = "evidence" /\ req'[u].pc = "log")
    BY <2>1 DEF Holds
  <2> QED
    BY <1>1, <2>1, <2>2, <2>3, <2>4 DEF BugReqInv, Holds, Indexed, EvidenceOf, OfType, ReadOf
<1> QED
  BY <1>3, <1>8, <1>9, <1>10, <1>11, <1>12 DEF BugsPart

\* A bug whose code could not be had is discarded: its line of the index is the last.
LEMMA DiscardKeepsBugs ==
  ASSUME BugsPart, FreshInv, "nobody" \notin Threads, NEW t, NEW r, Moves(t, r), req[t].do = "bug", Intake!CodesBusy(t)
  PROVE  BugsPart'
<1>0. PICK d, n : d = req[t].d /\ n = req[t].mark
  OBVIOUS
<1>1. /\ rows' = rows /\ drafts' = drafts /\ fromDraft' = fromDraft /\ cut' = cut /\ drafted' = drafted
      /\ folders' = [i \in DOMAIN folders \ {d} |-> folders[i]] /\ index' = SubSeq(index, 1, n)
      /\ req[t].pc = "append"
  BY <1>0 DEF Intake!CodesBusy, Intake!DiscardBug
<1>2. Holds(t)
  BY <1>1 DEF Holds
<1>3. /\ ReqInv' /\ NewestDemand' = NewestDemand /\ t \in Threads /\ req'[t] = r /\ IsRequest(req[t]) /\ drafted \in Nat
      /\ \A u \in Threads : u # t => req'[u] = req[u] /\ ~Holds(u)
      /\ \A x : Logging(x) <=> req[t].do = "evidence" /\ req[t].pc = "log" /\ req[t].d = x
      /\ \A x : Logging(x)' <=> r.do = "evidence" /\ r.pc = "log" /\ r.d = x
      /\ \A x : Intake!InFlight(x) => Intake!InFlight(x)' \/ (req[t].do = "bug" /\ req[t].d = x)
  BY <1>2, OthersWait
<1>4. \A u \in Threads : u # t /\ req[u].do = "bug" =>
              /\ req[u].pc = "verified" /\ req[u].d \notin DOMAIN fromDraft /\ req[u].d \notin DOMAIN folders
              /\ ~Indexed(req[u].d) /\ EvidenceOf(rows, req[u].d) = {}
  BY <1>2, OthersWait
<1>5. r.do = "idle"
  BY <1>3, IdleRequest DEF Intake!CodesBusy, Intake!Answer, Intake!Serve, BugsPart, ReqInv
<1>6. /\ d \notin DOMAIN fromDraft /\ Len(index) = n + 1 /\ n \in Nat
      /\ \A i \in DOMAIN index : index[i] = d <=> i = Len(index)
  BY <1>0, <1>1, <1>2, <1>3 DEF BugsPart, BugReqInv, IsRequest
<1>7. DOMAIN folders' = DOMAIN folders \ {d} /\ \A x \in DOMAIN folders' : folders'[x] = folders[x]
  BY <1>1
<1>8. /\ IsSequence(index') /\ \A x : (\E i \in DOMAIN index' : index'[i] = x) <=> Indexed(x) /\ x # d
  <2>1. IsSequence(index) /\ DOMAIN index = 1..n + 1
    BY <1>6, DomainOf DEF BugsPart, FoldersInv
  <2>2. n \in 0..Len(index)
    BY <1>6
  <2>3. IsSequence(index') /\ DOMAIN index' = 1..n /\ \A i \in 1..n : index'[i] = index[i]
    BY <1>1, <2>1, <2>2, PartOf
  <2>4. \A i \in 1..n + 1 : i \in 1..n \/ i = n + 1
    BY <1>6
  <2>5. \A i \in 1..n : i \in 1..n + 1 /\ i # n + 1
    BY <1>6
  <2> QED
    BY <1>6, <2>1, <2>3, <2>4, <2>5 DEF Indexed
<1>9. DraftsInv'
  BY <1>1 DEF BugsPart, DraftsInv
<1>10. EvidenceInv'
  <2>1. \A x : ~Logging(x) /\ ~Logging(x)'
    BY <1>3, <1>5
  <2>2. \A x : EvidenceOf(rows', x) = EvidenceOf(rows, x)
    BY <1>1
  <2> QED
    BY <1>1, <1>7, <2>1, <2>2 DEF BugsPart, EvidenceInv
<1>11. FoldersInv'
  <2>1. \A x \in DOMAIN fromDraft : x \in DOMAIN folders' /\ \E i \in DOMAIN index' : index'[i] = x
    BY <1>6, <1>7, <1>8 DEF BugsPart, FoldersInv
  <2>2. \A x : x \in DOMAIN folders' \/ (\E i \in DOMAIN index' : index'[i] = x) => Intake!InFlight(x)' \/ x \in DOMAIN fromDraft \cup cut
    <3>1. \A x : Intake!InFlight(x) => Intake!InFlight(x)' \/ x = d
      BY <1>0, <1>3
    <3>2. \A x : x \in DOMAIN folders \/ Indexed(x) => Intake!InFlight(x) \/ x \in DOMAIN fromDraft \cup cut
      BY DEF BugsPart, FoldersInv
    <3> QED
      BY <1>7, <1>8, <3>1, <3>2
  <2>3. \A x : x \in DOMAIN folders' \/ (\E i \in DOMAIN index' : index'[i] = x) \/ EvidenceOf(rows, x) # {} => x \in Nat /\ x <= NewestDemand'
    BY <1>3, <1>7, <1>8 DEF BugsPart, FoldersInv
  <2> QED
    BY <1>1, <1>8, <2>1, <2>2, <2>3 DEF FoldersInv, Indexed, EvidenceOf, OfType, ReadOf
<1>12. BugReqInv'
  <2>1. \A u \in Threads : ~Holds(u)'
    BY <1>3, <1>5 DEF Holds
  <2>2. \A u \in Threads : /\ req'[u].do \in {"bug", "evidence"} => req'[u].draft \in 1..drafted
                           /\ req'[u].do = "bug" => req'[u].d \notin DOMAIN fromDraft
    BY <1>3, <1>5 DEF BugsPart, BugReqInv
  <2>3. \A u \in Threads : req'[u].do = "bug" =>
          /\ req'[u].pc = "verified" /\ req'[u].d \notin DOMAIN folders'
          /\ (~ \E i \in DOMAIN index' : index'[i] = req'[u].d) /\ EvidenceOf(rows, req'[u].d) = {}
    BY <1>3, <1>4, <1>5, <1>7, <1>8
  <2>4. \A u \in Threads : ~(req'[u].do = "evidence" /\ req'[u].pc = "log")
    BY <2>1 DEF Holds
  <2> QED
    BY <1>1, <2>1, <2>2, <2>3, <2>4 DEF BugReqInv, Holds, Indexed, EvidenceOf, OfType, ReadOf
<1> QED
  BY <1>1, <1>3, <1>9, <1>10, <1>11, <1>12 DEF BugsPart

\* A stop cuts what is in flight short, and no more.
LEMMA StopKeepsBugs ==
  ASSUME Legacy \in Nat, BugsPart, Intake!Stop
  PROVE  BugsPart'
<1>1. /\ drafts' = drafts /\ folders' = folders /\ index' = index /\ fromDraft' = fromDraft /\ drafted' = drafted
      /\ cut' = cut \cup {req[t].d : t \in {u \in Threads : req[u].do # "idle"}}
  BY DEF Intake!Stop
<1>2. ReqInv' /\ NewestDemand' = NewestDemand /\ \A t \in Threads : req'[t].do = "idle"
  BY StopKeepsReq, IdleRequest DEF BugsPart, NewestDemand
<1>3. IsSequence(rows') /\ \A x : EvidenceOf(rows', x) = EvidenceOf(rows, x)
  <2>1. Grows(rows, rows', {})
    BY StopWrites DEF BugsPart
  <2>2. PICK new : new = {}
    OBVIOUS
  <2>3. Grows(rows, rows', new) /\ \A e \in new : e.type # "bug-evidence"
    BY <2>1, <2>2
  <2> QED
    BY <2>3, EvidenceStays DEF Grows
<1>4. \A x : (Logging(x) \/ Intake!InFlight(x) => x \in cut') /\ ~Logging(x)' /\ (x \in cut => x \in cut')
  <2>1. \A x : Logging(x) \/ Intake!InFlight(x) => x \in cut'
    BY <1>1 DEF Logging, Intake!InFlight
  <2> QED
    BY <1>1, <1>2, <2>1 DEF Logging
<1>5. DraftsInv'
  BY <1>1 DEF BugsPart, DraftsInv
<1>6. EvidenceInv'
  <2>1. ASSUME NEW x \in DOMAIN folders'
        PROVE  \E m \in Nat \ {0} :
                 /\ folders'[x] = 1..m
                 /\ x \notin cut' => Cardinality(EvidenceOf(rows', x)) < IF Logging(x)' THEN m - 1 ELSE m
    <3>1. PICK m \in Nat \ {0} : folders[x] = 1..m /\ (x \notin cut => Cardinality(EvidenceOf(rows, x)) < IF Logging(x) THEN m - 1 ELSE m)
      BY <1>1, <2>1 DEF BugsPart, EvidenceInv
    <3>2. x \notin cut' => x \notin cut /\ ~Logging(x)
      BY <1>4
    <3> QED
      BY <1>1, <1>3, <1>4, <3>1, <3>2
  <2> QED
    BY <2>1 DEF EvidenceInv, Logging, EvidenceOf, OfType, ReadOf
<1>7. FoldersInv'
  <2>1. \A x : x \in DOMAIN folders \/ Indexed(x) => x \in DOMAIN fromDraft \cup cut'
    BY <1>4 DEF BugsPart, FoldersInv
  <2>2. \A x : x \in DOMAIN folders \/ Indexed(x) \/ EvidenceOf(rows', x) # {} => x \in Nat /\ x <= NewestDemand'
    BY <1>2, <1>3 DEF BugsPart, FoldersInv
  <2> QED
    BY <1>1, <2>1, <2>2 DEF BugsPart, FoldersInv, Indexed, EvidenceOf, OfType, ReadOf
<1>8. BugReqInv'
  BY <1>2 DEF BugReqInv, Holds
<1> QED
  BY <1>2, <1>3, <1>5, <1>6, <1>7, <1>8 DEF BugsPart

LEMMA BugsPartWhole ==
  ASSUME BugsPart
  PROVE  Intake!BugsWhole
<1>1. \A d : (d \in Intake!ToSet(index) <=> Indexed(d)) /\ (Intake!Contains(index, d) <=> Indexed(d))
  BY DomainOf DEF Intake!ToSet, Intake!Contains, Indexed, BugsPart, FoldersInv, IsSequence
<1>2. \A d \in DOMAIN fromDraft : d \in DOMAIN folders /\ Intake!Contains(index, d)
  BY <1>1 DEF BugsPart, FoldersInv
<1>3. \A d \in DOMAIN folders \cup Intake!ToSet(index) : Intake!InFlight(d) \/ d \in DOMAIN fromDraft \cup cut
  BY <1>1 DEF BugsPart, FoldersInv
<1>4. \A d, e \in DOMAIN fromDraft : fromDraft[d] = fromDraft[e] => d = e
  BY DEF BugsPart, DraftsInv
<1>5. ASSUME NEW d \in DOMAIN folders \ cut
      PROVE  Cardinality(Intake!Events("bug-evidence", d)) < Cardinality(folders[d])
  <2>1. PICK m \in Nat \ {0} : folders[d] = 1..m /\ Cardinality(EvidenceOf(rows, d)) < IF Logging(d) THEN m - 1 ELSE m
    BY <1>5 DEF BugsPart, EvidenceInv
  <2>2. Intake!Events("bug-evidence", d) = EvidenceOf(rows, d)
    BY DEF Intake!Events, Intake!ReadRows, EvidenceOf, OfType, ReadOf
  <2>3. Cardinality(folders[d]) = m
    BY <2>1, FS_Interval
  <2>4. Cardinality(EvidenceOf(rows, d)) \in Nat
    <3>1. EvidenceOf(rows, d) \subseteq DOMAIN rows /\ IsFiniteSet(DOMAIN rows)
      BY DomainOf DEF EvidenceOf, OfType, ReadOf, BugsPart
    <3> QED
      BY <3>1, FS_Subset, FS_CardinalityType
  <2> QED
    BY <2>1, <2>2, <2>3, <2>4
<1>6. \A d \in DOMAIN folders \ cut : Intake!Cardinality(Intake!Events("bug-evidence", d)) < Intake!Cardinality(folders[d])
  BY <1>5 DEF Intake!Cardinality, Cardinality, Intake!IsFiniteSet, IsFiniteSet
<1> QED
  BY <1>2, <1>3, <1>4, <1>6 DEF Intake!BugsWhole

-----------------------------------------------------------------------------
IntakeInv == CodesPart /\ StartsPart /\ BugsPart

LEMMA IntakeInvStarts ==
  ASSUME Intake!IntakeAssumption, Intake!Init
  PROVE  IntakeInv
<1>1. Legacy \in Nat /\ asked = 0 /\ NewestDemand = Legacy /\ NewestDemand \in Nat /\ drafted = 0
  BY DEF Intake!IntakeAssumption, Intake!Init, NewestDemand
<1>2. /\ rows = [i \in 1..Legacy |-> Intake!Row("task", i)] /\ req = [t \in Threads |-> Intake!Idle]
      /\ drafts = {} /\ folders = << >> /\ index = << >> /\ told = << >> /\ fromDraft = << >> /\ cut = {}
  BY DEF Intake!Init
<1>3. DOMAIN << >> = {} /\ IsSequence(<< >>)
  BY DEF IsSequence
<1>4. IsSequence(rows) /\ Len(rows) = Legacy /\ DOMAIN rows = 1..Legacy
  BY <1>1, <1>2 DEF IsSequence
<1>5. \A i \in DOMAIN rows : rows[i] = Intake!Row("task", i) /\ rows[i].type = "task"
  BY <1>2, <1>4, RowIs
<1>6. /\ Later(rows) = {} /\ \A type : type # "task" => OfType(rows, type) = {}
      /\ \A d : EvidenceOf(rows, d) = {}
  BY <1>1, <1>4, <1>5 DEF Later, OfType, ReadOf, EvidenceOf
<1>7. \A t \in Threads : req[t] = Intake!Idle /\ req[t].do = "idle" /\ req[t].d = 0 /\ IsRequest(req[t])
  BY <1>2, IdleRequest
<1>8. ReqInv
  BY <1>1, <1>2, <1>7 DEF ReqInv
<1>9. TasksInv(rows, NewestDemand)
  BY <1>1, <1>4, <1>5, <1>6 DEF TasksInv
<1>10. FreshInv /\ CodesInv
  BY <1>2, <1>3, <1>7 DEF FreshInv, CodesInv, Creating
<1>11. StartsInv(rows) /\ WaitingInv
  BY <1>6, <1>7 DEF StartsInv, WaitingInv
<1>12. \A d : ~Indexed(d)
  BY <1>2, <1>3 DEF Indexed
<1>13. DraftsInv /\ BugReqInv /\ FoldersInv /\ EvidenceInv
  BY <1>1, <1>2, <1>3, <1>6, <1>7, <1>12 DEF DraftsInv, BugReqInv, FoldersInv, EvidenceInv, Holds
<1> QED
  BY <1>4, <1>8, <1>9, <1>10, <1>11, <1>13 DEF IntakeInv, CodesPart, StartsPart, BugsPart

LEMMA MoveKeepsIntake ==
  ASSUME Intake!IntakeAssumption, IntakeInv, NEW t, NEW r, Moves(t, r),
         OtherMoves(t) \/ Intake!TakeCodes(t) \/ Intake!WriteTask(t)
  PROVE  IntakeInv'
<1>1. Legacy \in Nat /\ "nobody" \notin Threads /\ FreshInv /\ t \in Threads /\ IsRequest(req[t])
  BY DEF Intake!IntakeAssumption, IntakeInv, CodesPart, Moves, Serves, ReqInv
<1>2. CodesPart'
  BY <1>1, TakeKeepsCodes, WriteKeepsCodes, MoveKeepsCodes DEF IntakeInv
<1>3. StartsPart'
  BY MoveKeepsStarts DEF IntakeInv
<1>4. BugsPart'
  <2>1. CASE QuietMoves(t)
    BY <1>1, <2>1, QuietKeepsBugs DEF IntakeInv
  <2>2. CASE Intake!TakeBugs(t)
    BY <1>1, <2>2, TakeBugsKeepsBugs DEF IntakeInv
  <2>3. CASE Intake!PutBug(t)
    BY <1>1, <2>3, PutBugKeepsBugs DEF IntakeInv
  <2>4. CASE Intake!AddEvidence(t)
    BY <1>1, <2>4, AddEvidenceKeepsBugs DEF IntakeInv
  <2>5. CASE Intake!LogEvidence(t)
    BY <1>1, <2>5, LogEvidenceKeepsBugs DEF IntakeInv
  <2>6. CASE req[t].do = "bug" /\ (Intake!WriteTask(t) \/ Intake!CodesBusy(t))
    BY <1>1, <2>6, WriteBugKeepsBugs, DiscardKeepsBugs DEF IntakeInv
  <2>7. Intake!WriteTask(t) \/ Intake!CodesBusy(t) => req[t].do = "task" \/ req[t].do = "bug"
    BY DEF Intake!WriteTask, Intake!CodesBusy, Intake!Creates
  <2> QED
    BY <2>1, <2>2, <2>3, <2>4, <2>5, <2>6, <2>7 DEF OtherMoves, QuietMoves
<1> QED
  BY <1>2, <1>3, <1>4 DEF IntakeInv

LEMMA IntakeInvStays ==
  ASSUME PartAssumptions, IntakeInv, [Intake!Next]_(Intake!vars)
  PROVE  IntakeInv'
<1>1. Intake!IntakeAssumption /\ Legacy \in Nat
  BY DEF PartAssumptions, Intake!IntakeAssumption
<1>2. ASSUME NEW t \in Threads,
             \/ Intake!CreateTask(t) \/ Intake!CreateBug(t) \/ Intake!AskEvidence(t)
             \/ Intake!Clarify(t) \/ Intake!Edit(t) \/ Intake!Control(t) \/ Intake!Start(t) \/ Intake!Triage(t)
      PROVE  IntakeInv'
  <2>1. PICK r : Asks(t, r)
    BY <1>2, AskingAsks DEF IntakeInv, CodesPart, StartsPart, BugsPart
  <2> QED
    BY <1>1, <2>1, AskKeepsCodes, AskKeepsStarts, AskKeepsBugs DEF IntakeInv
<1>3. ASSUME NEW t \in Threads, OtherMoves(t) \/ Intake!TakeCodes(t) \/ Intake!WriteTask(t) PROVE IntakeInv'
  <2>1. PICK r : Moves(t, r)
    BY <1>3, ThreadMoves DEF IntakeInv, CodesPart, BugsPart, FoldersInv, OtherMoves
  <2> QED
    BY <1>1, <1>3, <2>1, MoveKeepsIntake
<1>4. CASE Intake!ExpireDraft \/ Intake!SquadWrites \/ \E t \in Threads : Intake!BuildDraft(t)
  BY <1>1, <1>4, CodesSurviveRest, StartsSurviveRest, DraftsKeepBugs DEF IntakeInv
<1>5. CASE Intake!Stop
  BY <1>1, <1>5, CodesSurviveRest, StartsSurviveRest, StopKeepsBugs DEF IntakeInv
<1>6. CASE UNCHANGED Intake!vars
  <2>1. CodesPart'
    BY <1>6 DEF Intake!vars, IntakeInv, CodesPart, ReqInv, TasksInv, FreshInv, CodesInv, Creating, NewestDemand, Later, OfType, ReadOf
  <2>2. StartsPart'
    BY <1>6 DEF Intake!vars, IntakeInv, StartsPart, ReqInv, StartsInv, WaitingInv, NewestDemand, ReadyBefore, OfType, ReadOf
  <2>3. BugsPart'
    <3>1. IsSequence(rows) /\ Grows(rows, rows', {}) /\ NewestDemand \in Nat /\ drafted \in Nat
      BY <1>1, <1>6, LogStays DEF Intake!vars, IntakeInv, BugsPart, DraftsInv, ReqInv, NewestDemand
    <3>2. ReqInv' /\ NewestDemand' = NewestDemand
      BY <1>6 DEF Intake!vars, IntakeInv, BugsPart, ReqInv, NewestDemand
    <3>3. \A t \in Threads : GoesOnWith(req[t], req'[t])
      BY <1>6 DEF Intake!vars, GoesOnWith
    <3>4. PICK new : new = {}
      OBVIOUS
    <3>5. Grows(rows, rows', new) /\ \A e \in new : e.type # "bug-evidence"
      BY <3>1, <3>4
    <3>6. /\ bugsLock' = bugsLock /\ folders' = folders /\ index' = index /\ fromDraft' = fromDraft /\ cut' = cut
          /\ drafted' = drafted /\ drafts' = drafts
      BY <1>6 DEF Intake!vars
    <3> QED
      BY <3>1, <3>2, <3>3, <3>5, <3>6, BugsStay DEF IntakeInv
  <2> QED
    BY <2>1, <2>2, <2>3 DEF IntakeInv
<1> QED
  BY <1>2, <1>3, <1>4, <1>5, <1>6 DEF Intake!Next, OtherMoves

LEMMA IntakeInvAlways == Intake!Spec => []IntakeInv
<1>1. Intake!Init => IntakeInv
  BY PartAssumptions, IntakeInvStarts
<1>2. IntakeInv /\ [Intake!Next]_(Intake!vars) => IntakeInv'
  BY PartAssumptions, IntakeInvStays
<1> QED
  BY <1>1, <1>2, PTL DEF Intake!Spec


-----------------------------------------------------------------------------
(* The mirror on GitHub: what the calls of a handler are.                  *)

Silent == {"comment", "card", "handed"}
Closes == {"close", "drop"}

\* A call on an issue of K; only those of T does it close or reopen.
CallOn(c, K, T) ==
  /\ c = [do |-> c.do, key |-> c.key, arg |-> c.arg]
  /\ c.key \in K /\ c.do \in Silent \cup Closes \cup {"reopen"}
  /\ c.do \notin Silent => c.key \in T
  /\ c.do = "drop" => c.arg = "cancelado"

Plain(calls, K, T) == IsSequence(calls) /\ \A n \in DOMAIN calls : CallOn(calls[n], K, T)

\* Calls on issues of K, and on the issue of `new` if they start by creating it.
With(K, opens, new) == IF opens THEN K \cup {new} ELSE K
Tells(calls, K, T, opens, new) ==
  /\ IsSequence(calls)
  /\ opens => /\ Len(calls) >= 2 /\ calls[1] = [do |-> "create", key |-> new, arg |-> "none"]
              /\ calls[2] = [do |-> "add", key |-> new, arg |-> calls[2].arg]
  /\ \A n \in DOMAIN calls : (opens => n > 2) => CallOn(calls[n], With(K, opens, new), T)

\* What is done to an issue: nothing that closes or reopens it but `turns`.
Does(deeds, turns) ==
  /\ Len(deeds) \in 1..4
  /\ \A j \in 1..Len(deeds) : /\ deeds[j][1] \in Silent \cup turns
                              /\ deeds[j][1] = "drop" => deeds[j][2] = "cancelado"

\* The same things done to several issues.
LEMMA EachIs ==
  ASSUME NEW keys, IsSequence(keys), NEW deeds, Len(deeds) \in 1..4
  PROVE  /\ IsSequence(Mirror!Each(keys, deeds)) /\ Len(Mirror!Each(keys, deeds)) = Len(keys) * Len(deeds)
         /\ \A n \in DOMAIN Mirror!Each(keys, deeds) : \E i \in DOMAIN keys, j \in 1..Len(deeds) :
              Mirror!Each(keys, deeds)[n] = [do |-> deeds[j][1], key |-> keys[i], arg |-> deeds[j][2]]
<1> DEFINE L == Len(deeds)
           N == Len(keys)
           at(n) == ((n - 1) \div L) + 1
           by(n) == ((n - 1) % L) + 1
           each == [n \in 1..N * L |-> LET deed == deeds[by(n)] IN [do |-> deed[1], key |-> keys[at(n)], arg |-> deed[2]]]
<1>1. Mirror!Each(keys, deeds) = each
  BY DEF Mirror!Each
<1>2. N \in Nat /\ DOMAIN keys = 1..N /\ L \in 1..4
  BY DomainOf
<1>3. N * L \in Nat /\ \A n \in 1..N * L : at(n) \in 1..N /\ by(n) \in 1..L
  <2> HIDE DEF N, L
  <2>1. CASE L = 1
    BY <1>2, <2>1
  <2>2. CASE L = 2
    BY <1>2, <2>2
  <2>3. CASE L = 3
    BY <1>2, <2>3
  <2>4. CASE L = 4
    BY <1>2, <2>4
  <2> QED
    BY <1>2, <2>1, <2>2, <2>3, <2>4
<1> HIDE DEF at, by
<1>4. IsSequence(each) /\ Len(each) = N * L
  <2>1. DOMAIN each = 1..N * L /\ Len(each) = N * L
    <3> HIDE DEF N, L
    <3>1. \E M \in Nat : M = N * L
      BY <1>3
    <3>2. PICK M \in Nat : M = N * L
      BY <3>1
    <3> QED
      BY <3>2
  <2> QED
    BY <1>3, <2>1 DEF IsSequence
<1>5. ASSUME NEW n \in DOMAIN each
      PROVE  \E i \in DOMAIN keys, j \in 1..L : each[n] = [do |-> deeds[j][1], key |-> keys[i], arg |-> deeds[j][2]]
  <2>1. n \in 1..N * L
    BY <1>5
  <2>2. at(n) \in DOMAIN keys /\ by(n) \in 1..L
    BY <1>2, <1>3, <2>1
  <2>3. each[n] = [do |-> deeds[by(n)][1], key |-> keys[at(n)], arg |-> deeds[by(n)][2]]
    BY <2>1
  <2> HIDE DEF each, L, N
  <2> QED
    BY <2>2, <2>3
<1> QED
  BY <1>1, <1>4, <1>5

\* Things done to one issue.
LEMMA OnIs ==
  ASSUME NEW k, NEW deeds, Len(deeds) \in 1..4
  PROVE  /\ IsSequence(Mirror!On(k, deeds)) /\ Len(Mirror!On(k, deeds)) = Len(deeds)
         /\ \A n \in 1..Len(deeds) : Mirror!On(k, deeds)[n] = [do |-> deeds[n][1], key |-> k, arg |-> deeds[n][2]]
<1> DEFINE L == Len(deeds)
           one == <<k>>
<1>1. IsSequence(one) /\ Len(one) = 1 /\ one[1] = k
  BY DEF IsSequence
<1>2. Mirror!On(k, deeds) = Mirror!Each(one, deeds)
  BY DEF Mirror!On
<1>3. IsSequence(Mirror!Each(one, deeds)) /\ Len(Mirror!Each(one, deeds)) = 1 * L
  BY <1>1, EachIs
<1>4. L \in 1..4 /\ 1 * L = L
  OBVIOUS
<1>5. ASSUME NEW n \in 1..L PROVE Mirror!Each(one, deeds)[n] = [do |-> deeds[n][1], key |-> k, arg |-> deeds[n][2]]
  <2>1. n \in 1..Len(one) * L /\ Mirror!Each(one, deeds)[n]
          = LET deed == deeds[((n - 1) % L) + 1] IN [do |-> deed[1], key |-> one[((n - 1) \div L) + 1], arg |-> deed[2]]
    BY <1>1, <1>4, <1>5 DEF Mirror!Each
  <2>2. ((n - 1) % L) + 1 = n /\ ((n - 1) \div L) + 1 = 1
    <3> HIDE DEF L
    <3> QED
      BY <1>4, <1>5
  <2> QED
    BY <1>1, <2>1, <2>2
<1> QED
  BY <1>2, <1>3, <1>4, <1>5

\* The numbers of a finite set in ascending order.
LEMMA SortedIs ==
  ASSUME NEW S, S \subseteq Nat, IsFiniteSet(S)
  PROVE  LET sorted == Mirror!Kept([k \in S |-> k], S) IN IsSequence(sorted) /\ \A n \in DOMAIN sorted : sorted[n] \in S
<1> DEFINE c == Cardinality(S)
           o == InOrder(S)
           same == [k \in S |-> k]
           sorted == [n \in 1..c |-> same[o[n]]]
<1>1. c \in Nat /\ o \in [1..c -> S]
  BY InOrderIs
<1>2. Mirror!Cardinality(S) = c
  BY DEF Mirror!Cardinality, Cardinality, Mirror!IsFiniteSet, IsFiniteSet
<1> HIDE DEF c
<1>3. Mirror!InOrder(S) = o
  BY <1>2, Zenon DEF Mirror!InOrder, InOrder, c
<1> HIDE DEF o
<1>4. Mirror!Kept(same, S) = sorted
  BY <1>2, <1>3 DEF Mirror!Kept
<1>5. Len(sorted) = c /\ DOMAIN sorted = 1..c
  BY <1>1
<1>6. IsSequence(sorted)
  BY <1>1, <1>5 DEF IsSequence
<1>7. \A n \in DOMAIN sorted : sorted[n] \in S
  BY <1>1
<1> QED
  BY <1>4, <1>6, <1>7

\* Several sequences, one after the other.
LEMMA FlatIs ==
  ASSUME NEW seqs, IsSequence(seqs), NEW S, \A i \in DOMAIN seqs : IsSequence(seqs[i]) /\ \A n \in DOMAIN seqs[i] : seqs[i][n] \in S
  PROVE  /\ IsSequence(Mirror!FlattenSeq(seqs))
         /\ \A n \in DOMAIN Mirror!FlattenSeq(seqs) : Mirror!FlattenSeq(seqs)[n] \in S
<1> DEFINE N == Len(seqs)
           Good(s) == IsSequence(s) /\ \A n \in DOMAIN s : s[n] \in S
           Is(f, n) == f = [i \in 1..n |-> IF i = 1 THEN seqs[i] ELSE f[i - 1] \o seqs[i]]
<1>1. N \in Nat /\ DOMAIN seqs = 1..N
  BY DomainOf
<1>2. CASE N = 0
  <2>1. Mirror!FlattenSeq(seqs) = seqs
    BY <1>2 DEF Mirror!FlattenSeq
  <2> QED
    BY <1>1, <1>2, <2>1
<1>3. CASE N # 0
  <2>1. \E f : Is(f, N)
    <3> DEFINE bad == {n \in Nat : ~ \E f : Is(f, n)}
    <3>1. bad = {}
      <4> SUFFICES ASSUME bad # {} PROVE FALSE
        OBVIOUS
      <4>1. PICK n \in bad : \A m \in bad : n <= m
        <5>1. bad \subseteq Nat
          OBVIOUS
        <5> HIDE DEF bad
        <5> QED
          BY <5>1, LeastElement
      <4>2. n # 0
        <5>1. Is([i \in 1..0 |-> 0], 0)
          OBVIOUS
        <5> QED
          BY <5>1
      <4>3. n - 1 \in Nat /\ n \in Nat /\ n - 1 \notin bad
        <5>1. n \in Nat /\ n # 0
          BY <4>2
        <5>2. n - 1 \in Nat /\ ~(n <= n - 1)
          BY <5>1
        <5> HIDE DEF bad
        <5> QED
          BY <4>1, <5>1, <5>2
      <4>4. PICK f : Is(f, n - 1)
        BY <4>3
      <4> DEFINE g == [i \in 1..n |-> IF i = 1 THEN seqs[i] ELSE f[i - 1] \o seqs[i]]
      <4>5. ASSUME NEW i \in 1..(n - 1) PROVE g[i] = f[i]
        <5> HIDE DEF bad
        <5>1. i \in 1..n
          BY <4>3, <4>5
        <5>2. f[i] = IF i = 1 THEN seqs[i] ELSE f[i - 1] \o seqs[i]
          BY <4>4, <4>5
        <5> QED
          BY <5>1, <5>2
      <4>6. ASSUME NEW i \in 1..n PROVE g[i] = IF i = 1 THEN seqs[i] ELSE g[i - 1] \o seqs[i]
        <5>1. CASE i = 1
          BY <5>1
        <5>2. CASE i # 1
          <6>1. i - 1 \in 1..(n - 1)
            <7> HIDE DEF bad
            <7> QED
              BY <4>3, <4>6, <5>2
          <6>2. g[i] = f[i - 1] \o seqs[i]
            BY <4>6, <5>2
          <6>3. g[i - 1] = f[i - 1]
            BY <4>5, <6>1
          <6> QED
            BY <5>2, <6>2, <6>3
        <5> QED
          BY <5>1, <5>2
      <4>7. Is(g, n)
        BY <4>6
      <4> QED
        BY <4>1, <4>7
    <3> QED
      BY <1>1, <3>1
  <2> DEFINE flat == CHOOSE f : Is(f, N)
  <2>2. Is(flat, N)
    <3> HIDE DEF Is
    <3> QED
      BY <2>1
  <2>3. Mirror!FlattenSeq(seqs) = flat[N]
    BY <1>3 DEF Mirror!FlattenSeq
  <2> HIDE DEF flat
  <2>4. \A n \in 1..N : Good(flat[n])
    <3> DEFINE bad == {n \in 1..N : ~Good(flat[n])}
    <3> SUFFICES ASSUME bad # {} PROVE FALSE
      OBVIOUS
    <3>1. PICK n \in bad : \A m \in bad : n <= m
      <4>1. bad \subseteq Nat
        BY <1>1
      <4> HIDE DEF bad
      <4> QED
        BY <4>1, LeastElement
    <3>2. Good(seqs[n]) /\ flat[n] = IF n = 1 THEN seqs[n] ELSE flat[n - 1] \o seqs[n]
      BY <1>1, <2>2
    <3>3. n # 1
      BY <3>2
    <3>4. n - 1 \in 1..N /\ n - 1 \notin bad
      BY <1>1, <3>1, <3>3
    <3>5. Good(flat[n - 1])
      BY <3>4
    <3>6. Good(flat[n - 1] \o seqs[n])
      <4> DEFINE a == flat[n - 1]
                 b == seqs[n]
      <4>1. IsSequence(a) /\ IsSequence(b) /\ DOMAIN a = 1..Len(a) /\ DOMAIN b = 1..Len(b) /\ Len(a) \in Nat /\ Len(b) \in Nat
        BY <3>2, <3>5, DomainOf
      <4>2. /\ IsSequence(a \o b) /\ Len(a \o b) = Len(a) + Len(b)
            /\ \A i \in 1..Len(a) + Len(b) : (a \o b)[i] = IF i <= Len(a) THEN a[i] ELSE b[i - Len(a)]
        BY <4>1, Concatenated
      <4>3. DOMAIN (a \o b) = 1..Len(a) + Len(b)
        BY <4>2, DomainOf
      <4>4. \A i \in 1..Len(a) + Len(b) : i \in DOMAIN a \/ (~(i <= Len(a)) /\ i - Len(a) \in DOMAIN b)
        <5> HIDE DEF a, b
        <5> QED
          BY <4>1
      <4>5. (\A i \in DOMAIN a : a[i] \in S /\ i <= Len(a)) /\ \A i \in DOMAIN b : b[i] \in S
        BY <3>2, <3>5, <4>1
      <4> HIDE DEF a, b
      <4>6. \A i \in DOMAIN (a \o b) : (a \o b)[i] \in S
        BY <4>2, <4>3, <4>4, <4>5
      <4> QED
        BY <4>2, <4>6 DEF a, b
    <3> QED
      BY <3>1, <3>2, <3>3, <3>6
  <2> QED
    BY <1>1, <1>3, <2>3, <2>4
<1> QED
  BY <1>2, <1>3

-----------------------------------------------------------------------------
(* The mirror on GitHub: what the log says of a demand.                    *)

\* The moves that conclude a demand, those of a demand among the first n events.
Final == {"delivered", "cancel"}
Of(log, d, n) == {i \in 1..n : log[i].demand = d /\ Mirror!Move(log[i]) \in Mirror!Moves}
Concludes(e, d) == e.demand = d /\ Mirror!Move(e) \in Final

\* The first n events are the same in both logs.
Shares(log, other, n) == \A i \in 1..n : log[i] = other[i]

\* What a log says of its first n events, every log that shares them says.
LEMMA SharedLog ==
  ASSUME NEW log, NEW other, NEW n \in Nat, Shares(log, other, n)
  PROVE  /\ Mirror!Registered(log, n) = Mirror!Registered(other, n)
         /\ \A d : Mirror!LastMove(log, d, n) = Mirror!LastMove(other, d, n)
         /\ \A type : Mirror!Possible(type, log, n) = Mirror!Possible(type, other, n)
         /\ \A e : Mirror!Legal(log, n, e) <=> Mirror!Legal(other, n, e)
<1>1. Mirror!Registered(log, n) = Mirror!Registered(other, n)
  BY DEF Mirror!Registered, Shares
<1>2. ASSUME NEW d PROVE Mirror!LastMove(log, d, n) = Mirror!LastMove(other, d, n)
  <2> DEFINE of == Of(log, d, n)
             last == CHOOSE i \in of : \A j \in of : j <= i
  <2>1. Of(other, d, n) = of
    BY DEF Of, Shares
  <2>2. Mirror!LastMove(log, d, n) = IF of = {} THEN "none" ELSE Mirror!Move(log[last])
    BY DEF Mirror!LastMove, Of
  <2>3. Mirror!LastMove(other, d, n) = IF of = {} THEN "none" ELSE Mirror!Move(other[last])
    <3>1. Mirror!LastMove(other, d, n)
            = IF Of(other, d, n) = {} THEN "none"
              ELSE Mirror!Move(other[CHOOSE i \in Of(other, d, n) : \A j \in Of(other, d, n) : j <= i])
      BY DEF Mirror!LastMove, Of
    <3> QED
      BY <2>1, <3>1
  <2>4. CASE of # {}
    <3>1. last \in of
      <4>1. of \subseteq Nat /\ \A i \in of : i <= n
        BY DEF Of
      <4>2. \E i \in of : \A j \in of : j <= i
        <5> HIDE DEF of
        <5> QED
          BY <2>4, <4>1, GreatestElement
      <4> QED
        BY <4>2
    <3>2. log[last] = other[last]
      BY <3>1 DEF Of, Shares
    <3> QED
      BY <2>2, <2>3, <2>4, <3>2
  <2> QED
    BY <2>2, <2>3, <2>4
<1>3. ASSUME NEW type PROVE Mirror!Possible(type, log, n) = Mirror!Possible(type, other, n)
  BY <1>1 DEF Mirror!Possible, Mirror!Moves
<1>4. ASSUME NEW e PROVE Mirror!Legal(log, n, e) <=> Mirror!Legal(other, n, e)
  BY <1>2 DEF Mirror!Legal
<1> QED
  BY <1>1, <1>2, <1>3, <1>4

\* The last move of a demand after one more event.
LEMMA LastMoveIs ==
  ASSUME NEW log, NEW n \in Nat, n # 0, NEW d
  PROVE  Mirror!LastMove(log, d, n)
           = IF log[n].demand = d /\ Mirror!Move(log[n]) \in Mirror!Moves THEN Mirror!Move(log[n])
             ELSE Mirror!LastMove(log, d, n - 1)
<1> DEFINE of == Of(log, d, n)
           before == Of(log, d, n - 1)
<1>1. /\ Mirror!LastMove(log, d, n) = IF of = {} THEN "none" ELSE Mirror!Move(log[CHOOSE i \in of : \A j \in of : j <= i])
      /\ Mirror!LastMove(log, d, n - 1) = IF before = {} THEN "none" ELSE Mirror!Move(log[CHOOSE i \in before : \A j \in before : j <= i])
  BY DEF Mirror!LastMove, Of
<1>2. CASE log[n].demand = d /\ Mirror!Move(log[n]) \in Mirror!Moves
  <2>1. n \in of /\ \A j \in of : j <= n /\ j \in Nat
    BY <1>2 DEF Of
  <2>2. (CHOOSE i \in of : \A j \in of : j <= i) = n
    <3> HIDE DEF of
    <3>1. \A i \in of : (\A j \in of : j <= i) => i = n
      BY <2>1
    <3> QED
      BY <2>1, <3>1
  <2> QED
    BY <1>1, <1>2, <2>1, <2>2
<1>3. CASE ~(log[n].demand = d /\ Mirror!Move(log[n]) \in Mirror!Moves)
  <2>1. of = before
    <3>1. \A i \in 1..n : i = n \/ i \in 1..(n - 1)
      OBVIOUS
    <3>2. 1..(n - 1) \subseteq 1..n
      OBVIOUS
    <3> QED
      BY <1>3, <3>1, <3>2 DEF Of
  <2> QED
    BY <1>1, <1>3, <2>1
<1> QED
  BY <1>2, <1>3

\* Nothing is said of a demand before it is registered.
LEMMA NoMoveYet ==
  ASSUME NEW log, NEW n \in Nat, NEW d, \A i \in 1..n : log[i].demand # d
  PROVE  Mirror!LastMove(log, d, n) = "none"
<1>1. Of(log, d, n) = {}
  BY DEF Of
<1> QED
  BY <1>1 DEF Mirror!LastMove, Of

\* A log event by event.
LEMMA LogIs ==
  ASSUME NEW log, Mirror!IsLog(log)
  PROVE  /\ IsSequence(log) /\ DOMAIN log = 1..Len(log) /\ Len(log) \in Nat
         /\ \A n \in DOMAIN log : /\ log[n].type \in Mirror!Types
                                  /\ log[n] \in Mirror!Possible(log[n].type, log, n - 1)
                                  /\ Mirror!Legal(log, n - 1, log[n])
BY DEF Mirror!IsLog, IsSequence

\* A log that grows as it may is a log.
LEMMA LogAppended ==
  ASSUME NEW log, Mirror!IsLog(log), NEW type \in Mirror!Types, NEW e \in Mirror!Possible(type, log, Len(log)),
         e.type = type, Mirror!Legal(log, Len(log), e)
  PROVE  Mirror!IsLog(Append(log, e)) /\ Shares(Append(log, e), log, Len(log)) /\ Len(Append(log, e)) = Len(log) + 1
<1> DEFINE longer == Append(log, e)
<1>1. IsSequence(log) /\ DOMAIN log = 1..Len(log) /\ Len(log) \in Nat
  BY LogIs
<1>2. /\ IsSequence(longer) /\ Len(longer) = Len(log) + 1 /\ DOMAIN longer = DOMAIN log \cup {Len(log) + 1}
      /\ \A j \in DOMAIN log : longer[j] = log[j]
      /\ longer[Len(log) + 1] = e
  BY <1>1, Appended
<1> HIDE DEF longer
<1>3. \A n \in 0..Len(log) : Shares(longer, log, n)
  BY <1>1, <1>2 DEF Shares
<1>4. ASSUME NEW n \in DOMAIN longer
      PROVE  /\ longer[n].type \in Mirror!Types /\ longer[n] \in Mirror!Possible(longer[n].type, longer, n - 1)
             /\ Mirror!Legal(longer, n - 1, longer[n])
  <2>1. n - 1 \in 0..Len(log) /\ n - 1 \in Nat
    BY <1>1, <1>2, <1>4
  <2>2. /\ \A t : Mirror!Possible(t, longer, n - 1) = Mirror!Possible(t, log, n - 1)
        /\ \A f : Mirror!Legal(longer, n - 1, f) <=> Mirror!Legal(log, n - 1, f)
    BY <1>3, <2>1, SharedLog
  <2>3. CASE n \in DOMAIN log
    BY <1>2, <2>2, <2>3, LogIs
  <2>4. CASE n = Len(log) + 1
    <3>1. n - 1 = Len(log)
      BY <1>1, <2>4
    <3> QED
      BY <1>2, <2>2, <2>4, <3>1
  <2> QED
    BY <1>2, <1>4, <2>3, <2>4
<1>5. Len(longer) \in Nat /\ longer = [i \in 1..Len(longer) |-> longer[i]] /\ Len(log) \in 0..Len(log)
  BY <1>1, <1>2 DEF IsSequence
<1>6. Mirror!IsLog(longer)
  BY <1>4, <1>5 DEF Mirror!IsLog
<1> QED
  BY <1>2, <1>3, <1>5, <1>6 DEF longer

\* The events that may come: their fields, by their type.
LEMMA ComesAs ==
  ASSUME Mirror!SyncAssumption, NEW log, NEW n \in Nat, NEW type \in Mirror!Types, NEW e \in Mirror!Possible(type, log, n)
  PROVE  /\ e.type = type /\ e.demand \in {0} \cup Mirror!Registered(log, n)
         /\ type = "handoff" => e.agent \in Workers
         /\ type = "gate" => e.arg[1] \in Mirror!Gates /\ e.arg[2] \in {"APPROVE", "RETURN", "doubt"}
         /\ type = "human" => e.arg[1] \in Mirror!Gates /\ e.arg[2] \in {"OVERRIDE", "RETURN"} /\ e.demand = 0
         /\ type \in {"task", "defect", "decision"} => e.demand = 0
         /\ type = "control" => e.arg \in {"pause", "resume", "cancel", "reprioritize"}
<1> DEFINE demands == Mirror!Registered(log, n)
<1> USE DEF Mirror!Events
<1>1. CASE type = "task"
  BY <1>1 DEF Mirror!Possible, Mirror!Moves
<1>2. CASE type = "handoff"
  BY <1>2 DEF Mirror!Possible, Mirror!Moves
<1>3. CASE type = "gate"
  BY <1>3 DEF Mirror!Possible, Mirror!Moves
<1>4. CASE type = "human"
  BY <1>4 DEF Mirror!Possible, Mirror!Moves
<1>5. CASE type = "defect"
  BY <1>5 DEF Mirror!Possible, Mirror!Moves
<1>6. CASE type = "decision"
  BY <1>6 DEF Mirror!Possible, Mirror!Moves
<1>7. CASE type = "control"
  BY <1>7 DEF Mirror!Possible, Mirror!Moves
<1>8. CASE type = "validation"
  BY <1>8 DEF Mirror!Possible, Mirror!Moves
<1>9. CASE type \in Mirror!Moves \ {"cancel"}
  BY <1>9 DEF Mirror!Possible, Mirror!Moves
<1> QED
  BY <1>1, <1>2, <1>3, <1>4, <1>5, <1>6, <1>7, <1>8, <1>9 DEF Mirror!Types

-----------------------------------------------------------------------------
(* The mirror on GitHub: the calls of the handlers.                        *)

\* An issue is of the agent of its event; the diary is of none.
Owned(s) ==
  /\ DOMAIN s.issues \subseteq 0..Len(events)
  /\ \A k \in DOMAIN s.issues : k # 0 => s.issues[k].agent = events[k].agent
AllDemands == Mirror!Registered(events, Len(events))
Helpers(s) == {k \in DOMAIN s.issues : k # 0 /\ s.issues[k].agent \in Workers \cup {"auditor"}}

\* The issues an event may close or reopen.
Turned(e) ==
  IF Mirror!Move(e) \in Final \cup {"review-rejected"} THEN {e.demand} ELSE Nat \ AllDemands

\* The same deeds done to several issues are calls on those issues.
LEMMA EachTells ==
  ASSUME NEW keys, IsSequence(keys), NEW deeds, NEW turns \in SUBSET (Closes \cup {"reopen"}), Does(deeds, turns),
         NEW K, NEW T, \A i \in DOMAIN keys : keys[i] \in K /\ (turns # {} => keys[i] \in T)
  PROVE  Plain(Mirror!Each(keys, deeds), K, T)
<1> DEFINE each == Mirror!Each(keys, deeds)
<1>1. /\ IsSequence(each)
      /\ \A n \in DOMAIN each : \E i \in DOMAIN keys, j \in 1..Len(deeds) :
              each[n] = [do |-> deeds[j][1], key |-> keys[i], arg |-> deeds[j][2]]
  BY EachIs DEF Does
<1> HIDE DEF each
<1>2. ASSUME NEW n \in DOMAIN each PROVE CallOn(each[n], K, T)
  <2>1. PICK i \in DOMAIN keys, j \in 1..Len(deeds) : each[n] = [do |-> deeds[j][1], key |-> keys[i], arg |-> deeds[j][2]]
    BY <1>1, <1>2
  <2>2. /\ each[n].do = deeds[j][1] /\ each[n].key = keys[i] /\ each[n].arg = deeds[j][2]
        /\ each[n] = [do |-> each[n].do, key |-> each[n].key, arg |-> each[n].arg]
    BY <2>1
  <2>3. deeds[j][1] \in Silent \cup turns /\ (deeds[j][1] = "drop" => deeds[j][2] = "cancelado")
    BY <2>1 DEF Does
  <2>4. keys[i] \in K /\ (turns # {} => keys[i] \in T)
    OBVIOUS
  <2> QED
    BY <2>2, <2>3, <2>4 DEF CallOn
<1> QED
  BY <1>1, <1>2 DEF Plain, each

\* And so are the deeds done to one.
LEMMA OnTells ==
  ASSUME NEW k, NEW deeds, NEW turns \in SUBSET (Closes \cup {"reopen"}), Does(deeds, turns),
         NEW K, NEW T, k \in K, turns # {} => k \in T
  PROVE  Plain(Mirror!On(k, deeds), K, T)
<1>1. IsSequence(<<k>>) /\ DOMAIN <<k>> = {1} /\ <<k>>[1] = k
  BY DEF IsSequence
<1>2. Plain(Mirror!Each(<<k>>, deeds), K, T)
  BY <1>1, EachTells
<1> QED
  BY <1>2 DEF Mirror!On

\* A creation starts by creating the issue and adding its card.
LEMMA CreateTells ==
  ASSUME NEW k, NEW agent, NEW kind, NEW status, NEW K, NEW T
  PROVE  Tells(Mirror!Create(k, agent, kind, status), K, T, TRUE, k)
<1> DEFINE deeds == << <<"create", "none">>, <<"add", [agent |-> agent, kind |-> kind]>>, Mirror!Card(status) >>
           calls == Mirror!On(k, deeds)
           c == calls[3]
<1>1. Len(deeds) = 3 /\ deeds[1] = <<"create", "none">> /\ deeds[2] = <<"add", [agent |-> agent, kind |-> kind]>>
      /\ deeds[3] = <<"card", status>>
  BY DEF Mirror!Card
<1>2. Mirror!Create(k, agent, kind, status) = calls
  BY DEF Mirror!Create
<1> HIDE DEF deeds
<1>3. IsSequence(calls) /\ Len(calls) = 3
      /\ \A n \in 1..3 : calls[n] = [do |-> deeds[n][1], key |-> k, arg |-> deeds[n][2]]
  BY <1>1, OnIs
<1>4. DOMAIN calls = 1..3
  BY <1>3, DomainOf
<1> HIDE DEF calls
<1>5. /\ calls[1] = [do |-> "create", key |-> k, arg |-> "none"]
      /\ calls[2] = [do |-> "add", key |-> k, arg |-> [agent |-> agent, kind |-> kind]]
      /\ c = [do |-> "card", key |-> k, arg |-> status]
  BY <1>1, <1>3
<1>6. CallOn(c, K \cup {k}, T)
  <2> HIDE DEF c
  <2>1. c.do = "card" /\ c.key = k /\ c = [do |-> c.do, key |-> c.key, arg |-> c.arg]
    BY <1>5
  <2> QED
    BY <2>1 DEF CallOn, Silent, Closes
<1>7. \A n \in DOMAIN calls : n > 2 => n = 3
  BY <1>4
<1>8. calls[2] = [do |-> "add", key |-> k, arg |-> calls[2].arg] /\ Len(calls) >= 2
  BY <1>3, <1>5
<1>9. With(K, TRUE, k) = K \cup {k}
  BY DEF With
<1>10. Tells(calls, K, T, TRUE, k)
  BY <1>3, <1>5, <1>6, <1>7, <1>8, <1>9 DEF Tells
<1> QED
  BY <1>2, <1>10

\* The issue is created for the agent asked for.
LEMMA CreatedFor ==
  ASSUME NEW k, NEW agent, NEW kind, NEW status
  PROVE  Mirror!Create(k, agent, kind, status)[2].arg.agent = agent
<1> DEFINE deeds == << <<"create", "none">>, <<"add", [agent |-> agent, kind |-> kind]>>, Mirror!Card(status) >>
<1>1. Len(deeds) = 3 /\ deeds[2] = <<"add", [agent |-> agent, kind |-> kind]>>
  OBVIOUS
<1>2. Mirror!Create(k, agent, kind, status) = Mirror!On(k, deeds)
  BY DEF Mirror!Create
<1> HIDE DEF deeds
<1>3. Mirror!On(k, deeds)[2] = [do |-> deeds[2][1], key |-> k, arg |-> deeds[2][2]]
  BY <1>1, OnIs
<1> QED
  BY <1>1, <1>2, <1>3

\* Calls that create nothing.
LEMMA PlainTells ==
  ASSUME NEW calls, NEW K, NEW T, NEW new, Plain(calls, K, T)
  PROVE  Tells(calls, K, T, FALSE, new)
BY DEF Plain, Tells, With

\* No call at all.
LEMMA EmptyIsPlain == ASSUME NEW K, NEW T PROVE Plain(<< >>, K, T)
BY DEF Plain, IsSequence

\* Calls that may create an issue, and then calls that may be on it.
LEMMA TellsThen ==
  ASSUME NEW a, NEW b, NEW K, NEW T, NEW opens \in BOOLEAN, NEW new,
         Tells(a, K, T, opens, new), Plain(b, With(K, opens, new), T)
  PROVE  /\ Tells(a \o b, K, T, opens, new)
         /\ \A n \in DOMAIN a : (a \o b)[n] = a[n]
<1>1. IsSequence(a) /\ IsSequence(b) /\ DOMAIN a = 1..Len(a) /\ DOMAIN b = 1..Len(b) /\ Len(a) \in Nat /\ Len(b) \in Nat
  BY DomainOf DEF Tells, Plain
<1> DEFINE c == a \o b
<1>2. /\ IsSequence(c) /\ Len(c) = Len(a) + Len(b)
      /\ \A i \in 1..Len(a) + Len(b) : c[i] = IF i <= Len(a) THEN a[i] ELSE b[i - Len(a)]
  BY <1>1, Concatenated
<1>3. DOMAIN c = 1..Len(a) + Len(b)
  BY <1>2, DomainOf
<1> HIDE DEF c
<1>4. \A n \in DOMAIN a : c[n] = a[n] /\ n \in DOMAIN c
  BY <1>1, <1>2, <1>3
<1>5. ASSUME NEW n \in DOMAIN c, opens => n > 2 PROVE CallOn(c[n], With(K, opens, new), T)
  <2>1. CASE n <= Len(a)
    <3>1. n \in DOMAIN a
      BY <1>1, <1>3, <2>1
    <3> QED
      BY <1>4, <1>5, <3>1 DEF Tells
  <2>2. CASE ~(n <= Len(a))
    <3>1. n - Len(a) \in DOMAIN b /\ c[n] = b[n - Len(a)]
      BY <1>1, <1>2, <1>3, <2>2
    <3> QED
      BY <3>1 DEF Plain
  <2> QED
    BY <2>1, <2>2
<1>6. opens => Len(c) >= 2 /\ 1 \in DOMAIN a /\ 2 \in DOMAIN a
  <2>1. opens => Len(a) >= 2
    BY DEF Tells
  <2> QED
    BY <1>1, <1>2, <2>1
<1>7. opens => c[1] = a[1] /\ c[2] = a[2]
  BY <1>4, <1>6
<1>8. opens => /\ Len(c) >= 2 /\ c[1] = [do |-> "create", key |-> new, arg |-> "none"]
               /\ c[2] = [do |-> "add", key |-> new, arg |-> c[2].arg]
  BY <1>6, <1>7 DEF Tells
<1>9. Tells(c, K, T, opens, new)
  BY <1>2, <1>5, <1>8 DEF Tells
<1> QED
  BY <1>4, <1>9 DEF c

\* The issues of an agent.
LEMMA IssuesOfAre ==
  ASSUME NEW s, DOMAIN s.issues \subseteq Nat, IsFiniteSet(DOMAIN s.issues), NEW a, NEW handed, NEW closed
  PROVE  /\ IsSequence(Mirror!IssuesOf(s, a, handed, closed))
         /\ \A n \in DOMAIN Mirror!IssuesOf(s, a, handed, closed) :
              LET k == Mirror!IssuesOf(s, a, handed, closed)[n]
              IN  k \in DOMAIN s.issues /\ k # 0 /\ s.issues[k].agent = a
<1> DEFINE of == {k \in DOMAIN s.issues : /\ k # Mirror!Diary /\ s.issues[k].agent = a /\ s.issues[k].kind = "task"
                                          /\ s.issues[k].handed \in handed /\ s.issues[k].closed \in closed}
           same == [k \in of |-> k]
<1>1. Mirror!IssuesOf(s, a, handed, closed) = Mirror!Kept(same, of)
  BY DEF Mirror!IssuesOf
<1>2. of \subseteq Nat /\ IsFiniteSet(of)
  <2>1. of \subseteq DOMAIN s.issues
    OBVIOUS
  <2> QED
    BY <2>1, FS_Subset
<1>3. \A k \in of : k \in DOMAIN s.issues /\ k # 0 /\ s.issues[k].agent = a
  BY DEF Mirror!Diary
<1> HIDE DEF of
<1>4. IsSequence(Mirror!Kept(same, of)) /\ \A n \in DOMAIN Mirror!Kept(same, of) : Mirror!Kept(same, of)[n] \in of
  BY <1>2, SortedIs
<1> HIDE DEF same
<1> QED
  BY <1>1, <1>3, <1>4

\* Those of the agents a gate covers.
Covering(s, g, handed, closed) ==
  Mirror!FlattenSeq([n \in DOMAIN Covers[g] |-> Mirror!IssuesOf(s, Covers[g][n], handed, closed)])
\* The issues that a gate covers are of the agents it covers.
LEMMA CoveredAre ==
  ASSUME Mirror!SyncAssumption, NEW s, DOMAIN s.issues \subseteq Nat, IsFiniteSet(DOMAIN s.issues),
         NEW g \in Mirror!Gates, NEW handed, NEW closed
  PROVE  /\ IsSequence(Covering(s, g, handed, closed))
         /\ \A n \in DOMAIN Covering(s, g, handed, closed) : Covering(s, g, handed, closed)[n] \in Helpers(s)
<1> DEFINE seqs == [n \in DOMAIN Covers[g] |-> Mirror!IssuesOf(s, Covers[g][n], handed, closed)]
<1>1. Covers[g] \in Seq(Workers)
  BY DEF Mirror!SyncAssumption
<1>2. Len(Covers[g]) \in Nat /\ DOMAIN Covers[g] = 1..Len(Covers[g]) /\ \A n \in DOMAIN Covers[g] : Covers[g][n] \in Workers
  BY <1>1, LenProperties, ElementOfSeq
<1>3. IsSequence(seqs)
  <2>1. Len(seqs) = Len(Covers[g])
    BY <1>2
  <2> QED
    BY <1>2, <2>1 DEF IsSequence
<1>4. ASSUME NEW i \in DOMAIN seqs PROVE IsSequence(seqs[i]) /\ \A n \in DOMAIN seqs[i] : seqs[i][n] \in Helpers(s)
  <2>1. seqs[i] = Mirror!IssuesOf(s, Covers[g][i], handed, closed) /\ Covers[g][i] \in Workers
    BY <1>2, <1>4
  <2> HIDE DEF seqs
  <2> QED
    BY <2>1, IssuesOfAre DEF Helpers
<1> HIDE DEF seqs
<1>5. IsSequence(Mirror!FlattenSeq(seqs)) /\ \A n \in DOMAIN Mirror!FlattenSeq(seqs) : Mirror!FlattenSeq(seqs)[n] \in Helpers(s)
  BY <1>3, <1>4, FlatIs
<1> QED
  BY <1>5 DEF seqs, Covering

\* What the handlers do to an issue.
LEMMA DeedsAre ==
  /\ Does(<< Mirror!Say >>, {})
  /\ \A v : Does(<< Mirror!Say, Mirror!Card(v) >>, {})
  /\ \A v, h : Does(<< Mirror!Say, Mirror!Handed(h), Mirror!Card(v) >>, {})
  /\ \A v : Does(<< Mirror!Say, Mirror!Card(v), Mirror!Closing >>, {"close"})
  /\ \A v : Does(<< Mirror!Say, Mirror!Reopening, Mirror!Handed(FALSE), Mirror!Card(v) >>, {"reopen"})
  /\ \A v : Does(<< Mirror!Reopening, Mirror!Say, Mirror!Card(v) >>, {"reopen"})
  /\ Does(<< Mirror!Say, <<"drop", "cancelado">> >>, {"drop"})
<1> USE DEF Does, Silent, Mirror!Say
<1>1. Does(<< Mirror!Say >>, {})
  OBVIOUS
<1>2. ASSUME NEW v PROVE Does(<< Mirror!Say, Mirror!Card(v) >>, {})
  BY DEF Mirror!Card
<1>3. ASSUME NEW v, NEW h PROVE Does(<< Mirror!Say, Mirror!Handed(h), Mirror!Card(v) >>, {})
  BY DEF Mirror!Card, Mirror!Handed
<1>4. ASSUME NEW v PROVE Does(<< Mirror!Say, Mirror!Card(v), Mirror!Closing >>, {"close"})
  BY DEF Mirror!Card, Mirror!Closing
<1>5. ASSUME NEW v PROVE Does(<< Mirror!Say, Mirror!Reopening, Mirror!Handed(FALSE), Mirror!Card(v) >>, {"reopen"})
  BY DEF Mirror!Card, Mirror!Handed, Mirror!Reopening
<1>6. ASSUME NEW v PROVE Does(<< Mirror!Reopening, Mirror!Say, Mirror!Card(v) >>, {"reopen"})
  BY DEF Mirror!Card, Mirror!Reopening
<1>7. Does(<< Mirror!Say, <<"drop", "cancelado">> >>, {"drop"})
  OBVIOUS
<1> HIDE DEF Does, Silent, Mirror!Say
<1> QED
  BY <1>1, <1>2, <1>3, <1>4, <1>5, <1>6, <1>7

\* The turns a handler may take.
LEMMA TurnsAre == \A turn \in {"close", "drop", "reopen"} : {turn} \in SUBSET (Closes \cup {"reopen"})
BY DEF Closes

\* The issues of the agents that help are of no demand.
LEMMA HelpersAre ==
  ASSUME Mirror!SyncAssumption, Mirror!IsLog(events), NEW s, Owned(s)
  PROVE  /\ DOMAIN s.issues \subseteq Nat /\ IsFiniteSet(DOMAIN s.issues)
         /\ Helpers(s) \subseteq DOMAIN s.issues /\ Helpers(s) \subseteq Nat \ AllDemands /\ 0 \notin AllDemands
         /\ \A k \in DOMAIN s.issues : k # 0 /\ s.issues[k].agent = "auditor" => k \in Helpers(s)
<1>1. Len(events) \in Nat
  BY LogIs
<1>2. DOMAIN s.issues \subseteq 0..Len(events) /\ IsFiniteSet(0..Len(events))
  BY <1>1, FS_Interval DEF Owned
<1>3. ASSUME NEW k \in Helpers(s) PROVE k \notin AllDemands
  <2>1. events[k].agent \in Workers \cup {"auditor"}
    BY <1>3 DEF Helpers, Owned
  <2> QED
    BY <2>1 DEF AllDemands, Mirror!Registered, Mirror!SyncAssumption
<1>4. DOMAIN s.issues \subseteq Nat /\ IsFiniteSet(DOMAIN s.issues)
  BY <1>1, <1>2, FS_Subset
<1> QED
  BY <1>1, <1>3, <1>4 DEF Helpers, AllDemands, Mirror!Registered

\* The handlers: what each calls, and on which issues (on_handoff).
LEMMA OnHandoffTells ==
  ASSUME Mirror!SyncAssumption, Mirror!IsLog(events), NEW s, Owned(s), NEW k, NEW e, NEW T
  PROVE  \/ Tells(Mirror!OnHandoff(s, k, e), DOMAIN s.issues, T, FALSE, k)
         \/ /\ Tells(Mirror!OnHandoff(s, k, e), DOMAIN s.issues, T, TRUE, k)
            /\ Mirror!OnHandoff(s, k, e)[2].arg.agent = e.agent
<1> DEFINE K == DOMAIN s.issues
           waiting == Mirror!IssuesOf(s, e.agent, {FALSE}, {FALSE})
           of == IF waiting = << >> THEN k ELSE waiting[Len(waiting)]
           deeds == << Mirror!Say, Mirror!Handed(TRUE), Mirror!Card("gate") >>
           first == IF waiting = << >> THEN Mirror!Create(k, e.agent, "task", "em-andamento") ELSE << >>
           then == Mirror!On(of, deeds)
<1>1. Mirror!OnHandoff(s, k, e) = first \o then
  BY DEF Mirror!OnHandoff
<1>2. IsSequence(waiting) /\ \A n \in DOMAIN waiting : waiting[n] \in K
  BY HelpersAre, IssuesOfAre
<1>3. Does(deeds, {})
  BY DeedsAre
<1> HIDE DEF deeds, waiting
<1>4. CASE waiting = << >>
  <2>1. Tells(first, K, T, TRUE, k) /\ first[2].arg.agent = e.agent
    <3>1. first = Mirror!Create(k, e.agent, "task", "em-andamento")
      BY <1>4
    <3>2. Tells(Mirror!Create(k, e.agent, "task", "em-andamento"), K, T, TRUE, k)
      BY CreateTells
    <3>3. Mirror!Create(k, e.agent, "task", "em-andamento")[2].arg.agent = e.agent
      BY CreatedFor
    <3> HIDE DEF first
    <3> QED
      BY <3>1, <3>2, <3>3
  <2>2. k \in With(K, TRUE, k)
    BY DEF With
  <2>3. Plain(then, With(K, TRUE, k), T)
    BY <1>3, <1>4, <2>2, OnTells
  <2> HIDE DEF first, then
  <2>5. Tells(first \o then, K, T, TRUE, k)
    BY <2>1, <2>3, TellsThen
  <2>6. (first \o then)[2] = first[2]
    <3>1. IsSequence(first) /\ IsSequence(then) /\ 2 <= Len(first) /\ 2 \in 1..Len(first) + Len(then)
      <4>1. IsSequence(first) /\ IsSequence(then) /\ 2 <= Len(first)
        BY <2>1, <2>3 DEF Tells, Plain
      <4> QED
        BY <4>1, DomainOf
    <3> QED
      BY <3>1, Concatenated
  <2>7. (first \o then)[2].arg.agent = e.agent
    BY <2>1, <2>6
  <2> QED
    BY <1>1, <2>5, <2>7
<1>5. CASE waiting # << >>
  <2>1. Len(waiting) \in DOMAIN waiting
    <3>1. Len(waiting) # 0
      BY <1>2, <1>5 DEF IsSequence
    <3> QED
      BY <1>2, <3>1, DomainOf
  <2>2. of \in K
    BY <1>2, <1>5, <2>1
  <2>3. Plain(then, With(K, FALSE, k), T)
    BY <1>3, <2>2, OnTells DEF With
  <2>4. Tells(first, K, T, FALSE, k)
    BY <1>5, EmptyIsPlain, PlainTells
  <2> HIDE DEF first, then
  <2>5. Tells(first \o then, K, T, FALSE, k)
    BY <2>3, <2>4, TellsThen
  <2> QED
    BY <1>1, <2>5
<1> QED
  BY <1>4, <1>5

\* The diary, created when there is none.
LEMMA WithDiaryTells ==
  ASSUME NEW s, NEW T
  PROVE  \E opens \in BOOLEAN : /\ Tells(Mirror!WithDiary(s), DOMAIN s.issues, T, opens, 0)
                                /\ 0 \in With(DOMAIN s.issues, opens, 0)
<1>1. CASE Mirror!Tracked(s, Mirror!Diary)
  <2>1. Mirror!WithDiary(s) = << >> /\ 0 \in DOMAIN s.issues
    BY <1>1 DEF Mirror!WithDiary, Mirror!Tracked, Mirror!Diary
  <2> QED
    BY <2>1, EmptyIsPlain, PlainTells DEF With
<1>2. CASE ~Mirror!Tracked(s, Mirror!Diary)
  <2>1. Mirror!WithDiary(s) = Mirror!Create(0, "orquestrador", "task", "em-andamento")
    BY <1>2 DEF Mirror!WithDiary, Mirror!Diary
  <2>2. Tells(Mirror!WithDiary(s), DOMAIN s.issues, T, TRUE, 0)
    BY <2>1, CreateTells
  <2> QED
    BY <2>2 DEF With
<1> QED
  BY <1>1, <1>2

\* Calls on the issue of the diary, made first if there is none.
LEMMA DiaryTells ==
  ASSUME NEW s, NEW deeds, NEW turns \in SUBSET (Closes \cup {"reopen"}), Does(deeds, turns), NEW T, 0 \in T
  PROVE  \E opens \in BOOLEAN : Tells(Mirror!WithDiary(s) \o Mirror!On(Mirror!Diary, deeds), DOMAIN s.issues, T, opens, 0)
<1>1. PICK opens \in BOOLEAN : Tells(Mirror!WithDiary(s), DOMAIN s.issues, T, opens, 0) /\ 0 \in With(DOMAIN s.issues, opens, 0)
  BY WithDiaryTells
<1>2. Plain(Mirror!On(Mirror!Diary, deeds), With(DOMAIN s.issues, opens, 0), T)
  BY <1>1, OnTells DEF Mirror!Diary
<1> QED
  BY <1>1, <1>2, TellsThen

\* A gate closes issues of no demand (on_gate).
LEMMA OnGateTells ==
  ASSUME Mirror!SyncAssumption, Mirror!IsLog(events), NEW s, Owned(s), NEW e, e.arg[1] \in Mirror!Gates,
         e.arg[2] \in {"APPROVE", "RETURN", "doubt"}
  PROVE  Tells(Mirror!OnGate(s, e), DOMAIN s.issues, Nat \ AllDemands, FALSE, 0)
<1> DEFINE K == DOMAIN s.issues
           T == Nat \ AllDemands
           covered == Covering(s, e.arg[1], {TRUE}, {FALSE})
           audits == Mirror!IssuesOf(s, "auditor", BOOLEAN, {FALSE})
           closingDeeds == << Mirror!Say, Mirror!Card("concluido"), Mirror!Closing >>
           first == Mirror!Each(covered, Mirror!Verdict(e.arg[2]))
           then == Mirror!Each(audits, closingDeeds)
<1>1. Mirror!OnGate(s, e) = first \o then
  BY DEF Mirror!OnGate, Covering
<1>2. /\ IsSequence(covered) /\ \A n \in DOMAIN covered : covered[n] \in Helpers(s)
      /\ IsSequence(audits) /\ \A n \in DOMAIN audits : audits[n] \in Helpers(s)
  <2>1. IsSequence(covered) /\ \A n \in DOMAIN covered : covered[n] \in Helpers(s)
    BY HelpersAre, CoveredAre
  <2>2. IsSequence(audits) /\ \A n \in DOMAIN audits : audits[n] \in DOMAIN s.issues /\ audits[n] # 0 /\ s.issues[audits[n]].agent = "auditor"
    BY HelpersAre, IssuesOfAre
  <2> HIDE DEF covered, audits
  <2> QED
    BY <2>1, <2>2, HelpersAre
<1>3. Helpers(s) \subseteq K /\ Helpers(s) \subseteq T
  BY HelpersAre
<1>4. Does(closingDeeds, {"close"}) /\ Does(Mirror!Verdict(e.arg[2]), {"close"})
  <2>1. \/ Mirror!Verdict(e.arg[2]) = << Mirror!Say, Mirror!Card("intervencao-humana") >>
        \/ Mirror!Verdict(e.arg[2]) = << Mirror!Say, Mirror!Card("concluido"), Mirror!Closing >>
        \/ Mirror!Verdict(e.arg[2]) = << Mirror!Say, Mirror!Handed(FALSE), Mirror!Card("em-andamento") >>
    <3>1. CASE e.arg[2] = "doubt"
      BY <3>1 DEF Mirror!Verdict
    <3>2. CASE e.arg[2] = "APPROVE"
      BY <3>2 DEF Mirror!Verdict
    <3>3. CASE e.arg[2] = "RETURN"
      BY <3>3 DEF Mirror!Verdict
    <3> QED
      BY <3>1, <3>2, <3>3
  <2>2. ASSUME NEW deeds, Does(deeds, {}) PROVE Does(deeds, {"close"})
    BY <2>2 DEF Does
  <2> QED
    BY <2>1, <2>2, DeedsAre
<1> HIDE DEF covered, audits, closingDeeds, T
<1>5. Plain(first, K, T) /\ Plain(then, K, T)
  <2>1. \A n \in DOMAIN covered : covered[n] \in K /\ covered[n] \in T
    BY <1>2, <1>3
  <2>2. \A n \in DOMAIN audits : audits[n] \in K /\ audits[n] \in T
    BY <1>2, <1>3
  <2> QED
    BY <1>2, <1>4, <2>1, <2>2, EachTells, TurnsAre
<1> HIDE DEF first, then
<1> QED
  BY <1>1, <1>5, PlainTells, TellsThen DEF With, T

\* A human closes or reopens issues of no demand (on_human).
LEMMA OnHumanTells ==
  ASSUME Mirror!SyncAssumption, Mirror!IsLog(events), NEW s, Owned(s), NEW e, e.arg[1] \in Mirror!Gates,
         e.arg[2] \in {"OVERRIDE", "RETURN"}
  PROVE  \E opens \in BOOLEAN : Tells(Mirror!OnHuman(s, e), DOMAIN s.issues, Nat \ AllDemands, opens, 0)
<1> DEFINE K == DOMAIN s.issues
           T == Nat \ AllDemands
           all == Covering(s, e.arg[1], BOOLEAN, BOOLEAN)
           last == IF Len(all) > 3 THEN SubSeq(all, Len(all) - 2, Len(all)) ELSE all
           deeds == Mirror!Answer(e.arg[2])
<1>1. Mirror!OnHuman(s, e) = IF all = << >> THEN Mirror!WithDiary(s) \o Mirror!On(Mirror!Diary, deeds)
                             ELSE Mirror!Each(last, deeds)
  BY DEF Mirror!OnHuman, Covering
<1>2. Does(deeds, {"reopen"})
  <2>1. \/ deeds = << Mirror!Say, Mirror!Card("em-andamento") >>
        \/ deeds = << Mirror!Say, Mirror!Reopening, Mirror!Handed(FALSE), Mirror!Card("em-andamento") >>
    BY DEF Mirror!Answer
  <2>2. ASSUME NEW some, Does(some, {}) PROVE Does(some, {"reopen"})
    BY <2>2 DEF Does
  <2> HIDE DEF deeds
  <2> QED
    BY <2>1, <2>2, DeedsAre
<1>3. IsSequence(all) /\ \A n \in DOMAIN all : all[n] \in Helpers(s)
  BY HelpersAre, CoveredAre
<1>4. Helpers(s) \subseteq K /\ Helpers(s) \subseteq T /\ 0 \in T
  BY HelpersAre
<1> HIDE DEF all, deeds, T
<1>5. IsSequence(last) /\ \A n \in DOMAIN last : last[n] \in Helpers(s)
  <2>1. DOMAIN all = 1..Len(all) /\ Len(all) \in Nat
    BY <1>3, DomainOf
  <2>2. CASE Len(all) > 3
    <3> DEFINE from == Len(all) - 2
               sub == SubSeq(all, from, Len(all))
    <3>1. from \in 1..Len(all) /\ Len(all) - from + 1 = 3
      BY <2>1, <2>2
    <3>2. sub = [i \in 1..3 |-> all[from + i - 1]]
      <4>1. sub = [i \in 1..(Len(all) - from + 1) |-> all[from + i - 1]]
        BY <2>1, <3>1
      <4> HIDE DEF sub, from
      <4> QED
        BY <3>1, <4>1
    <3>3. \A i \in 1..3 : from + i - 1 \in DOMAIN all
      BY <2>1, <2>2
    <3> HIDE DEF from
    <3>4. DOMAIN sub = 1..3 /\ Len(sub) = 3
      <4> HIDE DEF sub
      <4> QED
        BY <3>2
    <3>5. IsSequence(sub) /\ \A n \in DOMAIN sub : sub[n] \in Helpers(s)
      <4> HIDE DEF sub
      <4> QED
        BY <1>3, <3>2, <3>3, <3>4 DEF IsSequence
    <3> QED
      BY <2>2, <3>5 DEF from
  <2>3. CASE ~(Len(all) > 3)
    BY <1>3, <2>3
  <2> QED
    BY <2>2, <2>3
<1> HIDE DEF last
<1>6. CASE all = << >>
  BY <1>1, <1>2, <1>4, <1>6, TurnsAre, DiaryTells DEF T
<1>7. CASE all # << >>
  <2>1. Plain(Mirror!Each(last, deeds), K, T)
    BY <1>2, <1>4, <1>5, EachTells, TurnsAre
  <2> QED
    BY <1>1, <1>7, <2>1, PlainTells DEF T
<1> QED
  BY <1>6, <1>7

\* What is told on the issue of the demand closes nothing (on_demand_event).
LEMMA AlsoOnDemandTells ==
  ASSUME NEW s, NEW e, NEW T
  PROVE  Plain(Mirror!AlsoOnDemand(s, e), DOMAIN s.issues, T)
<1>1. CASE e.demand = 0 \/ ~Mirror!Tracked(s, e.demand)
  BY <1>1, EmptyIsPlain DEF Mirror!AlsoOnDemand
<1>2. CASE e.demand # 0 /\ Mirror!Tracked(s, e.demand)
  <2>1. e.demand \in DOMAIN s.issues
    BY <1>2 DEF Mirror!Tracked
  <2>2. \/ Mirror!AlsoOnDemand(s, e) = Mirror!On(e.demand, << Mirror!Say, Mirror!Card("em-andamento") >>)
        \/ Mirror!AlsoOnDemand(s, e) = Mirror!On(e.demand, << Mirror!Say >>)
    BY <1>2 DEF Mirror!AlsoOnDemand
  <2>3. \A deeds : Does(deeds, {}) => Plain(Mirror!On(e.demand, deeds), DOMAIN s.issues, T)
    BY <2>1, OnTells
  <2> QED
    BY <2>2, <2>3, DeedsAre
<1> QED
  BY <1>1, <1>2

\* The events that are not about a demand's own course.
LEMMA OnControlTells ==
  ASSUME NEW K, NEW d \in K, NEW e, e.arg \in {"pause", "resume", "reprioritize"}, NEW T
  PROVE  Plain(Mirror!OnControl(d, e), K, T)
<1>1. \/ Mirror!OnControl(d, e) = Mirror!On(d, << Mirror!Say, Mirror!Card("intervencao-humana") >>)
      \/ Mirror!OnControl(d, e) = Mirror!On(d, << Mirror!Say, Mirror!Card("em-andamento") >>)
      \/ Mirror!OnControl(d, e) = Mirror!On(d, << Mirror!Say >>)
  <2>1. CASE e.arg = "pause"
    BY <2>1 DEF Mirror!OnControl
  <2>2. CASE e.arg = "resume"
    BY <2>2 DEF Mirror!OnControl
  <2>3. CASE e.arg = "reprioritize"
    BY <2>3 DEF Mirror!OnControl
  <2> QED
    BY <2>1, <2>2, <2>3
<1>2. \A deeds : Does(deeds, {}) => Plain(Mirror!On(d, deeds), K, T)
  BY OnTells
<1> QED
  BY <1>1, <1>2, DeedsAre

\* What the events that name a demand do to its issue.
LEMMA OnDemandTells ==
  ASSUME NEW s, NEW e, NEW T, e.type \in {"start", "validation", "review", "control"},
         e.type = "control" => e.arg \in {"pause", "resume", "reprioritize"}
  PROVE  Plain(Mirror!OnDemand(s, e), DOMAIN s.issues, T)
<1> DEFINE d == e.demand
<1>1. CASE ~Mirror!Tracked(s, d)
  <2>1. Mirror!OnDemand(s, e) = << >>
    BY <1>1 DEF Mirror!OnDemand
  <2> QED
    BY <2>1, EmptyIsPlain
<1>2. CASE Mirror!Tracked(s, d)
  <2>1. d \in DOMAIN s.issues
    BY <1>2 DEF Mirror!Tracked
  <2>2. \A deeds : Does(deeds, {}) => Plain(Mirror!On(d, deeds), DOMAIN s.issues, T)
    BY <2>1, OnTells
  <2>3. CASE e.type = "control"
    <3>1. Mirror!OnDemand(s, e) = Mirror!OnControl(d, e)
      BY <1>2, <2>3 DEF Mirror!OnDemand
    <3> QED
      BY <2>1, <2>3, <3>1, OnControlTells
  <2>4. CASE e.type = "start"
    <3>1. Mirror!OnDemand(s, e) = Mirror!On(d, << Mirror!Say, Mirror!Card("em-andamento") >>)
      BY <1>2, <2>4 DEF Mirror!OnDemand
    <3> QED
      BY <2>2, <3>1, DeedsAre
  <2>5. CASE e.type = "validation"
    <3>1. \/ Mirror!OnDemand(s, e) = << >>
          \/ Mirror!OnDemand(s, e) = Mirror!On(d, << Mirror!Say >>)
      BY <1>2, <2>5 DEF Mirror!OnDemand
    <3> QED
      BY <2>2, <3>1, DeedsAre, EmptyIsPlain
  <2>6. CASE e.type = "review"
    <3>1. Mirror!OnDemand(s, e) = Mirror!On(d, << Mirror!Say >>)
      BY <1>2, <2>6 DEF Mirror!OnDemand
    <3> QED
      BY <2>2, <3>1, DeedsAre
  <2> QED
    BY <2>3, <2>4, <2>5, <2>6
<1> QED
  BY <1>1, <1>2

\* The events that conclude a demand: their last call closes its issue.
Concludings(calls, d) ==
  /\ IsSequence(calls) /\ Len(calls) \in Nat \ {0}
  /\ calls[Len(calls)].do \in Closes /\ calls[Len(calls)].key = d
  /\ \A n \in DOMAIN calls : n # Len(calls) => calls[n].do \in Silent

\* A delivery and a cancellation close the issue of their demand, and last of all.
LEMMA OnConclusion ==
  ASSUME NEW s, NEW e, e.type = "delivered" \/ (e.type = "control" /\ e.arg = "cancel")
  PROVE  /\ Plain(Mirror!OnDemand(s, e), DOMAIN s.issues, {e.demand})
         /\ e.demand \in DOMAIN s.issues => Concludings(Mirror!OnDemand(s, e), e.demand)
<1> DEFINE d == e.demand
<1>1. CASE ~Mirror!Tracked(s, d)
  <2>1. Mirror!OnDemand(s, e) = << >>
    BY <1>1 DEF Mirror!OnDemand
  <2> QED
    BY <1>1, <2>1, EmptyIsPlain DEF Mirror!Tracked
<1>2. CASE Mirror!Tracked(s, d)
  <2>1. d \in DOMAIN s.issues
    BY <1>2 DEF Mirror!Tracked
  <2>2. CASE e.type = "delivered"
    <3> DEFINE deeds == << Mirror!Say, Mirror!Card("concluido"), Mirror!Closing >>
    <3>1. Mirror!OnDemand(s, e) = Mirror!On(d, deeds)
      BY <1>2, <2>2 DEF Mirror!OnDemand
    <3>2. Does(deeds, {"close"})
      BY DeedsAre
    <3>3. Len(deeds) = 3 /\ deeds[1][1] = "comment" /\ deeds[2][1] = "card" /\ deeds[3][1] = "close"
      BY DEF Mirror!Say, Mirror!Card, Mirror!Closing
    <3> HIDE DEF deeds
    <3>4. Plain(Mirror!On(d, deeds), DOMAIN s.issues, {d})
      BY <2>1, <3>2, OnTells, TurnsAre
    <3>5. /\ IsSequence(Mirror!On(d, deeds)) /\ Len(Mirror!On(d, deeds)) = 3
          /\ \A n \in 1..3 : Mirror!On(d, deeds)[n].do = deeds[n][1] /\ Mirror!On(d, deeds)[n].key = d
      <4>1. /\ IsSequence(Mirror!On(d, deeds)) /\ Len(Mirror!On(d, deeds)) = 3
            /\ \A n \in 1..3 : Mirror!On(d, deeds)[n] = [do |-> deeds[n][1], key |-> d, arg |-> deeds[n][2]]
        BY <3>3, OnIs
      <4> QED
        BY <4>1
    <3>6. Concludings(Mirror!On(d, deeds), d)
      <4>1. DOMAIN Mirror!On(d, deeds) = 1..3
        BY <3>5, DomainOf
      <4>2. \A n \in 1..3 : n # 3 => n = 1 \/ n = 2
        OBVIOUS
      <4> QED
        BY <3>3, <3>5, <4>1, <4>2 DEF Concludings, Silent, Closes
    <3> QED
      BY <3>1, <3>4, <3>6
  <2>3. CASE e.type = "control" /\ e.arg = "cancel"
    <3> DEFINE deeds == << Mirror!Say, <<"drop", "cancelado">> >>
    <3>1. Mirror!OnDemand(s, e) = Mirror!On(d, deeds)
      <4>1. Mirror!OnDemand(s, e) = Mirror!OnControl(d, e)
        BY <1>2, <2>3 DEF Mirror!OnDemand
      <4> QED
        BY <2>3, <4>1 DEF Mirror!OnControl
    <3>2. Does(deeds, {"drop"})
      BY DeedsAre
    <3>3. Len(deeds) = 2 /\ deeds[1][1] = "comment" /\ deeds[2][1] = "drop"
      BY DEF Mirror!Say
    <3> HIDE DEF deeds
    <3>4. Plain(Mirror!On(d, deeds), DOMAIN s.issues, {d})
      BY <2>1, <3>2, OnTells, TurnsAre
    <3>5. /\ IsSequence(Mirror!On(d, deeds)) /\ Len(Mirror!On(d, deeds)) = 2
          /\ \A n \in 1..2 : Mirror!On(d, deeds)[n].do = deeds[n][1] /\ Mirror!On(d, deeds)[n].key = d
      <4>1. /\ IsSequence(Mirror!On(d, deeds)) /\ Len(Mirror!On(d, deeds)) = 2
            /\ \A n \in 1..2 : Mirror!On(d, deeds)[n] = [do |-> deeds[n][1], key |-> d, arg |-> deeds[n][2]]
        BY <3>3, OnIs
      <4> QED
        BY <4>1
    <3>6. Concludings(Mirror!On(d, deeds), d)
      <4>1. DOMAIN Mirror!On(d, deeds) = 1..2
        BY <3>5, DomainOf
      <4>2. \A n \in 1..2 : n # 2 => n = 1
        OBVIOUS
      <4> QED
        BY <3>3, <3>5, <4>1, <4>2 DEF Concludings, Silent, Closes
    <3> QED
      BY <3>1, <3>4, <3>6
  <2> QED
    BY <2>2, <2>3
<1> QED
  BY <1>1, <1>2

\* A rejection closes nothing.
LEMMA OnRejection ==
  ASSUME NEW s, NEW e, e.type = "review-rejected"
  PROVE  /\ Plain(Mirror!OnDemand(s, e), DOMAIN s.issues, {e.demand})
         /\ \A n \in DOMAIN Mirror!OnDemand(s, e) : Mirror!OnDemand(s, e)[n].do \notin Closes
<1> DEFINE d == e.demand
<1>1. CASE ~Mirror!Tracked(s, d)
  <2>1. Mirror!OnDemand(s, e) = << >>
    BY <1>1 DEF Mirror!OnDemand
  <2> QED
    BY <2>1, EmptyIsPlain
<1>2. CASE Mirror!Tracked(s, d)
  <2>1. d \in DOMAIN s.issues
    BY <1>2 DEF Mirror!Tracked
  <2> DEFINE deeds == << Mirror!Reopening, Mirror!Say, Mirror!Card("em-andamento") >>
  <2>2. Mirror!OnDemand(s, e) = Mirror!On(d, deeds)
    BY <1>2 DEF Mirror!OnDemand
  <2>3. Does(deeds, {"reopen"})
    BY DeedsAre
  <2>4. Len(deeds) = 3 /\ deeds[1][1] = "reopen" /\ deeds[2][1] = "comment" /\ deeds[3][1] = "card"
    BY DEF Mirror!Say, Mirror!Card, Mirror!Reopening
  <2> HIDE DEF deeds
  <2>5. Plain(Mirror!On(d, deeds), DOMAIN s.issues, {d})
    BY <2>1, <2>3, OnTells, TurnsAre
  <2>6. /\ IsSequence(Mirror!On(d, deeds)) /\ Len(Mirror!On(d, deeds)) = 3
        /\ \A n \in 1..3 : Mirror!On(d, deeds)[n].do = deeds[n][1]
    <3>1. /\ IsSequence(Mirror!On(d, deeds)) /\ Len(Mirror!On(d, deeds)) = 3
          /\ \A n \in 1..3 : Mirror!On(d, deeds)[n] = [do |-> deeds[n][1], key |-> d, arg |-> deeds[n][2]]
      BY <2>4, OnIs
    <3> QED
      BY <3>1
  <2>7. \A n \in DOMAIN Mirror!On(d, deeds) : Mirror!On(d, deeds)[n].do \notin Closes
    <3>1. DOMAIN Mirror!On(d, deeds) = 1..3
      BY <2>6, DomainOf
    <3>2. \A n \in 1..3 : n = 1 \/ n = 2 \/ n = 3
      OBVIOUS
    <3> QED
      BY <2>4, <2>6, <3>1, <3>2 DEF Closes
  <2> QED
    BY <2>2, <2>5, <2>7
<1> QED
  BY <1>1, <1>2

\* The event that is next, by what it does.
LEMMA HandlerTells ==
  ASSUME Mirror!SyncAssumption, Mirror!IsLog(events), NEW s, Owned(s), NEW k \in DOMAIN events
  PROVE  \E opens \in BOOLEAN, new \in {0, k} :
           /\ Tells(Mirror!Handler(s, k, events[k]), DOMAIN s.issues, Turned(events[k]), opens, new)
           /\ opens /\ new = k => Mirror!Handler(s, k, events[k])[2].arg.agent = events[k].agent
<1> DEFINE e == events[k]
           H == Mirror!Handler(s, k, e)
           K == DOMAIN s.issues
           T == Turned(e)
<1>1. /\ e.type \in Mirror!Types
      /\ e.type = "gate" => e.arg[1] \in Mirror!Gates /\ e.arg[2] \in {"APPROVE", "RETURN", "doubt"}
      /\ e.type = "human" => e.arg[1] \in Mirror!Gates /\ e.arg[2] \in {"OVERRIDE", "RETURN"}
      /\ e.type = "control" => e.arg \in {"pause", "resume", "cancel", "reprioritize"}
  <2>1. k - 1 \in Nat /\ e.type \in Mirror!Types /\ e \in Mirror!Possible(e.type, events, k - 1)
    BY LogIs
  <2> DEFINE type == e.type
  <2>2. type \in Mirror!Types /\ k - 1 \in Nat
    BY <2>1
  <2> HIDE DEF e
  <2>3. e \in Mirror!Possible(type, events, k - 1)
    BY <2>1
  <2> HIDE DEF type
  <2>4. type = "gate" => e.arg[1] \in Mirror!Gates /\ e.arg[2] \in {"APPROVE", "RETURN", "doubt"}
    BY <2>3 DEF Mirror!Possible, Mirror!Events, Mirror!Moves
  <2>5. type = "human" => e.arg[1] \in Mirror!Gates /\ e.arg[2] \in {"OVERRIDE", "RETURN"}
    BY <2>3 DEF Mirror!Possible, Mirror!Events, Mirror!Moves
  <2>6. type = "control" => e.arg \in {"pause", "resume", "cancel", "reprioritize"}
    BY <2>3 DEF Mirror!Possible, Mirror!Events, Mirror!Moves
  <2> QED
    BY <2>1, <2>4, <2>5, <2>6 DEF type
<1>2. k # 0 /\ k \in Nat
  BY LogIs
<1>3. Mirror!Move(e) = IF e.type = "control" THEN e.arg ELSE e.type
  BY DEF Mirror!Move
<1>4. T = IF Mirror!Move(e) \in {"delivered", "cancel", "review-rejected"} THEN {e.demand} ELSE Nat \ AllDemands
  BY DEF Turned, Final
<1> HIDE DEF e, T
<1>5. ASSUME Plain(H, K, T)
      PROVE  \E opens \in BOOLEAN, new \in {0, k} : /\ Tells(H, K, T, opens, new)
                                                    /\ opens /\ new = k => H[2].arg.agent = e.agent
  <2> HIDE DEF H, K
  <2>1. Tells(H, K, T, FALSE, 0)
    BY <1>5, PlainTells
  <2> QED
    BY <2>1
<1>6. CASE e.type = "task"
  <2>1. H = Mirror!Create(k, e.agent, "task", "em-andamento")
    BY <1>6 DEF Mirror!Handler
  <2> HIDE DEF H, K
  <2>2. Tells(H, K, T, TRUE, k)
    BY <2>1, CreateTells
  <2>3. H[2].arg.agent = e.agent
    BY <2>1, CreatedFor
  <2> QED
    BY <2>2, <2>3 DEF e, H, K, T
<1>7. CASE e.type = "defect"
  <2>1. H = Mirror!Create(k, e.agent, "ticket", "backlog")
    BY <1>7 DEF Mirror!Handler
  <2> HIDE DEF H, K
  <2>2. Tells(H, K, T, TRUE, k)
    BY <2>1, CreateTells
  <2>3. H[2].arg.agent = e.agent
    BY <2>1, CreatedFor
  <2> QED
    BY <2>2, <2>3 DEF e, H, K, T
<1>8. CASE e.type = "handoff"
  <2> DEFINE a == Mirror!OnHandoff(s, k, e)
             b == Mirror!AlsoOnDemand(s, e)
  <2>1. H = a \o b
    BY <1>8 DEF Mirror!Handler
  <2>2. Tells(a, K, T, FALSE, k) \/ (Tells(a, K, T, TRUE, k) /\ a[2].arg.agent = e.agent)
    BY OnHandoffTells
  <2>3. Plain(b, K, T) /\ Plain(b, K \cup {k}, T)
    <3>1. Plain(b, K, T)
      BY AlsoOnDemandTells
    <3> HIDE DEF b, K
    <3> QED
      BY <3>1 DEF Plain, CallOn
  <2> HIDE DEF a, b, K, H
  <2>4. CASE Tells(a, K, T, FALSE, k)
    <3>1. Tells(a \o b, K, T, FALSE, k)
      BY <2>3, <2>4, TellsThen DEF With
    <3> QED
      BY <2>1, <3>1 DEF e, H, K, T
  <2>5. CASE Tells(a, K, T, TRUE, k) /\ a[2].arg.agent = e.agent
    <3>1. Tells(a \o b, K, T, TRUE, k) /\ \A n \in DOMAIN a : (a \o b)[n] = a[n]
      BY <2>3, <2>5, TellsThen DEF With
    <3>2. 2 \in DOMAIN a
      <4>1. IsSequence(a) /\ Len(a) >= 2
        BY <2>5 DEF Tells
      <4> QED
        BY <4>1, DomainOf
    <3>3. H[2].arg.agent = e.agent /\ Tells(H, K, T, TRUE, k)
      BY <2>1, <2>5, <3>1, <3>2
    <3> QED
      BY <3>3 DEF e, H, K, T
  <2> QED
    BY <2>2, <2>4, <2>5
<1>9. CASE e.type = "gate"
  <2> DEFINE a == Mirror!OnGate(s, e)
             b == Mirror!AlsoOnDemand(s, e)
  <2>1. H = a \o b
    BY <1>9 DEF Mirror!Handler
  <2>2. T = Nat \ AllDemands
    BY <1>3, <1>4, <1>9
  <2>3. Tells(a, K, T, FALSE, 0)
    BY <1>1, <1>9, <2>2, OnGateTells
  <2>4. Plain(b, K, T)
    BY AlsoOnDemandTells
  <2> HIDE DEF a, b, K, H
  <2>5. Tells(a \o b, K, T, FALSE, 0)
    BY <2>3, <2>4, TellsThen DEF With
  <2> QED
    BY <2>1, <2>5 DEF e, H, K, T
<1>10. CASE e.type = "human"
  <2>1. H = Mirror!OnHuman(s, e)
    BY <1>10 DEF Mirror!Handler
  <2>2. T = Nat \ AllDemands
    BY <1>3, <1>4, <1>10
  <2>3. \E opens \in BOOLEAN : Tells(Mirror!OnHuman(s, e), K, T, opens, 0)
    BY <1>1, <1>10, <2>2, OnHumanTells
  <2> HIDE DEF H, K
  <2> QED
    BY <1>2, <2>1, <2>3 DEF e, H, K, T
<1>11. CASE e.type = "decision"
  <2>1. H = Mirror!WithDiary(s) \o Mirror!On(Mirror!Diary, << Mirror!Say >>)
    BY <1>11 DEF Mirror!Handler
  <2>2. T = Nat \ AllDemands /\ 0 \in T
    BY <1>3, <1>4, <1>11, HelpersAre
  <2>3. \E opens \in BOOLEAN : Tells(Mirror!WithDiary(s) \o Mirror!On(Mirror!Diary, << Mirror!Say >>), K, T, opens, 0)
    BY <2>2, DeedsAre, DiaryTells
  <2> HIDE DEF H, K
  <2> QED
    BY <1>2, <2>1, <2>3 DEF e, H, K, T
<1>12. CASE e.type \in {"control", "validation", "start", "review", "delivered", "review-rejected"}
  <2>1. H = Mirror!OnDemand(s, e)
    BY <1>12 DEF Mirror!Handler
  <2>2. CASE e.type = "delivered" \/ (e.type = "control" /\ e.arg = "cancel")
    <3>1. T = {e.demand}
      BY <1>3, <1>4, <2>2
    <3> QED
      BY <1>5, <2>1, <2>2, <3>1, OnConclusion DEF e, H, K, T
  <2>3. CASE e.type = "review-rejected"
    <3>1. T = {e.demand}
      BY <1>3, <1>4, <2>3
    <3> QED
      BY <1>5, <2>1, <2>3, <3>1, OnRejection DEF e, H, K, T
  <2>4. CASE e.type \in {"start", "validation", "review"} \/ (e.type = "control" /\ e.arg # "cancel")
    <3>1. Plain(Mirror!OnDemand(s, e), K, T)
      BY <1>1, <2>4, OnDemandTells
    <3> QED
      BY <1>5, <2>1, <3>1 DEF e, H, K, T
  <2> QED
    BY <1>12, <2>2, <2>3, <2>4
<1>13. Mirror!Types = {"task", "handoff", "gate", "human", "defect", "decision", "control", "validation",
                       "start", "review", "delivered", "review-rejected"}
  BY DEF Mirror!Types, Mirror!Moves
<1> QED
  BY <1>1, <1>6, <1>7, <1>8, <1>9, <1>10, <1>11, <1>12, <1>13

\* The handler of an event that concludes a demand.
LEMMA HandlerConcludes ==
  ASSUME Mirror!IsLog(events), NEW s, NEW k \in DOMAIN events, Mirror!Move(events[k]) \in Final,
         events[k].demand \in DOMAIN s.issues
  PROVE  Concludings(Mirror!Handler(s, k, events[k]), events[k].demand)
<1> DEFINE e == events[k]
<1>1. e.type = "delivered" \/ (e.type = "control" /\ e.arg = "cancel")
  <2>1. e.type \in Mirror!Types
    BY LogIs
  <2> HIDE DEF e
  <2>2. Mirror!Move(e) = IF e.type = "control" THEN e.arg ELSE e.type
    BY DEF Mirror!Move
  <2>3. Mirror!Move(e) \in {"delivered", "cancel"}
    BY DEF Final, e
  <2>4. e.type # "cancel"
    BY <2>1 DEF Mirror!Types, Mirror!Moves
  <2>5. CASE e.type = "control"
    <3>1. e.arg \in {"pause", "resume", "cancel", "reprioritize"}
      <4>1. e \in Mirror!Possible(e.type, events, k - 1)
        BY LogIs DEF e
      <4> QED
        BY <2>5, <4>1 DEF Mirror!Possible, Mirror!Events, Mirror!Moves
    <3> QED
      BY <2>2, <2>3, <2>5, <3>1
  <2>6. CASE e.type # "control"
    BY <2>2, <2>3, <2>4, <2>6
  <2> QED
    BY <2>5, <2>6
<1> HIDE DEF e
<1>2. Mirror!Handler(s, k, e) = Mirror!OnDemand(s, e)
  BY <1>1 DEF Mirror!Handler
<1>3. Concludings(Mirror!OnDemand(s, e), e.demand)
  BY <1>1, OnConclusion DEF e
<1> QED
  BY <1>2, <1>3 DEF e

\* The handler of a rejection.
LEMMA HandlerRejects ==
  ASSUME Mirror!IsLog(events), NEW s, NEW k \in DOMAIN events, Mirror!Move(events[k]) = "review-rejected"
  PROVE  \A n \in DOMAIN Mirror!Handler(s, k, events[k]) : Mirror!Handler(s, k, events[k])[n].do \notin Closes
<1> DEFINE e == events[k]
<1>1. e.type = "review-rejected"
  <2>1. e.type \in Mirror!Types /\ e \in Mirror!Possible(e.type, events, k - 1)
    BY LogIs
  <2> HIDE DEF e
  <2>2. Mirror!Move(e) = IF e.type = "control" THEN e.arg ELSE e.type
    BY DEF Mirror!Move
  <2>3. Mirror!Move(e) = "review-rejected"
    BY DEF e
  <2>4. e.type = "control" => e.arg \in {"pause", "resume", "cancel", "reprioritize"}
    BY <2>1 DEF Mirror!Possible, Mirror!Events, Mirror!Moves
  <2> QED
    BY <2>2, <2>3, <2>4
<1> HIDE DEF e
<1>2. Mirror!Handler(s, k, e) = Mirror!OnDemand(s, e)
  BY <1>1 DEF Mirror!Handler
<1>3. \A n \in DOMAIN Mirror!OnDemand(s, e) : Mirror!OnDemand(s, e)[n].do \notin Closes
  BY <1>1, OnRejection
<1> QED
  BY <1>2, <1>3 DEF e

-----------------------------------------------------------------------------
(* The mirror on GitHub: what one call does.                               *)

Shaped(i) ==
  /\ i = [number |-> i.number, agent |-> i.agent, kind |-> i.kind, status |-> i.status, handed |-> i.handed, closed |-> i.closed]
  /\ i.closed \in BOOLEAN
Entry(h) == h = [key |-> h.key, open |-> h.open, card |-> h.card] /\ h.open \in BOOLEAN

\* Every issue of the mirror is one of the repository, and was created for it.
Reflects(issues, on) ==
  /\ IsSequence(on) /\ \A m \in DOMAIN on : Entry(on[m])
  /\ issues = [k \in DOMAIN issues |-> issues[k]]
  /\ \A k \in DOMAIN issues : Shaped(issues[k]) /\ issues[k].number \in DOMAIN on /\ on[issues[k].number].key = k
World(w) ==
  /\ w = [issues |-> w.issues, hub |-> w.hub, lost |-> w.lost, stopped |-> w.stopped]
  /\ w.stopped \in BOOLEAN /\ Reflects(w.issues, w.hub)

\* How an issue and its record can disagree.
CardWrong(i, h) == i.status # "cancelado" /\ i.status # h.card
ShutWrong(i, h) == i.closed /\ h.open
OpenWrong(i, h) == ~i.closed /\ ~h.open

\* One record, and the issue it is of, changed.
Put(w, k, i, h, l) ==
  [issues |-> [w.issues EXCEPT ![k] = i], hub |-> [w.hub EXCEPT ![w.issues[k].number] = h], lost |-> l, stopped |-> w.stopped]

\* What a call may change of them, and which disagreements it leaves.
Moved(do, i, h, j, g) ==
  /\ Shaped(j) /\ Entry(g) /\ j.number = i.number /\ j.agent = i.agent /\ g.key = h.key
  /\ g.card # h.card => do = "card"
  /\ g.open # h.open => (g.open /\ do = "reopen") \/ (~g.open /\ do \in Closes)
  /\ do \in Silent => j.closed = i.closed
  /\ do = "reopen" => ~j.closed
  /\ do \in Closes => j.closed
Mended(do, i, h, j, g) ==
  /\ CardWrong(j, g) => CardWrong(i, h) /\ do # "card"
  /\ ShutWrong(j, g) => ShutWrong(i, h) /\ do # "reopen"
  /\ OpenWrong(j, g) => OpenWrong(i, h) /\ do \notin Closes

\* One field of one record changed.
LEMMA WithIs ==
  ASSUME NEW w, World(w), NEW k \in DOMAIN w.issues, NEW field, NEW v
  PROVE  Mirror!With(w, k, field, v)
           = [issues |-> [w.issues EXCEPT ![k] = [w.issues[k] EXCEPT ![field] = v]], hub |-> w.hub, lost |-> w.lost, stopped |-> w.stopped]
BY DEF Mirror!With, World

\* The issue put back as it was.
LEMMA UnchangedHub ==
  ASSUME NEW w, World(w), NEW k \in DOMAIN w.issues
  PROVE  [w.hub EXCEPT ![w.issues[k].number] = w.hub[w.issues[k].number]] = w.hub
BY DEF World, Reflects, IsSequence

\* The record put back as it was.
LEMMA UnchangedIssues ==
  ASSUME NEW w, World(w), NEW k \in DOMAIN w.issues
  PROVE  [w.issues EXCEPT ![k] = w.issues[k]] = w.issues
BY DEF World, Reflects

\* A record with its issue closed, or open.
Marked(i, yes) == [number |-> i.number, agent |-> i.agent, kind |-> i.kind, status |-> i.status, handed |-> i.handed, closed |-> yes]
Dropped(i) == [number |-> i.number, agent |-> i.agent, kind |-> i.kind, status |-> "cancelado", handed |-> i.handed, closed |-> TRUE]
Left(h, yes) == [key |-> h.key, open |-> yes, card |-> h.card]

\* The mark of an issue closed, or open.
LEMMA MarkedIs ==
  ASSUME NEW w, World(w), NEW k \in DOMAIN w.issues, NEW yes \in BOOLEAN
  PROVE  /\ Mirror!With(w, k, "closed", yes)
              = [issues |-> [w.issues EXCEPT ![k] = Marked(w.issues[k], yes)], hub |-> w.hub, lost |-> w.lost, stopped |-> w.stopped]
         /\ w.issues[k].closed = yes => Marked(w.issues[k], yes) = w.issues[k]
<1>1. Shaped(w.issues[k])
  BY DEF World, Reflects
<1>2. [w.issues[k] EXCEPT !.closed = yes] = Marked(w.issues[k], yes)
  BY <1>1 DEF Shaped, Marked
<1>3. w.issues[k].closed = yes => Marked(w.issues[k], yes) = w.issues[k]
  BY <1>1 DEF Shaped, Marked
<1> QED
  BY <1>2, <1>3, WithIs

\* An issue left open, or closed.
LEMMA LeftIs == ASSUME NEW h, Entry(h), NEW yes \in BOOLEAN PROVE [h EXCEPT !.open = yes] = Left(h, yes)
<1> DEFINE g == [h EXCEPT !.open = yes]
<1>1. DOMAIN h = {"key", "open", "card"}
  BY DEF Entry
<1>2. DOMAIN g = DOMAIN h /\ g = [f \in DOMAIN h |-> IF f = "open" THEN yes ELSE h[f]]
  OBVIOUS
<1>3. g = [f \in {"key", "open", "card"} |-> IF f = "open" THEN yes ELSE h[f]]
  BY <1>1, <1>2
<1> HIDE DEF g
<1>4. DOMAIN g = {"key", "open", "card"} /\ g["key"] = h.key /\ g["open"] = yes /\ g["card"] = h.card
  BY <1>3
<1> QED
  BY <1>3, <1>4 DEF Left, g

\* A card moved.
LEMMA CardedIs ==
  ASSUME NEW h, Entry(h), NEW x
  PROVE  [h EXCEPT !.card = x] = [key |-> h.key, open |-> h.open, card |-> x]
<1> DEFINE g == [h EXCEPT !.card = x]
<1>1. DOMAIN h = {"key", "open", "card"}
  BY DEF Entry
<1>2. DOMAIN g = DOMAIN h /\ g = [f \in DOMAIN h |-> IF f = "card" THEN x ELSE h[f]]
  OBVIOUS
<1>3. g = [f \in {"key", "open", "card"} |-> IF f = "card" THEN x ELSE h[f]]
  BY <1>1, <1>2
<1> HIDE DEF g
<1>4. DOMAIN g = {"key", "open", "card"} /\ g["key"] = h.key /\ g["open"] = h.open /\ g["card"] = x
  BY <1>3
<1> QED
  BY <1>3, <1>4 DEF g
LEMMA SetCardIs ==
  ASSUME NEW w, World(w), NEW k \in DOMAIN w.issues, NEW x
  PROVE  LET i == w.issues[k]
             h == w.hub[i.number]
         IN  Mirror!SetCard(w, k, x) = Put(w, k, [i EXCEPT !.status = x], [h EXCEPT !.card = x], w.lost)
<1> DEFINE i == w.issues[k]
           n == i.number
           h == w.hub[n]
           moved == Mirror!With(w, k, "status", x)
           j == [i EXCEPT !.status = x]
<1>1. Mirror!SetCard(w, k, x) = [moved EXCEPT !.hub[n].card = x]
  BY DEF Mirror!SetCard, Mirror!Number
<1>2. moved = [issues |-> [w.issues EXCEPT ![k] = j], hub |-> w.hub, lost |-> w.lost, stopped |-> w.stopped]
  BY WithIs
<1> HIDE DEF moved, j
<1> QED
  BY <1>1, <1>2 DEF Put, j

\* Closing one issue changes its record and itself.
LEMMA ShutIs ==
  ASSUME NEW w, World(w), NEW k \in DOMAIN w.issues
  PROVE  LET i == w.issues[k]
             h == w.hub[i.number]
         IN  Mirror!Shut(w, k) = Put(w, k, Marked(i, TRUE), IF i.closed THEN h ELSE Left(h, FALSE), w.lost)
<1> DEFINE i == w.issues[k]
           n == i.number
           h == w.hub[n]
<1>1. Shaped(i) /\ n \in DOMAIN w.hub /\ Entry(h)
  BY DEF World, Reflects
<1>2. CASE i.closed
  <2>1. Mirror!Shut(w, k) = w /\ Marked(i, TRUE) = i
    BY <1>1, <1>2, MarkedIs DEF Mirror!Shut, Shaped
  <2> QED
    BY <1>1, <1>2, <2>1, UnchangedHub, UnchangedIssues DEF Put, World
<1>3. CASE ~i.closed
  <2> DEFINE marked == Mirror!With(w, k, "closed", TRUE)
  <2>1. Mirror!Shut(w, k) = [marked EXCEPT !.hub[n].open = FALSE]
    BY <1>3 DEF Mirror!Shut, Mirror!Number
  <2>2. marked = [issues |-> [w.issues EXCEPT ![k] = Marked(i, TRUE)], hub |-> w.hub, lost |-> w.lost, stopped |-> w.stopped]
    BY MarkedIs
  <2>3. [h EXCEPT !.open = FALSE] = Left(h, FALSE)
    BY <1>1, LeftIs
  <2> HIDE DEF marked
  <2>4. Mirror!Shut(w, k) = Put(w, k, Marked(i, TRUE), Left(h, FALSE), w.lost)
    BY <1>1, <2>1, <2>2, <2>3 DEF Put
  <2> QED
    BY <1>3, <2>4
<1> QED
  BY <1>2, <1>3

\* And so does reopening it.
LEMMA ReopenIs ==
  ASSUME NEW w, World(w), NEW k \in DOMAIN w.issues
  PROVE  LET i == w.issues[k]
             h == w.hub[i.number]
         IN  Mirror!Reopen(w, k) = Put(w, k, Marked(i, FALSE), IF i.closed THEN Left(h, TRUE) ELSE h, w.lost)
<1> DEFINE i == w.issues[k]
           n == i.number
           h == w.hub[n]
<1>1. Shaped(i) /\ n \in DOMAIN w.hub /\ Entry(h)
  BY DEF World, Reflects
<1>2. CASE ~i.closed
  <2>1. Mirror!Reopen(w, k) = w /\ Marked(i, FALSE) = i
    BY <1>1, <1>2, MarkedIs DEF Mirror!Reopen, Shaped
  <2> QED
    BY <1>1, <1>2, <2>1, UnchangedHub, UnchangedIssues DEF Put, World
<1>3. CASE i.closed
  <2> DEFINE marked == Mirror!With(w, k, "closed", FALSE)
  <2>1. Mirror!Reopen(w, k) = [marked EXCEPT !.hub[n].open = TRUE]
    BY <1>3 DEF Mirror!Reopen, Mirror!Number
  <2>2. marked = [issues |-> [w.issues EXCEPT ![k] = Marked(i, FALSE)], hub |-> w.hub, lost |-> w.lost, stopped |-> w.stopped]
    BY MarkedIs
  <2>3. [h EXCEPT !.open = TRUE] = Left(h, TRUE)
    BY <1>1, LeftIs
  <2> HIDE DEF marked
  <2>4. Mirror!Reopen(w, k) = Put(w, k, Marked(i, FALSE), Left(h, TRUE), w.lost)
    BY <1>1, <2>1, <2>2, <2>3 DEF Put
  <2> QED
    BY <1>3, <2>4
<1> QED
  BY <1>2, <1>3

\* One record changed twice.
LEMMA PutAgain ==
  ASSUME NEW w, World(w), NEW k \in DOMAIN w.issues, NEW i, i.number = w.issues[k].number, NEW h, NEW j, NEW g, NEW l, NEW m
  PROVE  Put(Put(w, k, i, h, l), k, j, g, m) = Put(w, k, j, g, m)
<1>1. w.issues = [x \in DOMAIN w.issues |-> w.issues[x]] /\ IsSequence(w.hub)
  BY DEF World, Reflects
<1> DEFINE once == Put(w, k, i, h, l)
<1>2. /\ once.issues = [w.issues EXCEPT ![k] = i] /\ once.hub = [w.hub EXCEPT ![w.issues[k].number] = h] /\ once.stopped = w.stopped
      /\ once.issues[k].number = w.issues[k].number
  BY <1>1 DEF Put
<1>3. [once.issues EXCEPT ![k] = j] = [w.issues EXCEPT ![k] = j]
  BY <1>1, <1>2
<1>4. [once.hub EXCEPT ![w.issues[k].number] = g] = [w.hub EXCEPT ![w.issues[k].number] = g]
  <2>1. w.hub = [x \in DOMAIN w.hub |-> w.hub[x]]
    BY <1>1 DEF IsSequence
  <2> HIDE DEF once
  <2> QED
    BY <1>2, <2>1
<1> HIDE DEF once
<1> QED
  BY <1>2, <1>3, <1>4 DEF Put, once

\* One field changed, whatever the world.
LEMMA WithOf ==
  ASSUME NEW v, v = [issues |-> v.issues, hub |-> v.hub, lost |-> v.lost, stopped |-> v.stopped], NEW k, NEW field, NEW x
  PROVE  Mirror!With(v, k, field, x)
           = [issues |-> [v.issues EXCEPT ![k] = [v.issues[k] EXCEPT ![field] = x]], hub |-> v.hub, lost |-> v.lost, stopped |-> v.stopped]
BY DEF Mirror!With

\* An issue dropped is closed and canceled.
LEMMA DroppedIs == ASSUME NEW i PROVE [Marked(i, TRUE) EXCEPT !.status = "cancelado"] = Dropped(i)
<1> DEFINE r == Marked(i, TRUE)
<1>1. ASSUME NEW x PROVE [r EXCEPT !.status = x] = [number |-> r.number, agent |-> r.agent, kind |-> r.kind, status |-> x, handed |-> r.handed, closed |-> r.closed]
  <2>1. r = [number |-> r.number, agent |-> r.agent, kind |-> r.kind, status |-> r.status, handed |-> r.handed, closed |-> r.closed]
    BY DEF Marked
  <2> HIDE DEF r
  <2> QED
    BY <2>1
<1>2. r.number = i.number /\ r.agent = i.agent /\ r.kind = i.kind /\ r.handed = i.handed /\ r.closed = TRUE
  BY DEF Marked
<1> HIDE DEF r
<1> QED
  BY <1>1, <1>2 DEF Dropped, r

\* Closed first, then canceled.
LEMMA ThenDropped ==
  ASSUME NEW w, World(w), NEW k \in DOMAIN w.issues, NEW g, NEW l
  PROVE  Mirror!With(Put(w, k, Marked(w.issues[k], TRUE), g, l), k, "status", "cancelado") = Put(w, k, Dropped(w.issues[k]), g, l)
<1> DEFINE v == Put(w, k, Marked(w.issues[k], TRUE), g, l)
<1>1. /\ v.issues = [w.issues EXCEPT ![k] = Marked(w.issues[k], TRUE)] /\ v.hub = [w.hub EXCEPT ![w.issues[k].number] = g]
      /\ v.lost = l /\ v.stopped = w.stopped /\ v = [issues |-> v.issues, hub |-> v.hub, lost |-> v.lost, stopped |-> v.stopped]
  BY DEF Put
<1>2. w.issues = [x \in DOMAIN w.issues |-> w.issues[x]]
  BY DEF World, Reflects
<1> HIDE DEF v
<1>3. v.issues[k] = Marked(w.issues[k], TRUE)
  BY <1>1, <1>2
<1>4. Mirror!With(v, k, "status", "cancelado")
        = [issues |-> [v.issues EXCEPT ![k] = [v.issues[k] EXCEPT !.status = "cancelado"]], hub |-> v.hub, lost |-> v.lost, stopped |-> v.stopped]
  <2>1. v = [issues |-> v.issues, hub |-> v.hub, lost |-> v.lost, stopped |-> v.stopped]
    BY <1>1
  <2> QED
    BY <2>1, WithOf
<1>5. [v.issues[k] EXCEPT !.status = "cancelado"] = Dropped(w.issues[k])
  BY <1>3, DroppedIs
<1>6. [v.issues EXCEPT ![k] = Dropped(w.issues[k])] = [w.issues EXCEPT ![k] = Dropped(w.issues[k])]
  BY <1>1, <1>2
<1> QED
  BY <1>1, <1>4, <1>5, <1>6 DEF Put, v

\* A call that takes place changes one record and its issue.
LEMMA DoneIs ==
  ASSUME NEW w, World(w), NEW c, NEW T, CallOn(c, DOMAIN w.issues, T)
  PROVE  \E j, g : /\ Mirror!Done(w, c) = Put(w, c.key, j, g, w.lost)
                   /\ Moved(c.do, w.issues[c.key], w.hub[w.issues[c.key].number], j, g)
                   /\ Mended(c.do, w.issues[c.key], w.hub[w.issues[c.key].number], j, g)
<1> DEFINE k == c.key
           i == w.issues[k]
           n == i.number
           h == w.hub[n]
<1>1. k \in DOMAIN w.issues /\ Shaped(i) /\ n \in DOMAIN w.hub /\ Entry(h)
  BY DEF CallOn, World, Reflects
<1>2. w = Put(w, k, i, h, w.lost)
  BY <1>1, UnchangedHub, UnchangedIssues DEF Put, World
<1>3. Moved("comment", i, h, i, h) /\ Mended("comment", i, h, i, h)
  BY <1>1 DEF Moved, Mended, Silent, Closes
<1>4. CASE c.do = "comment"
  <2>1. Mirror!Done(w, c) = w
    BY <1>4 DEF Mirror!Done
  <2> QED
    BY <1>2, <1>3, <1>4, <2>1
<1>5. CASE c.do = "card"
  <2> DEFINE j == [i EXCEPT !.status = c.arg]
             g == [h EXCEPT !.card = c.arg]
  <2>1. Mirror!Done(w, c) = Put(w, k, j, g, w.lost)
    <3>1. Mirror!Done(w, c) = Mirror!SetCard(w, k, c.arg)
      BY <1>5 DEF Mirror!Done
    <3>2. Mirror!SetCard(w, k, c.arg) = Put(w, k, j, g, w.lost)
      BY <1>1, SetCardIs
    <3> QED
      BY <3>1, <3>2
  <2>2. j = [number |-> i.number, agent |-> i.agent, kind |-> i.kind, status |-> c.arg, handed |-> i.handed, closed |-> i.closed]
    BY <1>1 DEF Shaped
  <2>3. g = [key |-> h.key, open |-> h.open, card |-> c.arg]
    BY <1>1, CardedIs
  <2>4. Moved("card", i, h, j, g) /\ Mended("card", i, h, j, g)
    BY <1>1, <2>2, <2>3 DEF Moved, Mended, Silent, Closes, Shaped, Entry, CardWrong, ShutWrong, OpenWrong
  <2> QED
    BY <1>5, <2>1, <2>4
<1>6. CASE c.do = "handed"
  <2> DEFINE j == [i EXCEPT !.handed = c.arg]
  <2>1. Mirror!Done(w, c) = Put(w, k, j, h, w.lost)
    <3>1. Mirror!Done(w, c) = Mirror!With(w, k, "handed", c.arg)
      BY <1>6 DEF Mirror!Done
    <3>2. Mirror!With(w, k, "handed", c.arg)
            = [issues |-> [w.issues EXCEPT ![k] = j], hub |-> w.hub, lost |-> w.lost, stopped |-> w.stopped]
      BY <1>1, WithIs
    <3> QED
      BY <1>1, <3>1, <3>2, UnchangedHub DEF Put
  <2>2. j = [number |-> i.number, agent |-> i.agent, kind |-> i.kind, status |-> i.status, handed |-> c.arg, closed |-> i.closed]
    BY <1>1 DEF Shaped
  <2>3. Moved("handed", i, h, j, h) /\ Mended("handed", i, h, j, h)
    BY <1>1, <2>2 DEF Moved, Mended, Silent, Closes, Shaped, Entry, CardWrong, ShutWrong, OpenWrong
  <2> QED
    BY <1>6, <2>1, <2>3
<1>7. CASE c.do = "close"
  <2> DEFINE j == Marked(i, TRUE)
             g == IF i.closed THEN h ELSE Left(h, FALSE)
  <2>1. Mirror!Done(w, c) = Put(w, k, j, g, w.lost)
    BY <1>1, <1>7, ShutIs DEF Mirror!Done
  <2>2. Moved("close", i, h, j, g)
    BY <1>1 DEF Moved, Silent, Closes, Shaped, Entry, Marked, Left
  <2>3. Mended("close", i, h, j, g)
    BY <1>1 DEF Mended, Closes, CardWrong, ShutWrong, OpenWrong, Shaped, Entry, Marked, Left
  <2> QED
    BY <1>7, <2>1, <2>2, <2>3
<1>8. CASE c.do = "reopen"
  <2> DEFINE j == Marked(i, FALSE)
             g == IF i.closed THEN Left(h, TRUE) ELSE h
  <2>1. Mirror!Done(w, c) = Put(w, k, j, g, w.lost)
    BY <1>1, <1>8, ReopenIs DEF Mirror!Done
  <2>2. Moved("reopen", i, h, j, g)
    BY <1>1 DEF Moved, Silent, Closes, Shaped, Entry, Marked, Left
  <2>3. Mended("reopen", i, h, j, g)
    BY <1>1 DEF Mended, Closes, CardWrong, ShutWrong, OpenWrong, Shaped, Entry, Marked, Left
  <2> QED
    BY <1>8, <2>1, <2>2, <2>3
<1>9. CASE c.do = "drop"
  <2> DEFINE j == Dropped(i)
             g == IF i.closed THEN h ELSE Left(h, FALSE)
  <2>1. Mirror!Done(w, c) = Put(w, k, j, g, w.lost)
    <3>1. c.arg = "cancelado"
      BY <1>9 DEF CallOn
    <3>2. Mirror!Done(w, c) = Mirror!With(Mirror!Shut(w, k), k, "status", "cancelado")
      BY <1>9, <3>1 DEF Mirror!Done
    <3>3. Mirror!Shut(w, k) = Put(w, k, Marked(i, TRUE), g, w.lost)
      BY <1>1, ShutIs
    <3> QED
      BY <1>1, <3>2, <3>3, ThenDropped
  <2>2. Moved("drop", i, h, j, g)
    BY <1>1 DEF Moved, Silent, Closes, Shaped, Entry, Dropped, Left
  <2>3. Mended("drop", i, h, j, g)
    BY <1>1 DEF Mended, Closes, CardWrong, ShutWrong, OpenWrong, Shaped, Entry, Dropped, Left
  <2> QED
    BY <1>9, <2>1, <2>2, <2>3
<1>10. c.do \in {"comment", "card", "handed", "close", "drop", "reopen"}
  BY DEF CallOn, Silent, Closes
<1> QED
  BY <1>4, <1>5, <1>6, <1>7, <1>8, <1>9, <1>10

\* A call that fails stops the handler, or does what it does in memory alone.
LEMMA AfterIs ==
  ASSUME NEW w, World(w), ~w.stopped, NEW c, NEW T, CallOn(c, DOMAIN w.issues, T), NEW fails \in BOOLEAN
  PROVE  \/ fails /\ Mirror!After(w, c, fails) = [issues |-> w.issues, hub |-> w.hub, lost |-> w.lost, stopped |-> TRUE]
         \/ \E j, g, l : /\ Mirror!After(w, c, fails) = Put(w, c.key, j, g, l)
                         /\ Moved(c.do, w.issues[c.key], w.hub[w.issues[c.key].number], j, g)
                         /\ \/ l = w.lost /\ Mended(c.do, w.issues[c.key], w.hub[w.issues[c.key].number], j, g)
                            \/ l = w.lost \cup {w.issues[c.key].number}
<1> DEFINE k == c.key
           i == w.issues[k]
           n == i.number
           h == w.hub[n]
<1>1. k \in DOMAIN w.issues /\ Shaped(i) /\ n \in DOMAIN w.hub /\ Entry(h)
  BY DEF CallOn, World, Reflects
<1>2. CASE ~fails \/ c.do = "handed"
  <2>1. Mirror!After(w, c, fails) = Mirror!Done(w, c)
    BY <1>2 DEF Mirror!After
  <2> QED
    BY <2>1, DoneIs
<1>3. CASE fails /\ c.do # "handed" /\ c.do # "drop"
  <2>1. Mirror!After(w, c, fails) = [w EXCEPT !.stopped = TRUE]
    BY <1>3 DEF Mirror!After, Mirror!Unchecked
  <2> QED
    BY <1>3, <2>1 DEF World
<1>4. CASE fails /\ c.do = "drop"
  <2> DEFINE j == Dropped(i)
             l == IF i.closed THEN w.lost ELSE w.lost \cup {n}
  <2>1. Mirror!After(w, c, fails) = Put(w, k, j, h, l)
    <3>1. c.arg = "cancelado" /\ Mirror!After(w, c, fails) = Mirror!LostDrop(w, c)
      BY <1>4 DEF CallOn, Mirror!After, Mirror!Unchecked
    <3>2. Mirror!With(w, k, "closed", TRUE) = Put(w, k, Marked(i, TRUE), h, w.lost)
      BY <1>1, MarkedIs, UnchangedHub DEF Put
    <3> DEFINE u == Put(w, k, j, h, w.lost)
    <3>3. Mirror!With(Mirror!With(w, k, "closed", TRUE), k, "status", "cancelado") = u
      BY <1>1, <3>2, ThenDropped
    <3>4. Mirror!LostDrop(w, c) = [u EXCEPT !.lost = IF i.closed THEN u.lost ELSE u.lost \cup {n}]
      BY <3>1, <3>3 DEF Mirror!LostDrop, Mirror!Number
    <3> QED
      BY <3>1, <3>4 DEF Put
  <2>2. Moved("drop", i, h, j, h)
    BY <1>1 DEF Moved, Silent, Closes, Shaped, Entry, Dropped
  <2>3. i.closed => Mended("drop", i, h, j, h)
    BY <1>1 DEF Mended, Closes, CardWrong, ShutWrong, OpenWrong, Shaped, Entry, Dropped
  <2> QED
    BY <1>4, <2>1, <2>2, <2>3
<1> QED
  BY <1>2, <1>3, <1>4

\* What becomes of the mirror and of GitHub by a call.
Fresh(on, k) == Len(on) \in DOMAIN on /\ on[Len(on)] = [key |-> k, open |-> TRUE, card |-> "none"]
StepHub(w, c, v) ==
  /\ DOMAIN w.hub \subseteq DOMAIN v.hub /\ w.lost \subseteq v.lost
  /\ \A m \in DOMAIN w.hub :
       /\ v.hub[m].key = w.hub[m].key
       /\ v.hub[m].card # w.hub[m].card => c.do = "card" /\ c.key = w.hub[m].key
       /\ v.hub[m].open # w.hub[m].open =>
            c.key = w.hub[m].key /\ ((v.hub[m].open /\ c.do = "reopen") \/ (~v.hub[m].open /\ c.do \in Closes))
StepIssues(w, c, v) ==
  /\ DOMAIN w.issues \subseteq DOMAIN v.issues
  /\ \A k \in DOMAIN v.issues :
       \/ /\ k \in DOMAIN w.issues /\ v.issues[k].agent = w.issues[k].agent
          /\ k # c.key \/ c.do # "add" \/ v.stopped
          /\ k # c.key \/ c.do \in Silent \cup {"create"} \/ v.stopped => v.issues[k].closed = w.issues[k].closed
       \/ c.do = "add" /\ k = c.key /\ v.issues[k].agent = c.arg.agent /\ ~v.issues[k].closed
StepDone(w, c, v, fails) ==
  IF v.stopped THEN fails \/ w.stopped
  ELSE /\ ~w.stopped
       /\ c.do = "create" => Fresh(v.hub, c.key)
       /\ c.do = "add" => c.key \in DOMAIN v.issues
       /\ c.do = "reopen" => c.key \in DOMAIN v.issues /\ ~v.issues[c.key].closed
       /\ c.do \in Closes => c.key \in DOMAIN v.issues /\ v.issues[c.key].closed
\* The disagreements that remain.
KnownIn(w, k) == k \in DOMAIN w.issues /\ w.issues[k].number \notin w.lost
At(w, k) == w.hub[w.issues[k].number]
StepWrong(w, c, v) ==
  \A k \in DOMAIN v.issues : v.issues[k].number \notin v.lost =>
    /\ CardWrong(v.issues[k], At(v, k)) => KnownIn(w, k) /\ CardWrong(w.issues[k], At(w, k)) /\ ~(~v.stopped /\ c.do = "card" /\ c.key = k)
    /\ ShutWrong(v.issues[k], At(v, k)) => KnownIn(w, k) /\ ShutWrong(w.issues[k], At(w, k)) /\ ~(~v.stopped /\ c.do = "reopen" /\ c.key = k)
    /\ OpenWrong(v.issues[k], At(v, k)) => KnownIn(w, k) /\ OpenWrong(w.issues[k], At(w, k)) /\ ~(~v.stopped /\ c.do \in Closes /\ c.key = k)
Step(w, c, v, fails) ==
  World(v) /\ StepHub(w, c, v) /\ StepIssues(w, c, v) /\ StepDone(w, c, v, fails) /\ StepWrong(w, c, v)

\* One record and its issue changed: all else is as it was.
LEMMA PutIs ==
  ASSUME NEW w, World(w), NEW k \in DOMAIN w.issues, NEW j, NEW g, NEW l, Shaped(j), Entry(g),
         j.number = w.issues[k].number, g.key = w.hub[w.issues[k].number].key
  PROVE  LET v == Put(w, k, j, g, l) IN
         /\ World(v) /\ DOMAIN v.issues = DOMAIN w.issues /\ DOMAIN v.hub = DOMAIN w.hub /\ v.lost = l /\ v.stopped = w.stopped
         /\ \A x \in DOMAIN w.issues : v.issues[x] = IF x = k THEN j ELSE w.issues[x]
         /\ \A m \in DOMAIN w.hub : v.hub[m] = IF m = w.issues[k].number THEN g ELSE w.hub[m]
         /\ \A x \in DOMAIN w.issues : x # k => w.issues[x].number # w.issues[k].number
<1> DEFINE v == Put(w, k, j, g, l)
           n == w.issues[k].number
<1>1. /\ IsSequence(w.hub) /\ (\A m \in DOMAIN w.hub : Entry(w.hub[m])) /\ w.stopped \in BOOLEAN
      /\ w.issues = [x \in DOMAIN w.issues |-> w.issues[x]]
      /\ \A x \in DOMAIN w.issues : Shaped(w.issues[x]) /\ w.issues[x].number \in DOMAIN w.hub /\ w.hub[w.issues[x].number].key = x
  BY DEF World, Reflects
<1>2. /\ v = [issues |-> v.issues, hub |-> v.hub, lost |-> v.lost, stopped |-> v.stopped]
      /\ v.issues = [w.issues EXCEPT ![k] = j] /\ v.hub = [w.hub EXCEPT ![n] = g] /\ v.lost = l /\ v.stopped = w.stopped
  BY DEF Put
<1> HIDE DEF v
<1>3. /\ DOMAIN v.issues = DOMAIN w.issues /\ v.issues = [x \in DOMAIN v.issues |-> v.issues[x]]
      /\ \A x \in DOMAIN w.issues : v.issues[x] = IF x = k THEN j ELSE w.issues[x]
  BY <1>1, <1>2
<1>4. /\ DOMAIN v.hub = DOMAIN w.hub /\ IsSequence(v.hub)
      /\ \A m \in DOMAIN w.hub : v.hub[m] = IF m = n THEN g ELSE w.hub[m]
  <2>1. /\ DOMAIN v.hub = DOMAIN w.hub /\ v.hub = [m \in DOMAIN w.hub |-> IF m = n THEN g ELSE w.hub[m]]
    BY <1>1, <1>2 DEF IsSequence
  <2>2. DOMAIN w.hub = 1..Len(w.hub) /\ Len(w.hub) \in Nat
    BY <1>1, DomainOf
  <2>3. Len(v.hub) = Len(w.hub)
    BY <2>1, <2>2
  <2> QED
    BY <2>1, <2>2, <2>3 DEF IsSequence
<1>5. \A x \in DOMAIN w.issues : x # k => w.issues[x].number # n
  BY <1>1
<1>6. World(v)
  <2>1. \A m \in DOMAIN v.hub : Entry(v.hub[m])
    BY <1>1, <1>4
  <2>2. ASSUME NEW x \in DOMAIN v.issues
        PROVE  Shaped(v.issues[x]) /\ v.issues[x].number \in DOMAIN v.hub /\ v.hub[v.issues[x].number].key = x
    <3>1. CASE x = k
      BY <1>1, <1>3, <1>4, <3>1
    <3>2. CASE x # k
      BY <1>1, <1>3, <1>4, <1>5, <2>2, <3>2
    <3> QED
      BY <3>1, <3>2
  <2> QED
    BY <1>1, <1>2, <1>3, <1>4, <2>1, <2>2 DEF World, Reflects
<1> QED
  BY <1>2, <1>3, <1>4, <1>5, <1>6 DEF v

\* Nothing happens, but that the handler stops.
LEMMA StopIs ==
  ASSUME NEW w, World(w), NEW c, NEW fails \in BOOLEAN, NEW yes \in BOOLEAN, yes, fails \/ w.stopped
  PROVE  Step(w, c, [issues |-> w.issues, hub |-> w.hub, lost |-> w.lost, stopped |-> yes], fails)
<1> DEFINE v == [issues |-> w.issues, hub |-> w.hub, lost |-> w.lost, stopped |-> yes]
<1>1. v = [issues |-> v.issues, hub |-> v.hub, lost |-> v.lost, stopped |-> v.stopped]
      /\ v.issues = w.issues /\ v.hub = w.hub /\ v.lost = w.lost /\ v.stopped = yes
  OBVIOUS
<1> HIDE DEF v
<1>2. World(v)
  BY <1>1 DEF World
<1>3. StepHub(w, c, v)
  BY <1>1 DEF StepHub
<1>4. StepIssues(w, c, v)
  BY <1>1 DEF StepIssues
<1>5. StepDone(w, c, v, fails)
  BY <1>1 DEF StepDone
<1>6. StepWrong(w, c, v)
  BY <1>1 DEF StepWrong, KnownIn, At
<1> QED
  BY <1>2, <1>3, <1>4, <1>5, <1>6 DEF Step, v

\* Every call on an issue of the mirror is a step of that kind.
LEMMA CallSteps ==
  ASSUME NEW w, World(w), ~w.stopped, NEW c, NEW T, CallOn(c, DOMAIN w.issues, T), NEW fails \in BOOLEAN
  PROVE  Step(w, c, Mirror!After(w, c, fails), fails)
<1> DEFINE k == c.key
           i == w.issues[k]
           n == i.number
           h == w.hub[n]
           v == Mirror!After(w, c, fails)
<1>1. k \in DOMAIN w.issues /\ c.do \in Silent \cup Closes \cup {"reopen"}
  BY DEF CallOn
<1>2. CASE fails /\ v = [issues |-> w.issues, hub |-> w.hub, lost |-> w.lost, stopped |-> TRUE]
  BY <1>2, StopIs
<1>3. ASSUME NEW j, NEW g, NEW l, v = Put(w, k, j, g, l), Moved(c.do, i, h, j, g),
             (l = w.lost /\ Mended(c.do, i, h, j, g)) \/ l = w.lost \cup {n}
      PROVE  Step(w, c, v, fails)
  <2> HIDE DEF v
  <2>1. Shaped(j) /\ Entry(g) /\ j.number = n /\ g.key = h.key /\ j.agent = i.agent
    BY <1>3 DEF Moved
  <2>2. /\ World(v) /\ DOMAIN v.issues = DOMAIN w.issues /\ DOMAIN v.hub = DOMAIN w.hub /\ v.lost = l /\ v.stopped = w.stopped
        /\ \A x \in DOMAIN w.issues : v.issues[x] = IF x = k THEN j ELSE w.issues[x]
        /\ \A m \in DOMAIN w.hub : v.hub[m] = IF m = n THEN g ELSE w.hub[m]
        /\ \A x \in DOMAIN w.issues : x # k => w.issues[x].number # n
    BY <1>1, <1>3, <2>1, PutIs
  <2>3. h.key = k /\ n \in DOMAIN w.hub
    BY <1>1 DEF World, Reflects
  <2>4. StepHub(w, c, v)
    <3>1. w.lost \subseteq v.lost
      BY <1>3, <2>2
    <3>2. ASSUME NEW m \in DOMAIN w.hub
          PROVE  /\ v.hub[m].key = w.hub[m].key
                 /\ v.hub[m].card # w.hub[m].card => c.do = "card" /\ c.key = w.hub[m].key
                 /\ v.hub[m].open # w.hub[m].open =>
                      c.key = w.hub[m].key /\ ((v.hub[m].open /\ c.do = "reopen") \/ (~v.hub[m].open /\ c.do \in Closes))
      <4>1. CASE m = n
        <5>1. v.hub[m] = g /\ w.hub[m] = h
          BY <2>2, <4>1
        <5> QED
          BY <1>3, <2>1, <2>3, <5>1 DEF Moved
      <4>2. CASE m # n
        BY <2>2, <4>2
      <4> QED
        BY <4>1, <4>2
    <3> QED
      BY <2>2, <3>1, <3>2 DEF StepHub
  <2>5. StepIssues(w, c, v)
    <3>1. ASSUME NEW x \in DOMAIN v.issues
          PROVE  /\ x \in DOMAIN w.issues /\ v.issues[x].agent = w.issues[x].agent
                 /\ x # c.key \/ c.do \in Silent \cup {"create"} \/ v.stopped => v.issues[x].closed = w.issues[x].closed
      <4>1. CASE x = k
        <5>1. v.issues[x] = j /\ w.issues[x] = i
          BY <1>1, <2>2, <4>1
        <5> QED
          BY <1>1, <1>3, <2>1, <2>2, <4>1, <5>1 DEF Moved, Closes
      <4>2. CASE x # k
        BY <2>2, <4>2
      <4> QED
        BY <4>1, <4>2
    <3>2. c.do # "add"
      BY <1>1 DEF Silent, Closes
    <3> QED
      BY <2>2, <3>1, <3>2 DEF StepIssues
  <2>6. StepDone(w, c, v, fails)
    <3>1. v.issues[k] = j /\ k \in DOMAIN v.issues
      BY <1>1, <2>2
    <3>2. c.do # "create" /\ c.do # "add"
      BY <1>1 DEF Silent, Closes
    <3>3. (c.do = "reopen" => ~j.closed) /\ (c.do \in Closes => j.closed)
      BY <1>3 DEF Moved
    <3> QED
      BY <2>2, <3>1, <3>2, <3>3 DEF StepDone
  <2>7. StepWrong(w, c, v)
    <3>1. ASSUME NEW x \in DOMAIN v.issues, v.issues[x].number \notin v.lost
          PROVE  /\ CardWrong(v.issues[x], At(v, x)) => KnownIn(w, x) /\ CardWrong(w.issues[x], At(w, x)) /\ ~(c.do = "card" /\ c.key = x)
                 /\ ShutWrong(v.issues[x], At(v, x)) => KnownIn(w, x) /\ ShutWrong(w.issues[x], At(w, x)) /\ ~(c.do = "reopen" /\ c.key = x)
                 /\ OpenWrong(v.issues[x], At(v, x)) => KnownIn(w, x) /\ OpenWrong(w.issues[x], At(w, x)) /\ ~(c.do \in Closes /\ c.key = x)
      <4>1. CASE x = k
        <5>1. v.issues[x] = j /\ w.issues[x] = i /\ At(w, x) = h
          BY <1>1, <2>2, <4>1 DEF At
        <5>2. At(v, x) = g
          BY <2>1, <2>2, <2>3, <5>1 DEF At
        <5>3. l = w.lost /\ Mended(c.do, i, h, j, g)
          BY <1>3, <2>1, <2>2, <3>1, <5>1
        <5>4. KnownIn(w, x)
          BY <1>1, <2>1, <2>2, <3>1, <4>1, <5>1, <5>3 DEF KnownIn
        <5> QED
          BY <5>1, <5>2, <5>3, <5>4 DEF Mended
      <4>2. CASE x # k
        <5>1. v.issues[x] = w.issues[x] /\ x \in DOMAIN w.issues
          BY <2>2, <4>2
        <5>2. w.issues[x].number \in DOMAIN w.hub /\ w.issues[x].number # n
          BY <2>2, <4>2, <5>1 DEF World, Reflects
        <5>3. At(v, x) = At(w, x)
          BY <2>2, <5>1, <5>2 DEF At
        <5>4. KnownIn(w, x)
          BY <1>3, <2>2, <3>1, <5>1 DEF KnownIn
        <5> QED
          BY <4>2, <5>1, <5>3, <5>4
      <4> QED
        BY <4>1, <4>2
    <3> QED
      BY <3>1 DEF StepWrong
  <2> QED
    BY <2>2, <2>4, <2>5, <2>6, <2>7 DEF Step
<1> HIDE DEF v
<1>4. \/ fails /\ v = [issues |-> w.issues, hub |-> w.hub, lost |-> w.lost, stopped |-> TRUE]
      \/ \E j, g, l : /\ v = Put(w, k, j, g, l) /\ Moved(c.do, i, h, j, g)
                      /\ (l = w.lost /\ Mended(c.do, i, h, j, g)) \/ l = w.lost \cup {n}
  <2>1. \/ fails /\ Mirror!After(w, c, fails) = [issues |-> w.issues, hub |-> w.hub, lost |-> w.lost, stopped |-> TRUE]
        \/ \E j, g, l : /\ Mirror!After(w, c, fails) = Put(w, c.key, j, g, l)
                        /\ Moved(c.do, w.issues[c.key], w.hub[w.issues[c.key].number], j, g)
                        /\ \/ l = w.lost /\ Mended(c.do, w.issues[c.key], w.hub[w.issues[c.key].number], j, g)
                           \/ l = w.lost \cup {w.issues[c.key].number}
    BY AfterIs, Zenon
  <2> QED
    BY <2>1 DEF v
<1> QED
  BY <1>2, <1>3, <1>4 DEF v

\* The creation of an issue is one, too.
LEMMA CreateSteps ==
  ASSUME NEW w, World(w), ~w.stopped, NEW c, c.do = "create", NEW fails \in BOOLEAN
  PROVE  Step(w, c, Mirror!After(w, c, fails), fails)
<1> DEFINE v == Mirror!After(w, c, fails)
<1>1. CASE fails
  <2>1. v = [w EXCEPT !.stopped = TRUE]
    BY <1>1 DEF Mirror!After, Mirror!Unchecked
  <2>2. v = [issues |-> w.issues, hub |-> w.hub, lost |-> w.lost, stopped |-> TRUE]
    BY <2>1 DEF World
  <2> QED
    BY <1>1, <2>2, StopIs
<1>2. CASE ~fails
  <2> DEFINE new == [key |-> c.key, open |-> TRUE, card |-> "none"]
             on == Append(w.hub, new)
  <2>1. v = [issues |-> w.issues, hub |-> on, lost |-> w.lost, stopped |-> w.stopped]
    <3>1. v = [w EXCEPT !.hub = Append(@, new)]
      BY <1>2 DEF Mirror!After, Mirror!Done
    <3> QED
      BY <3>1 DEF World
  <2>2. v.issues = w.issues /\ v.hub = on /\ v.lost = w.lost /\ v.stopped = w.stopped
        /\ v = [issues |-> v.issues, hub |-> v.hub, lost |-> v.lost, stopped |-> v.stopped]
    BY <2>1
  <2>3. IsSequence(w.hub) /\ DOMAIN w.hub = 1..Len(w.hub) /\ Len(w.hub) \in Nat
    BY DomainOf DEF World, Reflects
  <2>4. /\ IsSequence(on) /\ Len(on) = Len(w.hub) + 1 /\ DOMAIN on = DOMAIN w.hub \cup {Len(w.hub) + 1}
        /\ \A m \in DOMAIN w.hub : on[m] = w.hub[m]
        /\ on[Len(w.hub) + 1] = new
    BY <2>3, Appended
  <2>5. Entry(new) /\ new.key = c.key
    BY DEF Entry
  <2> HIDE DEF v, on
  <2>6. Fresh(on, c.key)
    BY <2>3, <2>4 DEF Fresh
  <2> HIDE DEF new
  <2>7. World(v)
    <3>1. \A m \in DOMAIN on : Entry(on[m])
      BY <2>4, <2>5 DEF World, Reflects
    <3>2. /\ w.issues = [k \in DOMAIN w.issues |-> w.issues[k]]
          /\ \A k \in DOMAIN w.issues : Shaped(w.issues[k]) /\ w.issues[k].number \in DOMAIN on /\ on[w.issues[k].number].key = k
      BY <2>4 DEF World, Reflects
    <3> QED
      BY <2>2, <2>4, <3>1, <3>2 DEF World, Reflects
  <2>8. StepHub(w, c, v)
    BY <2>2, <2>4 DEF StepHub
  <2>9. StepIssues(w, c, v)
    BY <2>2 DEF StepIssues
  <2>10. StepDone(w, c, v, fails)
    BY <2>2, <2>6 DEF StepDone, Closes
  <2>11. StepWrong(w, c, v)
    <3>1. \A k \in DOMAIN w.issues : At(v, k) = At(w, k)
      BY <2>2, <2>4 DEF At, World, Reflects
    <3> QED
      BY <2>2, <3>1 DEF StepWrong, KnownIn, Closes
  <2> QED
    BY <2>7, <2>8, <2>9, <2>10, <2>11 DEF Step, v
<1> QED
  BY <1>1, <1>2

\* And its record in the mirror, under the key of the issue just created.
LEMMA AddSteps ==
  ASSUME NEW w, World(w), ~w.stopped, NEW c, c.do = "add", Fresh(w.hub, c.key), NEW fails \in BOOLEAN
  PROVE  Step(w, c, Mirror!After(w, c, fails), fails)
<1> DEFINE v == Mirror!After(w, c, fails)
<1>1. CASE fails
  <2>1. v = [w EXCEPT !.stopped = TRUE]
    BY <1>1 DEF Mirror!After, Mirror!Unchecked
  <2>2. v = [issues |-> w.issues, hub |-> w.hub, lost |-> w.lost, stopped |-> TRUE]
    BY <2>1 DEF World
  <2> QED
    BY <1>1, <2>2, StopIs
<1>2. CASE ~fails
  <2> DEFINE k == c.key
             n == Len(w.hub)
             new == Mirror!IssueAsCreated(c.arg.agent, c.arg.kind, n)
             issues == [j \in DOMAIN w.issues \cup {k} |-> IF j = k THEN new ELSE w.issues[j]]
  <2>1. v = [issues |-> issues, hub |-> w.hub, lost |-> w.lost, stopped |-> w.stopped]
    <3>1. v = Mirror!AddCard(w, k, c.arg)
      BY <1>2 DEF Mirror!After, Mirror!Done
    <3>2. Mirror!AddCard(w, k, c.arg) = [w EXCEPT !.issues = issues]
      BY DEF Mirror!AddCard
    <3> HIDE DEF issues
    <3> QED
      BY <3>1, <3>2 DEF World
  <2>2. v.issues = issues /\ v.hub = w.hub /\ v.lost = w.lost /\ v.stopped = w.stopped
        /\ v = [issues |-> v.issues, hub |-> v.hub, lost |-> v.lost, stopped |-> v.stopped]
    BY <2>1
  <2>3. /\ DOMAIN issues = DOMAIN w.issues \cup {k} /\ issues[k] = new
        /\ \A j \in DOMAIN w.issues : j # k => issues[j] = w.issues[j]
        /\ issues = [j \in DOMAIN issues |-> issues[j]]
    OBVIOUS
  <2>4. /\ Shaped(new) /\ new.number = n /\ new.agent = c.arg.agent /\ ~new.closed /\ new.status = "none"
        /\ n \in DOMAIN w.hub /\ w.hub[n] = [key |-> k, open |-> TRUE, card |-> "none"]
    BY DEF Mirror!IssueAsCreated, Shaped, Fresh
  <2> HIDE DEF v, issues, new, n
  <2>5. World(v)
    <3>1. \A j \in DOMAIN issues : Shaped(issues[j]) /\ issues[j].number \in DOMAIN w.hub /\ w.hub[issues[j].number].key = j
      BY <2>3, <2>4 DEF World, Reflects
    <3> QED
      BY <2>2, <2>3, <3>1 DEF World, Reflects
  <2>6. StepHub(w, c, v)
    BY <2>2 DEF StepHub
  <2>7. StepIssues(w, c, v)
    BY <2>2, <2>3, <2>4 DEF StepIssues
  <2>8. StepDone(w, c, v, fails)
    BY <2>2, <2>3 DEF StepDone, Closes
  <2>9. StepWrong(w, c, v)
    <3>1. \A j \in DOMAIN w.issues : j # k => At(v, j) = At(w, j)
      BY <2>2, <2>3 DEF At
    <3>2. At(v, k) = w.hub[n]
      BY <2>2, <2>3, <2>4 DEF At
    <3>3. ~CardWrong(new, w.hub[n]) /\ ~ShutWrong(new, w.hub[n]) /\ ~OpenWrong(new, w.hub[n])
      BY <2>4 DEF CardWrong, ShutWrong, OpenWrong
    <3>4. ASSUME NEW j \in DOMAIN v.issues, v.issues[j].number \notin v.lost
          PROVE  /\ CardWrong(v.issues[j], At(v, j)) => KnownIn(w, j) /\ CardWrong(w.issues[j], At(w, j))
                 /\ ShutWrong(v.issues[j], At(v, j)) => KnownIn(w, j) /\ ShutWrong(w.issues[j], At(w, j))
                 /\ OpenWrong(v.issues[j], At(v, j)) => KnownIn(w, j) /\ OpenWrong(w.issues[j], At(w, j))
      <4>1. CASE j = k
        <5>1. v.issues[j] = new /\ At(v, j) = w.hub[n]
          BY <2>2, <2>3, <3>2, <4>1
        <5> QED
          BY <3>3, <5>1
      <4>2. CASE j # k
        BY <2>2, <2>3, <3>1, <3>4, <4>2 DEF KnownIn
      <4> QED
        BY <4>1, <4>2
    <3>5. c.do # "card" /\ c.do # "reopen" /\ c.do \notin Closes
      BY DEF Closes
    <3> QED
      BY <3>4, <3>5 DEF StepWrong
  <2> QED
    BY <2>5, <2>6, <2>7, <2>8, <2>9 DEF Step, v
<1> QED
  BY <1>1, <1>2

\* Once stopped, nothing happens.
LEMMA StoppedSteps ==
  ASSUME NEW w, World(w), w.stopped, NEW c, NEW fails \in BOOLEAN
  PROVE  Step(w, c, Mirror!After(w, c, fails), fails)
<1>1. Mirror!After(w, c, fails) = w /\ w = [issues |-> w.issues, hub |-> w.hub, lost |-> w.lost, stopped |-> w.stopped]
      /\ w.stopped \in BOOLEAN
  BY DEF Mirror!After, World
<1>2. Step(w, c, [issues |-> w.issues, hub |-> w.hub, lost |-> w.lost, stopped |-> w.stopped], fails)
  BY <1>1, StopIs
<1> QED
  BY <1>1, <1>2

-----------------------------------------------------------------------------
(* The mirror on GitHub: what a run of a handler does.                     *)

\* The world a run starts from, and the worlds it goes through.
Start == [issues |-> mem.issues, hub |-> hub, lost |-> unheard, stopped |-> FALSE]
Goes(f, calls, bad) ==
  /\ f[0] = Start
  /\ \A n \in 1..Len(calls) : f[n] = Mirror!After(f[n - 1], calls[n], n \in bad)

\* A run, call by call.
LEMMA RunIs ==
  ASSUME NEW calls, IsSequence(calls), NEW bad
  PROVE  \E f : Goes(f, calls, bad) /\ Mirror!Run(calls, bad) = f[Len(calls)]
<1> DEFINE N == Len(calls)
           Is(f, n) == f = [i \in 0..n |-> IF i = 0 THEN Start ELSE Mirror!After(f[i - 1], calls[i], i \in bad)]
<1>1. N \in Nat
  BY DomainOf
<1>2. \E f : Is(f, N)
  <2> DEFINE none == {n \in Nat : ~ \E f : Is(f, n)}
  <2>1. none = {}
    <3> SUFFICES ASSUME none # {} PROVE FALSE
      OBVIOUS
    <3>1. PICK n \in none : \A m \in none : n <= m
      <4>1. none \subseteq Nat
        OBVIOUS
      <4> HIDE DEF none
      <4> QED
        BY <4>1, LeastElement
    <3>2. n # 0
      <4> DEFINE g == [i \in 0..0 |-> Start]
      <4>1. Is(g, 0)
        OBVIOUS
      <4> QED
        BY <4>1
    <3>3. n - 1 \in Nat /\ n \in Nat /\ n - 1 \notin none
      <4>1. n \in Nat /\ n # 0
        BY <3>2
      <4>2. n - 1 \in Nat /\ ~(n <= n - 1)
        BY <4>1
      <4> HIDE DEF none
      <4> QED
        BY <3>1, <4>1, <4>2
    <3>4. PICK f : Is(f, n - 1)
      BY <3>3
    <3> DEFINE g == [i \in 0..n |-> IF i = 0 THEN Start ELSE Mirror!After(f[i - 1], calls[i], i \in bad)]
    <3>5. ASSUME NEW i \in 0..(n - 1) PROVE g[i] = f[i]
      <4> HIDE DEF none
      <4>1. i \in 0..n
        BY <3>3, <3>5
      <4>2. f[i] = IF i = 0 THEN Start ELSE Mirror!After(f[i - 1], calls[i], i \in bad)
        BY <3>4, <3>5
      <4> QED
        BY <4>1, <4>2
    <3>6. ASSUME NEW i \in 0..n PROVE g[i] = IF i = 0 THEN Start ELSE Mirror!After(g[i - 1], calls[i], i \in bad)
      <4>1. CASE i = 0
        BY <4>1
      <4>2. CASE i # 0
        <5>1. i - 1 \in 0..(n - 1)
          <6> HIDE DEF none
          <6> QED
            BY <3>3, <3>6, <4>2
        <5>2. g[i] = Mirror!After(f[i - 1], calls[i], i \in bad)
          BY <3>6, <4>2
        <5>3. g[i - 1] = f[i - 1]
          BY <3>5, <5>1
        <5> QED
          BY <4>2, <5>2, <5>3
      <4> QED
        BY <4>1, <4>2
    <3>7. Is(g, n)
      BY <3>6
    <3> QED
      BY <3>1, <3>7
  <2> QED
    BY <1>1, <2>1
<1> DEFINE world == CHOOSE f : Is(f, N)
<1>3. Is(world, N)
  <2> HIDE DEF Is
  <2> QED
    BY <1>2
<1>4. Mirror!Run(calls, bad) = world[N]
  BY DEF Mirror!Run, Start
<1> HIDE DEF world
<1>5. world[0] = Start
  BY <1>1, <1>3
<1>6. ASSUME NEW n \in 1..N PROVE world[n] = Mirror!After(world[n - 1], calls[n], n \in bad)
  BY <1>1, <1>3, <1>6
<1> QED
  BY <1>4, <1>5, <1>6 DEF Goes

\* A call of the handler, of one of some kinds, on issue k.
CallAhead(H, n, dos, k) == \E m \in DOMAIN H : m > n /\ H[m].do \in dos /\ H[m].key = k

\* What the calls of a handler leave of GitHub and of the mirror as they were.
RunHub(w0, w, H) ==
  /\ DOMAIN w0.hub \subseteq DOMAIN w.hub /\ w0.lost \subseteq w.lost
  /\ \A m \in DOMAIN w0.hub :
       /\ w.hub[m].key = w0.hub[m].key
       /\ w.hub[m].card # w0.hub[m].card => CallAhead(H, 0, {"card"}, w0.hub[m].key)
       /\ w.hub[m].open # w0.hub[m].open =>
            (w.hub[m].open /\ CallAhead(H, 0, {"reopen"}, w0.hub[m].key)) \/ (~w.hub[m].open /\ CallAhead(H, 0, Closes, w0.hub[m].key))
RunIssues(w0, w, H, opens, new) ==
  /\ DOMAIN w0.issues \subseteq DOMAIN w.issues /\ DOMAIN w.issues \subseteq With(DOMAIN w0.issues, opens, new)
  /\ \A k \in DOMAIN w.issues : \/ k \in DOMAIN w0.issues /\ w.issues[k].agent = w0.issues[k].agent
                                \/ opens /\ k = new /\ w.issues[k].agent = H[2].arg.agent
RunMade(w, n, opens, new) ==
  opens /\ ~w.stopped => (n = 1 => Fresh(w.hub, new)) /\ (n >= 2 => new \in DOMAIN w.issues)
\* The mirror and GitHub agree; they disagree in nothing the calls after the n-th do not mend.
Agrees(w) ==
  \A k \in DOMAIN w.issues : w.issues[k].number \notin w.lost =>
    ~CardWrong(w.issues[k], At(w, k)) /\ ~ShutWrong(w.issues[k], At(w, k)) /\ ~OpenWrong(w.issues[k], At(w, k))
Mendable(w, H, n) ==
  \A k \in DOMAIN w.issues : w.issues[k].number \notin w.lost =>
    /\ CardWrong(w.issues[k], At(w, k)) => CallAhead(H, n, {"card"}, k)
    /\ ShutWrong(w.issues[k], At(w, k)) => CallAhead(H, n, {"reopen"}, k)
    /\ OpenWrong(w.issues[k], At(w, k)) => CallAhead(H, n, Closes, k)

\* One more call changes on GitHub only what the calls of the handler change.
LEMMA HubChain ==
  ASSUME NEW w0, NEW w, NEW v, NEW H, NEW n \in DOMAIN H, n \in Nat, n # 0, RunHub(w0, w, H), StepHub(w, H[n], v)
  PROVE  RunHub(w0, v, H)
<1>1. \A dos, k : H[n].do \in dos /\ H[n].key = k => CallAhead(H, 0, dos, k)
  BY DEF CallAhead
<1>2. DOMAIN w0.hub \subseteq DOMAIN v.hub /\ w0.lost \subseteq v.lost
  BY DEF RunHub, StepHub
<1>3. ASSUME NEW m \in DOMAIN w0.hub
      PROVE  /\ v.hub[m].key = w0.hub[m].key
             /\ v.hub[m].card # w0.hub[m].card => CallAhead(H, 0, {"card"}, w0.hub[m].key)
             /\ v.hub[m].open # w0.hub[m].open =>
                  (v.hub[m].open /\ CallAhead(H, 0, {"reopen"}, w0.hub[m].key)) \/ (~v.hub[m].open /\ CallAhead(H, 0, Closes, w0.hub[m].key))
  <2>1. /\ w.hub[m].key = w0.hub[m].key
        /\ w.hub[m].card # w0.hub[m].card => CallAhead(H, 0, {"card"}, w0.hub[m].key)
        /\ w.hub[m].open # w0.hub[m].open =>
             (w.hub[m].open /\ CallAhead(H, 0, {"reopen"}, w0.hub[m].key)) \/ (~w.hub[m].open /\ CallAhead(H, 0, Closes, w0.hub[m].key))
    BY <1>3 DEF RunHub
  <2>2. /\ v.hub[m].key = w.hub[m].key
        /\ v.hub[m].card # w.hub[m].card => H[n].do = "card" /\ H[n].key = w.hub[m].key
        /\ v.hub[m].open # w.hub[m].open =>
             H[n].key = w.hub[m].key /\ ((v.hub[m].open /\ H[n].do = "reopen") \/ (~v.hub[m].open /\ H[n].do \in Closes))
    BY <1>3 DEF RunHub, StepHub
  <2>3. v.hub[m].card # w0.hub[m].card => CallAhead(H, 0, {"card"}, w0.hub[m].key)
    BY <1>1, <2>1, <2>2
  <2>4. CASE v.hub[m].open = w.hub[m].open
    BY <2>1, <2>2, <2>3, <2>4
  <2>5. CASE v.hub[m].open # w.hub[m].open
    <3>1. /\ v.hub[m].open /\ H[n].do = "reopen" => CallAhead(H, 0, {"reopen"}, w0.hub[m].key)
          /\ H[n].do \in Closes => CallAhead(H, 0, Closes, w0.hub[m].key)
      BY <1>1, <2>1, <2>2, <2>5
    <3> QED
      BY <2>1, <2>2, <2>3, <2>5, <3>1
  <2> QED
    BY <2>4, <2>5
<1> QED
  BY <1>2, <1>3 DEF RunHub

\* A call makes no disagreement.
LEMMA AgreesKept ==
  ASSUME NEW w, NEW c, NEW v, StepWrong(w, c, v), Agrees(w)
  PROVE  Agrees(v)
BY DEF StepWrong, Agrees, KnownIn

\* A disagreement that a call was to mend is mended by it.
LEMMA MendableKept ==
  ASSUME NEW w, NEW v, NEW H, IsSequence(H), NEW n \in DOMAIN H, StepWrong(w, H[n], v), ~v.stopped, Mendable(w, H, n - 1)
  PROVE  Mendable(v, H, n)
<1>1. ASSUME NEW dos, NEW k, CallAhead(H, n - 1, dos, k), ~(H[n].do \in dos /\ H[n].key = k) PROVE CallAhead(H, n, dos, k)
  <2>1. PICK m \in DOMAIN H : m > n - 1 /\ H[m].do \in dos /\ H[m].key = k
    BY <1>1 DEF CallAhead
  <2>2. m # n /\ m \in Nat /\ n \in Nat
    BY <1>1, <2>1, DomainOf
  <2>3. m > n
    BY <2>1, <2>2
  <2> QED
    BY <2>1, <2>3 DEF CallAhead
<1>2. ASSUME NEW k \in DOMAIN v.issues, v.issues[k].number \notin v.lost
      PROVE  /\ CardWrong(v.issues[k], At(v, k)) => CallAhead(H, n, {"card"}, k)
             /\ ShutWrong(v.issues[k], At(v, k)) => CallAhead(H, n, {"reopen"}, k)
             /\ OpenWrong(v.issues[k], At(v, k)) => CallAhead(H, n, Closes, k)
  <2>1. CardWrong(v.issues[k], At(v, k)) => CallAhead(H, n - 1, {"card"}, k) /\ ~(H[n].do \in {"card"} /\ H[n].key = k)
    BY <1>2 DEF StepWrong, KnownIn, Mendable
  <2>2. ShutWrong(v.issues[k], At(v, k)) => CallAhead(H, n - 1, {"reopen"}, k) /\ ~(H[n].do \in {"reopen"} /\ H[n].key = k)
    BY <1>2 DEF StepWrong, KnownIn, Mendable
  <2>3. OpenWrong(v.issues[k], At(v, k)) => CallAhead(H, n - 1, Closes, k) /\ ~(H[n].do \in Closes /\ H[n].key = k)
    BY <1>2 DEF StepWrong, KnownIn, Mendable
  <2> QED
    BY <1>1, <2>1, <2>2, <2>3
<1> QED
  BY <1>2 DEF Mendable

\* After the last call nothing is left to mend.
LEMMA MendedAtLast ==
  ASSUME NEW w, NEW H, IsSequence(H), Mendable(w, H, Len(H))
  PROVE  Agrees(w)
<1>1. \A dos, k : ~CallAhead(H, Len(H), dos, k)
  <2>1. DOMAIN H = 1..Len(H) /\ Len(H) \in Nat
    BY DomainOf
  <2> QED
    BY <2>1 DEF CallAhead
<1> QED
  BY <1>1 DEF Mendable, Agrees

\* What the file says can be mended by the same calls made again.
LEMMA MendableAgain ==
  ASSUME NEW w0, World(w0), Agrees(w0), NEW w, NEW H, RunHub(w0, w, H)
  PROVE  Mendable([issues |-> w0.issues, hub |-> w.hub, lost |-> w.lost, stopped |-> FALSE], H, 0)
<1> DEFINE v == [issues |-> w0.issues, hub |-> w.hub, lost |-> w.lost, stopped |-> FALSE]
<1>1. v.issues = w0.issues /\ v.hub = w.hub /\ v.lost = w.lost
  OBVIOUS
<1> HIDE DEF v
<1>2. ASSUME NEW k \in DOMAIN w0.issues, w0.issues[k].number \notin w.lost
      PROVE  /\ CardWrong(w0.issues[k], At(v, k)) => CallAhead(H, 0, {"card"}, k)
             /\ ShutWrong(w0.issues[k], At(v, k)) => CallAhead(H, 0, {"reopen"}, k)
             /\ OpenWrong(w0.issues[k], At(v, k)) => CallAhead(H, 0, Closes, k)
  <2> DEFINE n == w0.issues[k].number
  <2>1. n \in DOMAIN w0.hub /\ w0.hub[n].key = k /\ At(v, k) = w.hub[n] /\ At(w0, k) = w0.hub[n]
    BY <1>1, <1>2 DEF World, Reflects, At
  <2>2. n \notin w0.lost
    BY <1>2 DEF RunHub
  <2>3. ~CardWrong(w0.issues[k], w0.hub[n]) /\ ~ShutWrong(w0.issues[k], w0.hub[n]) /\ ~OpenWrong(w0.issues[k], w0.hub[n])
    BY <2>1, <2>2 DEF Agrees
  <2>4. /\ w.hub[n].card # w0.hub[n].card => CallAhead(H, 0, {"card"}, k)
        /\ w.hub[n].open # w0.hub[n].open =>
             (w.hub[n].open /\ CallAhead(H, 0, {"reopen"}, k)) \/ (~w.hub[n].open /\ CallAhead(H, 0, Closes, k))
    BY <2>1 DEF RunHub
  <2> HIDE DEF n
  <2>5. CardWrong(w0.issues[k], w.hub[n]) => w.hub[n].card # w0.hub[n].card
    BY <2>3 DEF CardWrong
  <2>6. /\ ShutWrong(w0.issues[k], w.hub[n]) => w.hub[n].open # w0.hub[n].open /\ w.hub[n].open
        /\ OpenWrong(w0.issues[k], w.hub[n]) => w.hub[n].open # w0.hub[n].open /\ ~w.hub[n].open
    BY <2>3 DEF ShutWrong, OpenWrong
  <2> QED
    BY <2>1, <2>4, <2>5, <2>6
<1> QED
  BY <1>1, <1>2 DEF Mendable, v

\* What holds after n calls of a run.
KeptAt(w, n, H, opens, new, bad) ==
  /\ World(w) /\ RunHub(Start, w, H) /\ RunIssues(Start, w, H, opens, new) /\ RunMade(w, n, opens, new)
  /\ bad = {} => ~w.stopped
  /\ Agrees(Start) => Agrees(w)
  /\ bad = {} /\ Mendable(Start, H, 0) => Mendable(w, H, n)

\* Each call of a run is a step.
LEMMA RunSteps ==
  ASSUME NEW H, NEW T, NEW opens \in BOOLEAN, NEW new, Tells(H, DOMAIN Start.issues, T, opens, new), NEW bad,
         NEW n \in DOMAIN H, NEW w, KeptAt(w, n - 1, H, opens, new, bad)
  PROVE  Step(w, H[n], Mirror!After(w, H[n], n \in bad), n \in bad)
<1> DEFINE K == DOMAIN Start.issues
           c == H[n]
           fails == n \in bad
<1>1. IsSequence(H) /\ DOMAIN H = 1..Len(H) /\ Len(H) \in Nat /\ n \in Nat /\ n # 0
  BY DomainOf DEF Tells
<1>2. World(w) /\ fails \in BOOLEAN
  BY DEF KeptAt
<1>3. CASE w.stopped
  BY <1>2, <1>3, StoppedSteps
<1>4. CASE ~w.stopped /\ opens /\ n = 1
  <2>1. c.do = "create"
    BY <1>4 DEF Tells
  <2> QED
    BY <1>2, <1>4, <2>1, CreateSteps
<1>5. CASE ~w.stopped /\ opens /\ n = 2
  <2>1. c.do = "add" /\ c.key = new
    <3>1. c = [do |-> "add", key |-> new, arg |-> H[2].arg]
      BY <1>5 DEF Tells
    <3> HIDE DEF c
    <3> QED
      BY <3>1
  <2>2. Fresh(w.hub, new)
    BY <1>5 DEF KeptAt, RunMade
  <2> QED
    BY <1>2, <1>5, <2>1, <2>2, AddSteps
<1>6. CASE ~w.stopped /\ (opens => n > 2)
  <2>1. CallOn(c, With(K, opens, new), T)
    BY <1>6 DEF Tells
  <2>2. DOMAIN w.issues = With(K, opens, new)
    <3>1. K \subseteq DOMAIN w.issues /\ DOMAIN w.issues \subseteq With(K, opens, new)
      BY DEF KeptAt, RunIssues
    <3>2. opens => n - 1 >= 2
      BY <1>1, <1>6
    <3>3. opens => new \in DOMAIN w.issues
      BY <1>6, <3>2 DEF KeptAt, RunMade
    <3> QED
      BY <3>1, <3>3 DEF With
  <2> QED
    BY <1>2, <1>6, <2>1, <2>2, CallSteps
<1> QED
  BY <1>1, <1>3, <1>4, <1>5, <1>6

\* What holds before a call of a run holds after it.
LEMMA KeptStep ==
  ASSUME NEW H, NEW T, NEW opens \in BOOLEAN, NEW new, Tells(H, DOMAIN Start.issues, T, opens, new), NEW bad,
         NEW n \in DOMAIN H, NEW w, KeptAt(w, n - 1, H, opens, new, bad), NEW v, Step(w, H[n], v, n \in bad)
  PROVE  KeptAt(v, n, H, opens, new, bad)
<1> DEFINE K == DOMAIN Start.issues
           c == H[n]
<1>1. IsSequence(H) /\ DOMAIN H = 1..Len(H) /\ Len(H) \in Nat /\ n \in Nat /\ n # 0
  BY DomainOf DEF Tells
<1>2. World(v) /\ StepHub(w, c, v) /\ StepIssues(w, c, v) /\ StepWrong(w, c, v) /\ StepDone(w, c, v, n \in bad)
  BY DEF Step
<1>3. RunHub(Start, v, H)
  BY <1>1, <1>2, HubChain DEF KeptAt
<1>4. c.do = "add" => opens /\ n = 2 /\ c.key = new /\ c.arg = H[2].arg
  <2>1. CASE opens => n > 2
    BY <2>1 DEF Tells, CallOn, Silent, Closes
  <2>2. CASE opens /\ n = 1
    BY <2>2 DEF Tells
  <2>3. CASE opens /\ n = 2
    <3>1. c = [do |-> "add", key |-> new, arg |-> H[2].arg]
      BY <2>3 DEF Tells
    <3> QED
      BY <2>3, <3>1
  <2> QED
    BY <1>1, <2>1, <2>2, <2>3
<1>5. RunIssues(Start, v, H, opens, new)
  <2>1. /\ K \subseteq DOMAIN w.issues /\ DOMAIN w.issues \subseteq With(K, opens, new)
        /\ \A k \in DOMAIN w.issues : \/ k \in K /\ w.issues[k].agent = Start.issues[k].agent
                                      \/ opens /\ k = new /\ w.issues[k].agent = H[2].arg.agent
    BY DEF KeptAt, RunIssues
  <2>2. ASSUME NEW k \in DOMAIN v.issues
        PROVE  /\ k \in With(K, opens, new)
               /\ \/ k \in K /\ v.issues[k].agent = Start.issues[k].agent
                  \/ opens /\ k = new /\ v.issues[k].agent = H[2].arg.agent
    <3>1. CASE k \in DOMAIN w.issues /\ v.issues[k].agent = w.issues[k].agent
      BY <2>1, <3>1
    <3>2. CASE c.do = "add" /\ k = c.key /\ v.issues[k].agent = c.arg.agent
      BY <1>4, <3>2 DEF With
    <3> QED
      BY <1>2, <2>2, <3>1, <3>2 DEF StepIssues
  <2>3. K \subseteq DOMAIN v.issues
    BY <1>2, <2>1 DEF StepIssues
  <2> QED
    BY <2>2, <2>3 DEF RunIssues
<1>6. RunMade(v, n, opens, new)
  <2> SUFFICES ASSUME opens, ~v.stopped PROVE (n = 1 => Fresh(v.hub, new)) /\ (n >= 2 => new \in DOMAIN v.issues)
    BY DEF RunMade
  <2>1. ~w.stopped /\ (c.do = "create" => Fresh(v.hub, c.key)) /\ (c.do = "add" => c.key \in DOMAIN v.issues)
    BY <1>2 DEF StepDone
  <2>2. CASE n = 1
    <3>1. c = [do |-> "create", key |-> new, arg |-> "none"]
      BY <2>2 DEF Tells
    <3> HIDE DEF c
    <3>2. c.do = "create" /\ c.key = new
      BY <3>1
    <3> QED
      BY <2>1, <2>2, <3>2
  <2>3. CASE n = 2
    <3>1. c = [do |-> "add", key |-> new, arg |-> H[2].arg]
      BY <2>3 DEF Tells
    <3> HIDE DEF c
    <3>2. c.do = "add" /\ c.key = new
      BY <3>1
    <3> QED
      BY <2>1, <2>3, <3>2
  <2>4. CASE n > 2
    <3>1. n - 1 >= 2
      BY <1>1, <2>4
    <3>2. new \in DOMAIN w.issues
      BY <2>1, <3>1 DEF KeptAt, RunMade
    <3>3. DOMAIN w.issues \subseteq DOMAIN v.issues /\ n # 1
      BY <1>2, <2>4 DEF StepIssues
    <3> QED
      BY <3>2, <3>3
  <2> QED
    BY <1>1, <2>2, <2>3, <2>4
<1>7. bad = {} => ~v.stopped
  BY <1>2 DEF StepDone, KeptAt
<1>8. Agrees(Start) => Agrees(v)
  BY <1>2, AgreesKept DEF KeptAt
<1>9. bad = {} /\ Mendable(Start, H, 0) => Mendable(v, H, n)
  BY <1>1, <1>2, <1>7, MendableKept DEF KeptAt
<1> QED
  BY <1>2, <1>3, <1>5, <1>6, <1>7, <1>8, <1>9 DEF KeptAt

\* It holds at the start.
LEMMA KeptAtStart ==
  ASSUME World(Start), NEW H, NEW opens \in BOOLEAN, NEW new, NEW bad
  PROVE  KeptAt(Start, 0, H, opens, new, bad)
<1>1. ~Start.stopped
  BY DEF Start
<1>2. RunHub(Start, Start, H)
  BY DEF RunHub
<1>3. RunIssues(Start, Start, H, opens, new)
  BY DEF RunIssues, With
<1>4. RunMade(Start, 0, opens, new)
  BY DEF RunMade
<1> QED
  BY <1>1, <1>2, <1>3, <1>4 DEF KeptAt

\* It holds all along the run.
LEMMA RunKeeps ==
  ASSUME World(Start), NEW H, NEW T, NEW opens \in BOOLEAN, NEW new, Tells(H, DOMAIN Start.issues, T, opens, new),
         NEW bad, NEW f, Goes(f, H, bad)
  PROVE  /\ \A n \in 0..Len(H) : KeptAt(f[n], n, H, opens, new, bad)
         /\ \A n \in DOMAIN H : Step(f[n - 1], H[n], f[n], n \in bad)
<1> DEFINE Good(n) == KeptAt(f[n], n, H, opens, new, bad)
           wrong == {n \in 0..Len(H) : ~Good(n)}
<1>1. IsSequence(H) /\ DOMAIN H = 1..Len(H) /\ Len(H) \in Nat
  BY DomainOf DEF Tells
<1>2. ASSUME NEW n \in DOMAIN H, Good(n - 1) PROVE Good(n) /\ Step(f[n - 1], H[n], f[n], n \in bad)
  <2>1. f[n] = Mirror!After(f[n - 1], H[n], n \in bad)
    BY <1>1, <1>2 DEF Goes
  <2>2. KeptAt(f[n - 1], n - 1, H, opens, new, bad)
    BY <1>2
  <2> DEFINE w == f[n - 1]
             v == f[n]
  <2> HIDE DEF w, v
  <2>3. KeptAt(w, n - 1, H, opens, new, bad)
    BY <2>2 DEF w
  <2>4. Step(w, H[n], Mirror!After(w, H[n], n \in bad), n \in bad)
    BY <2>3, RunSteps
  <2>5. Step(w, H[n], v, n \in bad)
    BY <2>1, <2>4 DEF w, v
  <2>6. KeptAt(v, n, H, opens, new, bad)
    BY <2>3, <2>5, KeptStep
  <2> QED
    BY <2>5, <2>6 DEF w, v
<1>3. Good(0)
  BY KeptAtStart DEF Goes
<1>4. wrong = {}
  <2> SUFFICES ASSUME wrong # {} PROVE FALSE
    OBVIOUS
  <2>1. PICK n \in wrong : \A m \in wrong : n <= m
    <3>1. wrong \subseteq Nat
      BY <1>1
    <3> HIDE DEF wrong
    <3> QED
      BY <3>1, LeastElement
  <2>2. n # 0
    <3>1. ~Good(n)
      BY <2>1
    <3> HIDE DEF Good
    <3> QED
      BY <1>3, <3>1
  <2>3. n \in DOMAIN H /\ n - 1 \in 0..Len(H) /\ n - 1 \notin wrong
    <3>1. n \in 0..Len(H) /\ n # 0
      BY <2>1, <2>2
    <3>2. n - 1 \in 0..Len(H) /\ ~(n <= n - 1)
      BY <1>1, <3>1
    <3> HIDE DEF wrong
    <3> QED
      BY <1>1, <2>1, <3>1, <3>2
  <2>4. Good(n - 1)
    BY <2>3
  <2> HIDE DEF Good
  <2>5. Good(n)
    BY <1>2, <2>3, <2>4
  <2> QED
    BY <2>1, <2>5
<1> HIDE DEF Good
<1>5. \A n \in 0..Len(H) : Good(n)
  BY <1>4
<1>6. \A n \in DOMAIN H : n - 1 \in 0..Len(H)
  BY <1>1
<1>7. \A n \in DOMAIN H : Step(f[n - 1], H[n], f[n], n \in bad)
  BY <1>2, <1>5, <1>6
<1> QED
  BY <1>5, <1>7 DEF Good

-----------------------------------------------------------------------------
(* The mirror on GitHub: the issues of the demands.                        *)

\* The demands concluded before event k.
Was(k) == {d \in AllDemands : Mirror!LastMove(events, d, k - 1) \in Final}

\* An event of the log names no demand or one registered before it, and moves it as it may.
LEMMA MirrorEventIs ==
  ASSUME Mirror!SyncAssumption, Mirror!IsLog(events), NEW k \in DOMAIN events
  PROVE  /\ events[k].demand \in {0} \cup Mirror!Registered(events, k - 1)
         /\ Mirror!Move(events[k]) \in Mirror!Moves =>
              Mirror!LastMove(events, events[k].demand, k - 1) \in Mirror!Follows(Mirror!Move(events[k]))
<1>1. k - 1 \in Nat /\ events[k].type \in Mirror!Types /\ events[k] \in Mirror!Possible(events[k].type, events, k - 1)
      /\ Mirror!Legal(events, k - 1, events[k])
  BY LogIs
<1>2. events[k].demand \in {0} \cup Mirror!Registered(events, k - 1)
  BY <1>1, ComesAs
<1> QED
  BY <1>1, <1>2 DEF Mirror!Legal

\* The moves a move may come after.
LEMMA FollowsIs ==
  /\ Mirror!Follows("start") = {"none"} /\ Mirror!Follows("review") = {"start", "review-rejected"}
  /\ Mirror!Follows("review-rejected") = {"review"} /\ Mirror!Follows("delivered") = {"review"}
  /\ Mirror!Follows("cancel") = {"none", "start", "review", "review-rejected"}
BY DEF Mirror!Follows

\* Nothing moves a demand that was delivered or canceled.
LEMMA MoveFollows ==
  ASSUME Mirror!SyncAssumption, Mirror!IsLog(events), NEW k \in DOMAIN events, Mirror!Move(events[k]) \in Mirror!Moves
  PROVE  Mirror!LastMove(events, events[k].demand, k - 1) \notin Final
<1>1. Mirror!LastMove(events, events[k].demand, k - 1) \in Mirror!Follows(Mirror!Move(events[k]))
  BY MirrorEventIs
<1>2. Mirror!Move(events[k]) \in {"start", "review", "delivered", "review-rejected", "cancel"}
  BY DEF Mirror!Moves
<1> QED
  BY <1>1, <1>2, FollowsIs DEF Final

\* An event concludes its demand and no other, and none that was concluded.
LEMMA WasIs ==
  ASSUME Mirror!SyncAssumption, Mirror!IsLog(events), NEW k \in DOMAIN events
  PROVE  /\ events[k].demand # k /\ k \notin Was(k) /\ 0 \notin AllDemands
         /\ Mirror!Move(events[k]) \in Final \cup {"review-rejected"} => events[k].demand \notin Was(k)
         /\ \A d \in AllDemands : Mirror!LastMove(events, d, k) \in Final <=> d \in Was(k) \/ Concludes(events[k], d)
<1>1. DOMAIN events = 1..Len(events) /\ k \in Nat /\ k # 0 /\ k - 1 \in Nat
  BY LogIs
<1>2. \A i \in DOMAIN events : events[i].demand # i
  <2>1. ASSUME NEW i \in DOMAIN events PROVE events[i].demand # i
    <3>1. events[i].demand \in {0} \cup Mirror!Registered(events, i - 1) /\ i \in Nat /\ i # 0
      BY <1>1, <2>1, MirrorEventIs, LogIs
    <3> QED
      BY <3>1 DEF Mirror!Registered
  <2> QED
    BY <2>1
<1>3. \A i \in 1..(k - 1) : events[i].demand # k
  <2>1. ASSUME NEW i \in 1..(k - 1) PROVE events[i].demand # k
    <3>1. i \in DOMAIN events /\ i \in Nat /\ i < k
      BY <1>1, <2>1, LogIs
    <3>2. events[i].demand \in {0} \cup Mirror!Registered(events, i - 1)
      BY <3>1, MirrorEventIs
    <3> QED
      BY <1>1, <3>1, <3>2 DEF Mirror!Registered
  <2> QED
    BY <2>1
<1>4. Mirror!LastMove(events, k, k - 1) = "none"
  BY <1>1, <1>3, NoMoveYet
<1>5. k \notin Was(k)
  BY <1>4 DEF Was, Final
<1>6. Mirror!Move(events[k]) \in Mirror!Moves => events[k].demand \notin Was(k)
  BY MoveFollows DEF Was
<1>7. Final \cup {"review-rejected"} \subseteq Mirror!Moves
  BY DEF Final, Mirror!Moves
<1>8. ASSUME NEW d \in AllDemands
      PROVE  Mirror!LastMove(events, d, k) \in Final <=> d \in Was(k) \/ Concludes(events[k], d)
  <2>1. Mirror!LastMove(events, d, k)
          = IF events[k].demand = d /\ Mirror!Move(events[k]) \in Mirror!Moves THEN Mirror!Move(events[k])
            ELSE Mirror!LastMove(events, d, k - 1)
    BY <1>1, LastMoveIs
  <2>2. d \in Was(k) <=> Mirror!LastMove(events, d, k - 1) \in Final
    BY <1>8 DEF Was
  <2> QED
    BY <1>6, <1>7, <2>1, <2>2 DEF Concludes
<1>9. 0 \notin AllDemands
  BY DEF AllDemands, Mirror!Registered
<1> QED
  BY <1>2, <1>5, <1>6, <1>7, <1>8, <1>9

\* What is known of the calls of the handler of event k.
Handles(issues, k, H, opens, new) ==
  LET e == events[k] IN
  /\ Tells(H, DOMAIN issues, Turned(e), opens, new) /\ opens \in BOOLEAN /\ new \in {0, k}
  /\ opens /\ new = k => H[2].arg.agent = e.agent
  /\ Mirror!Move(e) \in Final /\ e.demand \in DOMAIN issues => Concludings(H, e.demand)
  /\ Mirror!Move(e) = "review-rejected" => \A n \in DOMAIN H : H[n].do \notin Closes
\* The issues of the demands, after n calls of the handler of event k.
Closings(w, n, H, k) ==
  \A d \in AllDemands : d \in DOMAIN w.issues =>
    (w.issues[d].closed <=> d \in Was(k) \/ (n = Len(H) /\ ~w.stopped /\ Concludes(events[k], d)))

\* Every handler is as the proof of a run wants it.
LEMMA HandlerHandles ==
  ASSUME Mirror!SyncAssumption, Mirror!IsLog(events), NEW s, Owned(s), NEW k \in DOMAIN events
  PROVE  \E opens, new : Handles(s.issues, k, Mirror!Handler(s, k, events[k]), opens, new)
<1> DEFINE H == Mirror!Handler(s, k, events[k])
<1>1. PICK opens \in BOOLEAN, new \in {0, k} :
        /\ Tells(H, DOMAIN s.issues, Turned(events[k]), opens, new)
        /\ opens /\ new = k => H[2].arg.agent = events[k].agent
  BY HandlerTells
<1>2. Mirror!Move(events[k]) \in Final /\ events[k].demand \in DOMAIN s.issues => Concludings(H, events[k].demand)
  BY HandlerConcludes
<1>3. Mirror!Move(events[k]) = "review-rejected" => \A n \in DOMAIN H : H[n].do \notin Closes
  BY HandlerRejects
<1> HIDE DEF H
<1>4. Handles(s.issues, k, H, opens, new)
  BY <1>1, <1>2, <1>3 DEF Handles
<1> QED
  BY <1>4 DEF H

\* A call closes the issue of a demand only as the last of a conclusion.
LEMMA ClosingsStep ==
  ASSUME Mirror!SyncAssumption, Mirror!IsLog(events), NEW k \in DOMAIN events, NEW H, NEW opens, NEW new, NEW bad,
         Handles(Start.issues, k, H, opens, new),
         NEW n \in DOMAIN H, NEW w, KeptAt(w, n - 1, H, opens, new, bad), Closings(w, n - 1, H, k),
         NEW v, Step(w, H[n], v, n \in bad)
  PROVE  Closings(v, n, H, k)
<1> DEFINE K == DOMAIN Start.issues
           c == H[n]
           e == events[k]
<1>1. /\ Tells(H, K, Turned(e), opens, new) /\ opens \in BOOLEAN /\ new \in {0, k}
      /\ Mirror!Move(e) \in Final /\ e.demand \in K => Concludings(H, e.demand)
      /\ Mirror!Move(e) = "review-rejected" => c.do \notin Closes
  BY DEF Handles
<1>2. IsSequence(H) /\ DOMAIN H = 1..Len(H) /\ Len(H) \in Nat /\ n \in Nat /\ n - 1 # Len(H)
  BY <1>1, DomainOf DEF Tells
<1>3. /\ e.demand # k /\ k \notin Was(k) /\ 0 \notin AllDemands
      /\ Mirror!Move(e) \in Final \cup {"review-rejected"} => e.demand \notin Was(k)
  BY WasIs
<1>4. DOMAIN w.issues \subseteq With(K, opens, new)
  BY DEF KeptAt, RunIssues
<1> SUFFICES ASSUME NEW d \in AllDemands, d \in DOMAIN v.issues
             PROVE  v.issues[d].closed <=> d \in Was(k) \/ (n = Len(H) /\ ~v.stopped /\ Concludes(e, d))
  BY DEF Closings
<1>5. \/ /\ d \in DOMAIN w.issues
         /\ d # c.key \/ c.do # "add" \/ v.stopped
         /\ d # c.key \/ c.do \in Silent \cup {"create"} \/ v.stopped => v.issues[d].closed = w.issues[d].closed
      \/ c.do = "add" /\ d = c.key /\ ~v.issues[d].closed
  BY DEF Step, StepIssues
<1>6. d = new => d \notin Was(k) /\ ~Concludes(e, d)
  BY <1>1, <1>3 DEF Concludes
<1>7. CASE c.do = "add" /\ d = c.key /\ ~v.issues[d].closed
  <2>1. c.key = new
    <3>1. CASE opens => n > 2
      BY <1>1, <1>7, <3>1 DEF Tells, CallOn, Silent, Closes
    <3>2. CASE opens /\ n = 1
      <4>1. c = [do |-> "create", key |-> new, arg |-> "none"]
        BY <1>1, <3>2 DEF Tells
      <4> HIDE DEF c
      <4> QED
        BY <4>1
    <3>3. CASE opens /\ n = 2
      <4>1. c = [do |-> "add", key |-> new, arg |-> H[2].arg]
        BY <1>1, <3>3 DEF Tells
      <4> HIDE DEF c
      <4> QED
        BY <4>1
    <3> QED
      BY <1>2, <3>1, <3>2, <3>3
  <2> QED
    BY <1>6, <1>7, <2>1
<1>8. CASE d \in DOMAIN w.issues /\ v.issues[d].closed = w.issues[d].closed
           /\ (d # c.key \/ c.do \in Silent \cup {"create"} \/ v.stopped)
  <2>1. v.issues[d].closed <=> d \in Was(k)
    BY <1>2, <1>8 DEF Closings
  <2>2. ~(n = Len(H) /\ ~v.stopped /\ Concludes(e, d))
    <3> SUFFICES ASSUME n = Len(H), ~v.stopped, Concludes(e, d) PROVE FALSE
      OBVIOUS
    <3>1. Mirror!Move(e) \in Final /\ d = e.demand
      BY DEF Concludes
    <3>2. d \in K
      BY <1>4, <1>6, <1>8 DEF With
    <3>3. c.do \in Closes /\ c.key = d
      BY <1>1, <3>1, <3>2 DEF Concludings
    <3>4. c.do \notin Silent \cup {"create"}
      BY <3>3 DEF Closes, Silent
    <3> QED
      BY <1>8, <3>3, <3>4
  <2> QED
    BY <2>1, <2>2
<1>9. CASE d \in DOMAIN w.issues /\ d = c.key /\ c.do \notin Silent \cup {"create", "add"} /\ ~v.stopped
  <2>1. opens => n > 2
    <3>1. opens /\ n = 1 => c.do = "create"
      BY <1>1 DEF Tells
    <3>2. opens /\ n = 2 => c.do = "add"
      <4>1. opens /\ n = 2 => c = [do |-> "add", key |-> new, arg |-> H[2].arg]
        BY <1>1 DEF Tells
      <4> HIDE DEF c
      <4> QED
        BY <4>1
    <3> QED
      BY <1>2, <1>9, <3>1, <3>2
  <2>2. CallOn(c, With(K, opens, new), Turned(e))
    BY <1>1, <2>1 DEF Tells
  <2>3. d \in Turned(e) /\ c.do \in Closes \cup {"reopen"}
    BY <1>9, <2>2 DEF CallOn
  <2>4. Mirror!Move(e) \in Final \cup {"review-rejected"} /\ d = e.demand
    BY <2>3 DEF Turned
  <2>5. d \notin Was(k)
    BY <1>3, <2>4
  <2>6. /\ c.do = "reopen" => ~v.issues[d].closed
        /\ c.do \in Closes => v.issues[d].closed
    BY <1>9 DEF Step, StepDone
  <2>7. d \in K
    BY <1>4, <1>9, <1>6, <1>1, <1>3, <2>4 DEF With
  <2>8. CASE Mirror!Move(e) \in Final
    <3>1. Concludings(H, d)
      BY <1>1, <2>4, <2>7, <2>8
    <3>2. n = Len(H) /\ c.do \in Closes
      BY <1>9, <3>1 DEF Concludings
    <3> QED
      BY <1>9, <2>4, <2>6, <2>8, <3>2 DEF Concludes
  <2>9. CASE Mirror!Move(e) = "review-rejected"
    <3>1. c.do = "reopen" /\ ~Concludes(e, d)
      BY <1>1, <2>3, <2>9 DEF Concludes, Final
    <3> QED
      BY <2>5, <2>6, <3>1
  <2> QED
    BY <2>4, <2>8, <2>9
<1> QED
  BY <1>5, <1>7, <1>8, <1>9

\* And so along the run.
LEMMA RunCloses ==
  ASSUME Mirror!SyncAssumption, Mirror!IsLog(events), NEW k \in DOMAIN events, World(Start),
         NEW H, NEW opens, NEW new, Handles(Start.issues, k, H, opens, new), NEW bad, NEW f, Goes(f, H, bad),
         \A d \in AllDemands : d \in DOMAIN Start.issues => (Start.issues[d].closed <=> d \in Was(k))
  PROVE  \A n \in 0..Len(H) : Closings(f[n], n, H, k)
<1> DEFINE Good(n) == Closings(f[n], n, H, k)
           wrong == {n \in 0..Len(H) : ~Good(n)}
<1>1. /\ Tells(H, DOMAIN Start.issues, Turned(events[k]), opens, new) /\ opens \in BOOLEAN
      /\ Mirror!Move(events[k]) \in Final /\ events[k].demand \in DOMAIN Start.issues => Concludings(H, events[k].demand)
  BY DEF Handles
<1>2. IsSequence(H) /\ DOMAIN H = 1..Len(H) /\ Len(H) \in Nat
  BY <1>1, DomainOf DEF Tells
<1>3. /\ \A n \in 0..Len(H) : KeptAt(f[n], n, H, opens, new, bad)
      /\ \A n \in DOMAIN H : Step(f[n - 1], H[n], f[n], n \in bad)
  BY <1>1, RunKeeps
<1>4. ASSUME NEW n \in DOMAIN H, Good(n - 1) PROVE Good(n)
  <2> DEFINE w == f[n - 1]
             v == f[n]
  <2>1. KeptAt(w, n - 1, H, opens, new, bad) /\ Step(w, H[n], v, n \in bad) /\ Closings(w, n - 1, H, k)
    BY <1>2, <1>3, <1>4
  <2> HIDE DEF w, v
  <2>2. Closings(v, n, H, k)
    BY <2>1, ClosingsStep
  <2> QED
    BY <2>2 DEF v
<1>5. Good(0)
  <2>1. f[0] = Start
    BY DEF Goes
  <2>2. ASSUME NEW d \in AllDemands, d \in DOMAIN Start.issues, Concludes(events[k], d) PROVE Len(H) # 0
    BY <1>1, <2>2 DEF Concludes, Concludings
  <2> QED
    BY <2>1, <2>2 DEF Closings
<1>6. wrong = {}
  <2> SUFFICES ASSUME wrong # {} PROVE FALSE
    OBVIOUS
  <2>1. PICK n \in wrong : \A m \in wrong : n <= m
    <3>1. wrong \subseteq Nat
      BY <1>2
    <3> HIDE DEF wrong
    <3> QED
      BY <3>1, LeastElement
  <2>2. n # 0
    <3>1. ~Good(n)
      BY <2>1
    <3> HIDE DEF Good
    <3> QED
      BY <1>5, <3>1
  <2>3. n \in DOMAIN H /\ n - 1 \in 0..Len(H) /\ n - 1 \notin wrong
    <3>1. n \in 0..Len(H) /\ n # 0
      BY <2>1, <2>2
    <3>2. n - 1 \in 0..Len(H) /\ ~(n <= n - 1)
      BY <1>2, <3>1
    <3> HIDE DEF wrong
    <3> QED
      BY <1>2, <2>1, <3>1, <3>2
  <2>4. Good(n - 1)
    BY <2>3
  <2> HIDE DEF Good
  <2>5. Good(n)
    BY <1>4, <2>3, <2>4
  <2> QED
    BY <2>1, <2>5
<1> QED
  BY <1>6

-----------------------------------------------------------------------------
(* The mirror on GitHub: its invariant.                                    *)

\* The mirror in memory or in the file, over GitHub as it is.
Over(s) == [issues |-> s.issues, hub |-> hub, lost |-> unheard, stopped |-> FALSE]
\* The issues of the demands are closed as the events handled say.
ClosedAsLogged(s) ==
  \A d \in AllDemands : d \in DOMAIN s.issues => (s.issues[d].closed <=> Mirror!LastMove(events, d, s.done) \in Final)
Mirrored(s) == World(Over(s)) /\ Owned(s) /\ ClosedAsLogged(s)
TriedAgain == Mirror!Handler(saved, mem.done + 1, events[mem.done + 1])
\* The invariant.  With an event half handled, the file and GitHub disagree in
\* nothing that handling the event again does not mend; the memory is what the
\* file holds or agrees with GitHub.  All that of the first failing call only.
MirrorInv ==
  /\ Mirror!IsLog(events) /\ faults \in Nat /\ midway \in BOOLEAN
  /\ mem.done \in 0..Len(events) /\ saved.done = mem.done
  /\ Mirrored(mem) /\ Mirrored(saved)
  /\ ~midway => mem = saved
  /\ midway => faults # 0 /\ mem.done < Len(events)
  /\ faults <= 1 => IF midway THEN Mendable(Over(saved), TriedAgain, 0) /\ (mem = saved \/ Agrees(Over(mem)))
                    ELSE Agrees(Over(saved))

\* The invariant holds at the start: nothing is mirrored.
LEMMA MirrorStarts ==
  ASSUME Mirror!SyncAssumption, Mirror!Init
  PROVE  MirrorInv
<1>1. /\ Mirror!IsLog(events) /\ mem = [done |-> 0, issues |-> << >>] /\ saved = mem /\ hub = << >>
      /\ midway = FALSE /\ faults = 0
  BY DEF Mirror!Init, Mirror!Nothing, Mirror!SyncAssumption
<1>2. Len(events) \in Nat
  BY <1>1, LogIs
<1>3. Over(mem).issues = << >> /\ Over(mem).hub = << >> /\ Over(mem).stopped = FALSE
      /\ Over(mem) = [issues |-> Over(mem).issues, hub |-> Over(mem).hub, lost |-> Over(mem).lost, stopped |-> Over(mem).stopped]
  BY <1>1 DEF Over
<1>4. World(Over(mem))
  <2>1. Len(<< >>) = 0 /\ DOMAIN << >> = {}
    OBVIOUS
  <2>2. << >> = [k \in DOMAIN << >> |-> << >>[k]] /\ << >> = [k \in 1..0 |-> << >>[k]]
    OBVIOUS
  <2>3. Reflects(<< >>, << >>)
    BY <2>1, <2>2 DEF Reflects, IsSequence
  <2> QED
    BY <1>3, <2>3 DEF World
<1>5. Owned(mem) /\ ClosedAsLogged(mem)
  BY <1>1 DEF Owned, ClosedAsLogged
<1>6. Agrees(Over(mem))
  BY <1>3 DEF Agrees
<1>7. mem.done = 0 /\ saved = mem
  BY <1>1
<1>8. Mirrored(mem) /\ Mirrored(saved) /\ Agrees(Over(saved))
  BY <1>4, <1>5, <1>6, <1>7 DEF Mirrored
<1>9. mem.done \in 0..Len(events) /\ saved.done = mem.done
  BY <1>2, <1>7
<1>10. faults \in Nat /\ midway \in BOOLEAN /\ ~midway
  BY <1>1
<1> QED
  BY <1>1, <1>8, <1>9, <1>10 DEF MirrorInv

\* A log that grew says no less of what is handled.
OwnedIn(log, s) ==
  /\ DOMAIN s.issues \subseteq 0..Len(log)
  /\ \A k \in DOMAIN s.issues : k # 0 => s.issues[k].agent = log[k].agent
LoggedIn(log, s) ==
  \A d \in Mirror!Registered(log, Len(log)) :
    d \in DOMAIN s.issues => (s.issues[d].closed <=> Mirror!LastMove(log, d, s.done) \in Final)
LEMMA LongerLog ==
  ASSUME NEW log, NEW longer, Len(log) \in Nat, Shares(longer, log, Len(log)), Len(longer) = Len(log) + 1,
         NEW s, OwnedIn(log, s), LoggedIn(log, s), s.done \in 0..Len(log)
  PROVE  OwnedIn(longer, s) /\ LoggedIn(longer, s)
<1>1. OwnedIn(longer, s)
  BY DEF OwnedIn, Shares
<1>2. ASSUME NEW d \in Mirror!Registered(longer, Len(longer)), d \in DOMAIN s.issues
      PROVE  s.issues[d].closed <=> Mirror!LastMove(longer, d, s.done) \in Final
  <2>1. d \in 1..Len(log)
    BY <1>2 DEF OwnedIn, Mirror!Registered
  <2>2. d \in Mirror!Registered(log, Len(log))
    BY <1>2, <2>1 DEF Mirror!Registered, Shares
  <2>3. s.done \in Nat /\ Shares(longer, log, s.done)
    BY DEF Shares
  <2>4. Mirror!LastMove(longer, d, s.done) = Mirror!LastMove(log, d, s.done)
    BY <2>3, SharedLog
  <2> QED
    BY <1>2, <2>2, <2>4 DEF LoggedIn
<1> QED
  BY <1>1, <1>2 DEF LoggedIn

\* Growing, the log changes nothing of the events handled.
LEMMA MirrorLogGrows ==
  ASSUME Mirror!SyncAssumption, MirrorInv, Mirror!LogGrows
  PROVE  MirrorInv'
<1>0. PICK type \in Mirror!Types : \E e \in Mirror!Possible(type, events, Len(events)) :
        Mirror!Legal(events, Len(events), e) /\ events' = Append(events, e)
  BY DEF Mirror!LogGrows
<1>1. PICK e \in Mirror!Possible(type, events, Len(events)) :
        Mirror!Legal(events, Len(events), e) /\ events' = Append(events, e)
  BY <1>0
<1>2. UNCHANGED <<mem, saved, hub, midway, unheard, faults>>
  BY DEF Mirror!LogGrows
<1>3. IsSequence(events) /\ DOMAIN events = 1..Len(events) /\ Len(events) \in Nat /\ Mirror!IsLog(events)
  BY LogIs DEF MirrorInv
<1>4. e.type = type
  <2>1. type \in Mirror!Types /\ e \in Mirror!Possible(type, events, Len(events))
    BY <1>0, <1>1
  <2>2. Len(events) \in Nat
    BY <1>3
  <2>3. \A n \in Nat, x \in Mirror!Types : \A y \in Mirror!Possible(x, events, n) : y.type = x
    BY ComesAs
  <2> QED
    BY <2>1, <2>2, <2>3
<1>5. Mirror!IsLog(events') /\ Shares(events', events, Len(events)) /\ Len(events') = Len(events) + 1
  <2>1. /\ Mirror!IsLog(Append(events, e)) /\ Shares(Append(events, e), events, Len(events))
        /\ Len(Append(events, e)) = Len(events) + 1
    BY <1>0, <1>1, <1>3, <1>4, LogAppended
  <2> QED
    BY <1>1, <2>1
<1>6. OwnedIn(events, mem) /\ LoggedIn(events, mem) /\ OwnedIn(events, saved) /\ LoggedIn(events, saved)
      /\ mem.done \in 0..Len(events) /\ saved.done \in 0..Len(events)
  BY DEF MirrorInv, Mirrored, Owned, OwnedIn, ClosedAsLogged, LoggedIn, AllDemands
<1>7. OwnedIn(events', mem) /\ LoggedIn(events', mem) /\ OwnedIn(events', saved) /\ LoggedIn(events', saved)
  BY <1>3, <1>5, <1>6, LongerLog
<1>8. Over(mem)' = Over(mem) /\ Over(saved)' = Over(saved)
  BY <1>2 DEF Over
<1>9. Owned(mem)' /\ ClosedAsLogged(mem)' /\ Owned(saved)' /\ ClosedAsLogged(saved)'
  BY <1>2, <1>7 DEF Owned, OwnedIn, ClosedAsLogged, LoggedIn, AllDemands
<1>10. World(Over(mem))' /\ World(Over(saved))'
  <2>1. World(Over(mem)) /\ World(Over(saved))
    BY DEF MirrorInv, Mirrored
  <2> QED
    BY <1>8, <2>1
<1>11. Mirrored(mem)' /\ Mirrored(saved)'
  BY <1>9, <1>10 DEF Mirrored
<1>12. midway => TriedAgain' = TriedAgain
  <2>1. midway => mem.done + 1 \in 1..Len(events)
    BY <1>3 DEF MirrorInv
  <2>2. midway => events'[mem.done + 1] = events[mem.done + 1]
    BY <1>5, <2>1 DEF Shares
  <2>3. saved' = saved /\ mem'.done = mem.done
    BY <1>2
  <2> QED
    BY <2>2, <2>3 DEF TriedAgain
<1>13. (faults <= 1 => IF midway THEN Mendable(Over(saved), TriedAgain, 0) /\ (mem = saved \/ Agrees(Over(mem)))
                       ELSE Agrees(Over(saved)))'
  BY <1>2, <1>8, <1>12 DEF MirrorInv
<1>14. mem'.done \in 0..Len(events') /\ (midway => faults # 0 /\ mem.done < Len(events'))
  <2>1. mem.done \in 0..Len(events) /\ (midway => faults # 0 /\ mem.done < Len(events))
    BY DEF MirrorInv
  <2> QED
    BY <1>2, <1>3, <1>5, <2>1
<1> QED
  BY <1>2, <1>5, <1>11, <1>13, <1>14 DEF MirrorInv

\* What trying the next event does.
Tried(w, H, bad) ==
  /\ World(w) /\ RunHub(Start, w, H)
  /\ bad = {} => ~w.stopped
  /\ Agrees(Start) => Agrees(w)
  /\ bad = {} /\ Mendable(Start, H, 0) => Agrees(w)
  /\ OwnedIn(events, w)
  /\ \A d \in AllDemands : d \in DOMAIN w.issues =>
       (w.issues[d].closed <=> Mirror!LastMove(events, d, IF w.stopped THEN mem.done ELSE mem.done + 1) \in Final)
LEMMA TryIs ==
  ASSUME Mirror!SyncAssumption, MirrorInv, mem.done < Len(events), NEW H, NEW bad,
         H = Mirror!Handler(mem, mem.done + 1, events[mem.done + 1])
  PROVE  Tried(Mirror!Run(H, bad), H, bad)
<1> DEFINE k == mem.done + 1
           e == events[k]
           w == Mirror!Run(H, bad)
<1>1. /\ Mirror!IsLog(events) /\ DOMAIN events = 1..Len(events) /\ Len(events) \in Nat /\ k \in DOMAIN events /\ mem.done \in Nat
      /\ k - 1 = mem.done /\ Mirrored(mem)
  BY LogIs DEF MirrorInv
<1>2. Over(mem) = Start /\ Start.issues = mem.issues /\ Owned(mem) /\ World(Start)
  BY <1>1 DEF Over, Start, Mirrored
<1> HIDE DEF k
<1>3. PICK opens, new : Handles(mem.issues, k, Mirror!Handler(mem, k, e), opens, new)
  BY <1>1, <1>2, HandlerHandles
<1>4. Handles(Start.issues, k, H, opens, new)
  BY <1>2, <1>3 DEF k
<1>5. /\ Tells(H, DOMAIN Start.issues, Turned(e), opens, new) /\ opens \in BOOLEAN /\ new \in {0, k} /\ IsSequence(H) /\ Len(H) \in Nat
      /\ opens /\ new = k => H[2].arg.agent = e.agent
  BY <1>4, DomainOf DEF Handles, Tells
<1>6. PICK f : Goes(f, H, bad) /\ w = f[Len(H)]
  BY <1>5, RunIs
<1> HIDE DEF w, e
<1>7. KeptAt(w, Len(H), H, opens, new, bad)
  <2>1. \A n \in 0..Len(H) : KeptAt(f[n], n, H, opens, new, bad)
    BY <1>2, <1>5, <1>6, RunKeeps
  <2> QED
    BY <1>5, <1>6, <2>1
<1>8. Closings(w, Len(H), H, k)
  <2>1. \A d \in AllDemands : d \in DOMAIN Start.issues => (Start.issues[d].closed <=> d \in Was(k))
    BY <1>1, <1>2 DEF Mirrored, ClosedAsLogged, Was
  <2>2. \A n \in 0..Len(H) : Closings(f[n], n, H, k)
    BY <1>1, <1>2, <1>4, <1>6, <2>1, RunCloses
  <2> QED
    BY <1>5, <1>6, <2>2
<1>9. bad = {} /\ Mendable(Start, H, 0) => Agrees(w)
  BY <1>5, <1>7, MendedAtLast DEF KeptAt
<1>10. OwnedIn(events, w)
  <2>1. /\ DOMAIN w.issues \subseteq With(DOMAIN mem.issues, opens, new)
        /\ \A j \in DOMAIN w.issues : \/ j \in DOMAIN mem.issues /\ w.issues[j].agent = mem.issues[j].agent
                                      \/ opens /\ j = new /\ w.issues[j].agent = H[2].arg.agent
    BY <1>2, <1>7 DEF KeptAt, RunIssues
  <2>2. DOMAIN mem.issues \subseteq 0..Len(events) /\ \A j \in DOMAIN mem.issues : j # 0 => mem.issues[j].agent = events[j].agent
    BY <1>2 DEF Owned
  <2>3. k \in 0..Len(events) /\ 0 \in 0..Len(events)
    BY <1>1
  <2>4. DOMAIN w.issues \subseteq 0..Len(events)
    BY <1>5, <2>1, <2>2, <2>3 DEF With
  <2>5. \A j \in DOMAIN w.issues : j # 0 => w.issues[j].agent = events[j].agent
    BY <1>5, <2>1, <2>2 DEF e
  <2> QED
    BY <2>4, <2>5 DEF OwnedIn
<1>11. ASSUME NEW d \in AllDemands, d \in DOMAIN w.issues
       PROVE  w.issues[d].closed <=> Mirror!LastMove(events, d, IF w.stopped THEN mem.done ELSE mem.done + 1) \in Final
  <2>1. w.issues[d].closed <=> d \in Was(k) \/ (~w.stopped /\ Concludes(e, d))
    BY <1>8, <1>11 DEF Closings, e
  <2>2. d \in Was(k) <=> Mirror!LastMove(events, d, mem.done) \in Final
    BY <1>1, <1>11 DEF Was
  <2>3. Mirror!LastMove(events, d, k) \in Final <=> d \in Was(k) \/ Concludes(e, d)
    BY <1>1, <1>11, WasIs DEF e
  <2> QED
    BY <2>1, <2>2, <2>3 DEF k
<1> QED
  BY <1>7, <1>9, <1>10, <1>11 DEF Tried, KeptAt, w

\* The next event handled, or stopped half way by the call that fails.
LEMMA MirrorAttempts ==
  ASSUME Mirror!SyncAssumption, MirrorInv, NEW bad, Mirror!Attempt(bad), faults' \in Nat,
         IF bad = {} THEN faults' = faults ELSE faults' = faults + 1
  PROVE  MirrorInv'
<1> DEFINE H == Mirror!Handler(mem, mem.done + 1, events[mem.done + 1])
           w == Mirror!Run(H, bad)
           now == [done |-> IF w.stopped THEN mem.done ELSE mem.done + 1, issues |-> w.issues]
<1>1. /\ mem.done < Len(events) /\ mem' = now /\ hub' = w.hub /\ unheard' = w.lost
      /\ saved' = IF w.stopped THEN saved ELSE now
      /\ midway' = w.stopped /\ events' = events
  BY DEF Mirror!Attempt, Mirror!NextEvent
<1>2. Tried(w, H, bad)
  BY <1>1, TryIs
<1>3. /\ Mirror!IsLog(events) /\ Len(events) \in Nat /\ mem.done \in 0..Len(events) /\ saved.done = mem.done /\ faults \in Nat
      /\ Mirrored(saved) /\ Mirrored(mem) /\ mem.done \in Nat
  BY LogIs DEF MirrorInv
<1>4. World(w) /\ w.stopped \in BOOLEAN /\ RunHub(Start, w, H)
  BY <1>2 DEF Tried, World
<1>5. w = [issues |-> w.issues, hub |-> w.hub, lost |-> w.lost, stopped |-> w.stopped]
  BY <1>4 DEF World
<1> HIDE DEF w, H
<1>6. now.done = (IF w.stopped THEN mem.done ELSE mem.done + 1) /\ now.issues = w.issues
  OBVIOUS
<1> DEFINE over == [issues |-> w.issues, hub |-> w.hub, lost |-> w.lost, stopped |-> FALSE]
<1>7. Over(mem)' = over
  BY <1>1, <1>6 DEF Over
<1>8. World(over) /\ (Agrees(w) <=> Agrees(over))
  <2>1. over.issues = w.issues /\ over.hub = w.hub /\ over.lost = w.lost /\ over.stopped = FALSE
        /\ over = [issues |-> over.issues, hub |-> over.hub, lost |-> over.lost, stopped |-> over.stopped]
    OBVIOUS
  <2> HIDE DEF over
  <2> QED
    BY <1>4, <2>1 DEF World, Agrees, At
<1> HIDE DEF now, over
<1>9. Mirrored(mem)'
  <2>1. World(Over(mem))'
    BY <1>7, <1>8
  <2>2. Owned(mem)'
    BY <1>1, <1>2, <1>6 DEF Owned, OwnedIn, Tried
  <2>3. ClosedAsLogged(mem)'
    BY <1>1, <1>2, <1>6 DEF ClosedAsLogged, Tried, AllDemands
  <2> QED
    BY <2>1, <2>2, <2>3 DEF Mirrored
<1> DEFINE left == [issues |-> saved.issues, hub |-> w.hub, lost |-> w.lost, stopped |-> FALSE]
<1>10. CASE ~w.stopped
  <2>1. saved' = mem' /\ midway' = FALSE /\ mem'.done = mem.done + 1
    BY <1>1, <1>4, <1>6, <1>10
  <2>2. Mirrored(saved)' /\ Over(saved)' = over
    <3>1. Over(saved)' = Over(mem)'
      BY <2>1 DEF Over
    <3>2. Owned(saved)' /\ ClosedAsLogged(saved)'
      BY <1>9, <2>1 DEF Mirrored, Owned, ClosedAsLogged
    <3> QED
      BY <1>7, <1>9, <3>1, <3>2 DEF Mirrored
  <2>3. faults' <= 1 => Agrees(over)
    <3> SUFFICES ASSUME faults' <= 1 PROVE Agrees(w)
      BY <1>8
    <3>1. CASE bad = {} /\ midway
      <4>1. Mendable(Over(saved), TriedAgain, 0) /\ (mem = saved \/ Agrees(Over(mem)))
        BY <3>1 DEF MirrorInv
      <4>2. Over(mem) = Start
        BY DEF Over, Start
      <4>3. CASE mem = saved
        <5>1. Mendable(Start, H, 0)
          BY <4>1, <4>2, <4>3 DEF TriedAgain, H
        <5> QED
          BY <1>2, <3>1, <5>1 DEF Tried
      <4>4. CASE Agrees(Over(mem))
        BY <1>2, <4>2, <4>4 DEF Tried
      <4> QED
        BY <4>1, <4>3, <4>4
    <3>2. CASE bad # {} \/ ~midway
      <4>1. faults <= 1 /\ ~midway
        BY <1>3, <3>2 DEF MirrorInv
      <4>2. Agrees(Over(mem))
        BY <4>1 DEF MirrorInv
      <4>3. Over(mem) = Start
        BY DEF Over, Start
      <4> QED
        BY <1>2, <4>2, <4>3 DEF Tried
    <3> QED
      BY <3>1, <3>2
  <2>4. mem'.done \in 0..Len(events')
    BY <1>1, <1>3, <2>1
  <2> QED
    BY <1>1, <1>3, <1>9, <2>1, <2>2, <2>3, <2>4 DEF MirrorInv
<1>11. CASE w.stopped
  <2>1. saved' = saved /\ midway' = TRUE /\ mem'.done = mem.done /\ bad # {}
    BY <1>1, <1>2, <1>4, <1>6, <1>11 DEF Tried
  <2>2. Over(saved)' = left
    BY <1>1, <2>1 DEF Over
  <2>3. World(left)
    <3>1. left.issues = saved.issues /\ left.hub = w.hub /\ left.lost = w.lost /\ left.stopped = FALSE
          /\ left = [issues |-> left.issues, hub |-> left.hub, lost |-> left.lost, stopped |-> left.stopped]
      OBVIOUS
    <3> HIDE DEF left
    <3>2. Reflects(saved.issues, hub)
      BY <1>3 DEF Mirrored, World, Over
    <3>3. DOMAIN hub \subseteq DOMAIN w.hub /\ \A m \in DOMAIN hub : w.hub[m].key = hub[m].key
      BY <1>4 DEF RunHub, Start
    <3>4. Reflects(saved.issues, w.hub)
      BY <1>4, <3>2, <3>3 DEF World, Reflects
    <3> QED
      BY <3>1, <3>4 DEF World
  <2>4. Mirrored(saved)'
    <3>1. Owned(saved)' /\ ClosedAsLogged(saved)'
      BY <1>1, <1>3, <2>1 DEF Mirrored, Owned, ClosedAsLogged, AllDemands
    <3> QED
      BY <2>2, <2>3, <3>1 DEF Mirrored
  <2>5. faults' # 0 /\ mem'.done < Len(events') /\ mem'.done \in 0..Len(events')
    BY <1>1, <1>3, <2>1
  <2>6. faults' <= 1 => Mendable(Over(saved)', TriedAgain', 0) /\ Agrees(over)
    <3> SUFFICES ASSUME faults' <= 1 PROVE Mendable(left, TriedAgain', 0) /\ Agrees(w)
      BY <1>8, <2>2
    <3>1. faults = 0
      BY <1>3, <2>1
    <3>2. ~midway /\ mem = saved /\ Agrees(Over(saved))
      BY <3>1 DEF MirrorInv
    <3>3. Over(mem) = Start /\ World(Start) /\ Agrees(Start) /\ Start.issues = saved.issues
      BY <1>3, <3>2 DEF Over, Start, Mirrored
    <3>4. TriedAgain' = H
      BY <1>1, <2>1, <3>2 DEF TriedAgain, H
    <3>5. Mendable(left, H, 0)
      BY <1>4, <3>3, MendableAgain
    <3> QED
      BY <1>2, <3>3, <3>4, <3>5 DEF Tried
  <2> QED
    BY <1>1, <1>3, <1>7, <1>9, <2>1, <2>4, <2>5, <2>6 DEF MirrorInv
<1> QED
  BY <1>4, <1>10, <1>11

\* A restart goes back to the file, where the event half handled is still to be handled.
LEMMA MirrorRestarts ==
  ASSUME MirrorInv, Mirror!Restart
  PROVE  MirrorInv'
<1>1. mem' = saved /\ UNCHANGED <<events, saved, hub, midway, unheard, faults>>
  BY DEF Mirror!Restart
<1>2. saved.done = mem.done /\ Mirrored(saved)
  BY DEF MirrorInv
<1>3. Over(saved)' = Over(saved) /\ Over(mem)' = Over(saved) /\ TriedAgain' = TriedAgain
  BY <1>1, <1>2 DEF Over, TriedAgain
<1>4. Mirrored(saved)'
  BY <1>1, <1>2, <1>3 DEF Mirrored, Owned, ClosedAsLogged, AllDemands
<1>5. Mirrored(mem)'
  BY <1>1, <1>2, <1>3 DEF Mirrored, Owned, ClosedAsLogged, AllDemands
<1> QED
  BY <1>1, <1>2, <1>3, <1>4, <1>5 DEF MirrorInv

\* Every step keeps the invariant.
LEMMA MirrorKeeps ==
  ASSUME Mirror!SyncAssumption, MirrorInv, Mirror!Next \/ UNCHANGED mirrorVars
  PROVE  MirrorInv'
<1>1. CASE Mirror!LogGrows
  BY <1>1, MirrorLogGrows
<1>2. CASE Mirror!Process
  <2>1. Mirror!Attempt({}) /\ faults' = faults /\ faults' \in Nat
    BY <1>2 DEF Mirror!Process, MirrorInv
  <2> QED
    BY <2>1, MirrorAttempts
<1>3. CASE Mirror!ProcessInOutage
  <2>1. PICK n : Mirror!Attempt({n})
    BY <1>3 DEF Mirror!ProcessInOutage
  <2>2. faults' = faults + 1 /\ faults' \in Nat /\ {n} # {}
    BY <1>3 DEF Mirror!ProcessInOutage, MirrorInv
  <2> QED
    BY <2>1, <2>2, MirrorAttempts
<1>4. CASE Mirror!Restart
  BY <1>4, MirrorRestarts
<1>5. CASE UNCHANGED mirrorVars
  <2>1. UNCHANGED <<events, mem, saved, hub, midway, unheard, faults>>
    BY <1>5 DEF mirrorVars
  <2>2. Over(saved)' = Over(saved) /\ Over(mem)' = Over(mem) /\ TriedAgain' = TriedAgain
    BY <2>1 DEF Over, TriedAgain
  <2>3. Mirrored(saved)' /\ Mirrored(mem)'
    BY <2>1, <2>2 DEF MirrorInv, Mirrored, Owned, ClosedAsLogged, AllDemands
  <2> QED
    BY <2>1, <2>2, <2>3 DEF MirrorInv
<1> QED
  BY <1>1, <1>2, <1>3, <1>4, <1>5 DEF Mirror!Next

\* The invariant says what the run checks: the mirror is true and closed by the log.
LEMMA MirrorShows ==
  ASSUME MirrorInv
  PROVE  Mirror!MirrorIsTrue /\ Mirror!ClosedByTheLog
<1>1. Mirror!MirrorIsTrue
  <2> SUFFICES ASSUME ~midway, faults <= 1, NEW k \in DOMAIN saved.issues, saved.issues[k].number \notin unheard
               PROVE  LET i == saved.issues[k] IN
                      /\ i.closed <=> ~hub[i.number].open
                      /\ i.status # "cancelado" => i.status = hub[i.number].card
    BY DEF Mirror!MirrorIsTrue
  <2>1. Agrees(Over(saved)) /\ World(Over(saved))
    BY DEF MirrorInv, Mirrored
  <2>2. Over(saved).issues = saved.issues /\ Over(saved).hub = hub /\ Over(saved).lost = unheard
    BY DEF Over
  <2>3. Shaped(saved.issues[k]) /\ Entry(hub[saved.issues[k].number])
    BY <2>1, <2>2 DEF World, Reflects
  <2>4. /\ ~CardWrong(saved.issues[k], hub[saved.issues[k].number]) /\ ~ShutWrong(saved.issues[k], hub[saved.issues[k].number])
        /\ ~OpenWrong(saved.issues[k], hub[saved.issues[k].number])
    BY <2>1, <2>2 DEF Agrees, At
  <2> QED
    BY <2>3, <2>4 DEF CardWrong, ShutWrong, OpenWrong, Shaped, Entry
<1>2. Mirror!ClosedByTheLog
  BY DEF MirrorInv, Mirrored, ClosedAsLogged, AllDemands, Mirror!ClosedByTheLog, Mirror!Tracked, Final
<1> QED
  BY <1>1, <1>2

\* The mirror keeps its invariant.
LEMMA MirrorInvAlways == Mirror!Spec => []MirrorInv
<1>1. Mirror!Init => MirrorInv
  BY PartAssumptions, MirrorStarts
<1>2. MirrorInv /\ [Mirror!Next]_(Mirror!vars) => MirrorInv'
  BY PartAssumptions, MirrorKeeps DEF Mirror!vars, mirrorVars
<1> QED
  BY <1>1, <1>2, PTL DEF Mirror!Spec
===============================================================================
