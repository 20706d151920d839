---- MODULE ExecutorSettings ----
(* Which executor runs each agent: tools/squad/executores.py and the part   *)
(* of run_agent.py that starts, retries and gives up.  The configuration is *)
(* a versioned file saved under a lock by the panel and the CLI; a demand   *)
(* fixes a photo of it the first time one of its steps is dispatched, and   *)
(* may override it role by role.  An executor may be logged out: its state  *)
(* is cached, and a policy says whether the squad's executor stands in.     *)
EXTENDS Naturals

CONSTANTS
  Roles, Orchestrator,   \* the agents, and the one that must stay on claude
  Demands,
  Editors,               \* panels that may save over one another
  Runs,                  \* run_agent processes, each started once
  MaxVersion,            \* bound: versions of the file
  MaxFlip                \* bound: logins, logouts and cache expiries

ASSUME SettingsAssumption ==
  /\ Orchestrator \in Roles
  /\ {MaxVersion, MaxFlip} \subseteq Nat

Executors == {"claude", "codex"}
Policies == {"padrao", "parar"}
None == "none"
Choice == Executors \cup {None}

VARIABLES
  file,          \* executores.json: [version, squad, agents, policy]; version 0 before it exists
  photo,         \* the `executor-snapshot` of each demand
  override,      \* the last `executor-config` of scope demand, per role
  closed,        \* demands delivered or cancelled
  panel,         \* what each panel has on screen, or None
  run,           \* the run_agent processes
  loggedIn,      \* whether each executor can be used
  known,         \* executores-status.json: what was last probed
  flips

demand == <<photo, override, closed>>
world == <<loggedIn, known>>
vars == <<file, demand, panel, run, world, flips>>

Content(f) == [squad |-> f.squad, agents |-> f.agents, policy |-> f.policy]
Default == [r \in Roles |-> None]
\* current_table: the executor each role resolves to.
Table(f) == [r \in Roles |-> IF f.agents[r] = None THEN f.squad ELSE f.agents[r]]

\* _pin_orchestrator: the Orchestrator never resolves to codex.
PinnedByHand(f) == f
Pinned(f) ==
  IF Table(f)[Orchestrator] = "codex" THEN [f EXCEPT !.agents[Orchestrator] = "claude"] ELSE f

\* What a process keeps of the file it loaded.
Seen == [squad |-> file.squad, policy |-> file.policy, table |-> Table(file)]
NoRun == [pc |-> "idle", role |-> None, demand |-> None, seen |-> None, source |-> None,
          configured |-> None, effective |-> None, retried |-> FALSE]

Init ==
  /\ file = [version |-> 0, squad |-> "claude", agents |-> Default, policy |-> "padrao"]
  /\ photo = [d \in Demands |-> Default]
  /\ override = [d \in Demands |-> Default]
  /\ closed = {}
  /\ panel = [e \in Editors |-> [version |-> 0]]
  /\ run = [u \in Runs |-> NoRun]
  /\ loggedIn = [x \in Executors |-> TRUE]
  /\ known = [x \in Executors |-> None]
  /\ flips = 0
----
(* Saving, under the lock of the file.                                      *)

\* _write_atomic; the events of the change are history no decision reads back,
\* those of scope demand excepted (SetDemand).
Write(new) ==
  /\ file.version < MaxVersion
  /\ file' = [new EXCEPT !.version = file.version + 1]

\* load of a file that does not exist: the seed and the old variables.
Migrate ==
  /\ file.version = 0
  /\ \E squad \in Executors, orchestrator \in Choice :
       Write(Pinned([file EXCEPT !.squad = squad, !.agents[Orchestrator] = orchestrator]))
  /\ UNCHANGED <<demand, panel, run, world, flips>>

\* GET /api/executores: what the editor decides on.
Look(e) ==
  /\ file.version > 0
  /\ panel' = [panel EXCEPT ![e] = file]
  /\ UNCHANGED <<file, demand, run, world, flips>>

\* _availability_warnings probes afresh; the human may save all the same.
Probe(executors) == known' = [x \in Executors |-> IF x \notin executors THEN known[x]
                                                  ELSE IF loggedIn[x] THEN "in" ELSE "out"]

\* save: one field changes; panels send the version they saw, the CLI does not.
CurrentOrNot(e) == TRUE
Current(e) == panel[e].version = file.version
Save(new, touched) ==
  /\ Table(new)[Orchestrator] # "codex"
  /\ Content(new) # Content(file)
  /\ Probe(touched)
  /\ Write(new)

Change ==
  {<<[file EXCEPT !.squad = x], {x}>> : x \in Executors}
    \cup {<<[file EXCEPT !.agents[r] = x], {x} \ {None}>> : r \in Roles, x \in Choice}
    \cup {<<[file EXCEPT !.policy = p], {}>> : p \in Policies}
SavePanel(e) ==
  /\ panel[e].version > 0 /\ file.version > 0
  /\ IF Current(e) THEN \E c \in Change : Save(c[1], c[2])
     ELSE UNCHANGED <<file, known>>
  /\ panel' = [panel EXCEPT ![e] = [version |-> 0]]
  /\ UNCHANGED <<demand, run, loggedIn, flips>>
SaveCli ==
  /\ file.version > 0
  /\ \E c \in Change : Save(c[1], c[2])
  /\ UNCHANGED <<demand, panel, run, loggedIn, flips>>

\* apply_all: the squad's executor for everyone, the Orchestrator pinned.
Everyone(x) == Pinned([file EXCEPT !.squad = x, !.agents = Default])
ApplyAll(e) ==
  /\ panel[e].version > 0 /\ Current(e)
  /\ \E x \in Executors : Write(Everyone(x)) /\ Probe({x})
  /\ panel' = [panel EXCEPT ![e] = [version |-> 0]]
  /\ UNCHANGED <<demand, run, loggedIn, flips>>
----
(* The demand: its override and its end.                                    *)

SetDemand(d, r) ==
  /\ file.version > 0 /\ d \notin closed
  /\ \E x \in Choice :
       /\ ~(r = Orchestrator /\ x = "codex")
       /\ override' = [override EXCEPT ![d][r] = x]
       /\ Probe({x} \ {None})
  /\ UNCHANGED <<file, photo, closed, panel, run, loggedIn, flips>>

Close(d) ==
  /\ d \notin closed /\ closed' = closed \cup {d}
  /\ UNCHANGED <<file, photo, override, panel, run, world, flips>>
----
(* resolve(), step by step, in a run_agent process.                         *)

\* load(): the file is read without the lock.
Load(u, r, d) ==
  /\ run[u].pc = "idle" /\ file.version > 0
  /\ run' = [run EXCEPT ![u] = [NoRun EXCEPT !.pc = "rows", !.role = r, !.demand = d, !.seen = Seen]]
  /\ UNCHANGED <<file, demand, panel, world, flips>>

\* The events: the override, else the photo, else a photo has to be taken.
HasPhoto(d) == photo[d] # Default
Rows(u) ==
  /\ run[u].pc = "rows"
  /\ LET d == run[u].demand
         r == run[u].role IN
     run' = [run EXCEPT ![u] =
       IF override[d][r] # None
         THEN [@ EXCEPT !.pc = "check", !.source = "demanda", !.configured = override[d][r]]
       ELSE IF HasPhoto(d)
         THEN [@ EXCEPT !.pc = "check", !.source = "foto", !.configured = photo[d][r]]
       ELSE [@ EXCEPT !.pc = "photo"]]
  /\ UNCHANGED <<file, demand, panel, world, flips>>

\* snapshot(): under the lock the events are read again; the first photo stays.
TakePhotoAsSeen(u) ==
  /\ run[u].pc = "photo"
  /\ photo' = [photo EXCEPT ![run[u].demand] = run[u].seen.table]
  /\ run' = [run EXCEPT ![u].pc = "check", ![u].source = "foto", ![u].configured = run[u].seen.table[run[u].role]]
  /\ UNCHANGED <<file, override, closed, panel, world, flips>>
TakePhoto(u) ==
  /\ run[u].pc = "photo"
  /\ LET d == run[u].demand IN
     /\ photo' = IF HasPhoto(d) THEN photo ELSE [photo EXCEPT ![d] = run[u].seen.table]
     /\ run' = [run EXCEPT ![u] = [@ EXCEPT !.pc = "check", !.source = "foto",
                                            !.configured = photo'[d][run[u].role]]]
  /\ UNCHANGED <<file, override, closed, panel, world, flips>>

\* check(): the cache, or a probe when it has nothing.
State(x) == IF known[x] # None THEN known[x] ELSE IF loggedIn[x] THEN "in" ELSE "out"
Learn(executors) == known' = [x \in Executors |-> IF x \in executors THEN State(x) ELSE known[x]]

\* The policy: an executor that cannot be used is replaced by the squad's, if
\* that one can be used and the policy of the file as loaded allows it.
StandIn(u) ==
  LET squad == run[u].seen.squad IN
  IF /\ run[u].seen.policy = "padrao" /\ squad # run[u].configured /\ State(squad) = "in"
     /\ ~(run[u].role = Orchestrator /\ squad = "codex")
    THEN squad ELSE None
Decide(u, unusable) ==
  run' = [run EXCEPT ![u] =
    IF ~unusable THEN [@ EXCEPT !.pc = "running", !.effective = run[u].configured, !.seen = None]
    ELSE IF StandIn(u) # None THEN [@ EXCEPT !.pc = "running", !.effective = StandIn(u), !.seen = None]
    ELSE [NoRun EXCEPT !.pc = "stopped"]]
Check(u) ==
  /\ run[u].pc = "check"
  /\ LET unusable == run[u].retried \/ State(run[u].configured) = "out" IN
     /\ Decide(u, unusable)
     /\ Learn((IF run[u].retried THEN {} ELSE {run[u].configured})
                \cup (IF unusable THEN {run[u].seen.squad} ELSE {}))
  /\ UNCHANGED <<file, demand, panel, loggedIn, flips>>

\* guard(): the session asks to start a native subagent itself; nothing is
\* probed, and only a step configured for claude may go that way.
Guard(u) ==
  /\ run[u].pc = "check" /\ ~run[u].retried
  /\ run' = [run EXCEPT ![u] = [NoRun EXCEPT !.pc = IF run[u].configured = "claude" THEN "done" ELSE "stopped"]]
  /\ UNCHANGED <<file, demand, panel, world, flips>>

\* The agent ends; an authentication failure in its output forgets the cached
\* state and resolves ONCE more, as if the configured executor were logged out.
Finish(u) ==
  /\ run[u].pc = "running"
  /\ \/ run' = [run EXCEPT ![u] = [NoRun EXCEPT !.pc = "done"]] /\ UNCHANGED known
     \/ /\ ~loggedIn[run[u].effective] /\ ~run[u].retried
        /\ known' = [known EXCEPT ![run[u].effective] = None]
        /\ run' = [run EXCEPT ![u] = [NoRun EXCEPT !.pc = "rows", !.role = run[u].role, !.demand = run[u].demand,
                                                   !.seen = Seen, !.retried = TRUE]]
  /\ UNCHANGED <<file, demand, panel, loggedIn, flips>>
----
Flip ==
  /\ flips < MaxFlip /\ flips' = flips + 1
  /\ \E x \in Executors : \/ loggedIn' = [loggedIn EXCEPT ![x] = ~@] /\ UNCHANGED known
                          \/ known' = [known EXCEPT ![x] = None] /\ UNCHANGED loggedIn
  /\ UNCHANGED <<file, demand, panel, run>>

Next ==
  \/ Migrate \/ SaveCli \/ Flip
  \/ \E e \in Editors : Look(e) \/ SavePanel(e) \/ ApplyAll(e)
  \/ \E d \in Demands : Close(d) \/ \E r \in Roles : SetDemand(d, r)
  \/ \E u \in Runs :
       \/ \E r \in Roles, d \in Demands : Load(u, r, d)
       \/ Rows(u) \/ TakePhoto(u) \/ Check(u) \/ Guard(u) \/ Finish(u)

Spec == Init /\ [][Next]_vars
----
TypeOK ==
  /\ file.version \in 0..MaxVersion
  /\ Content(file) \in [squad : Executors, agents : [Roles -> Choice], policy : Policies]
  /\ {photo, override} \subseteq [Demands -> [Roles -> Choice]]
  /\ closed \subseteq Demands
  /\ \A u \in Runs : run[u].pc \in {"idle", "rows", "photo", "check", "running", "done", "stopped"}
  /\ loggedIn \in [Executors -> BOOLEAN] /\ known \in [Executors -> {None, "in", "out"}]

\* Two panels never overwrite each other silently: what a panel changes is
\* changed from the very configuration it has on screen.
NoLostEdit ==
  [][Content(file)' # Content(file) =>
       \A e \in DOMAIN panel : panel'[e] # panel[e] => Content(panel[e]) = Content(file)]_vars

\* A demand keeps the executors it started with: every run of a step is
\* configured from the one photo of its demand, whatever was saved between
\* reading the file and taking it, unless the human overrode the role.
OnePhoto ==
  /\ [][\A d \in Demands : HasPhoto(d) => photo'[d] = photo[d]]_photo
  /\ [](\A u \in DOMAIN run : run[u].source = "foto" => run[u].configured = photo[run[u].demand][run[u].role])

\* Without the human's acceptance of Q2 no path leads the Orchestrator to codex.
OrchestratorOnClaude ==
  /\ file.version > 0 => Table(file)[Orchestrator] = "claude"
  /\ \A d \in Demands : "codex" \notin {photo[d][Orchestrator], override[d][Orchestrator]}
  /\ \A u \in DOMAIN run : run[u].role = Orchestrator => run[u].effective # "codex"
====
