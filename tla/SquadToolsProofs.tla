--------------------------- MODULE SquadToolsProofs ---------------------------
(***************************************************************************)
(* Proofs about the squad's tools, for every value of their constants:     *)
(*   the settings of the executors, every set of roles, demands, panels    *)
(*   and runs (executores.py, run_agent.py);                               *)
(*   the delivery of a demand, every number of demands, releases and PRs   *)
(*   (gate.py, gitflow.py);                                                *)
(*   delegation through the conversation, every scenario (conversa.py,     *)
(*   alerts.py, pending.py, gitflow.py review_update);                     *)
(*   production, the intake and the mirror, whose proofs are in            *)
(*   SquadPartsProofs.                                                     *)
(***************************************************************************)
EXTENDS SquadTools, SquadPartsProofs

-----------------------------------------------------------------------------
(* The settings of the executors.                                          *)

Settings == [version : Nat, squad : Executors, agents : [Roles -> Choice], policy : Policies]
SeenRows == [squad : Executors, policy : Policies, table : [Roles -> Executors]]
Places == {"idle", "rows", "photo", "check", "running", "done", "stopped"}
RunRows == [pc : Places, role : Roles \cup {None}, demand : Demands \cup {None}, seen : SeenRows \cup {None},
            source : {None, "demanda", "foto"}, configured : Choice, effective : Choice, retried : BOOLEAN]

\* The file never resolves the Orchestrator to codex, not even before it exists.
FileInv == file \in Settings /\ Table(file)[Orchestrator] = "claude"

DemandInv ==
  /\ photo \in [Demands -> [Roles -> Choice]] /\ override \in [Demands -> [Roles -> Choice]]
  /\ closed \subseteq Demands
  /\ \A d \in Demands : photo[d][Orchestrator] # "codex" /\ override[d][Orchestrator] # "codex"

\* A panel shows the file of some version, and that of the present one truly.
Shows(p) ==
  \/ p = [version |-> 0]
  \/ /\ p \in Settings /\ 0 < p.version /\ p.version <= file.version
     /\ p.version = file.version => p = file
PanelInv == panel = [e \in Editors |-> panel[e]] /\ \A e \in Editors : Shows(panel[e])

\* A run that resolves knows its step and has read a file that keeps the
\* Orchestrator on claude; no run of the Orchestrator is led to codex.
Sound(q) ==
  /\ q.pc \in {"rows", "photo", "check", "running"} => q.role \in Roles /\ q.demand \in Demands
  /\ q.pc \in {"rows", "photo", "check"} => q.seen \in SeenRows /\ q.seen.table[Orchestrator] = "claude"
  /\ q.role = Orchestrator => q.configured # "codex" /\ q.effective # "codex"
RunInv == run \in [Runs -> RunRows] /\ \A u \in Runs : Sound(run[u])

SettingsInv == FileInv /\ DemandInv /\ PanelInv /\ RunInv

\* What a run took from the photo of its demand is in the photo, which is there.
FromPhoto(q) ==
  q.source = "foto" => /\ q.demand \in Demands /\ HasPhoto(q.demand)
                       /\ q.configured = photo[q.demand][q.role]
PhotoInv == \A u \in Runs : FromPhoto(run[u])

-----------------------------------------------------------------------------
(* The file and the panels.                                                *)

LEMMA TableOfSettings ==
  ASSUME NEW f \in Settings PROVE Table(f) \in [Roles -> Executors]
BY DEF Table, Settings, Choice, Executors, None

\* What is written in place of the file keeps both.
LEMMA WriteKeeps ==
  ASSUME FileInv, PanelInv, NEW new \in Settings, Table(new)[Orchestrator] # "codex", Write(new)
  PROVE  FileInv' /\ file'.version = file.version + 1
<1>1. file' = [new EXCEPT !.version = file.version + 1] /\ file' \in Settings
  BY DEF Write, FileInv, Settings
<1>2. Table(file') = Table(new)
  BY <1>1 DEF Table, Settings
<1>3. Table(new) \in [Roles -> Executors]
  BY TableOfSettings
<1>4. Table(new)[Orchestrator] = "claude"
  BY <1>3, SettingsAssumption DEF Executors
<1> QED
  BY <1>1, <1>2, <1>4 DEF FileInv, Settings

\* The panels with what some of them showed cleared.
Cleared(E) == [e \in Editors |-> IF e \in E THEN [version |-> 0] ELSE panel[e]]

LEMMA PanelsOutlive ==
  ASSUME FileInv, PanelInv, file' \in Settings, file'.version = file.version + 1, NEW E \in SUBSET Editors,
         panel' = Cleared(E)
  PROVE  PanelInv'
<1> SUFFICES ASSUME NEW e \in Editors PROVE Shows(panel[e])'
  BY DEF PanelInv, Cleared
<1>1. CASE e \in E
  BY <1>1 DEF Shows, Cleared
<1>2. CASE e \notin E
  <2>1. panel'[e] = panel[e] /\ Shows(panel[e])
    BY <1>2 DEF PanelInv, Cleared
  <2>2. file.version \in Nat
    BY DEF FileInv, Settings
  <2> QED
    BY <2>1, <2>2 DEF Shows, Settings
<1> QED
  BY <1>1, <1>2

\* Every change a panel or the CLI may ask for is a configuration.
LEMMA ChangesAreSettings ==
  ASSUME file \in Settings, NEW c \in Change PROVE c[1] \in Settings
<1>1. ASSUME NEW x \in Executors PROVE [file EXCEPT !.squad = x] \in Settings
  BY DEF Settings
<1>2. ASSUME NEW r \in Roles, NEW x \in Choice PROVE [file EXCEPT !.agents[r] = x] \in Settings
  BY DEF Settings
<1>3. ASSUME NEW p \in Policies PROVE [file EXCEPT !.policy = p] \in Settings
  BY DEF Settings
<1> QED
  BY <1>1, <1>2, <1>3 DEF Change

\* Whatever is pinned does not lead the Orchestrator to codex.
LEMMA PinnedOnClaude ==
  ASSUME NEW f \in Settings PROVE Pinned(f) \in Settings /\ Table(Pinned(f))[Orchestrator] # "codex"
<1>1. CASE Table(f)[Orchestrator] = "codex"
  <2>1. Pinned(f) = [f EXCEPT !.agents[Orchestrator] = "claude"]
    BY <1>1 DEF Pinned
  <2>2. Pinned(f) \in Settings /\ Pinned(f).agents[Orchestrator] = "claude"
    BY <2>1, SettingsAssumption DEF Settings, Choice, Executors
  <2> QED
    BY <2>2, SettingsAssumption DEF Table, None
<1>2. CASE Table(f)[Orchestrator] # "codex"
  BY <1>2 DEF Pinned
<1> QED
  BY <1>1, <1>2

-----------------------------------------------------------------------------
(* The runs.                                                               *)

LEMMA SeenIsSound ==
  ASSUME FileInv PROVE Seen \in SeenRows /\ Seen.table[Orchestrator] = "claude"
BY TableOfSettings DEF FileInv, Seen, SeenRows, Settings

LEMMA NoRunIsRun == NoRun \in RunRows /\ Sound(NoRun) /\ NoRun.source # "foto"
BY DEF NoRun, RunRows, Sound, Places, Choice, Executors, None

\* A step that replaces one run by a sound one keeps them all sound.
LEMMA SetRun ==
  ASSUME RunInv, NEW u \in Runs, NEW q \in RunRows, Sound(q), run' = [run EXCEPT ![u] = q]
  PROVE  RunInv'
BY DEF RunInv, Sound

\* A photo taken is a full table: there is one from then on.
LEMMA TablesArePhotos ==
  ASSUME NEW t \in [Roles -> Executors] PROVE t # Default
<1>1. t[Orchestrator] # Default[Orchestrator]
  BY SettingsAssumption DEF Default, Executors, None
<1> QED
  BY <1>1

LEMMA LoadKeeps ==
  ASSUME SettingsInv, NEW u \in Runs, NEW r \in Roles, NEW d \in Demands, Load(u, r, d)
  PROVE  RunInv' /\ (PhotoInv => PhotoInv')
<1> DEFINE q == [NoRun EXCEPT !.pc = "rows", !.role = r, !.demand = d, !.seen = Seen]
<1>1. Seen \in SeenRows /\ Seen.table[Orchestrator] = "claude"
  BY SeenIsSound DEF SettingsInv
<1>2. q \in RunRows /\ Sound(q) /\ q.source # "foto"
  <2> HIDE DEF Seen
  <2> QED
    BY <1>1 DEF NoRun, RunRows, Sound, Places, Choice, Executors, None
<1>3. run' = [run EXCEPT ![u] = q] /\ photo' = photo
  BY DEF Load, demand
<1> HIDE DEF q
<1>4. RunInv'
  BY <1>2, <1>3, SetRun DEF SettingsInv
<1>5. ASSUME PhotoInv PROVE PhotoInv'
  BY <1>2, <1>3, <1>5 DEF PhotoInv, FromPhoto, HasPhoto, SettingsInv, RunInv
<1> QED
  BY <1>4, <1>5

LEMMA RowsKeeps ==
  ASSUME SettingsInv, NEW u \in Runs, Rows(u)
  PROVE  RunInv' /\ (PhotoInv => PhotoInv')
<1> DEFINE d == run[u].demand
           r == run[u].role
<1>1. run[u] \in RunRows /\ Sound(run[u]) /\ run[u].pc = "rows"
  BY DEF Rows, SettingsInv, RunInv
<1>2. /\ d \in Demands /\ r \in Roles
      /\ run[u].seen \in SeenRows /\ run[u].seen.table[Orchestrator] = "claude"
  BY <1>1 DEF Sound
<1>3. photo' = photo /\ photo[d] \in [Roles -> Choice] /\ override[d] \in [Roles -> Choice]
  BY <1>2 DEF Rows, demand, SettingsInv, DemandInv
<1>4. photo[d][Orchestrator] # "codex" /\ override[d][Orchestrator] # "codex"
  BY <1>2 DEF SettingsInv, DemandInv
<1>5. PICK q : /\ run' = [run EXCEPT ![u] = q]
               /\ \/ q = [run[u] EXCEPT !.pc = "check", !.source = "demanda", !.configured = override[d][r]]
                  \/ HasPhoto(d) /\ q = [run[u] EXCEPT !.pc = "check", !.source = "foto", !.configured = photo[d][r]]
                  \/ q = [run[u] EXCEPT !.pc = "photo"]
  BY DEF Rows, SettingsInv, RunInv
<1>6. q \in RunRows
  <2>1. CASE q = [run[u] EXCEPT !.pc = "photo"]
    BY <1>1, <2>1 DEF RunRows, Places
  <2>2. ASSUME NEW source \in {"demanda", "foto"}, NEW c \in Choice,
               q = [run[u] EXCEPT !.pc = "check", !.source = source, !.configured = c]
        PROVE  q \in RunRows
    BY <1>1, <2>2, ZenonT(30) DEF RunRows, Places
  <2>3. override[d][r] \in Choice /\ photo[d][r] \in Choice
    BY <1>2, <1>3
  <2> HIDE DEF d, r
  <2> QED
    BY <1>5, <2>1, <2>2, <2>3
<1>7. Sound(q)
  <2>1. q.role = r /\ q.demand = d /\ q.seen = run[u].seen /\ q.effective = run[u].effective
    BY <1>1, <1>5 DEF RunRows
  <2>2. q.configured \in {run[u].configured, override[d][r], photo[d][r]}
    BY <1>1, <1>5 DEF RunRows
  <2>3. r = Orchestrator => q.configured # "codex" /\ q.effective # "codex"
    BY <1>1, <1>4, <2>1, <2>2 DEF Sound
  <2> QED
    BY <1>2, <2>1, <2>3 DEF Sound
<1>8. PhotoInv => FromPhoto(q)
  BY <1>1, <1>2, <1>5 DEF FromPhoto, RunRows, PhotoInv
<1>9. RunInv'
  BY <1>5, <1>6, <1>7, SetRun DEF SettingsInv
<1>10. ASSUME PhotoInv PROVE PhotoInv'
  BY <1>3, <1>5, <1>8, <1>10 DEF PhotoInv, FromPhoto, HasPhoto, SettingsInv, RunInv
<1> QED
  BY <1>9, <1>10

\* The first photo stays, whoever read it missing meanwhile.
LEMMA TakePhotoKeeps ==
  ASSUME SettingsInv, NEW u \in Runs, TakePhoto(u)
  PROVE  /\ RunInv' /\ DemandInv' /\ (PhotoInv => PhotoInv')
         /\ \A e \in Demands : HasPhoto(e) => photo'[e] = photo[e]
<1> DEFINE d == run[u].demand
           r == run[u].role
<1>1. run[u] \in RunRows /\ Sound(run[u]) /\ run[u].pc = "photo"
  BY DEF TakePhoto, SettingsInv, RunInv
<1>2. /\ d \in Demands /\ r \in Roles
      /\ run[u].seen \in SeenRows /\ run[u].seen.table[Orchestrator] = "claude"
  BY <1>1 DEF Sound
<1>3. photo' = IF HasPhoto(d) THEN photo ELSE [photo EXCEPT ![d] = run[u].seen.table]
  BY DEF TakePhoto
<1>4. run[u].seen.table \in [Roles -> Executors]
  BY <1>2 DEF SeenRows
<1>5. photo' \in [Demands -> [Roles -> Choice]] /\ \A e \in Demands : photo'[e][Orchestrator] # "codex"
  <2>1. run[u].seen.table \in [Roles -> Choice]
    BY <1>4 DEF Choice
  <2>2. CASE HasPhoto(d)
    BY <1>3, <2>2 DEF SettingsInv, DemandInv
  <2>3. CASE ~HasPhoto(d)
    BY <1>2, <1>3, <2>1, <2>3 DEF SettingsInv, DemandInv
  <2> QED
    BY <2>2, <2>3
<1>6. DemandInv'
  BY <1>5 DEF DemandInv, TakePhoto, SettingsInv
<1>7. \A e \in Demands : HasPhoto(e) => photo'[e] = photo[e]
  BY <1>2, <1>3 DEF SettingsInv, DemandInv
<1>8. photo'[d] # Default
  <2>1. CASE HasPhoto(d)
    BY <1>3, <2>1 DEF HasPhoto
  <2>2. CASE ~HasPhoto(d)
    BY <1>2, <1>3, <1>4, <2>2, TablesArePhotos DEF SettingsInv, DemandInv
  <2> QED
    BY <2>1, <2>2
<1>9. PICK q : /\ run' = [run EXCEPT ![u] = q]
               /\ q = [run[u] EXCEPT !.pc = "check", !.source = "foto", !.configured = photo'[d][r]]
  BY DEF TakePhoto, SettingsInv, RunInv
<1>10. q \in RunRows /\ Sound(q)
  <2>1. photo'[d][r] \in Choice
    BY <1>2, <1>5
  <2>2. r = Orchestrator => photo'[d][r] # "codex"
    BY <1>2, <1>5
  <2>3. q \in RunRows
    BY <1>1, <1>9, <2>1 DEF RunRows, Places
  <2>4. q.role = r /\ q.demand = d /\ q.seen = run[u].seen /\ q.configured = photo'[d][r] /\ q.effective = run[u].effective
    BY <1>1, <1>9 DEF RunRows
  <2>5. Sound(q)
    BY <1>1, <1>2, <2>2, <2>4 DEF Sound
  <2> QED
    BY <2>3, <2>5
<1>11. RunInv'
  BY <1>9, <1>10, SetRun DEF SettingsInv
<1>12. ASSUME PhotoInv PROVE PhotoInv'
  <2> SUFFICES ASSUME NEW v \in Runs, run'[v].source = "foto"
               PROVE  /\ run'[v].demand \in Demands /\ photo'[run'[v].demand] # Default
                      /\ run'[v].configured = photo'[run'[v].demand][run'[v].role]
    BY DEF PhotoInv, FromPhoto, HasPhoto
  <2>1. CASE v = u
    <3>1. run'[v] = q
      BY <1>9, <2>1 DEF SettingsInv, RunInv
    <3>2. q.demand = d /\ q.role = r /\ q.configured = photo'[d][r]
      BY <1>1, <1>9 DEF RunRows
    <3> QED
      BY <3>1, <3>2, <1>2, <1>8
  <2>2. CASE v # u
    <3>1. run'[v] = run[v]
      BY <1>9, <2>2 DEF SettingsInv, RunInv
    <3>2. run[v].demand \in Demands /\ HasPhoto(run[v].demand) /\ run[v].configured = photo[run[v].demand][run[v].role]
      BY <1>12, <3>1 DEF PhotoInv, FromPhoto
    <3>3. photo'[run[v].demand] = photo[run[v].demand]
      BY <3>2, <1>7
    <3> QED
      BY <3>1, <3>2, <3>3 DEF HasPhoto
  <2> QED
    BY <2>1, <2>2
<1> QED
  BY <1>6, <1>7, <1>11, <1>12

LEMMA CheckKeeps ==
  ASSUME SettingsInv, NEW u \in Runs, Check(u)
  PROVE  RunInv' /\ (PhotoInv => PhotoInv')
<1>1. run[u] \in RunRows /\ Sound(run[u]) /\ run[u].pc = "check"
  BY DEF Check, SettingsInv, RunInv
<1>2. /\ run[u].demand \in Demands /\ run[u].role \in Roles /\ run[u].seen \in SeenRows
      /\ run[u].configured \in Choice
  BY <1>1 DEF Sound, RunRows
<1>3. StandIn(u) \in Choice /\ (run[u].role = Orchestrator => StandIn(u) # "codex")
  BY <1>2 DEF StandIn, SeenRows, Choice, None
<1>4. PICK q : /\ run' = [run EXCEPT ![u] = q]
               /\ \/ q = [run[u] EXCEPT !.pc = "running", !.effective = run[u].configured, !.seen = None]
                  \/ q = [run[u] EXCEPT !.pc = "running", !.effective = StandIn(u), !.seen = None]
                  \/ q = [NoRun EXCEPT !.pc = "stopped"]
  BY DEF Check, Decide, SettingsInv, RunInv
<1>5. photo' = photo
  BY DEF Check, demand
<1>6. q \in RunRows /\ Sound(q) /\ (FromPhoto(run[u]) => FromPhoto(q))
  <2>1. CASE q = [NoRun EXCEPT !.pc = "stopped"]
    BY <2>1 DEF NoRun, RunRows, Sound, FromPhoto, Places, Choice, Executors, None
  <2>2. CASE q # [NoRun EXCEPT !.pc = "stopped"]
    <3>1. q \in RunRows /\ q.pc = "running"
      BY <1>1, <1>2, <1>3, <1>4, <2>2 DEF RunRows, Places
    <3>2. /\ q.role = run[u].role /\ q.demand = run[u].demand /\ q.source = run[u].source
          /\ q.configured = run[u].configured /\ q.effective \in {run[u].configured, StandIn(u)}
      BY <1>1, <1>4, <2>2 DEF RunRows
    <3>3. Sound(q)
      BY <1>1, <1>3, <3>1, <3>2 DEF Sound
    <3> QED
      BY <3>1, <3>2, <3>3 DEF FromPhoto
  <2> QED
    BY <2>1, <2>2
<1>7. RunInv'
  BY <1>4, <1>6, SetRun DEF SettingsInv
<1>8. ASSUME PhotoInv PROVE PhotoInv'
  BY <1>4, <1>5, <1>6, <1>8 DEF PhotoInv, FromPhoto, HasPhoto, SettingsInv, RunInv
<1> QED
  BY <1>7, <1>8

LEMMA GuardKeeps ==
  ASSUME SettingsInv, NEW u \in Runs, Guard(u)
  PROVE  RunInv' /\ (PhotoInv => PhotoInv')
<1>1. PICK q : run' = [run EXCEPT ![u] = q] /\ \E p \in {"done", "stopped"} : q = [NoRun EXCEPT !.pc = p]
  BY DEF Guard
<1>2. q \in RunRows /\ Sound(q) /\ q.source # "foto"
  BY <1>1 DEF NoRun, RunRows, Sound, Places, Choice, Executors, None
<1>3. RunInv'
  BY <1>1, <1>2, SetRun DEF SettingsInv
<1>4. photo' = photo
  BY DEF Guard, demand
<1>5. ASSUME PhotoInv PROVE PhotoInv'
  BY <1>1, <1>2, <1>4, <1>5 DEF PhotoInv, FromPhoto, HasPhoto, SettingsInv, RunInv
<1> QED
  BY <1>3, <1>5

\* An agent that ends, or resolves once more from the file as it is now.
LEMMA FinishKeeps ==
  ASSUME SettingsInv, NEW u \in Runs, Finish(u)
  PROVE  RunInv' /\ (PhotoInv => PhotoInv')
<1> DEFINE again == [NoRun EXCEPT !.pc = "rows", !.role = run[u].role, !.demand = run[u].demand,
                                  !.seen = Seen, !.retried = TRUE]
<1>1. run[u] \in RunRows
  BY DEF SettingsInv, RunInv
<1>2. PICK q : run' = [run EXCEPT ![u] = q] /\ q \in {[NoRun EXCEPT !.pc = "done"], again}
  BY DEF Finish
<1>3. Seen \in SeenRows /\ Seen.table[Orchestrator] = "claude"
  BY SeenIsSound DEF SettingsInv
<1>4. run[u].role \in Roles /\ run[u].demand \in Demands
  BY DEF Finish, SettingsInv, RunInv, Sound
<1>5. q \in RunRows /\ Sound(q) /\ q.source # "foto"
  <2> HIDE DEF Seen
  <2> QED
    BY <1>1, <1>2, <1>3, <1>4 DEF NoRun, RunRows, Sound, Places, Choice, Executors, None
<1>6. photo' = photo
  BY DEF Finish, demand
<1>7. RunInv'
  BY <1>2, <1>5, SetRun DEF SettingsInv
<1>8. ASSUME PhotoInv PROVE PhotoInv'
  <2> HIDE DEF again
  <2> QED
    BY <1>2, <1>5, <1>6, <1>8 DEF PhotoInv, FromPhoto, HasPhoto, SettingsInv, RunInv
<1> QED
  BY <1>7, <1>8

-----------------------------------------------------------------------------
(* The invariant.                                                          *)

LEMMA SettingsInvInit == Init => SettingsInv /\ PhotoInv
<1> SUFFICES ASSUME Init PROVE SettingsInv /\ PhotoInv
  OBVIOUS
<1>1. FileInv
  BY SettingsAssumption DEF Init, FileInv, Settings, Table, Default, Choice, Executors,
     Policies, None
<1>2. DemandInv
  BY SettingsAssumption DEF Init, DemandInv, Default, Choice, Executors, None
<1>3. PanelInv
  BY DEF Init, PanelInv, Shows
<1>4. RunInv /\ PhotoInv
  BY NoRunIsRun DEF Init, RunInv, PhotoInv, FromPhoto
<1> QED
  BY <1>1, <1>2, <1>3, <1>4 DEF SettingsInv

\* What saves the file, from a panel or not, leaves the rest as it is.
LEMMA SaveKeeps ==
  ASSUME SettingsInv, PhotoInv, NEW new \in Settings, Table(new)[Orchestrator] # "codex", Write(new),
         NEW E \in SUBSET Editors, panel' = Cleared(E),
         UNCHANGED <<photo, override, closed, run>>
  PROVE  SettingsInv' /\ PhotoInv'
<1>1. FileInv' /\ file'.version = file.version + 1
  BY WriteKeeps DEF SettingsInv
<1>2. PanelInv'
  BY <1>1, PanelsOutlive DEF SettingsInv, FileInv
<1>3. DemandInv' /\ RunInv' /\ PhotoInv'
  BY DEF SettingsInv, DemandInv, RunInv, Sound, PhotoInv, FromPhoto, HasPhoto
<1> QED
  BY <1>1, <1>2, <1>3 DEF SettingsInv

\* The lemma for a step of one run that touches nothing else but caches.
LEMMA RunStepKeeps ==
  ASSUME SettingsInv, RunInv', PhotoInv', UNCHANGED <<file, photo, override, closed, panel>>
  PROVE  SettingsInv' /\ PhotoInv'
BY DEF SettingsInv, FileInv, DemandInv, PanelInv, Shows, Table

LEMMA SettingsInvStep == SettingsInv /\ PhotoInv /\ [Next]_vars => SettingsInv' /\ PhotoInv'
<1> SUFFICES ASSUME SettingsInv, PhotoInv, [Next]_vars PROVE SettingsInv' /\ PhotoInv'
  OBVIOUS
<1>0. /\ file \in Settings /\ panel = Cleared({})
      /\ \A e \in Editors : [panel EXCEPT ![e] = [version |-> 0]] = Cleared({e})
  BY DEF SettingsInv, FileInv, PanelInv, Cleared
<1>1. CASE Migrate
  <2>1. PICK squad \in Executors, orchestrator \in Choice :
          Write(Pinned([file EXCEPT !.squad = squad, !.agents[Orchestrator] = orchestrator]))
    BY <1>1 DEF Migrate
  <2>2. [file EXCEPT !.squad = squad, !.agents[Orchestrator] = orchestrator] \in Settings
    BY <1>0, SettingsAssumption DEF Settings
  <2>3. UNCHANGED <<photo, override, closed, run, panel>>
    BY <1>1 DEF Migrate, demand
  <2> QED
    BY <1>0, <2>1, <2>2, <2>3, PinnedOnClaude, SaveKeeps
<1>2. CASE SaveCli
  <2>1. PICK c \in Change : Save(c[1], c[2])
    BY <1>2 DEF SaveCli
  <2>2. c[1] \in Settings /\ Table(c[1])[Orchestrator] # "codex" /\ Write(c[1])
    BY <1>0, <2>1, ChangesAreSettings DEF Save
  <2>3. UNCHANGED <<photo, override, closed, run, panel>>
    BY <1>2 DEF SaveCli, demand
  <2> QED
    BY <1>0, <2>2, <2>3, SaveKeeps
<1>3. CASE Flip
  <2>1. UNCHANGED <<file, photo, override, closed, panel, run>>
    BY <1>3 DEF Flip, demand
  <2> QED
    BY <2>1, RunStepKeeps DEF SettingsInv, RunInv, Sound, PhotoInv, FromPhoto, HasPhoto
<1>4. ASSUME NEW e \in Editors, Look(e) PROVE SettingsInv' /\ PhotoInv'
  <2>1. panel' = [panel EXCEPT ![e] = file] /\ file.version > 0 /\ UNCHANGED <<file, photo, override, closed, run>>
    BY <1>4 DEF Look, demand
  <2>2. file.version \in Nat
    BY <1>0 DEF Settings
  <2>3. PanelInv'
    BY <1>0, <2>1, <2>2 DEF SettingsInv, PanelInv, Shows
  <2> QED
    BY <2>1, <2>3 DEF SettingsInv, FileInv, Table, DemandInv, RunInv, Sound, PhotoInv,
       FromPhoto, HasPhoto
<1>5. ASSUME NEW e \in Editors, SavePanel(e) PROVE SettingsInv' /\ PhotoInv'
  <2>1. panel' = Cleared({e}) /\ UNCHANGED <<photo, override, closed, run>>
    BY <1>0, <1>5 DEF SavePanel, demand
  <2>2. CASE Current(e)
    <3>1. PICK c \in Change : Save(c[1], c[2])
      BY <1>5, <2>2 DEF SavePanel
    <3>2. c[1] \in Settings /\ Table(c[1])[Orchestrator] # "codex" /\ Write(c[1])
      BY <1>0, <3>1, ChangesAreSettings DEF Save
    <3> QED
      BY <2>1, <3>2, SaveKeeps
  <2>3. CASE ~Current(e)
    <3>1. file' = file
      BY <1>5, <2>3 DEF SavePanel
    <3>2. PanelInv'
      <4> SUFFICES ASSUME NEW p \in Editors PROVE Shows(panel[p])'
        BY <2>1 DEF PanelInv, Cleared
      <4>1. Shows(panel[p])
        BY DEF SettingsInv, PanelInv
      <4> QED
        BY <2>1, <3>1, <4>1 DEF Shows, Cleared
    <3> QED
      BY <2>1, <3>1, <3>2 DEF SettingsInv, FileInv, Table, DemandInv, RunInv, Sound, PhotoInv,
         FromPhoto, HasPhoto
  <2> QED
    BY <2>2, <2>3
<1>6. ASSUME NEW e \in Editors, ApplyAll(e) PROVE SettingsInv' /\ PhotoInv'
  <2>1. PICK x \in Executors : Write(Everyone(x))
    BY <1>6 DEF ApplyAll
  <2>2. [file EXCEPT !.squad = x, !.agents = Default] \in Settings
    BY <1>0 DEF Settings, Default, Choice
  <2>3. Everyone(x) \in Settings /\ Table(Everyone(x))[Orchestrator] # "codex"
    BY <2>2, PinnedOnClaude DEF Everyone
  <2>4. panel' = Cleared({e}) /\ UNCHANGED <<photo, override, closed, run>>
    BY <1>0, <1>6 DEF ApplyAll, demand
  <2> QED
    BY <2>1, <2>3, <2>4, SaveKeeps
<1>7. ASSUME NEW d \in Demands, Close(d) PROVE SettingsInv' /\ PhotoInv'
  BY <1>7 DEF Close, world, SettingsInv, FileInv, Table, DemandInv, PanelInv, Shows, RunInv,
     Sound, PhotoInv, FromPhoto, HasPhoto
<1>8. ASSUME NEW d \in Demands, NEW r \in Roles, SetDemand(d, r) PROVE SettingsInv' /\ PhotoInv'
  <2>1. PICK x \in Choice : ~(r = Orchestrator /\ x = "codex") /\ override' = [override EXCEPT ![d][r] = x]
    BY <1>8 DEF SetDemand
  <2>2. UNCHANGED <<file, photo, closed, panel, run>>
    BY <1>8 DEF SetDemand
  <2>3. DemandInv'
    BY <2>1, <2>2, SettingsAssumption DEF SettingsInv, DemandInv
  <2> QED
    BY <2>2, <2>3 DEF SettingsInv, FileInv, Table, PanelInv, Shows, RunInv, Sound, PhotoInv,
       FromPhoto, HasPhoto
<1>9. ASSUME NEW u \in Runs, NEW r \in Roles, NEW d \in Demands, Load(u, r, d) PROVE SettingsInv' /\ PhotoInv'
  <2>1. UNCHANGED <<file, photo, override, closed, panel>>
    BY <1>9 DEF Load, demand
  <2> QED
    BY <1>9, <2>1, LoadKeeps, RunStepKeeps
<1>10. ASSUME NEW u \in Runs, Rows(u) PROVE SettingsInv' /\ PhotoInv'
  <2>1. UNCHANGED <<file, photo, override, closed, panel>>
    BY <1>10 DEF Rows, demand
  <2> QED
    BY <1>10, <2>1, RowsKeeps, RunStepKeeps
<1>11. ASSUME NEW u \in Runs, TakePhoto(u) PROVE SettingsInv' /\ PhotoInv'
  <2>1. UNCHANGED <<file, override, closed, panel>>
    BY <1>11 DEF TakePhoto
  <2>2. RunInv' /\ DemandInv' /\ PhotoInv'
    BY <1>11, TakePhotoKeeps
  <2> QED
    BY <2>1, <2>2 DEF SettingsInv, FileInv, Table, PanelInv, Shows
<1>12. ASSUME NEW u \in Runs, Check(u) PROVE SettingsInv' /\ PhotoInv'
  <2>1. UNCHANGED <<file, photo, override, closed, panel>>
    BY <1>12 DEF Check, demand
  <2> QED
    BY <1>12, <2>1, CheckKeeps, RunStepKeeps
<1>13. ASSUME NEW u \in Runs, Guard(u) PROVE SettingsInv' /\ PhotoInv'
  <2>1. UNCHANGED <<file, photo, override, closed, panel>>
    BY <1>13 DEF Guard, demand
  <2> QED
    BY <1>13, <2>1, GuardKeeps, RunStepKeeps
<1>14. ASSUME NEW u \in Runs, Finish(u) PROVE SettingsInv' /\ PhotoInv'
  <2>1. UNCHANGED <<file, photo, override, closed, panel>>
    BY <1>14 DEF Finish, demand
  <2> QED
    BY <1>14, <2>1, FinishKeeps, RunStepKeeps
<1>15. CASE UNCHANGED vars
  <2>1. UNCHANGED <<file, photo, override, closed, panel, run>>
    BY <1>15 DEF vars, demand
  <2> QED
    BY <2>1, RunStepKeeps DEF SettingsInv, RunInv, Sound, PhotoInv, FromPhoto, HasPhoto
<1> QED
  BY <1>1, <1>2, <1>3, <1>4, <1>5, <1>6, <1>7, <1>8, <1>9, <1>10, <1>11, <1>12, <1>13, <1>14,
     <1>15 DEF Next

LEMMA Settled == Spec => [](SettingsInv /\ PhotoInv)
<1>1. Init => SettingsInv /\ PhotoInv
  BY SettingsInvInit
<1>2. (SettingsInv /\ PhotoInv) /\ [Next]_vars => (SettingsInv /\ PhotoInv)'
  BY SettingsInvStep
<1> QED
  BY <1>1, <1>2, PTL DEF Spec

\* The Orchestrator is never led to codex: not by the file, a photo, an
\* override nor a stand-in, whoever saves, however often logins come and go.
THEOREM OrchestratorStaysOnClaude == Spec => []OrchestratorOnClaude
<1>1. SettingsInv => OrchestratorOnClaude
  BY DEF SettingsInv, FileInv, DemandInv, RunInv, Sound, OrchestratorOnClaude
<1> QED
  BY <1>1, Settled, PTL

-----------------------------------------------------------------------------
(* The photo and the edits, step by step.                                  *)

\* Only taking the photo of a demand that has none changes one.
LEMMA FirstPhotoStays ==
  SettingsInv /\ [Next]_vars => [\A d \in Demands : HasPhoto(d) => photo'[d] = photo[d]]_photo
<1> SUFFICES ASSUME SettingsInv, Next, photo' # photo
             PROVE  \A d \in Demands : HasPhoto(d) => photo'[d] = photo[d]
  BY DEF vars, demand
<1>1. PICK u \in Runs : TakePhoto(u)
  BY DEF Next, Migrate, SaveCli, Flip, Look, SavePanel, ApplyAll, Close, SetDemand, Load, Rows,
     Check, Guard, Finish, demand
<1> QED
  BY <1>1, TakePhotoKeeps

\* Every run of a step is configured from the one photo of its demand, or by
\* the human's override, whoever saved between the reading and the photo.
THEOREM PhotosStand == Spec => OnePhoto
<1>1. PhotoInv /\ SettingsInv => \A u \in DOMAIN run : run[u].source = "foto" => run[u].configured = photo[run[u].demand][run[u].role]
  BY DEF PhotoInv, FromPhoto, SettingsInv, RunInv
<1>2. SettingsInv /\ [Next]_vars => [\A d \in Demands : HasPhoto(d) => photo'[d] = photo[d]]_photo
  BY FirstPhotoStays
<1> QED
  BY <1>1, <1>2, Settled, PTL DEF Spec, OnePhoto

\* A panel that changes the file changes the one it shows.
LEMMA EditsAreOfTheFile ==
  SettingsInv /\ [Next]_vars =>
    [Content(file)' # Content(file) =>
       \A e \in DOMAIN panel : panel'[e] # panel[e] => Content(panel[e]) = Content(file)]_vars
<1> SUFFICES ASSUME SettingsInv, Next, Content(file)' # Content(file), NEW e \in Editors, panel'[e] # panel[e]
             PROVE  Content(panel[e]) = Content(file)
  BY DEF SettingsInv, PanelInv
<1>1. file' # file /\ panel' # panel
  OBVIOUS
<1>2. PICK f \in Editors : SavePanel(f) \/ ApplyAll(f)
  BY <1>1 DEF Next, Migrate, SaveCli, Flip, Look, Close, SetDemand, Load, Rows, TakePhoto,
     Check, Guard, Finish
<1>3. panel' = [panel EXCEPT ![f] = [version |-> 0]] /\ panel[f].version > 0
  BY <1>2 DEF SavePanel, ApplyAll
<1>4. f = e
  BY <1>3 DEF SettingsInv, PanelInv
<1>5. Current(f)
  BY <1>1, <1>2 DEF SavePanel, ApplyAll
<1>6. Shows(panel[e])
  BY DEF SettingsInv, PanelInv
<1> QED
  BY <1>3, <1>4, <1>5, <1>6 DEF Shows, Current

\* Two panels never overwrite each other silently.
THEOREM NoEditIsLost == Spec => NoLostEdit
<1>1. SettingsInv /\ [Next]_vars =>
        [Content(file)' # Content(file) =>
           \A e \in DOMAIN panel : panel'[e] # panel[e] => Content(panel[e]) = Content(file)]_vars
  BY EditsAreOfTheFile
<1> QED
  BY <1>1, Settled, PTL DEF Spec, NoLostEdit

-----------------------------------------------------------------------------
(* The production update is one of the parts.                              *)

LEMMA ImplementsProduction == ToolsSpec => Production!Spec
<1>1. ToolsInit => Production!Init
  BY DEF ToolsInit
<1>2. [ToolsNext]_allVars => [Production!Next]_(Production!vars)
  BY DEF ToolsNext, allVars, productionVars, Production!vars, Production!copy, Production!docker
<1> QED
  BY <1>1, <1>2, PTL DEF ToolsSpec, Production!Spec

\* Once a finished update has recorded an image as deployed, that image serves in every
\* service the update answers for: all but those its plan did not see, and those that
\* already ran something else (prod.py update, plan_paths, recover).
THEOREM UpdatedIsDeployedAlways == ToolsSpec => UpdatedIsDeployed
BY ImplementsProduction, DeployedIsRunning DEF UpdatedIsDeployed

\* What an update says it rolled back runs the image it had before, where that image was
\* saved and tagged again; what was not, the tools do not promise (prod.py rollback).
THEOREM RolledBackIsRestored == ToolsSpec => RolledBackIsBefore
BY ImplementsProduction, RollbackRestores DEF RolledBackIsBefore

-----------------------------------------------------------------------------
(* Delivery: what each branch has of the log.                              *)

Entries(s) == {s[i] : i \in DOMAIN s}

\* An id is of one event, on whatever branches it is; each `review` is on develop.
EventsInv(logs, n) ==
  /\ \A b \in Delivery!Branches : IsSequence(logs[b]) /\ \A e \in Entries(logs[b]) : e.id \in 1..n
  /\ \A b, c \in Delivery!Branches : \A e \in Entries(logs[b]), f \in Entries(logs[c]) : e.id = f.id => e = f
  /\ \A b \in Delivery!Branches : \A e \in Entries(logs[b]) : e.type = "review" => e \in Entries(logs["develop"])

\* What the log of develop promises.
Approves(e, d) == e.type = "gate" /\ e.of = d /\ e.approve
DevelopInv(s) ==
  /\ \A i, j \in DOMAIN s : i # j /\ s[i].type = "review" /\ s[j].type = "review" => s[i].pr # s[j].pr
  /\ \A i \in DOMAIN s : s[i].type = "review" /\ s[i].of \in Deliveries =>
       \E g \in DOMAIN s : g < i /\ Approves(s[g], s[i].of)

BranchInv ==
  /\ made \in Nat /\ where \in Delivery!Branches
  /\ branchLog = [b \in Delivery!Branches |-> branchLog[b]]
  /\ EventsInv(branchLog, made) /\ DevelopInv(branchLog["develop"])

\* A demand that goes to review has an approving gate in the log of its branch.
StepInv ==
  /\ step.pc = "review" =>
       /\ {"pc", "head"} \subseteq DOMAIN step /\ step.head \in Delivery!Heads
       /\ step.head \in Deliveries => \E e \in Entries(branchLog[step.head]) : Approves(e, step.head)
  /\ step.pc = "align" => step.head \in Deliveries
  /\ step.pc \in {"published", "back"} => step.head \in Releases

DeliveryInv == BranchInv /\ StepInv /\ judged.type # "review"

LEMMA BranchNames ==
  /\ Deliveries \subseteq Delivery!Branches /\ "develop" \in Delivery!Branches
  /\ Delivery!Heads \subseteq Delivery!Branches /\ "develop" \notin Delivery!Heads
  /\ Deliveries \cup Releases \subseteq Delivery!Heads
  /\ \A r \in Releases : Back[r] \in Delivery!Heads /\ Back[r] \notin Deliveries
BY ToolAssumptions DEF Delivery!DeliveryAssumption, Delivery!Branches, Delivery!Heads,
   Delivery!Features

-----------------------------------------------------------------------------
(* The ways in which logs change.                                          *)

\* t goes on from s.
Extends(t, s) ==
  /\ DOMAIN s \subseteq DOMAIN t /\ \A i \in DOMAIN s : t[i] = s[i]
  /\ \A i \in DOMAIN t \ DOMAIN s : \A j \in DOMAIN s : j < i

LEMMA AppendExtends ==
  ASSUME NEW s, IsSequence(s), NEW e
  PROVE  /\ IsSequence(Append(s, e)) /\ Extends(Append(s, e), s)
         /\ \A i \in DOMAIN Append(s, e) \ DOMAIN s : Append(s, e)[i] = e /\ i = Len(s) + 1
         /\ Entries(Append(s, e)) = Entries(s) \cup {e}
<1> DEFINE t == Append(s, e)
<1>1. /\ IsSequence(t) /\ DOMAIN t = DOMAIN s \cup {Len(s) + 1} /\ Len(s) + 1 \notin DOMAIN s
      /\ (\A j \in DOMAIN s : t[j] = s[j]) /\ t[Len(s) + 1] = e
  BY Appended
<1>2. DOMAIN s = 1..Len(s) /\ Len(s) \in Nat
  BY DomainOf
<1> HIDE DEF t
<1>3. Extends(t, s)
  BY <1>1, <1>2 DEF Extends
<1>4. Entries(t) = Entries(s) \cup {e}
  BY <1>1 DEF Entries
<1> QED
  BY <1>1, <1>3, <1>4 DEF t

LEMMA JoinExtends ==
  ASSUME NEW s, IsSequence(s), NEW r, IsSequence(r)
  PROVE  /\ IsSequence(s \o r) /\ Extends(s \o r, s)
         /\ \A i \in DOMAIN (s \o r) \ DOMAIN s : (s \o r)[i] \in Entries(r)
         /\ Entries(s \o r) = Entries(s) \cup Entries(r)
<1> DEFINE t == s \o r
           n == Len(s)
           k == Len(r)
<1>1. IsSequence(t) /\ Len(t) = n + k /\ \A i \in 1..n + k : t[i] = IF i <= n THEN s[i] ELSE r[i - n]
  BY Concatenated
<1>2. DOMAIN t = 1..Len(t) /\ DOMAIN s = 1..n /\ DOMAIN r = 1..k /\ n \in Nat /\ k \in Nat
  BY <1>1, DomainOf
<1> HIDE DEF t, n, k
<1>3. \A i \in DOMAIN s : i \in DOMAIN t /\ t[i] = s[i]
  BY <1>1, <1>2
<1>4. \A i \in DOMAIN t \ DOMAIN s : n < i /\ i - n \in DOMAIN r /\ t[i] = r[i - n]
  BY <1>1, <1>2
<1>5. ASSUME NEW j \in DOMAIN r PROVE n + j \in DOMAIN t /\ t[n + j] = r[j]
  <2>1. n + j \in 1..n + k /\ ~ n + j <= n /\ (n + j) - n = j
    BY <1>2
  <2> QED
    BY <1>1, <1>2, <2>1
<1>6. Extends(t, s)
  BY <1>2, <1>3, <1>4 DEF Extends
<1>7. Entries(t) = Entries(s) \cup Entries(r)
  <2>1. \A i \in DOMAIN t : t[i] \in Entries(s) \cup Entries(r)
    BY <1>3, <1>4 DEF Entries
  <2>2. (\A i \in DOMAIN s : s[i] \in Entries(t)) /\ \A j \in DOMAIN r : r[j] \in Entries(t)
    BY <1>3, <1>5 DEF Entries
  <2> QED
    BY <2>1, <2>2 DEF Entries
<1> QED
  BY <1>1, <1>4, <1>6, <1>7 DEF t, Entries

LEMMA DeliveryCounts ==
  ASSUME NEW S
  PROVE  Delivery!Cardinality(S) = Cardinality(S)
BY DEF Delivery!Cardinality, Cardinality, Delivery!IsFiniteSet, IsFiniteSet

\* What is kept of a sequence.
LEMMA KeptIs ==
  ASSUME NEW s, IsSequence(s), NEW S, S \subseteq DOMAIN s
  PROVE  IsSequence(Delivery!Kept(s, S)) /\ Entries(Delivery!Kept(s, S)) = {s[x] : x \in S}
<1> DEFINE k == Cardinality(S)
           o == InOrder(S)
           r == Delivery!Kept(s, S)
<1>1. S \subseteq Nat /\ IsFiniteSet(S)
  BY DomainOf, FS_Subset
<1>2. k \in Nat /\ o \in [1..k -> S] /\ \A x \in S : \E i \in 1..k : o[i] = x
  BY <1>1, InOrderIs
<1>3. Delivery!Cardinality(S) = k
  BY DeliveryCounts
<1>4. Delivery!InOrder(S) = o
  BY <1>3, Zenon DEF Delivery!InOrder, InOrder
<1>5. r = [i \in 1..k |-> s[o[i]]]
  BY <1>3, <1>4 DEF Delivery!Kept
<1> HIDE DEF k, o, r
<1>6. IsSequence(r)
  BY <1>2, <1>5 DEF IsSequence
<1>7. Entries(r) = {s[x] : x \in S}
  BY <1>2, <1>5 DEF Entries
<1> QED
  BY <1>6, <1>7 DEF r

\* Each branch has what some branch had, or the events E, of which there is one at most.
EventsFlow(logs, n, next, k, E) ==
  /\ n \in Nat /\ k \in Nat /\ n <= k
  /\ (\A e \in E : e.id \in n + 1..k) /\ \A e, f \in E : e = f
  /\ \A b \in Delivery!Branches :
       /\ IsSequence(next[b])
       /\ \A e \in Entries(next[b]) : e \in E \/ \E c \in Delivery!Branches : e \in Entries(logs[c])
  /\ Entries(logs["develop"]) \subseteq Entries(next["develop"])
  /\ \A e \in E : e.type = "review" => e \in Entries(next["develop"])

LEMMA EventsGo ==
  ASSUME NEW logs, NEW n, NEW next, NEW k, NEW E, EventsFlow(logs, n, next, k, E), EventsInv(logs, n)
  PROVE  EventsInv(next, k)
<1> USE DEF EventsFlow
<1>1. ASSUME NEW b \in Delivery!Branches, NEW e \in Entries(next[b]) PROVE e.id \in 1..k
  <2>1. CASE e \in E
    BY <2>1
  <2>2. CASE e \notin E
    <3>1. e.id \in 1..n
      BY <1>1, <2>2 DEF EventsInv
    <3> QED
      BY <3>1
  <2> QED
    BY <2>1, <2>2
<1>2. ASSUME NEW b \in Delivery!Branches, NEW c \in Delivery!Branches,
             NEW e \in Entries(next[b]), NEW f \in Entries(next[c]), e.id = f.id
      PROVE  e = f
  <2>1. \A g \in E : ~ g.id \in 1..n
    OBVIOUS
  <2>2. \A g \in {e, f} : g \in E \/ (g.id \in 1..n /\ \E a \in Delivery!Branches : g \in Entries(logs[a]))
    BY DEF EventsInv
  <2>3. CASE e \in E /\ f \in E
    BY <2>3
  <2>4. CASE e \notin E /\ f \notin E
    BY <1>2, <2>2, <2>4 DEF EventsInv
  <2> QED
    BY <1>2, <2>1, <2>2, <2>3, <2>4
<1>3. \A b \in Delivery!Branches : \A e \in Entries(next[b]) : e.type = "review" => e \in Entries(next["develop"])
  BY DEF EventsInv
<1> QED
  BY <1>1, <1>2, <1>3 DEF EventsInv

\* The log of develop goes on without a `review`.
LEMMA DevelopGrows ==
  ASSUME NEW s, DevelopInv(s), NEW t, Extends(t, s), \A i \in DOMAIN t \ DOMAIN s : t[i].type # "review"
  PROVE  DevelopInv(t)
<1>1. \A i \in DOMAIN s : i \in DOMAIN t /\ t[i] = s[i]
  BY DEF Extends
<1>2. \A i \in DOMAIN t : t[i].type = "review" => i \in DOMAIN s
  OBVIOUS
<1> QED
  BY <1>1, <1>2 DEF DevelopInv

\* The `review` of a PR that has none, of a demand that is approved.
LEMMA ReviewAppended ==
  ASSUME NEW s, IsSequence(s), DevelopInv(s), NEW e, e.type = "review",
         \A i \in DOMAIN s : s[i].type = "review" => s[i].pr # e.pr,
         e.of \in Deliveries => \E g \in Entries(s) : Approves(g, e.of)
  PROVE  DevelopInv(Append(s, e))
<1> DEFINE t == Append(s, e)
<1>1. Extends(t, s) /\ \A i \in DOMAIN t \ DOMAIN s : t[i] = e /\ i = Len(s) + 1
  BY AppendExtends
<1> HIDE DEF t
<1>2. \A i \in DOMAIN s : i \in DOMAIN t /\ t[i] = s[i]
  BY <1>1 DEF Extends
<1>3. ASSUME NEW i \in DOMAIN t, NEW j \in DOMAIN t, i # j, t[i].type = "review", t[j].type = "review"
      PROVE  t[i].pr # t[j].pr
  BY <1>1, <1>2, <1>3 DEF DevelopInv
<1>4. ASSUME NEW i \in DOMAIN t, t[i].type = "review", t[i].of \in Deliveries
      PROVE  \E g \in DOMAIN t : g < i /\ Approves(t[g], t[i].of)
  <2>1. CASE i \in DOMAIN s
    BY <1>2, <1>4, <2>1 DEF DevelopInv
  <2>2. CASE i \notin DOMAIN s
    <3>1. t[i] = e /\ \A j \in DOMAIN s : j < i
      BY <1>1, <2>2 DEF Extends
    <3>2. PICK g \in DOMAIN s : Approves(s[g], e.of)
      BY <1>4, <3>1 DEF Entries
    <3> QED
      BY <1>2, <3>1, <3>2
  <2> QED
    BY <2>1, <2>2
<1>5. DevelopInv(t)
  BY <1>3, <1>4 DEF DevelopInv
<1> QED
  BY <1>5 DEF t

\* One event, which is no `review`, on one branch; branches other than develop may go.
LEMMA WriteStep ==
  ASSUME BranchInv, NEW x \in Delivery!Branches, NEW gone, "develop" \notin gone,
         NEW e, e.id = made + 1, e.type # "review", made' = made + 1, where' \in Delivery!Branches,
         branchLog' = [b \in Delivery!Branches |->
                         IF b = x THEN Append(branchLog[b], e) ELSE IF b \in gone THEN << >> ELSE branchLog[b]]
  PROVE  /\ BranchInv'
         /\ \A b \in Delivery!Branches \ gone : Entries(branchLog[b]) \subseteq Entries(branchLog'[b])
<1>1. /\ made \in Nat /\ EventsInv(branchLog, made) /\ DevelopInv(branchLog["develop"])
      /\ \A b \in Delivery!Branches : IsSequence(branchLog[b])
  BY DEF BranchInv, EventsInv
<1>2. IsSequence(<< >>) /\ Entries(<< >>) = {}
  BY DEF IsSequence, Entries
<1>3. \A b \in Delivery!Branches : /\ IsSequence(Append(branchLog[b], e))
                                   /\ Entries(Append(branchLog[b], e)) = Entries(branchLog[b]) \cup {e}
  BY <1>1, AppendExtends
<1>4. \A b \in Delivery!Branches : /\ IsSequence(branchLog'[b])
                                   /\ Entries(branchLog'[b]) \subseteq Entries(branchLog[b]) \cup {e}
                                   /\ b \notin gone => Entries(branchLog[b]) \subseteq Entries(branchLog'[b])
  <2> SUFFICES ASSUME NEW b \in Delivery!Branches
               PROVE  /\ IsSequence(branchLog'[b])
                      /\ Entries(branchLog'[b]) \subseteq Entries(branchLog[b]) \cup {e}
                      /\ b \notin gone => Entries(branchLog[b]) \subseteq Entries(branchLog'[b])
    OBVIOUS
  <2>1. branchLog'[b] = IF b = x THEN Append(branchLog[b], e) ELSE IF b \in gone THEN << >> ELSE branchLog[b]
    OBVIOUS
  <2> QED
    BY <1>1, <1>2, <1>3, <2>1
<1>5. EventsInv(branchLog', made')
  <2> DEFINE E == {e}
  <2>1. (\A f \in E : f.id \in made + 1..made') /\ (\A f, g \in E : f = g) /\ made' \in Nat /\ made <= made'
    BY <1>1
  <2>2. \A b \in Delivery!Branches : \A f \in Entries(branchLog'[b]) :
          f \in E \/ \E c \in Delivery!Branches : f \in Entries(branchLog[c])
    BY <1>4
  <2>3. Entries(branchLog["develop"]) \subseteq Entries(branchLog'["develop"])
    BY <1>4, BranchNames
  <2>4. \A f \in E : f.type # "review"
    OBVIOUS
  <2> HIDE DEF E
  <2>5. EventsFlow(branchLog, made, branchLog', made', E)
    BY <1>1, <1>4, <2>1, <2>2, <2>3, <2>4 DEF EventsFlow
  <2> QED
    BY <1>1, <2>5, EventsGo
<1>6. DevelopInv(branchLog'["develop"])
  <2>1. branchLog'["develop"] \in {branchLog["develop"], Append(branchLog["develop"], e)}
    BY BranchNames
  <2>2. /\ Extends(Append(branchLog["develop"], e), branchLog["develop"])
        /\ \A i \in DOMAIN Append(branchLog["develop"], e) \ DOMAIN branchLog["develop"] :
             Append(branchLog["develop"], e)[i] = e
    BY <1>1, AppendExtends, BranchNames
  <2>3. DevelopInv(Append(branchLog["develop"], e))
    <3> DEFINE s == branchLog["develop"]
               t == Append(s, e)
    <3>1. DevelopInv(s) /\ Extends(t, s) /\ \A i \in DOMAIN t \ DOMAIN s : t[i].type # "review"
      BY <1>1, <2>2
    <3> HIDE DEF s, t
    <3>2. DevelopInv(t)
      BY <3>1, DevelopGrows
    <3> QED
      BY <3>2 DEF s, t
  <2> QED
    BY <1>1, <2>1, <2>3
<1>7. branchLog' = [b \in Delivery!Branches |-> branchLog'[b]] /\ made' \in Nat
  BY <1>1
<1> QED
  BY <1>4, <1>5, <1>6, <1>7 DEF BranchInv

\* A branch takes the log of develop (feature-start, align_memory, the back-merge).
LEMMA CopyStep ==
  ASSUME BranchInv, NEW h \in Delivery!Heads, branchLog' = [branchLog EXCEPT ![h] = branchLog["develop"]],
         made' = made, where' \in Delivery!Branches
  PROVE  BranchInv'
<1>1. made \in Nat /\ EventsInv(branchLog, made) /\ h \in Delivery!Branches /\ h # "develop"
      /\ branchLog = [b \in Delivery!Branches |-> branchLog[b]] /\ "develop" \in Delivery!Branches
  BY BranchNames DEF BranchInv
<1>2. \A b \in Delivery!Branches : branchLog'[b] = IF b = h THEN branchLog["develop"] ELSE branchLog[b]
  BY <1>1
<1>3. branchLog' = [b \in Delivery!Branches |-> branchLog'[b]] /\ branchLog'["develop"] = branchLog["develop"]
  BY <1>1, <1>2
<1>4. EventsInv(branchLog', made')
  <2>1. made \in Nat /\ made <= made
    BY <1>1
  <2>2. \A b \in Delivery!Branches : IsSequence(branchLog'[b])
    BY <1>1, <1>2 DEF EventsInv
  <2>3. \A b \in Delivery!Branches : \A e \in Entries(branchLog'[b]) :
          e \in {} \/ \E c \in Delivery!Branches : e \in Entries(branchLog[c])
    BY <1>1, <1>2
  <2>4. Entries(branchLog["develop"]) \subseteq Entries(branchLog'["develop"])
    BY <1>3
  <2>5. EventsFlow(branchLog, made, branchLog', made', {})
    BY <2>1, <2>2, <2>3, <2>4 DEF EventsFlow
  <2> QED
    BY <1>1, <2>5, EventsGo
<1> QED
  BY <1>1, <1>3, <1>4 DEF BranchInv

LEMMA BranchesStay ==
  ASSUME BranchInv, UNCHANGED <<branchLog, made>>, where' \in Delivery!Branches
  PROVE  BranchInv'
BY DEF BranchInv

-----------------------------------------------------------------------------
(* One step of the delivery.                                               *)

LEMMA AtRest ==
  ASSUME step'.pc = "idle"
  PROVE  StepInv'
BY DEF StepInv

\* What is under way stays so while logs only grow.
LEMMA StepStays ==
  ASSUME StepInv, step' = step, \A b \in Delivery!Heads : Entries(branchLog[b]) \subseteq Entries(branchLog'[b])
  PROVE  StepInv'
BY DEF StepInv

LEMMA EventWritten ==
  ASSUME DeliveryInv, NEW e, Delivery!Write(e), e.id = made + 1, e.type # "review", UNCHANGED where
  PROVE  BranchInv' /\ \A b \in Delivery!Heads : Entries(branchLog[b]) \subseteq Entries(branchLog'[b])
<1>1. where \in Delivery!Branches /\ made' = made + 1 /\ branchLog = [b \in Delivery!Branches |-> branchLog[b]]
  BY DEF Delivery!Write, DeliveryInv, BranchInv
<1>2. branchLog' = [b \in Delivery!Branches |->
                      IF b = where THEN Append(branchLog[b], e) ELSE IF b \in {} THEN << >> ELSE branchLog[b]]
  BY <1>1 DEF Delivery!Write
<1>3. PICK gone : gone = {}
  OBVIOUS
<1>4. "develop" \notin gone /\ where' \in Delivery!Branches /\ BranchInv
      /\ branchLog' = [b \in Delivery!Branches |->
                         IF b = where THEN Append(branchLog[b], e) ELSE IF b \in gone THEN << >> ELSE branchLog[b]]
  BY <1>1, <1>2, <1>3 DEF DeliveryInv
<1>5. BranchInv' /\ \A b \in Delivery!Branches \ gone : Entries(branchLog[b]) \subseteq Entries(branchLog'[b])
  BY <1>1, <1>4, WriteStep
<1> QED
  BY <1>3, <1>5, BranchNames

LEMMA RecordStep ==
  ASSUME DeliveryInv,
         Delivery!Progress \/ Delivery!RecordGate \/ \E d \in Deliveries : Delivery!Verify(d)
  PROVE  DeliveryInv'
<1>1. PICK e : Delivery!Write(e) /\ e.id = made + 1 /\ e.type # "review"
  <2>1. CASE Delivery!Progress
    <3> DEFINE e == Delivery!Event("progress", where, 0)
    <3>1. Delivery!Write(e) /\ e.id = made + 1 /\ e.type = "progress"
      BY <2>1 DEF Delivery!Progress, Delivery!Event
    <3> QED
      BY <3>1
  <2>2. CASE Delivery!RecordGate
    <3> DEFINE e == [Delivery!Event(judged.type, judged.of, 0) EXCEPT !.approve = judged.approve]
    <3>1. e.id = made + 1 /\ e.type = judged.type
      BY DEF Delivery!Event
    <3>2. Delivery!Write(e)
      BY <2>2 DEF Delivery!RecordGate
    <3> QED
      BY <3>1, <3>2 DEF DeliveryInv
  <2>3. ASSUME NEW d \in Deliveries, Delivery!Verify(d)
        PROVE  \E e : Delivery!Write(e) /\ e.id = made + 1 /\ e.type # "review"
    <3> DEFINE e == Delivery!Event("evidence", d, 0)
    <3>1. Delivery!Write(e) /\ e.id = made + 1 /\ e.type = "evidence"
      BY <2>3 DEF Delivery!Verify, Delivery!Event
    <3> QED
      BY <3>1
  <2> QED
    BY <2>1, <2>2, <2>3
<1>2. UNCHANGED <<where, step>> /\ (judged' = judged \/ judged'.type = "none")
  BY DEF Delivery!Progress, Delivery!RecordGate, Delivery!Verify, Delivery!NoOpinion
<1>3. BranchInv' /\ \A b \in Delivery!Heads : Entries(branchLog[b]) \subseteq Entries(branchLog'[b])
  BY <1>1, <1>2, EventWritten
<1>4. StepInv'
  BY <1>2, <1>3, StepStays DEF DeliveryInv
<1> QED
  BY <1>2, <1>3, <1>4 DEF DeliveryInv

LEMMA JudgeStep ==
  ASSUME DeliveryInv, NEW d \in Deliveries, Delivery!Judge(d)
  PROVE  DeliveryInv'
<1>1. UNCHANGED <<where, branchLog, step, made>> /\ judged'.type \in {"progress", "gate"}
  BY DEF Delivery!Judge
<1> QED
  BY <1>1, BranchesStay, StepStays DEF DeliveryInv, BranchInv

LEMMA StartStep ==
  ASSUME DeliveryInv, NEW h \in Delivery!Features \cup Releases, Delivery!Start(h)
  PROVE  DeliveryInv'
<1>1. /\ branchLog' = [branchLog EXCEPT ![h] = branchLog["develop"]] /\ where' = h
      /\ UNCHANGED <<step, made, judged>> /\ step.pc = "idle"
  BY DEF Delivery!Start, Delivery!Idle
<1>2. h \in Delivery!Heads /\ h \in Delivery!Branches
  BY BranchNames DEF Delivery!Features
<1> QED
  BY <1>1, <1>2, CopyStep, AtRest DEF DeliveryInv

LEMMA SwitchStep ==
  ASSUME DeliveryInv, NEW b \in Delivery!Branches, Delivery!Switch(b)
  PROVE  DeliveryInv'
<1>1. where' = b /\ UNCHANGED <<branchLog, step, made, judged>> /\ step.pc = "idle"
  BY DEF Delivery!Switch, Delivery!Idle
<1> QED
  BY <1>1, BranchesStay, AtRest DEF DeliveryInv

\* A feature is finished on an approving gate, the last of its branch.
LEMMA FinishStep ==
  ASSUME DeliveryInv, NEW h \in Delivery!Features \cup Releases, Delivery!Finish(h)
  PROVE  DeliveryInv'
<1>1. /\ h \in Delivery!Heads /\ where = h /\ UNCHANGED <<branchLog, where, made, judged>>
      /\ step'.pc = "review" /\ step'.head = h /\ {"pc", "head"} \subseteq DOMAIN step'
      /\ h \in Deliveries => Delivery!G3Approved(h)
  BY BranchNames DEF Delivery!Features, Delivery!Finish
<1>2. ASSUME h \in Deliveries PROVE \E e \in Entries(branchLog[h]) : Approves(e, h)
  <2> DEFINE s == branchLog[h]
             gates == Delivery!Events(where, "gate", h)
  <2>1. gates # {} /\ s[Delivery!Max(gates)].approve
    BY <1>1, <1>2 DEF Delivery!G3Approved
  <2>2. IsSequence(s)
    BY <1>2, BranchNames DEF DeliveryInv, BranchInv, EventsInv
  <2>3. \A i \in gates : i \in DOMAIN s /\ s[i].type = "gate" /\ s[i].of = h
    BY <1>1 DEF Delivery!Events
  <2> HIDE DEF gates, s
  <2>4. gates \subseteq Nat /\ Len(s) \in Nat /\ \A i \in gates : i <= Len(s)
    BY <2>2, <2>3, DomainOf
  <2>5. PICK g \in gates : \A i \in gates : i <= g
    BY <2>1, <2>4, GreatestElement
  <2>6. PICK m : m = Delivery!Max(gates)
    OBVIOUS
  <2>7. m \in gates
    <3>1. \E x \in gates : \A y \in gates : x >= y
      BY <2>4, <2>5
    <3> QED
      BY <2>6, <3>1 DEF Delivery!Max
  <2>8. Approves(s[m], h) /\ s[m] \in Entries(s)
    BY <2>1, <2>3, <2>6, <2>7 DEF Approves, Entries
  <2> QED
    BY <2>8 DEF s
<1>3. StepInv'
  BY <1>1, <1>2 DEF StepInv
<1> QED
  BY <1>1, <1>3, BranchesStay DEF DeliveryInv, BranchInv

\* What is imported is no `review`, and an approving gate of the branch is there after.
LEMMA ReviewFinds ==
  ASSUME DeliveryInv, step.pc = "review", NEW r,
         r = IF step.head \in Delivery!Features THEN Delivery!Imported(step.head) ELSE << >>
  PROVE  /\ IsSequence(r) /\ (\A e \in Entries(r) : e.type # "review")
         /\ \A e \in Entries(r) : \E b \in Delivery!Branches : e \in Entries(branchLog[b])
         /\ step.head \in Deliveries =>
              \E e \in Entries(branchLog["develop"]) \cup Entries(r) : Approves(e, step.head)
<1>1. CASE step.head \notin Deliveries
  <2>1. r = << >>
    BY <1>1 DEF Delivery!Features
  <2> QED
    BY <1>1, <2>1 DEF IsSequence, Entries
<1>2. CASE step.head \in Deliveries
  <2> DEFINE h == step.head
             own == branchLog[h]
             dev == branchLog["develop"]
             S == Delivery!Missing(h)
  <2>1. h \in Delivery!Branches /\ "develop" \in Delivery!Branches /\ IsSequence(own)
    BY <1>2, BranchNames DEF DeliveryInv, BranchInv, EventsInv
  <2>2. PICK e \in Entries(own) : Approves(e, h)
    BY <1>2 DEF DeliveryInv, StepInv
  <2>3. r = Delivery!Kept(own, S)
    BY <1>2 DEF Delivery!Features, Delivery!Imported
  <2>4. S \subseteq DOMAIN own /\ \A i \in DOMAIN own : i \in S \/ \E f \in Entries(dev) : f.id = own[i].id
    BY DEF Delivery!Missing, Entries
  <2>5. \A i \in S : \A f \in Entries(dev) : f.id # own[i].id
    BY DEF Delivery!Missing, Entries
  <2>6. EventsInv(branchLog, made)
    BY DEF DeliveryInv, BranchInv
  <2> HIDE DEF S, h
  <2>7. IsSequence(r) /\ Entries(r) = {own[x] : x \in S}
    <3> HIDE DEF own
    <3> QED
      BY <2>1, <2>3, <2>4, KeptIs
  <2>8. \A x \in S : own[x] \in Entries(own)
    BY <2>4 DEF Entries
  <2>9. \A x \in S : own[x].type # "review"
    BY <2>1, <2>5, <2>6, <2>8 DEF EventsInv
  <2>10. e \in Entries(r) \/ e \in Entries(dev)
    <3>1. PICK i \in DOMAIN own : own[i] = e
      BY <2>2 DEF Entries
    <3>2. CASE i \in S
      BY <2>7, <3>1, <3>2
    <3>3. CASE i \notin S
      <4>1. PICK f \in Entries(dev) : f.id = e.id
        BY <2>4, <3>1, <3>3
      <4>2. f = e
        BY <2>1, <2>6, <4>1 DEF EventsInv
      <4> QED
        BY <4>1, <4>2
    <3> QED
      BY <3>2, <3>3
  <2> QED
    BY <2>1, <2>2, <2>7, <2>8, <2>9, <2>10 DEF h
<1> QED
  BY <1>1, <1>2

\* The log of develop takes what it lacks, and one `review` if the PR has none.
LEMMA OpenReviewLogs ==
  ASSUME DeliveryInv, Delivery!OpenReview
  PROVE  BranchInv'
<1> DEFINE h == step.head
           dev == branchLog["develop"]
           r == IF h \in Delivery!Features THEN Delivery!Imported(h) ELSE << >>
           joined == dev \o r
           e == Delivery!Event("review", h, step.pr)
<1>1. /\ made \in Nat /\ EventsInv(branchLog, made) /\ DevelopInv(dev) /\ "develop" \in Delivery!Branches
      /\ branchLog = [b \in Delivery!Branches |-> branchLog[b]]
  BY BranchNames DEF DeliveryInv, BranchInv
<1>2. step.pc = "review" /\ where' = "develop"
  BY DEF Delivery!OpenReview
<1>3. /\ IsSequence(r) /\ (\A f \in Entries(r) : f.type # "review")
      /\ \A f \in Entries(r) : \E b \in Delivery!Branches : f \in Entries(branchLog[b])
      /\ h \in Deliveries => \E f \in Entries(dev) \cup Entries(r) : Approves(f, h)
  BY <1>2, ReviewFinds
<1>4. e.id = made + 1 /\ e.type = "review" /\ e.of = h /\ e.pr = step.pr
  BY DEF Delivery!Event
<1>5. IF Delivery!AlreadyReviewed(joined, step.pr)
        THEN branchLog' = [branchLog EXCEPT !["develop"] = joined] /\ made' = made
        ELSE branchLog' = [branchLog EXCEPT !["develop"] = Append(joined, e)] /\ made' = made + 1
  BY DEF Delivery!OpenReview
<1>6. IsSequence(dev)
  BY <1>1 DEF EventsInv
<1> HIDE DEF e, r, h, dev
<1>7. /\ IsSequence(joined) /\ Extends(joined, dev) /\ Entries(joined) = Entries(dev) \cup Entries(r)
      /\ \A i \in DOMAIN joined \ DOMAIN dev : joined[i] \in Entries(r)
  BY <1>3, <1>6, JoinExtends
<1> HIDE DEF joined
<1>8. DevelopInv(joined)
  BY <1>1, <1>3, <1>7, DevelopGrows
<1>9. PICK t : branchLog' = [branchLog EXCEPT !["develop"] = t] /\ t \in {joined, Append(joined, e)}
                 /\ IF t = joined /\ Delivery!AlreadyReviewed(joined, step.pr) THEN made' = made
                    ELSE made' = made + 1 /\ t = Append(joined, e) /\ ~Delivery!AlreadyReviewed(joined, step.pr)
  BY <1>5
<1>10. /\ \A b \in Delivery!Branches : branchLog'[b] = IF b = "develop" THEN t ELSE branchLog[b]
       /\ branchLog' = [b \in Delivery!Branches |-> branchLog'[b]]
  BY <1>1, <1>9
<1>11. IsSequence(Append(joined, e)) /\ Entries(Append(joined, e)) = Entries(joined) \cup {e}
  BY <1>7, AppendExtends
<1>12. DevelopInv(t)
  <2>1. CASE t = joined
    BY <1>8, <2>1
  <2>2. CASE t = Append(joined, e) /\ ~Delivery!AlreadyReviewed(joined, step.pr)
    <3>1. \A i \in DOMAIN joined : joined[i].type = "review" => joined[i].pr # e.pr
      BY <1>4, <2>2 DEF Delivery!AlreadyReviewed
    <3>2. e.of \in Deliveries => \E g \in Entries(joined) : Approves(g, e.of)
      BY <1>3, <1>4, <1>7
    <3> QED
      BY <1>4, <1>7, <1>8, <2>2, <3>1, <3>2, ReviewAppended
  <2> QED
    BY <1>9, <2>1, <2>2
<1>13. EventsInv(branchLog', made')
  <2>1. PICK E : E = IF made' = made THEN {} ELSE {e}
    OBVIOUS
  <2>2. made' \in Nat /\ made <= made' /\ (\A f \in E : f.id \in made + 1..made') /\ \A f, g \in E : f = g
    BY <1>1, <1>4, <1>9, <2>1
  <2>3. IsSequence(t) /\ Entries(t) \subseteq Entries(dev) \cup Entries(r) \cup E /\ Entries(dev) \cup E \subseteq Entries(t)
    <3>1. CASE t = joined /\ made' = made
      BY <1>7, <2>1, <3>1
    <3>2. CASE t = Append(joined, e) /\ made' = made + 1
      BY <1>1, <1>7, <1>11, <2>1, <3>2
    <3> QED
      BY <1>9, <3>1, <3>2
  <2>4. \A b \in Delivery!Branches : IsSequence(branchLog'[b])
    BY <1>1, <1>10, <2>3 DEF EventsInv
  <2>5. ASSUME NEW b \in Delivery!Branches, NEW f \in Entries(branchLog'[b])
        PROVE  f \in E \/ \E c \in Delivery!Branches : f \in Entries(branchLog[c])
    <3>1. CASE b = "develop"
      BY <1>1, <1>3, <1>10, <2>3, <2>5, <3>1 DEF dev
    <3>2. CASE b # "develop"
      BY <1>10, <2>5, <3>2
    <3> QED
      BY <3>1, <3>2
  <2>6. /\ Entries(branchLog["develop"]) \subseteq Entries(branchLog'["develop"])
        /\ \A f \in E : f \in Entries(branchLog'["develop"])
    BY <1>1, <1>10, <2>3 DEF dev
  <2>7. EventsFlow(branchLog, made, branchLog', made', E)
    BY <1>1, <2>2, <2>4, <2>5, <2>6 DEF EventsFlow
  <2> QED
    BY <1>1, <2>7, EventsGo
<1>14. made' \in Nat
  BY <1>1, <1>9
<1> QED
  BY <1>1, <1>2, <1>10, <1>12, <1>13, <1>14 DEF BranchInv

LEMMA OpenReviewStep ==
  ASSUME DeliveryInv, Delivery!OpenReview
  PROVE  DeliveryInv'
<1>1. step.pc = "review" /\ judged' = judged
      /\ step' = IF step.head \in Deliveries THEN [step EXCEPT !.pc = "align"] ELSE Delivery!NoStep
  BY DEF Delivery!OpenReview, Delivery!Features
<1>2. CASE step.head \in Deliveries
  <2>1. step'.pc = "align" /\ step'.head = step.head
    BY <1>1, <1>2 DEF DeliveryInv, StepInv
  <2> QED
    BY <1>1, <1>2, <2>1, OpenReviewLogs DEF StepInv, DeliveryInv
<1>3. CASE step.head \notin Deliveries
  BY <1>1, <1>3, AtRest, OpenReviewLogs DEF Delivery!NoStep, DeliveryInv
<1> QED
  BY <1>2, <1>3

LEMMA AlignStep ==
  ASSUME DeliveryInv, Delivery!Align
  PROVE  DeliveryInv'
<1>1. /\ branchLog' = [branchLog EXCEPT ![step.head] = branchLog["develop"]] /\ where' = "develop"
      /\ UNCHANGED <<made, judged>> /\ step'.pc = "idle" /\ step.pc = "align"
  BY DEF Delivery!Align, Delivery!NoStep
<1>2. step.head \in Delivery!Heads
  BY <1>1, BranchNames DEF DeliveryInv, StepInv
<1> QED
  BY <1>1, <1>2, CopyStep, AtRest, BranchNames DEF DeliveryInv

LEMMA BackMergeStep ==
  ASSUME DeliveryInv, Delivery!BackMerge
  PROVE  DeliveryInv'
<1> DEFINE h == Back[step.head]
<1>1. /\ branchLog' = [branchLog EXCEPT ![h] = branchLog["develop"]] /\ where' = h
      /\ UNCHANGED <<made, judged>> /\ step.pc = "back"
      /\ step'.pc = "review" /\ step'.head = h /\ {"pc", "head"} \subseteq DOMAIN step'
  BY DEF Delivery!BackMerge
<1>2. h \in Delivery!Heads /\ h \notin Deliveries /\ h \in Delivery!Branches
  BY <1>1, BranchNames DEF DeliveryInv, StepInv
<1> HIDE DEF h
<1>3. StepInv'
  BY <1>1, <1>2 DEF StepInv
<1> QED
  BY <1>1, <1>2, <1>3, CopyStep DEF DeliveryInv

LEMMA ReviewSyncStep ==
  ASSUME DeliveryInv, NEW h \in Delivery!Heads, Delivery!ReviewSync(h)
  PROVE  DeliveryInv'
<1> DEFINE i == Delivery!LastReview(h)
           merged == prs[i].state = "MERGED"
           e == Delivery!Event(IF merged THEN "delivered" ELSE "review-rejected", h, i)
           gone == IF merged /\ h \in Delivery!Features THEN {h} ELSE {}
<1>1. step.pc = "idle" /\ UNCHANGED <<where, step, judged>> /\ made' = made + 1
  BY DEF Delivery!ReviewSync, Delivery!Idle
<1>2. branchLog' = [b \in Delivery!Branches |->
                      IF b = where THEN Append(branchLog[b], e)
                      ELSE IF b = h /\ merged /\ h \in Delivery!Features THEN << >> ELSE branchLog[b]]
  BY DEF Delivery!ReviewSync
<1>3. e.id = made + 1 /\ e.type # "review"
  BY DEF Delivery!Event
<1>4. where \in Delivery!Branches /\ "develop" \notin gone
  BY BranchNames DEF DeliveryInv, BranchInv
<1>5. \A b : b \in gone <=> b = h /\ merged /\ h \in Delivery!Features
  OBVIOUS
<1> HIDE DEF e, gone, merged, i
<1>6. branchLog' = [b \in Delivery!Branches |->
                      IF b = where THEN Append(branchLog[b], e) ELSE IF b \in gone THEN << >> ELSE branchLog[b]]
  BY <1>2, <1>5
<1> QED
  BY <1>1, <1>3, <1>4, <1>6, WriteStep, AtRest DEF DeliveryInv

LEMMA PublishStep ==
  ASSUME DeliveryInv, NEW r \in Releases, Delivery!Publish(r)
  PROVE  DeliveryInv'
<1>1. UNCHANGED <<where, branchLog, made, judged>> /\ step'.pc = "published" /\ step'.head = r
  BY DEF Delivery!Publish
<1> QED
  BY <1>1, BranchesStay DEF StepInv, DeliveryInv, BranchInv

LEMMA RecordPublishedStep ==
  ASSUME DeliveryInv, Delivery!RecordPublished
  PROVE  DeliveryInv'
<1> DEFINE e == Delivery!Event("delivered", step.head, step.pr)
<1>1. /\ step.pc = "published" /\ Delivery!Write(e) /\ step' = [step EXCEPT !.pc = "back"]
      /\ UNCHANGED <<where, judged>> /\ step.head \in Releases
  BY DEF Delivery!RecordPublished, DeliveryInv, StepInv
<1>2. e.id = made + 1 /\ e.type = "delivered"
  BY DEF Delivery!Event
<1> HIDE DEF e
<1>3. step'.head = step.head /\ step'.pc \in {"published", "back"}
  BY <1>1
<1>4. BranchInv'
  BY <1>1, <1>2, EventWritten
<1> QED
  BY <1>1, <1>3, <1>4 DEF StepInv, DeliveryInv

LEMMA AsideDeliveryStep ==
  ASSUME DeliveryInv,
         \/ Delivery!Stop \/ UNCHANGED Delivery!vars
         \/ \E i \in DOMAIN prs : Delivery!MergePr(i) \/ Delivery!ClosePr(i) \/ Delivery!ReopenPr(i)
  PROVE  DeliveryInv'
<1>1. UNCHANGED <<branchLog, where, made, judged>> /\ (step' = step \/ step'.pc = "idle")
  BY DEF Delivery!Stop, Delivery!MergePr, Delivery!ClosePr, Delivery!ReopenPr, Delivery!NoStep, Delivery!vars
<1> QED
  BY <1>1, BranchesStay, StepStays, AtRest DEF DeliveryInv, BranchInv

LEMMA DeliveryInvStarts == Delivery!Init => DeliveryInv
<1> SUFFICES ASSUME Delivery!Init PROVE DeliveryInv
  OBVIOUS
<1>1. /\ where = "develop" /\ branchLog = [b \in Delivery!Branches |-> << >>] /\ made = 0
      /\ step.pc = "idle" /\ judged.type = "none"
  BY DEF Delivery!Init, Delivery!NoStep, Delivery!NoOpinion
<1>2. \A b \in Delivery!Branches : IsSequence(branchLog[b]) /\ DOMAIN branchLog[b] = {} /\ Entries(branchLog[b]) = {}
  BY <1>1 DEF IsSequence, Entries
<1>3. EventsInv(branchLog, 0) /\ DevelopInv(branchLog["develop"])
  BY <1>2, BranchNames DEF EventsInv, DevelopInv
<1>4. branchLog = [b \in Delivery!Branches |-> branchLog[b]]
  BY <1>1
<1> QED
  BY <1>1, <1>3, <1>4, BranchNames DEF DeliveryInv, BranchInv, StepInv

LEMMA DeliveryInvStays ==
  ASSUME DeliveryInv, [Delivery!Next]_(Delivery!vars)
  PROVE  DeliveryInv'
<1>1. CASE Delivery!Progress \/ Delivery!RecordGate
  BY <1>1, RecordStep
<1>2. ASSUME NEW h \in Delivery!Features \cup Releases, Delivery!Start(h) \/ Delivery!Finish(h) PROVE DeliveryInv'
  BY <1>2, StartStep, FinishStep
<1>3. ASSUME NEW b \in Delivery!Branches, Delivery!Switch(b) PROVE DeliveryInv'
  BY <1>3, SwitchStep
<1>4. ASSUME NEW d \in Deliveries, Delivery!Verify(d) \/ Delivery!Judge(d) PROVE DeliveryInv'
  BY <1>4, RecordStep, JudgeStep
<1>5. CASE Delivery!Command
  BY <1>5, OpenReviewStep, AlignStep, RecordPublishedStep, BackMergeStep DEF Delivery!Command
<1>6. ASSUME NEW h \in Delivery!Heads, Delivery!ReviewSync(h) PROVE DeliveryInv'
  BY <1>6, ReviewSyncStep
<1>7. ASSUME NEW r \in Releases, Delivery!Publish(r) PROVE DeliveryInv'
  BY <1>7, PublishStep
<1> QED
  BY <1>1, <1>2, <1>3, <1>4, <1>5, <1>6, <1>7, AsideDeliveryStep DEF Delivery!Next

LEMMA ImplementsDelivery == ToolsSpec => Delivery!Spec
<1>1. ToolsInit => Delivery!Init
  BY DEF ToolsInit
<1>2. [ToolsNext]_allVars => [Delivery!Next]_(Delivery!vars)
  BY DEF ToolsNext, allVars, deliveryVars, Delivery!vars
<1> QED
  BY <1>1, <1>2, PTL DEF ToolsSpec, Delivery!Spec

LEMMA DeliveryInvAlways == ToolsSpec => []DeliveryInv
<1> QED
  BY DeliveryInvStarts, DeliveryInvStays, ImplementsDelivery, PTL DEF Delivery!Spec

\* In the log of develop a PR has one `review`, and before each `review` of a demand
\* there is a gate that approves it: whichever command stops half way and is run again,
\* whatever branch the log of the working tree belongs to when an event is written, and
\* however often the human opens a closed PR again (gitflow.py feature_finish,
\* open_review, import_memory).
THEOREM ReviewsAreSoundAlways == ToolsSpec => []ReviewsAreSound
<1>1. DeliveryInv => Delivery!OneReviewPerPr
  BY DEF DeliveryInv, BranchInv, DevelopInv, Delivery!OneReviewPerPr
<1>2. DeliveryInv => Delivery!ReviewIsApproved
  BY DEF DeliveryInv, BranchInv, DevelopInv, Approves, Delivery!ReviewIsApproved, Delivery!Events,
     Delivery!Features
<1>3. DeliveryInv => ReviewsAreSound
  BY <1>1, <1>2 DEF ReviewsAreSound
<1> QED
  BY <1>3, DeliveryInvAlways, PTL

-----------------------------------------------------------------------------
(* The intake is one of the parts.                                         *)

LEMMA ImplementsIntake == ToolsSpec => Intake!Spec
<1>1. ToolsInit => Intake!Init
  BY DEF ToolsInit
<1>2. [ToolsNext]_allVars => [Intake!Next]_(Intake!vars)
  BY DEF ToolsNext, allVars, intakeVars, Intake!vars
<1> QED
  BY <1>1, <1>2, PTL DEF ToolsSpec, Intake!Spec

\* Of the demands that can be read in the log, each has the code its creation was
\* answered with, no two have the same, and those of the past have the frozen ones:
\* whatever requests and commands create demands at the same time, whenever the lock
\* of the codes stays busy, and whatever lines a stop makes unreadable (product.py
\* append_task, _compute).  A demand whose own line cannot be read loses its code:
\* that another demand never gets it is not a theorem, TLC refutes CodesAreNotReused.
THEOREM CodesStandAlways == ToolsSpec => []CodesStand
<1>1. IntakeInv => CodesStand
  BY PartAssumptions, CodesPartStands DEF IntakeInv, CodesStand
<1> QED
  BY <1>1, ImplementsIntake, IntakeInvAlways, PTL

\* A bug answered has its folder and its line of the index, whoever has one was
\* answered, is in flight or was cut short by a stop, a draft makes one bug at
\* most, and no evidence is logged without its file: whatever drafts expire or
\* are used twice, and also when the code of a bug cannot be had and the bug is
\* discarded (server.py _create_bug, _bug_evidence; bugs.py put_bug, discard_bug,
\* add_evidence).
THEOREM BugsWholeAlways == ToolsSpec => []BugsWhole
<1>1. IntakeInv => BugsWhole
  BY BugsPartWhole DEF IntakeInv, BugsWhole
<1> QED
  BY <1>1, ImplementsIntake, IntakeInvAlways, PTL

\* A demand started neither by an override nor out of the backlog had a validation
\* that passed, or whose questions were answered, before its start, whatever was
\* asked, validated or answered between the check of the request and its line in
\* the log (server.py start; triage.py).
THEOREM StartsReadyAlways == ToolsSpec => []StartsReady
<1>1. IntakeInv => StartsReady
  BY StartsPartReady DEF IntakeInv, StartsReady
<1> QED
  BY <1>1, ImplementsIntake, IntakeInvAlways, PTL

-----------------------------------------------------------------------------
(* The mirror on GitHub is one of the parts.                               *)

LEMMA ImplementsMirror == ToolsSpec => Mirror!Spec
<1>1. ToolsInit => Mirror!Init
  BY DEF ToolsInit
<1>2. [ToolsNext]_allVars => [Mirror!Next]_(Mirror!vars)
  BY DEF ToolsNext, allVars, mirrorVars, Mirror!vars
<1> QED
  BY <1>1, <1>2, PTL DEF ToolsSpec, Mirror!Spec

\* Whatever the log found, the events appended, the call of gh that fails and the
\* restarts: the issue of a demand is closed exactly when the events handled end in
\* its delivery or its cancellation (any number of calls may fail), and while one
\* call at most has failed and no event is half handled, every record of the state
\* file agrees with its issue and its card, but for the closes whose failure the
\* code does not look at (github_sync.py run_once and its handlers).
THEOREM MirrorIsSoundAlways == ToolsSpec => []MirrorIsSound
<1>1. MirrorInv => MirrorIsSound
  BY MirrorShows DEF MirrorIsSound
<1> QED
  BY <1>1, ImplementsMirror, MirrorInvAlways, PTL

-----------------------------------------------------------------------------
(* Delegation through the conversation.                                    *)

IsLog(lines) == IsSequence(lines) /\ \A i \in DOMAIN lines : lines[i].id = i

\* p is a part of the log that has all an evaluation of d reads.
Stands(lines, p, d) ==
  /\ IsLog(lines) /\ DOMAIN p \subseteq DOMAIN lines /\ \A i \in DOMAIN p : p[i] = lines[i]
  /\ \A i \in DOMAIN lines : lines[i].demand = d /\ lines[i].type \in Chat!Triggers => i \in DOMAIN p
  /\ \A i, v \in DOMAIN lines :
       /\ lines[v].demand = d /\ lines[i].ref = v
       /\ \/ lines[i].type = "clarification" /\ lines[v].type = "validation"
          \/ lines[i].type = "decision" /\ lines[v].type = "change-request"
       => i \in DOMAIN p

LEMMA LastIn ==
  ASSUME NEW lines, IsLog(lines), NEW S, S \subseteq DOMAIN lines, S # {}
  PROVE  Chat!LastOf(S) \in S /\ \A j \in S : j <= Chat!LastOf(S)
<1>1. S \subseteq Nat /\ \A j \in S : j <= Len(lines)
  BY DomainOf DEF IsLog
<1>2. \E i \in S : \A j \in S : j <= i
  BY <1>1, GreatestElement, DomainOf DEF IsLog
<1> QED
  BY <1>2 DEF Chat!LastOf

\* What was counted of the types that trigger stands.
LEMMA SameWhere ==
  ASSUME NEW lines, NEW p, NEW d, Stands(lines, p, d), NEW t \in Chat!Triggers
  PROVE  /\ \A arg : Chat!Is(p, t, d, arg) = Chat!Is(lines, t, d, arg)
         /\ Chat!Some(p, t, d) = Chat!Some(lines, t, d)
<1>1. \A i \in DOMAIN lines : lines[i].type = t /\ lines[i].demand = d => i \in DOMAIN p
  BY DEF Stands
<1>2. {i \in DOMAIN p : p[i].type = t /\ p[i].demand = d} = {i \in DOMAIN lines : lines[i].type = t /\ lines[i].demand = d}
  BY <1>1 DEF Stands
<1>3. \A arg : {i \in DOMAIN p : p[i].type = t /\ p[i].demand = d /\ p[i].arg = arg}
               = {i \in DOMAIN lines : lines[i].type = t /\ lines[i].demand = d /\ lines[i].arg = arg}
  BY <1>1 DEF Stands
<1> QED
  BY <1>2, <1>3 DEF Chat!Is, Chat!Some, Chat!Where

\* How a demand stands reads nothing else.
LEMMA SameStanding ==
  ASSUME NEW lines, NEW p, NEW d, Stands(lines, p, d)
  PROVE  /\ Chat!Canceled(p, d) = Chat!Canceled(lines, d) /\ Chat!Delivered(p, d) = Chat!Delivered(lines, d)
         /\ Chat!Closed(p, d) = Chat!Closed(lines, d) /\ Chat!HardClosed(p, d) = Chat!HardClosed(lines, d)
         /\ Chat!Reviews(p, d) = Chat!Reviews(lines, d)
         /\ \A pr : Chat!PrClosed(p, d, pr) = Chat!PrClosed(lines, d, pr)
<1>1. {"gate", "control", "delivered", "review", "review-rejected"} \subseteq Chat!Triggers
  BY DEF Chat!Triggers
<1>2. Chat!Canceled(p, d) = Chat!Canceled(lines, d)
  BY <1>1, SameWhere DEF Chat!Canceled
<1>3. Chat!Delivered(p, d) = Chat!Delivered(lines, d)
  BY <1>1, SameWhere DEF Chat!Delivered
<1>4. Chat!Reviews(p, d) = Chat!Reviews(lines, d)
  BY <1>1 DEF Chat!Reviews, Chat!Where, Stands
<1>5. Chat!Is(p, "gate", d, "G3") = Chat!Is(lines, "gate", d, "G3") /\ Chat!Is(p, "gate", d, "G3") \subseteq DOMAIN p
  BY <1>1, SameWhere DEF Chat!Is, Chat!Where
<1>6. Chat!G3Approved(p, d) = Chat!G3Approved(lines, d)
  BY <1>5 DEF Chat!G3Approved, Stands
<1>7. \A pr : Chat!PrClosed(p, d, pr) = Chat!PrClosed(lines, d, pr)
  BY <1>1, SameWhere DEF Chat!PrClosed
<1> QED
  BY <1>2, <1>3, <1>4, <1>6, <1>7 DEF Chat!Closed, Chat!HardClosed

\* The last of what was counted is where it was.
LEMMA SameLast ==
  ASSUME NEW lines, NEW p, NEW d, Stands(lines, p, d), NEW S, S \subseteq DOMAIN p, S # {}
  PROVE  Chat!LastOf(S) \in S /\ p[Chat!LastOf(S)] = lines[Chat!LastOf(S)]
<1>1. IsLog(lines) /\ S \subseteq DOMAIN lines
  BY DEF Stands
<1>2. Chat!LastOf(S) \in S
  BY <1>1, LastIn
<1> QED
  BY <1>2 DEF Stands

LEMMA SameGates ==
  ASSUME NEW lines, NEW p, NEW d, Stands(lines, p, d)
  PROVE  Chat!GateAlerts(p, d) = Chat!GateAlerts(lines, d)
<1>1. {"gate", "human"} \subseteq Chat!Triggers
  BY DEF Chat!Triggers
<1>2. Chat!GatesOf(p, d) = Chat!GatesOf(lines, d)
  <2>1. Chat!Where(p, LAMBDA e : e.type = "gate" /\ e.demand = d) = Chat!Where(lines, LAMBDA e : e.type = "gate" /\ e.demand = d)
    BY <1>1 DEF Chat!Where, Stands
  <2>2. Chat!Where(p, LAMBDA e : e.type = "gate" /\ e.demand = d) \subseteq DOMAIN p
    BY DEF Chat!Where
  <2> QED
    BY <2>1, <2>2 DEF Chat!GatesOf, Stands
<1>3. ASSUME NEW g \in Chat!GatesOf(p, d)
      PROVE  /\ Chat!GateKinds(p, d, g) = Chat!GateKinds(lines, d, g)
             /\ p[Chat!LastOf(Chat!Is(p, "gate", d, g))] = lines[Chat!LastOf(Chat!Is(lines, "gate", d, g))]
  <2> DEFINE returned == Chat!Is(p, "gate", d, g)
             humans == Chat!Is(p, "human", d, g)
  <2>1. returned = Chat!Is(lines, "gate", d, g) /\ humans = Chat!Is(lines, "human", d, g)
    BY <1>1, SameWhere
  <2>2. returned \subseteq DOMAIN p /\ humans \subseteq DOMAIN p /\ returned # {}
    BY <1>3 DEF Chat!Is, Chat!Where, Chat!GatesOf
  <2>3. p[Chat!LastOf(returned)] = lines[Chat!LastOf(returned)]
    BY <2>2, SameLast
  <2>4. \A i \in returned \cup humans : p[i] = lines[i]
    BY <2>2 DEF Stands
  <2>5. Chat!Closed(p, d) = Chat!Closed(lines, d)
    BY SameStanding
  <2> HIDE DEF returned, humans
  <2>6. {i \in returned : p[i].rec = "RETURN" /\ \A h \in humans : h < i} = {i \in returned : lines[i].rec = "RETURN" /\ \A h \in humans : h < i}
    BY <2>4
  <2> DEFINE after == {i \in humans : i > Chat!LastOf(returned)}
  <2>7. (\A h \in after : p[h].rec # "OVERRIDE") = (\A h \in after : lines[h].rec # "OVERRIDE")
    BY <2>4
  <2>8. (\E h \in after : p[h].rec \in {"APPROVE", "OVERRIDE"}) = (\E h \in after : lines[h].rec \in {"APPROVE", "OVERRIDE"})
    BY <2>4
  <2> QED
    BY <2>1, <2>3, <2>5, <2>6, <2>7, <2>8 DEF Chat!GateKinds, returned, humans
<1> QED
  BY <1>2, <1>3, SameStanding DEF Chat!GateAlerts

LEMMA SameTriage ==
  ASSUME NEW lines, NEW p, NEW d, Stands(lines, p, d)
  PROVE  Chat!TriageAlerts(p, d) = Chat!TriageAlerts(lines, d)
<1> DEFINE vals == {i \in DOMAIN p : p[i].type = "validation" /\ p[i].demand = d}
           last == Chat!LastOf(vals)
<1>1. "validation" \in Chat!Triggers /\ "start" \in Chat!Triggers
  BY DEF Chat!Triggers
<1>2. vals = {i \in DOMAIN lines : lines[i].type = "validation" /\ lines[i].demand = d}
  BY <1>1 DEF Stands
<1>3. \A v \in vals : {i \in DOMAIN p : p[i].type = "clarification" /\ p[i].ref = p[v].id}
                      = {i \in DOMAIN lines : lines[i].type = "clarification" /\ lines[i].ref = lines[v].id}
  BY DEF Stands, IsLog
<1>4. Chat!Closed(p, d) = Chat!Closed(lines, d) /\ Chat!Is(p, "start", d, "override") = Chat!Is(lines, "start", d, "override")
  BY <1>1, SameStanding, SameWhere
<1>5. \A v \in vals : p[v] = lines[v]
  BY DEF Stands
<1>6. Chat!TriageAlerts(p, d) =
        {Chat!Alert({"triage-open"}, p[i]) :
           i \in {v \in vals : /\ v = Chat!LastOf(vals) /\ p[v].rec = "perguntas" /\ ~Chat!Closed(p, d)
                               /\ {j \in DOMAIN p : p[j].type = "clarification" /\ p[j].ref = p[v].id} = {}
                               /\ Chat!Is(p, "start", d, "override") = {}}}
  BY DEF Chat!TriageAlerts, Chat!Where
<1>7. Chat!TriageAlerts(lines, d) =
        {Chat!Alert({"triage-open"}, lines[i]) :
           i \in {v \in vals : /\ v = Chat!LastOf(vals) /\ lines[v].rec = "perguntas" /\ ~Chat!Closed(lines, d)
                               /\ {j \in DOMAIN lines : lines[j].type = "clarification" /\ lines[j].ref = lines[v].id} = {}
                               /\ Chat!Is(lines, "start", d, "override") = {}}}
  BY <1>2 DEF Chat!TriageAlerts, Chat!Where
<1> HIDE DEF vals
<1> QED
  BY <1>3, <1>4, <1>5, <1>6, <1>7

LEMMA SameReviews ==
  ASSUME NEW lines, NEW p, NEW d, Stands(lines, p, d)
  PROVE  Chat!ReviewAlerts(p, d) = Chat!ReviewAlerts(lines, d)
<1>1. {"review", "pr-conflict", "pr-conflict-cleared"} \subseteq Chat!Triggers
  BY DEF Chat!Triggers
<1>2. \A pr : /\ Chat!Is(p, "pr-conflict", d, pr) = Chat!Is(lines, "pr-conflict", d, pr)
              /\ Chat!Is(p, "pr-conflict-cleared", d, pr) = Chat!Is(lines, "pr-conflict-cleared", d, pr)
  BY <1>1, SameWhere
<1>3. \A pr : /\ Chat!Is(p, "pr-conflict", d, pr) \subseteq DOMAIN p
              /\ Chat!Is(p, "pr-conflict-cleared", d, pr) \subseteq DOMAIN p
              /\ \A i \in Chat!Is(p, "pr-conflict-cleared", d, pr) : p[i].type # "pr-conflict"
  BY DEF Chat!Is, Chat!Where
<1>4. ASSUME NEW pr PROVE Chat!InConflict(p, d, pr) = Chat!InConflict(lines, d, pr)
  <2> DEFINE marks == Chat!Is(p, "pr-conflict", d, pr) \cup Chat!Is(p, "pr-conflict-cleared", d, pr)
  <2>1. marks \subseteq DOMAIN p /\ marks = Chat!Is(lines, "pr-conflict", d, pr) \cup Chat!Is(lines, "pr-conflict-cleared", d, pr)
    BY <1>2, <1>3
  <2>2. marks # {} => p[Chat!LastOf(marks)] = lines[Chat!LastOf(marks)]
    <3> HIDE DEF marks
    <3> QED
      BY <2>1, SameLast
  <2>3. Chat!InConflict(p, d, pr) = (marks # {} /\ p[Chat!LastOf(marks)].type = "pr-conflict")
    BY DEF Chat!InConflict
  <2>4. Chat!InConflict(lines, d, pr) = (marks # {} /\ lines[Chat!LastOf(marks)].type = "pr-conflict")
    BY <2>1 DEF Chat!InConflict
  <2> QED
    BY <2>2, <2>3, <2>4
<1>5. ASSUME NEW pr, Chat!InConflict(p, d, pr)
      PROVE  p[Chat!LastOf(Chat!Is(p, "pr-conflict", d, pr))] = lines[Chat!LastOf(Chat!Is(p, "pr-conflict", d, pr))]
  <2>1. Chat!Is(p, "pr-conflict", d, pr) # {}
    <3> DEFINE marks == Chat!Is(p, "pr-conflict", d, pr) \cup Chat!Is(p, "pr-conflict-cleared", d, pr)
    <3>1. marks # {} /\ marks \subseteq DOMAIN p /\ p[Chat!LastOf(marks)].type = "pr-conflict"
      BY <1>3, <1>5 DEF Chat!InConflict
    <3>2. Chat!LastOf(marks) \in marks
      <4> HIDE DEF marks
      <4> QED
        BY <3>1, SameLast
    <3> QED
      BY <1>3, <3>1, <3>2
  <2> QED
    BY <1>3, <2>1, SameLast
<1> DEFINE waiting == {i \in Chat!Reviews(p, d) : ~Chat!PrClosed(p, d, p[i].arg) /\ ~Chat!Canceled(p, d)}
<1>6. Chat!Reviews(p, d) = Chat!Reviews(lines, d) /\ \A i \in Chat!Reviews(p, d) : p[i] = lines[i]
  <2>1. Chat!Reviews(p, d) = Chat!Reviews(lines, d)
    BY SameStanding
  <2>2. Chat!Reviews(p, d) \subseteq DOMAIN p
    BY DEF Chat!Reviews, Chat!Where
  <2> QED
    BY <2>1, <2>2 DEF Stands
<1>7. waiting = {i \in Chat!Reviews(lines, d) : ~Chat!PrClosed(lines, d, lines[i].arg) /\ ~Chat!Canceled(lines, d)}
  BY <1>6, SameStanding
<1>8. \A i \in waiting : p[i] = lines[i]
  BY <1>6
<1>9. Chat!ReviewAlerts(p, d) =
        {Chat!Alert({"pr-waiting"}, p[i]) : i \in waiting}
        \cup {Chat!Alert({"pr-conflict"}, p[Chat!LastOf(Chat!Is(p, "pr-conflict", d, p[i].arg))]) :
                i \in {j \in waiting : Chat!InConflict(p, d, p[j].arg)}}
  BY DEF Chat!ReviewAlerts
<1>10. Chat!ReviewAlerts(lines, d) =
        {Chat!Alert({"pr-waiting"}, lines[i]) : i \in waiting}
        \cup {Chat!Alert({"pr-conflict"}, lines[Chat!LastOf(Chat!Is(lines, "pr-conflict", d, lines[i].arg))]) :
                i \in {j \in waiting : Chat!InConflict(lines, d, lines[j].arg)}}
  BY <1>7 DEF Chat!ReviewAlerts
<1> HIDE DEF waiting
<1> QED
  BY <1>2, <1>4, <1>5, <1>8, <1>9, <1>10

LEMMA SameRequests ==
  ASSUME NEW lines, NEW p, NEW d, Stands(lines, p, d)
  PROVE  Chat!RequestAlerts(p, d) = Chat!RequestAlerts(lines, d)
<1> DEFINE requests == {i \in DOMAIN p : p[i].type = "change-request" /\ p[i].demand = d}
<1>1. "change-request" \in Chat!Triggers
  BY DEF Chat!Triggers
<1>2. requests = {i \in DOMAIN lines : lines[i].type = "change-request" /\ lines[i].demand = d}
  BY <1>1 DEF Stands
<1>3. \A v \in requests : {i \in DOMAIN p : p[i].type = "decision" /\ p[i].ref = p[v].id}
                          = {i \in DOMAIN lines : lines[i].type = "decision" /\ lines[i].ref = lines[v].id}
  BY DEF Stands, IsLog
<1>4. Chat!Closed(p, d) = Chat!Closed(lines, d)
  BY SameStanding
<1>5. \A v \in requests : p[v] = lines[v]
  BY DEF Stands
<1>6. Chat!RequestAlerts(p, d) =
        {Chat!Alert({"change-request-open"}, p[i]) :
           i \in {j \in requests : ~Chat!Closed(p, d) /\ {k \in DOMAIN p : p[k].type = "decision" /\ p[k].ref = p[j].id} = {}}}
  BY DEF Chat!RequestAlerts, Chat!Where
<1>7. Chat!RequestAlerts(lines, d) =
        {Chat!Alert({"change-request-open"}, lines[i]) :
           i \in {j \in requests : ~Chat!Closed(lines, d) /\ {k \in DOMAIN lines : lines[k].type = "decision" /\ lines[k].ref = lines[j].id} = {}}}
  BY <1>2 DEF Chat!RequestAlerts, Chat!Where
<1> HIDE DEF requests
<1> QED
  BY <1>3, <1>4, <1>5, <1>6, <1>7

\* An evaluation on p opens what one on the whole log would.
LEMMA SameAlerts ==
  ASSUME NEW lines, NEW p, NEW d, Stands(lines, p, d)
  PROVE  Chat!AlertsOf(p, d) = Chat!AlertsOf(lines, d)
BY SameGates, SameTriage, SameReviews, SameRequests DEF Chat!AlertsOf

-----------------------------------------------------------------------------
\* What the log holds of a demand after its last evaluation changes none.
LEMMA PartStands ==
  ASSUME NEW lines, IsLog(lines), Chat!Answered(lines), NEW d, NEW n \in 0..Len(lines), NEW p, p = SubSeq(lines, 1, n),
         \A k \in Chat!Evaluations(lines, d) : k <= n
  PROVE  Stands(lines, p, d)
<1>1. IsSequence(lines) /\ DOMAIN lines = 1..Len(lines) /\ Len(lines) \in Nat
  BY DomainOf DEF IsLog
<1>2. \A k \in 0..Len(lines) : DOMAIN SubSeq(lines, 1, k) = 1..k /\ \A i \in 1..k : SubSeq(lines, 1, k)[i] = lines[i]
  BY <1>1, PartOf
<1>3. ASSUME NEW i \in DOMAIN lines, d \in Chat!Touches(SubSeq(lines, 1, i), lines[i])
      PROVE  i \in DOMAIN p
  <2>1. i \in Chat!Evaluations(lines, d)
    BY <1>3 DEF Chat!Evaluations
  <2> QED
    BY <1>1, <1>2, <2>1
<1>4. ASSUME NEW i \in DOMAIN lines, lines[i].demand = d, lines[i].type \in Chat!Triggers
      PROVE  i \in DOMAIN p
  BY <1>3, <1>4 DEF Chat!Touches
<1>5. ASSUME NEW i \in DOMAIN lines, NEW v \in DOMAIN lines, lines[v].demand = d, lines[i].ref = v,
             lines[i].type = "clarification", lines[v].type = "validation"
      PROVE  i \in DOMAIN p
  <2>1. lines[i].demand = d
    BY <1>5 DEF IsLog, Chat!Answered, Chat!Answers, Chat!EventsOf
  <2> QED
    BY <1>4, <1>5, <2>1 DEF Chat!Triggers
<1>6. ASSUME NEW i \in DOMAIN lines, NEW v \in DOMAIN lines, lines[v].demand = d, lines[i].ref = v,
             lines[i].type = "decision", lines[v].type = "change-request"
      PROVE  i \in DOMAIN p
  <2>1. CASE v <= i
    <3> DEFINE q == SubSeq(lines, 1, i)
    <3>1. v \in DOMAIN q /\ q[v] = lines[v]
      BY <1>1, <1>2, <2>1
    <3>2. v \in Chat!RequestsOf(q, lines[i])
      BY <1>6, <3>1 DEF Chat!RequestsOf, IsLog
    <3>3. d \in Chat!Touches(q, lines[i])
      BY <1>6, <3>1, <3>2 DEF Chat!Touches
    <3> QED
      BY <1>3, <3>3
  <2>2. CASE i < v
    \* the request, a trigger, comes later and is there
    BY <1>1, <1>2, <1>4, <1>6, <2>2 DEF Chat!Triggers
  <2> QED
    BY <1>1, <2>1, <2>2
<1> QED
  BY <1>1, <1>2, <1>4, <1>5, <1>6 DEF Stands, IsLog

\* No alert of a demand on the empty log.
LEMMA NoAlerts ==
  ASSUME NEW p, DOMAIN p = {}, NEW d
  PROVE  Chat!AlertsOf(p, d) = {}
BY DEF Chat!AlertsOf, Chat!GateAlerts, Chat!TriageAlerts, Chat!ReviewAlerts, Chat!RequestAlerts,
   Chat!GatesOf, Chat!Reviews, Chat!Where

LEMMA AlertsAreExact ==
  ASSUME NEW lines, IsLog(lines), Chat!Answered(lines)
  PROVE  Chat!Replayed(lines) = UNION {Chat!AlertsOf(lines, d) : d \in Chat!Concerned(lines)}
<1>1. IsSequence(lines) /\ DOMAIN lines = 1..Len(lines) /\ Len(lines) \in Nat
  BY DomainOf DEF IsLog
<1>2. ASSUME NEW d, Chat!Evaluations(lines, d) # {}
      PROVE  Chat!AlertsOf(SubSeq(lines, 1, Chat!LastOf(Chat!Evaluations(lines, d))), d) = Chat!AlertsOf(lines, d)
  <2> DEFINE all == Chat!Evaluations(lines, d)
             n == Chat!LastOf(all)
  <2>1. all \subseteq DOMAIN lines /\ all # {}
    BY <1>2 DEF Chat!Evaluations
  <2>2. n \in all /\ \A k \in all : k <= n
    <3> HIDE DEF all
    <3> QED
      BY <2>1, LastIn
  <2>3. n \in 0..Len(lines)
    BY <1>1, <2>1, <2>2
  <2> HIDE DEF n
  <2>4. Stands(lines, SubSeq(lines, 1, n), d)
    BY <2>2, <2>3, PartStands
  <2>5. Chat!AlertsOf(SubSeq(lines, 1, n), d) = Chat!AlertsOf(lines, d)
    BY <2>4, SameAlerts
  <2> QED
    BY <2>5 DEF n
<1>3. ASSUME NEW d, Chat!Evaluations(lines, d) = {}
      PROVE  Chat!AlertsOf(lines, d) = {}
  <2>1. 0 \in 0..Len(lines)
    BY <1>1
  <2>2. DOMAIN SubSeq(lines, 1, 0) = {}
    BY <1>1, <2>1, PartOf
  <2>3. Stands(lines, SubSeq(lines, 1, 0), d)
    BY <1>3, <2>1, PartStands
  <2> QED
    BY <2>2, <2>3, SameAlerts, NoAlerts
<1> QED
  BY <1>2, <1>3 DEF Chat!Replayed

-----------------------------------------------------------------------------
(* The invariant of the chat.                                              *)

EntryFields == {"id", "type", "agent", "demand", "arg", "rec", "ref", "low", "high", "delegation", "key", "proposal"}

\* The log is whole.
LogInv ==
  /\ IsLog(log) /\ Chat!Answered(log)
  /\ \A i \in DOMAIN log : DOMAIN log[i] = EntryFields

\* A step whose attempts are never cleared.
Counted(is) == is.kind = "delegar" /\ ~Chat!Keyless(is.key)

\* The cards; what is to be unblocked is in the log.
CardsInv ==
  /\ IsSequence(proposals)
  /\ \A p \in DOMAIN proposals :
       /\ DOMAIN proposals[p] = {"is", "state", "event"}
       /\ proposals[p].is.kind \in Chat!Kinds
       /\ proposals[p].is.kind = "delegar" => proposals[p].is.what \in Chat!Categories
       /\ Counted(proposals[p].is) => proposals[p].is.attempt \in Nat
       /\ proposals[p].is.kind = "destravar" => proposals[p].is.target \in DOMAIN log

\* A confirmation is of an open card.
ConfInv ==
  \/ conf = Chat!Free
  \/ /\ DOMAIN conf = {"step", "p", "event"} /\ conf.step \in {"write", "record"}
     /\ conf.p \in DOMAIN proposals /\ proposals[conf.p].state = "open"

\* The event e carries out what a card is.
CarriesOut(e, is) ==
  /\ e.type = (IF is.kind = "delegar" THEN "delegation" ELSE IF is.kind = "destravar" THEN "human" ELSE "control")
  /\ e.demand = is.demand /\ e.key = is.key
  /\ is.kind = "destravar" => e.arg = is.owner

\* What a card put in the log is what it is, after the verdict it was about, and
\* counts in the attempts of its step.
DecidedInv ==
  \A i \in DOMAIN log : log[i].proposal # 0 =>
    /\ log[i].proposal \in DOMAIN proposals
    /\ LET is == proposals[log[i].proposal].is
       IN /\ CarriesOut(log[i], is)
          /\ is.kind = "destravar" => is.target < i
          /\ Counted(is) => is.attempt <= Chat!Prior(log, is.key)

\* What was validated stands until it is written: nobody else delegates, and the
\* card was not carried out before.
Tries(category) == IF category = "pendencia-agente-parado" THEN 1 ELSE 2
WriteInv ==
  conf.step = "write" =>
    LET is == proposals[conf.p].is
    IN /\ is.kind = "delegar" => Chat!Active(log, is.demand) = {} /\ Chat!Prior(log, is.key) < Tries(is.what)
       /\ Counted(is) => is.attempt = Chat!Prior(log, is.key) + 1
       /\ is.kind = "destravar" \/ Counted(is) => \A i \in DOMAIN log : log[i].proposal # conf.p

DelegationInv ==
  /\ \A d \in ChatDemands : \A i, j \in Chat!Active(log, d) : i = j
  /\ \A i \in DOMAIN log : log[i].type = "delegation" =>
       Chat!Prior(SubSeq(log, 1, i), log[i].key) <= Tries(log[i].rec)

\* Nothing is started that was not confirmed.
StartInv ==
  \A i \in DOMAIN log : log[i].type = "delegation-start" => Chat!Confirmed(log[i].delegation)

\* Before n, the delegation was started and then approved at G3.
Backed(lines, n, id) ==
  \E s, g \in DOMAIN lines :
    /\ lines[s].type = "delegation-start" /\ lines[s].delegation = id
    /\ lines[g].type = "gate" /\ lines[g].delegation = id /\ lines[g].arg = "G3" /\ lines[g].rec = "APPROVE"
    /\ s < g /\ g < n
PushInv ==
  /\ pushing # Chat!NoPush => Backed(log, Len(log) + 1, pushing.id)
  /\ \A u \in DOMAIN log : log[u].type = "review-updated" => Backed(log, u, log[u].delegation)

ChatInv ==
  /\ scenario \in Pasts
  /\ LogInv /\ CardsInv /\ ConfInv /\ DecidedInv /\ WriteInv /\ DelegationInv /\ Chat!DecidedOnce /\ StartInv /\ PushInv

-----------------------------------------------------------------------------
(* One more event.                                                         *)

LEMMA OneMore ==
  ASSUME NEW lines, IsLog(lines), NEW e, e.id = Len(lines) + 1
  PROVE  /\ IsLog(Append(lines, e)) /\ DOMAIN Append(lines, e) = DOMAIN lines \cup {e.id} /\ e.id \notin DOMAIN lines
         /\ Append(lines, e)[e.id] = e /\ \A i \in DOMAIN lines : Append(lines, e)[i] = lines[i] /\ i < e.id
         /\ DOMAIN lines \subseteq Nat /\ e.id \in Nat
<1>1. IsSequence(lines) /\ DOMAIN lines = 1..Len(lines) /\ Len(lines) \in Nat
  BY DomainOf DEF IsLog
<1>2. /\ IsSequence(Append(lines, e)) /\ DOMAIN Append(lines, e) = DOMAIN lines \cup {Len(lines) + 1}
      /\ Len(lines) + 1 \notin DOMAIN lines /\ \A j \in DOMAIN lines : Append(lines, e)[j] = lines[j]
      /\ Append(lines, e)[Len(lines) + 1] = e
  BY <1>1, Appended
<1>3. \A i \in DOMAIN lines : i < e.id /\ i \in Nat
  BY <1>1
<1>4. \A i \in DOMAIN Append(lines, e) : Append(lines, e)[i].id = i
  BY <1>2 DEF IsLog
<1> QED
  BY <1>1, <1>2, <1>3, <1>4 DEF IsLog

\* The chat counts as everybody does.
LEMMA SameCount ==
  ASSUME NEW S
  PROVE  Chat!Cardinality(S) = Cardinality(S)
BY DEF Chat!Cardinality, Cardinality, Chat!IsFiniteSet, IsFiniteSet

\* Attempts are finitely many.
LEMMA PriorIsNat ==
  ASSUME NEW lines, IsLog(lines), NEW key
  PROVE  Chat!Prior(lines, key) \in Nat
<1> DEFINE T == {i \in Chat!Attempts(lines, key) : Chat!Keyless(key) => \A j \in Chat!EndedWell(lines, key) : j < i}
<1>1. IsFiniteSet(DOMAIN lines)
  BY DomainOf DEF IsLog
<1>2. T \subseteq DOMAIN lines
  BY DEF Chat!Attempts, Chat!Where
<1>3. IsFiniteSet(T)
  BY <1>1, <1>2, FS_Subset
<1>4. Cardinality(T) \in Nat
  BY <1>3, FS_CardinalityType
<1> QED
  BY <1>4, SameCount DEF Chat!Prior

\* Only a delegation of a step adds to its attempts, and one; a good end takes
\* them away, but not from a step that has an event or a run for its target.
LEMMA PriorAfter ==
  ASSUME NEW lines, IsLog(lines), NEW e, e.id = Len(lines) + 1, NEW key
  PROVE  /\ Chat!Prior(Append(lines, e), key) <= Chat!Prior(lines, key) + 1
         /\ e.type # "delegation" => Chat!Prior(Append(lines, e), key) <= Chat!Prior(lines, key)
         /\ ~Chat!Keyless(key) => /\ Chat!Prior(lines, key) <= Chat!Prior(Append(lines, e), key)
                                  /\ e.type = "delegation" /\ e.key = key =>
                                       Chat!Prior(Append(lines, e), key) = Chat!Prior(lines, key) + 1
<1> DEFINE more == Append(lines, e)
           A == {i \in DOMAIN lines : lines[i].type = "delegation" /\ lines[i].key = key}
           B == {i \in DOMAIN more : more[i].type = "delegation" /\ more[i].key = key}
           S == {i \in A : Chat!Keyless(key) => \A j \in Chat!EndedWell(lines, key) : j < i}
           T == {i \in B : Chat!Keyless(key) => \A j \in Chat!EndedWell(more, key) : j < i}
<1>1. /\ IsLog(more) /\ DOMAIN more = DOMAIN lines \cup {e.id} /\ e.id \notin DOMAIN lines
      /\ more[e.id] = e /\ \A i \in DOMAIN lines : more[i] = lines[i]
  BY OneMore
<1> HIDE DEF more
<1>2. A = Chat!Attempts(lines, key) /\ B = Chat!Attempts(more, key)
  BY DEF Chat!Attempts, Chat!Where
<1>3. A \subseteq B /\ B \subseteq A \cup {e.id}
  BY <1>1
<1>4. (e.type = "delegation" /\ e.key = key) = (e.id \in B)
  BY <1>1
<1>5. Chat!EndedWell(lines, key) \subseteq Chat!EndedWell(more, key)
  <2>1. ASSUME NEW j \in DOMAIN lines, lines[j].type = "delegation-result", lines[j].rec = "ok",
               \E i \in A : lines[i].id = lines[j].delegation
        PROVE  j \in DOMAIN more /\ more[j] = lines[j] /\ \E i \in B : more[i].id = more[j].delegation
    BY <1>1, <1>3, <2>1
  <2> HIDE DEF A, B
  <2> QED
    BY <2>1, <1>2 DEF Chat!EndedWell, Chat!Where
<1>6. T \subseteq S \cup {e.id}
  BY <1>3, <1>5
<1>7. Cardinality(S) = Chat!Prior(lines, key) /\ Cardinality(T) = Chat!Prior(more, key)
  BY <1>2, SameCount DEF Chat!Prior
<1>8. IsFiniteSet(S) /\ IsFiniteSet(T) /\ Cardinality(S) \in Nat /\ Cardinality(T) \in Nat
  <2>1. IsFiniteSet(DOMAIN lines) /\ IsFiniteSet(DOMAIN more)
    BY <1>1, DomainOf DEF IsLog
  <2>2. S \subseteq DOMAIN lines /\ T \subseteq DOMAIN more
    OBVIOUS
  <2> QED
    BY <2>1, <2>2, FS_Subset, FS_CardinalityType
<1>9. e.id \notin S
  BY <1>1
<1>10. ~Chat!Keyless(key) => S = A /\ T = B
  OBVIOUS
<1> HIDE DEF S, T, A, B
<1>11. IsFiniteSet(S \cup {e.id}) /\ Cardinality(S \cup {e.id}) = Cardinality(S) + 1
  BY <1>8, <1>9, FS_AddElement
<1>12. Cardinality(T) <= Cardinality(S) + 1
  BY <1>6, <1>11, FS_Subset
<1>13. e.id \notin T => Cardinality(T) <= Cardinality(S)
  <2>1. e.id \notin T => T \subseteq S
    BY <1>6
  <2> QED
    BY <1>8, <2>1, FS_Subset
<1>14. e.type # "delegation" => e.id \notin T
  BY <1>4, <1>10 DEF T
<1>15. ~Chat!Keyless(key) => Cardinality(S) <= Cardinality(T)
  BY <1>3, <1>8, <1>10, FS_Subset
<1>16. ~Chat!Keyless(key) /\ e.id \in B => T = S \cup {e.id}
  BY <1>3, <1>10
<1> QED
  BY <1>4, <1>7, <1>11, <1>12, <1>13, <1>14, <1>15, <1>16 DEF more

\* What is written is the event with its place in the log.
LEMMA Writing ==
  ASSUME NEW e, DOMAIN e = EntryFields, NEW n, NEW w, w = [e EXCEPT !.id = n]
  PROVE  /\ w.id = n /\ DOMAIN w = EntryFields
         /\ \A f \in EntryFields \ {"id"} : w[f] = e[f]
BY DEF EntryFields

\* Only a delegation becomes active, and a result ends one for good.
LEMMA ActiveAfter ==
  ASSUME NEW lines, IsLog(lines), NEW e, e.id = Len(lines) + 1, NEW d
  PROVE  /\ Chat!Active(Append(lines, e), d) \subseteq Chat!Active(lines, d) \cup {e.id}
         /\ e.type # "delegation" \/ e.demand # d => Chat!Active(Append(lines, e), d) \subseteq Chat!Active(lines, d)
<1> DEFINE more == Append(lines, e)
<1>1. /\ DOMAIN more = DOMAIN lines \cup {e.id} /\ e.id \notin DOMAIN lines
      /\ more[e.id] = e /\ \A i \in DOMAIN lines : more[i] = lines[i]
  BY OneMore
<1> HIDE DEF more
<1>2. \A l : Chat!Active(l, d) = {i \in DOMAIN l : l[i].type = "delegation" /\ l[i].demand = d /\ ~Chat!Ended(l, l[i].id)}
  BY DEF Chat!Active, Chat!Delegations, Chat!Where
<1>3. \A l, id : Chat!Ended(l, id) = \E i \in DOMAIN l : l[i].type = "delegation-result" /\ l[i].delegation = id
  BY DEF Chat!Ended, Chat!Linked, Chat!Where
<1>4. \A id : Chat!Ended(lines, id) => Chat!Ended(more, id)
  BY <1>1, <1>3
<1>5. ASSUME NEW i \in Chat!Active(more, d)
      PROVE  \/ i \in Chat!Active(lines, d)
             \/ i = e.id /\ e.type = "delegation" /\ e.demand = d
  <2>1. i \in DOMAIN more /\ more[i].type = "delegation" /\ more[i].demand = d /\ ~Chat!Ended(more, more[i].id)
    BY <1>2
  <2>2. CASE i = e.id
    BY <1>1, <2>1, <2>2
  <2>3. CASE i \in DOMAIN lines
    BY <1>1, <1>2, <1>4, <2>1, <2>3
  <2> QED
    BY <1>1, <2>1, <2>2, <2>3
<1> QED
  BY <1>5 DEF more

\* The log stays whole.
LEMMA LogInvAfter ==
  ASSUME LogInv, NEW w, w.id = Len(log) + 1, DOMAIN w = EntryFields, log' = Append(log, w),
         w.type = "clarification" => Chat!Answers(log, w)
  PROVE  LogInv'
<1>1. /\ IsLog(log') /\ DOMAIN log' = DOMAIN log \cup {w.id}
      /\ log'[w.id] = w /\ \A i \in DOMAIN log : log'[i] = log[i]
  BY OneMore DEF LogInv
<1>2. \A l, e : Chat!Answers(l, e) = \E j \in DOMAIN l : l[j].id = e.ref /\ l[j].type = "validation" /\ l[j].demand = e.demand
  BY DEF Chat!Answers, Chat!EventsOf
<1>3. \A e : Chat!Answers(log, e) => Chat!Answers(log', e)
  BY <1>1, <1>2
<1>4. Chat!Answered(log')
  BY <1>1, <1>3 DEF Chat!Answered, LogInv
<1> QED
  BY <1>1, <1>4 DEF LogInv

\* What is backed stays so.
LEMMA BackedAfter ==
  ASSUME NEW lines, IsLog(lines), NEW w, w.id = Len(lines) + 1, NEW n \in Nat, NEW m \in Nat, n <= m,
         NEW id, Backed(lines, n, id)
  PROVE  Backed(Append(lines, w), m, id)
<1>1. /\ DOMAIN Append(lines, w) = DOMAIN lines \cup {w.id} /\ DOMAIN lines \subseteq Nat
      /\ \A i \in DOMAIN lines : Append(lines, w)[i] = lines[i]
  BY OneMore
<1>2. PICK s, g \in DOMAIN lines :
        /\ lines[s].type = "delegation-start" /\ lines[s].delegation = id
        /\ lines[g].type = "gate" /\ lines[g].delegation = id /\ lines[g].arg = "G3" /\ lines[g].rec = "APPROVE"
        /\ s < g /\ g < n
  BY DEF Backed
<1>3. g < m
  BY <1>1, <1>2
<1> HIDE DEF Backed
<1> QED
  BY <1>1, <1>2, <1>3 DEF Backed

\* An event that is neither a delegation nor a card's.
LEMMA OtherWriters ==
  ASSUME ChatInv, NEW w, w.id = Len(log) + 1, DOMAIN w = EntryFields, log' = Append(log, w),
         w.proposal = 0, w.type # "delegation", proposals' = proposals, conf' = conf, scenario' = scenario,
         pushing' = pushing \/ pushing' = Chat!NoPush,
         w.type = "clarification" => Chat!Answers(log, w),
         w.type = "delegation-start" => Chat!Confirmed(w.delegation),
         w.type = "review-updated" => Backed(log, w.id, w.delegation)
  PROVE  ChatInv'
<1> USE DEF ChatInv
<1>1. /\ IsLog(log) /\ IsLog(log') /\ DOMAIN log' = DOMAIN log \cup {w.id} /\ w.id \notin DOMAIN log
      /\ log'[w.id] = w /\ (\A i \in DOMAIN log : log'[i] = log[i] /\ i < w.id)
      /\ DOMAIN log \subseteq Nat /\ w.id \in Nat /\ Len(log') = w.id /\ IsSequence(log)
  <2>1. IsLog(log) /\ IsSequence(log)
    BY DEF LogInv, IsLog
  <2> QED
    BY <2>1, OneMore, Appended
<1>2. LogInv'
  BY LogInvAfter
<1>3. CardsInv'
  BY <1>1 DEF CardsInv, Counted
<1>4. ConfInv'
  BY DEF ConfInv, Chat!Free
<1>5. \A key : /\ Chat!Prior(log, key) \in Nat /\ Chat!Prior(log', key) \in Nat /\ Chat!Prior(log', key) <= Chat!Prior(log, key)
               /\ ~Chat!Keyless(key) => Chat!Prior(log', key) = Chat!Prior(log, key)
  <2> TAKE key
  <2>1. Chat!Prior(log, key) \in Nat /\ Chat!Prior(log', key) \in Nat
    BY <1>1, PriorIsNat
  <2>2. /\ Chat!Prior(log', key) <= Chat!Prior(log, key)
        /\ ~Chat!Keyless(key) => Chat!Prior(log, key) <= Chat!Prior(log', key)
    BY <1>1, PriorAfter
  <2> QED
    BY <2>1, <2>2
<1>6. DecidedInv'
  <2> SUFFICES ASSUME NEW i \in DOMAIN log', log'[i].proposal # 0
               PROVE  /\ log'[i].proposal \in DOMAIN proposals
                      /\ LET is == proposals[log'[i].proposal].is
                         IN /\ CarriesOut(log'[i], is)
                            /\ is.kind = "destravar" => is.target < i
                            /\ Counted(is) => is.attempt <= Chat!Prior(log', is.key)
    BY DEF DecidedInv, CarriesOut, Counted
  <2>1. i \in DOMAIN log /\ log'[i] = log[i]
    BY <1>1
  <2> QED
    BY <2>1, <1>5 DEF DecidedInv, Counted
<1>7. WriteInv'
  <2> SUFFICES ASSUME conf.step = "write"
               PROVE  LET is == proposals[conf.p].is
                      IN /\ is.kind = "delegar" => Chat!Active(log', is.demand) = {} /\ Chat!Prior(log', is.key) < Tries(is.what)
                         /\ Counted(is) => is.attempt = Chat!Prior(log', is.key) + 1
                         /\ is.kind = "destravar" \/ Counted(is) => \A i \in DOMAIN log' : log'[i].proposal # conf.p
    BY DEF WriteInv, Counted, Tries
  <2>1. \A d : Chat!Active(log', d) \subseteq Chat!Active(log, d)
    BY <1>1, ActiveAfter
  <2>2. conf.p # 0
    BY <1>1, DomainOf DEF ConfInv, CardsInv, Chat!Free
  <2>3. \A c : Tries(c) \in Nat
    BY DEF Tries
  <2> QED
    BY <1>1, <1>5, <2>1, <2>2, <2>3 DEF WriteInv, Counted
<1>8. DelegationInv'
  <2>1. \A d : Chat!Active(log', d) \subseteq Chat!Active(log, d)
    BY <1>1, ActiveAfter
  <2>2. ASSUME NEW i \in DOMAIN log', log'[i].type = "delegation"
        PROVE  Chat!Prior(SubSeq(log', 1, i), log'[i].key) <= Tries(log'[i].rec)
    <3>1. i \in DOMAIN log /\ log'[i] = log[i] /\ log[i].type = "delegation"
      BY <1>1, <2>2
    <3>2. SubSeq(log', 1, i) = SubSeq(log, 1, i)
      BY <1>1, <3>1, DomainOf, PartOfAppended
    <3> QED
      BY <3>1, <3>2 DEF DelegationInv
  <2>3. \A d \in ChatDemands : \A i, j \in Chat!Active(log', d) : i = j
    BY <2>1 DEF DelegationInv
  <2> QED
    BY <2>2, <2>3 DEF DelegationInv, Tries
<1>9. Chat!DecidedOnce'
  <2>1. \A i \in DOMAIN log' : log'[i].proposal # 0 => i \in DOMAIN log /\ log'[i] = log[i]
    BY <1>1
  <2> QED
    BY <2>1 DEF Chat!DecidedOnce
<1>10. StartInv'
  <2>1. \A id : Chat!Confirmed(id)' = Chat!Confirmed(id)
    BY DEF Chat!Confirmed
  <2> QED
    BY <1>1, <2>1 DEF StartInv
<1>11. PushInv'
  <2>1. pushing' # Chat!NoPush => Backed(log', Len(log') + 1, pushing'.id)
    <3>1. pushing' # Chat!NoPush => Backed(log, Len(log) + 1, pushing.id) /\ pushing' = pushing
      BY DEF PushInv, Chat!NoPush
    <3> QED
      BY <1>1, <3>1, BackedAfter DEF LogInv
  <2>2. ASSUME NEW u \in DOMAIN log', log'[u].type = "review-updated"
        PROVE  Backed(log', u, log'[u].delegation)
    <3>1. u \in Nat /\ Backed(log, u, log'[u].delegation)
      BY <1>1, <2>2 DEF PushInv
    <3> QED
      BY <1>1, <3>1, BackedAfter
  <2> QED
    BY <2>1, <2>2 DEF PushInv, Chat!NoPush
<1> QED
  BY <1>2, <1>3, <1>4, <1>6, <1>7, <1>8, <1>9, <1>10, <1>11

\* The confirmation writes what was validated.
LEMMA CardWritten ==
  ASSUME ChatInv, Chat!ConfirmWrite
  PROVE  ChatInv'
<1> USE DEF ChatInv
<1> DEFINE p == conf.p
           is == proposals[p].is
           w == [Chat!Decided(is, p) EXCEPT !.id = Len(log) + 1]
<1>1. /\ conf.step = "write" /\ log' = Append(log, w) /\ conf' = [conf EXCEPT !.step = "record", !.event = Len(log) + 1]
      /\ proposals' = proposals /\ pushing' = pushing /\ scenario' = scenario
  BY DEF Chat!ConfirmWrite, Chat!Put, Chat!NextId, Chat!Git
<1>2. /\ conf # Chat!Free /\ p \in DOMAIN proposals /\ proposals[p].state = "open" /\ DOMAIN conf = {"step", "p", "event"}
      /\ DOMAIN conf' = {"step", "p", "event"} /\ conf'.step = "record" /\ conf'.p = p /\ conf' # Chat!Free
  <2>2. p \in DOMAIN proposals /\ proposals[p].state = "open" /\ DOMAIN conf = {"step", "p", "event"}
    BY <1>1 DEF ConfInv, Chat!Free
  <2>3. DOMAIN conf' = {"step", "p", "event"} /\ conf'.step = "record" /\ conf'.p = p
    BY <1>1, <2>2
  <2>4. conf # Chat!Free /\ conf' # Chat!Free
    <3>1. Chat!Free.step = "free" /\ conf.step = "write" /\ conf'.step = "record"
      BY <1>1, <2>3 DEF Chat!Free
    <3> QED
      BY <3>1
  <2> QED
    BY <2>2, <2>3, <2>4
<1>3. is.kind \in Chat!Kinds /\ p # 0
  BY <1>2, DomainOf DEF CardsInv
<1>4. /\ w.id = Len(log) + 1 /\ DOMAIN w = EntryFields /\ w.proposal = p /\ CarriesOut(w, is)
      /\ w.type \notin {"clarification", "delegation-start", "review-updated"}
      /\ is.kind = "delegar" => w.rec = is.what
  <2>1. /\ DOMAIN Chat!Decided(is, p) = EntryFields
        /\ Chat!Decided(is, p).proposal = p /\ Chat!Decided(is, p).key = is.key
        /\ Chat!Decided(is, p).demand = is.demand
        /\ Chat!Decided(is, p).type
             = IF is.kind = "delegar" THEN "delegation" ELSE IF is.kind = "destravar" THEN "human" ELSE "control"
        /\ is.kind = "delegar" => Chat!Decided(is, p).rec = is.what
        /\ is.kind = "destravar" => Chat!Decided(is, p).arg = is.owner
    BY DEF Chat!Decided, Chat!Entry, EntryFields
  <2>2. DOMAIN w = EntryFields /\ w.id = Len(log) + 1 /\ \A f \in EntryFields \ {"id"} : w[f] = Chat!Decided(is, p)[f]
    BY <2>1, Writing
  <2>3. {"type", "demand", "arg", "key", "rec", "proposal"} \subseteq EntryFields \ {"id"}
    BY DEF EntryFields
  <2> HIDE DEF w
  <2> QED
    BY <2>1, <2>2, <2>3, <1>3 DEF CarriesOut, Chat!Kinds
<1> HIDE DEF w, is, p
<1>5. /\ IsLog(log) /\ IsLog(log') /\ DOMAIN log' = DOMAIN log \cup {w.id} /\ w.id \notin DOMAIN log
      /\ log'[w.id] = w /\ (\A i \in DOMAIN log : log'[i] = log[i] /\ i < w.id)
      /\ DOMAIN log \subseteq Nat /\ w.id \in Nat /\ Len(log') = w.id /\ IsSequence(log)
  <2>1. IsLog(log) /\ IsSequence(log)
    BY DEF LogInv, IsLog
  <2> QED
    BY <1>1, <1>4, <2>1, OneMore, Appended
<1>6. LogInv'
  BY <1>1, <1>4, LogInvAfter
<1>7. CardsInv'
  BY <1>1, <1>5 DEF CardsInv, Counted
<1>8. ConfInv'
  BY <1>1, <1>2 DEF ConfInv
<1>9. \A key : /\ Chat!Prior(log, key) \in Nat /\ Chat!Prior(log', key) \in Nat /\ Chat!Prior(log', key) <= Chat!Prior(log, key) + 1
               /\ ~Chat!Keyless(key) => Chat!Prior(log, key) <= Chat!Prior(log', key)
               /\ ~Chat!Keyless(key) /\ w.type = "delegation" /\ w.key = key => Chat!Prior(log', key) = Chat!Prior(log, key) + 1
  <2> TAKE key
  <2>1. Chat!Prior(log, key) \in Nat /\ Chat!Prior(log', key) \in Nat
    BY <1>5, PriorIsNat
  <2> QED
    BY <1>1, <1>4, <1>5, <2>1, PriorAfter
<1>10. DecidedInv'
  <2> SUFFICES ASSUME NEW i \in DOMAIN log', log'[i].proposal # 0
               PROVE  /\ log'[i].proposal \in DOMAIN proposals
                      /\ CarriesOut(log'[i], proposals[log'[i].proposal].is)
                      /\ proposals[log'[i].proposal].is.kind = "destravar" => proposals[log'[i].proposal].is.target < i
                      /\ Counted(proposals[log'[i].proposal].is) =>
                           proposals[log'[i].proposal].is.attempt <= Chat!Prior(log', proposals[log'[i].proposal].is.key)
    BY <1>1 DEF DecidedInv, CarriesOut, Counted
  <2>1. CASE i \in DOMAIN log
    <3> DEFINE q == log[i].proposal
    <3>1. /\ log'[i] = log[i] /\ q \in DOMAIN proposals /\ CarriesOut(log[i], proposals[q].is)
          /\ proposals[q].is.kind = "destravar" => proposals[q].is.target < i
          /\ Counted(proposals[q].is) => proposals[q].is.attempt <= Chat!Prior(log, proposals[q].is.key)
      BY <1>5, <2>1 DEF DecidedInv
    <3>2. Counted(proposals[q].is) => proposals[q].is.attempt \in Nat
      BY <3>1 DEF CardsInv
    <3> HIDE DEF q
    <3>3. Counted(proposals[q].is) => proposals[q].is.attempt <= Chat!Prior(log', proposals[q].is.key)
      BY <1>9, <3>1, <3>2 DEF Counted
    <3> QED
      BY <3>1, <3>3 DEF q
  <2>2. CASE i = w.id
    <3>1. log'[i].proposal = p /\ log'[i] = w /\ p \in DOMAIN proposals /\ CarriesOut(w, is)
      BY <1>2, <1>4, <1>5, <2>2
    <3>2. is.kind = "destravar" => is.target < i
      BY <1>2, <1>5, <2>2 DEF CardsInv, is
    <3>3. Counted(is) => is.attempt <= Chat!Prior(log', is.key)
      <4>1. Counted(is) => is.attempt = Chat!Prior(log, is.key) + 1
        BY <1>1 DEF WriteInv, is, p
      <4>2. Counted(is) => w.type = "delegation" /\ w.key = is.key /\ ~Chat!Keyless(is.key)
        BY <1>4 DEF Counted, CarriesOut
      <4> QED
        BY <1>9, <4>1, <4>2
    <3> QED
      BY <3>1, <3>2, <3>3 DEF is
  <2> QED
    BY <1>5, <2>1, <2>2
<1>11. WriteInv'
  BY <1>2 DEF WriteInv
<1>12. DelegationInv'
  <2>1. /\ is.kind = "delegar" => Chat!Active(log, is.demand) = {} /\ Chat!Prior(log, is.key) < Tries(is.what)
    BY <1>1 DEF WriteInv, is, p
  <2>2. ASSUME NEW d \in ChatDemands, NEW i \in Chat!Active(log', d), NEW j \in Chat!Active(log', d)
        PROVE  i = j
    <3>1. CASE w.type = "delegation" /\ w.demand = d
      <4>1. is.kind = "delegar" /\ is.demand = d
        BY <1>3, <1>4, <3>1 DEF CarriesOut, Chat!Kinds
      <4>2. Chat!Active(log', d) \subseteq {w.id}
        BY <1>1, <1>4, <1>5, <2>1, <4>1, ActiveAfter
      <4> QED
        BY <2>2, <4>2
    <3>2. CASE ~(w.type = "delegation" /\ w.demand = d)
      <4>1. Chat!Active(log', d) \subseteq Chat!Active(log, d)
        BY <1>1, <1>4, <1>5, <3>2, ActiveAfter
      <4> QED
        BY <2>2, <4>1 DEF DelegationInv
    <3> QED
      BY <3>1, <3>2
  <2>3. ASSUME NEW i \in DOMAIN log', log'[i].type = "delegation"
        PROVE  Chat!Prior(SubSeq(log', 1, i), log'[i].key) <= Tries(log'[i].rec)
    <3>1. CASE i \in DOMAIN log
      <4>1. SubSeq(log', 1, i) = SubSeq(log, 1, i) /\ log'[i] = log[i]
        BY <1>1, <1>5, <3>1, DomainOf, PartOfAppended
      <4> QED
        BY <2>3, <3>1, <4>1 DEF DelegationInv
    <3>2. CASE i = w.id
      <4>1. SubSeq(log', 1, i) = log' /\ log'[i] = w
        <5>1. Len(log) \in 0..Len(log)
          BY <1>5, DomainOf
        <5> QED
          BY <1>1, <1>4, <1>5, <3>2, <5>1, PartOfAppended
      <4>2. is.kind = "delegar" /\ w.rec = is.what /\ w.key = is.key
        BY <1>3, <1>4, <2>3, <4>1 DEF CarriesOut, Chat!Kinds
      <4>3. Tries(is.what) \in Nat
        BY DEF Tries
      <4>4. Chat!Prior(log, is.key) \in Nat /\ Chat!Prior(log', is.key) \in Nat /\ Chat!Prior(log', is.key) <= Chat!Prior(log, is.key) + 1
        BY <1>9
      <4>5. Chat!Prior(log', is.key) <= Tries(is.what)
        BY <2>1, <4>2, <4>3, <4>4
      <4> QED
        BY <4>1, <4>2, <4>5
    <3> QED
      BY <1>5, <3>1, <3>2
  <2> QED
    BY <2>2, <2>3 DEF DelegationInv, Tries
<1>13. Chat!DecidedOnce'
  <2> SUFFICES ASSUME NEW i \in DOMAIN log', NEW j \in DOMAIN log',
                      log'[i].proposal = log'[j].proposal, log'[i].proposal # 0,
                      log'[i].type = "human" \/ (log'[i].type = "delegation" /\ ~Chat!Keyless(log'[i].key))
               PROVE  i = j
    BY DEF Chat!DecidedOnce
  <2>1. log'[i].proposal = p => is.kind = "destravar" \/ Counted(is)
    <3>1. log'[i].proposal = p => CarriesOut(log'[i], is)
      <4>1. log'[i].proposal # 0 => CarriesOut(log'[i], proposals'[log'[i].proposal].is)
        BY <1>10 DEF DecidedInv
      <4>2. proposals'[p].is = is
        BY <1>1 DEF is
      <4> QED
        BY <4>1, <4>2
    <3> QED
      BY <1>3, <3>1 DEF CarriesOut, Counted, Chat!Kinds
  <2>2. is.kind = "destravar" \/ Counted(is) => \A k \in DOMAIN log : log[k].proposal # p
    BY <1>1 DEF WriteInv, is, p
  <2>3. CASE log'[i].proposal = p
    BY <1>5, <2>1, <2>2, <2>3
  <2>4. CASE log'[i].proposal # p
    <3>1. i \in DOMAIN log /\ j \in DOMAIN log /\ log'[i] = log[i] /\ log'[j] = log[j]
      BY <1>4, <1>5, <2>4
    <3> QED
      BY <3>1 DEF Chat!DecidedOnce
  <2> QED
    BY <2>3, <2>4
<1>14. StartInv'
  <2>1. \A id : Chat!Confirmed(id)' = Chat!Confirmed(id)
    BY <1>1 DEF Chat!Confirmed
  <2> QED
    BY <1>4, <1>5, <2>1 DEF StartInv
<1>15. PushInv'
  <2>1. pushing' # Chat!NoPush => Backed(log', Len(log') + 1, pushing'.id)
    <3>1. pushing' # Chat!NoPush => Backed(log, Len(log) + 1, pushing.id) /\ pushing' = pushing
      BY <1>1 DEF PushInv
    <3>2. Len(log) + 1 = w.id /\ Len(log') + 1 = w.id + 1 /\ w.id + 1 \in Nat /\ w.id <= w.id + 1
      BY <1>4, <1>5
    <3> QED
      BY <1>1, <1>5, <3>1, <3>2, BackedAfter
  <2>2. ASSUME NEW u \in DOMAIN log', log'[u].type = "review-updated"
        PROVE  Backed(log', u, log'[u].delegation)
    <3>1. u \in Nat /\ Backed(log, u, log'[u].delegation)
      BY <1>4, <1>5, <2>2 DEF PushInv
    <3> QED
      BY <1>1, <1>4, <1>5, <3>1, BackedAfter
  <2> QED
    BY <2>1, <2>2 DEF PushInv, Chat!NoPush
<1> QED
  BY <1>1, <1>6, <1>7, <1>8, <1>10, <1>11, <1>12, <1>13, <1>14, <1>15

-----------------------------------------------------------------------------
(* What is valid.                                                          *)

\* Each category has its own number of attempts.
LEMMA CaseTries ==
  ASSUME NEW lines, NEW category \in Chat!Categories, NEW d, NEW target, NEW c \in Chat!Cases(lines, category, d, target)
  PROVE  c.max = Tries(category)
<1>0. \A t, o, k, m : Chat!Case(t, o, k, m).max = m
  BY DEF Chat!Case
<1>1. CASE category = "conflito-develop"
  BY <1>1 DEF Chat!Cases, Chat!ConflictCase, Chat!Case, Tries
<1>2. CASE category = "gate-travado"
  <2>1. c \in Chat!GateCase(lines, d, target)
    BY <1>2 DEF Chat!Cases
  <2>2. \E t, o, k : c = Chat!Case(t, o, k, 2)
    BY <2>1 DEF Chat!GateCase, Chat!StalledCase
  <2> QED
    BY <1>0, <1>2, <2>2 DEF Tries
<1>3. CASE category = "teste-quebrado"
  <2>1. c \in Chat!TestCase(lines, d, target)
    BY <1>3 DEF Chat!Cases
  <2>2. \E t, o, k : c = Chat!Case(t, o, k, 2)
    BY <2>1 DEF Chat!TestCase, Chat!If
  <2> QED
    BY <1>0, <1>3, <2>2 DEF Tries
<1>4. CASE category = "ambiente-teste"
  <2>1. \E t, o, k : c = Chat!Case(t, o, k, 2)
    BY <1>4 DEF Chat!Cases
  <2> QED
    BY <1>0, <1>4, <2>1 DEF Tries
<1>5. CASE category = "pendencia-handoff"
  <2>1. c \in Chat!StalledCase(d, target, category)
    BY <1>5 DEF Chat!Cases
  <2>2. \E t, o, k : c = Chat!Case(t, o, k, 2)
    BY <2>1 DEF Chat!StalledCase
  <2> QED
    BY <1>0, <1>5, <2>2 DEF Tries
<1>6. CASE category = "pendencia-change-request"
  <2>1. c \in Chat!RequestCase(lines, d, target)
    BY <1>6 DEF Chat!Cases
  <2>2. \E t, o, k : c = Chat!Case(t, o, k, 2)
    BY <2>1 DEF Chat!RequestCase
  <2> QED
    BY <1>0, <1>6, <2>2 DEF Tries
<1>7. CASE category = "pendencia-agente-parado"
  <2>1. c \in Chat!RunCase(lines, d, target)
    BY <1>7 DEF Chat!Cases
  <2>2. \E t, o, k : c = Chat!Case(t, o, k, 1)
    BY <2>1 DEF Chat!RunCase
  <2> QED
    BY <1>0, <1>7, <2>2 DEF Tries
<1>8. CASE category = "ajuste-pontual"
  <2>1. \E t, o, k : c = Chat!Case(t, o, k, 2)
    BY <1>8 DEF Chat!Cases, Chat!If
  <2> QED
    BY <1>0, <1>8, <2>1 DEF Tries
<1> QED
  BY <1>1, <1>2, <1>3, <1>4, <1>5, <1>6, <1>7, <1>8 DEF Chat!Categories

\* An alert that opens an action of the human is of the last verdict of its gate,
\* which the human has not answered.
LEMMA GateUnanswered ==
  ASSUME NEW lines, IsLog(lines), Chat!Answered(lines),
         NEW a \in Chat!Replayed(lines), NEW v \in DOMAIN lines, a.event = v, lines[v].type = "gate", a.demand = lines[v].demand,
         Chat!GateActions(lines, a, lines[v].arg) # {}
  PROVE  \A i \in DOMAIN lines : lines[i].type = "human" /\ lines[i].demand = a.demand /\ lines[i].arg = lines[v].arg => i <= v
<1> DEFINE g == lines[v].arg
           last == Chat!LastOf(Chat!Is(lines, "gate", a.demand, g))
<1>1. /\ a.kinds \cap {"gate-return", "human-required", "cycle-limit"} # {}
      /\ \A i \in Chat!Is(lines, "human", a.demand, g) : ~(i > last)
  BY DEF Chat!GateActions
<1>2. PICK d \in Chat!Concerned(lines) : a \in Chat!AlertsOf(lines, d)
  BY AlertsAreExact
<1>3. a \in Chat!GateAlerts(lines, d)
  <2>1. \A b \in Chat!TriageAlerts(lines, d) \cup Chat!RequestAlerts(lines, d) \cup Chat!ReviewAlerts(lines, d) :
          b.kinds \in {{"triage-open"}, {"change-request-open"}, {"pr-waiting"}, {"pr-conflict"}}
    <3>1. \A b \in Chat!TriageAlerts(lines, d) : b.kinds = {"triage-open"}
      <4> DEFINE vals == {i \in DOMAIN lines : lines[i].type = "validation" /\ lines[i].demand = d}
      <4>1. Chat!TriageAlerts(lines, d) =
              {Chat!Alert({"triage-open"}, lines[i]) :
                 i \in {j \in vals : /\ j = Chat!LastOf(vals) /\ lines[j].rec = "perguntas" /\ ~Chat!Closed(lines, d)
                                     /\ {k \in DOMAIN lines : lines[k].type = "clarification" /\ lines[k].ref = lines[j].id} = {}
                                     /\ Chat!Is(lines, "start", d, "override") = {}}}
        BY DEF Chat!TriageAlerts, Chat!Where
      <4> HIDE DEF vals
      <4> QED
        BY <4>1 DEF Chat!Alert
    <3>2. \A b \in Chat!RequestAlerts(lines, d) : b.kinds = {"change-request-open"}
      BY DEF Chat!RequestAlerts, Chat!Alert, Chat!Where
    <3>3. \A b \in Chat!ReviewAlerts(lines, d) : b.kinds \in {{"pr-waiting"}, {"pr-conflict"}}
      BY DEF Chat!ReviewAlerts, Chat!Alert
    <3> QED
      BY <3>1, <3>2, <3>3
  <2> QED
    BY <1>1, <1>2, <2>1 DEF Chat!AlertsOf
<1>4. PICK h \in Chat!GatesOf(lines, d) : a = Chat!Alert(Chat!GateKinds(lines, d, h), lines[Chat!LastOf(Chat!Is(lines, "gate", d, h))])
  BY <1>3 DEF Chat!GateAlerts
<1> DEFINE S == {i \in DOMAIN lines : lines[i].type = "gate" /\ lines[i].demand = d /\ lines[i].arg = h}
<1>5. S = Chat!Is(lines, "gate", d, h) /\ S # {} /\ S \subseteq DOMAIN lines
  BY DEF Chat!Is, Chat!Where, Chat!GatesOf
<1>6. Chat!LastOf(S) \in S
  <2> HIDE DEF S
  <2> QED
    BY <1>5, LastIn
<1>7. v = Chat!LastOf(S) /\ a.demand = lines[v].demand
  BY <1>4, <1>5, <1>6 DEF IsLog, Chat!Alert
<1>8. g = h /\ a.demand = d /\ last = v
  BY <1>5, <1>6, <1>7
<1>9. \A i \in Chat!Is(lines, "human", a.demand, g) : i <= v
  <2>1. DOMAIN lines \subseteq Nat
    BY DomainOf DEF IsLog
  <2>2. Chat!Is(lines, "human", a.demand, g) \subseteq DOMAIN lines
    BY DEF Chat!Is, Chat!Where
  <2> QED
    BY <1>1, <1>8, <2>1, <2>2
<1> QED
  BY <1>9 DEF Chat!Is, Chat!Where

\* What a card may say of the log it was validated on.
LEMMA ValidCard ==
  ASSUME LogInv, NEW kind \in Chat!Kinds, NEW what, kind = "delegar" => what \in Chat!Categories,
         NEW d, NEW target, NEW v \in Chat!Valid(log, kind, what, d, target)
  PROVE  /\ v.kind = kind
         /\ kind = "delegar" =>
              /\ v.what = what /\ v.attempt = Chat!Prior(log, v.key) + 1
              /\ Chat!Active(log, v.demand) = {} /\ Chat!Prior(log, v.key) < Tries(what)
         /\ kind = "destravar" =>
              /\ v.target \in DOMAIN log
              /\ \A i \in DOMAIN log : log[i].type = "human" /\ log[i].demand = v.demand /\ log[i].arg = v.owner => i <= v.target
<1>1. CASE kind = "delegar"
  <2>1. PICK c \in Chat!Cases(log, what, d, target) :
           /\ v = [kind |-> "delegar", what |-> what, demand |-> d, target |-> c.target, owner |-> c.owner,
                   key |-> c.key, attempt |-> Chat!Prior(log, c.key) + 1]
           /\ Chat!Active(log, d) = {} /\ Chat!Prior(log, c.key) < c.max
    BY <1>1 DEF Chat!Valid, Chat!ValidDelegations
  <2>2. c.max = Tries(what)
    BY <1>1, <2>1, CaseTries
  <2> QED
    BY <1>1, <2>1, <2>2
<1>2. CASE kind = "destravar"
  <2>1. PICK e \in Chat!EventsOf(log, target) :
           /\ v = [kind |-> "destravar", what |-> what, demand |-> d, target |-> e.id, owner |-> e.arg, key |-> <<>>, attempt |-> 0]
           /\ e.type = "gate" /\ e.demand = d
           /\ \E a \in Chat!Replayed(log) : a.event = e.id /\ a.demand = d /\ what \in Chat!GateActions(log, a, e.arg)
    BY <1>2 DEF Chat!Valid, Chat!ValidDecisions
  <2>2. PICK n \in DOMAIN log : e = log[n] /\ e.id = n
    BY <2>1 DEF Chat!EventsOf, LogInv, IsLog
  <2>3. \A i \in DOMAIN log : log[i].type = "human" /\ log[i].demand = d /\ log[i].arg = e.arg => i <= n
    <3>1. PICK a \in Chat!Replayed(log) : a.event = e.id /\ a.demand = d /\ what \in Chat!GateActions(log, a, e.arg)
      BY <2>1
    <3>2. a.event = n /\ log[n].type = "gate" /\ a.demand = log[n].demand /\ Chat!GateActions(log, a, log[n].arg) # {}
      BY <2>1, <2>2, <3>1
    <3> QED
      BY <2>2, <3>1, <3>2, GateUnanswered DEF LogInv
  <2> QED
    BY <1>2, <2>1, <2>2, <2>3
<1>3. CASE kind = "resume"
  BY <1>3 DEF Chat!Valid, Chat!ValidResumes, Chat!If
<1> QED
  BY <1>1, <1>2, <1>3 DEF Chat!Kinds

-----------------------------------------------------------------------------
(* The cards.                                                              *)

\* A card more, or what became of one, changes none of what they are.
LEMMA CardsMove ==
  ASSUME ChatInv, log' = log, scenario' = scenario, ConfInv',
         pushing' # Chat!NoPush => Backed(log, Len(log) + 1, pushing'.id),
         IsSequence(proposals'), DOMAIN proposals \subseteq DOMAIN proposals',
         \A p \in DOMAIN proposals : proposals'[p].is = proposals[p].is /\ DOMAIN proposals'[p] = DOMAIN proposals[p]
                                     /\ (proposals[p].state = "confirmada" => proposals'[p] = proposals[p]),
         \A p \in DOMAIN proposals' \ DOMAIN proposals :
            /\ DOMAIN proposals'[p] = {"is", "state", "event"}
            /\ \E kind, what, d, target :
                 /\ kind \in Chat!Kinds /\ (kind = "delegar" => what \in Chat!Categories)
                 /\ proposals'[p].is \in Chat!Valid(log, kind, what, d, target),
         conf'.step = "write" =>
            \/ conf' = conf
            \/ /\ conf'.p \in DOMAIN proposals
               /\ LET is == proposals[conf'.p].is
                  IN is \in Chat!Valid(log, is.kind, is.what, is.demand, is.target)
  PROVE  ChatInv'
<1> USE DEF ChatInv
<1>1. LogInv' /\ DelegationInv' /\ Chat!DecidedOnce'
  BY DEF LogInv, DelegationInv, Chat!DecidedOnce
<1>2. CardsInv'
  <2> SUFFICES ASSUME NEW p \in DOMAIN proposals'
               PROVE  /\ DOMAIN proposals'[p] = {"is", "state", "event"}
                      /\ proposals'[p].is.kind \in Chat!Kinds
                      /\ proposals'[p].is.kind = "delegar" => proposals'[p].is.what \in Chat!Categories
                      /\ Counted(proposals'[p].is) => proposals'[p].is.attempt \in Nat
                      /\ proposals'[p].is.kind = "destravar" => proposals'[p].is.target \in DOMAIN log
    BY DEF CardsInv, Counted
  <2>1. CASE p \in DOMAIN proposals
    BY <2>1 DEF CardsInv
  <2>2. CASE p \notin DOMAIN proposals
    <3>1. PICK kind, what, d, target :
            /\ kind \in Chat!Kinds /\ (kind = "delegar" => what \in Chat!Categories)
            /\ proposals'[p].is \in Chat!Valid(log, kind, what, d, target)
      BY <2>2
    <3> DEFINE v == proposals'[p].is
    <3>2. /\ v.kind = kind
          /\ kind = "delegar" => v.what = what /\ v.attempt = Chat!Prior(log, v.key) + 1
          /\ kind = "destravar" => v.target \in DOMAIN log
      <4> HIDE DEF v
      <4>1. v \in Chat!Valid(log, kind, what, d, target)
        BY <3>1 DEF v
      <4> QED
        BY <3>1, <4>1, ValidCard
    <3>3. Chat!Prior(log, v.key) \in Nat
      BY PriorIsNat DEF LogInv
    <3> QED
      BY <2>2, <3>1, <3>2, <3>3 DEF Counted
  <2> QED
    BY <2>1, <2>2
<1>3. DecidedInv'
  <2> SUFFICES ASSUME NEW i \in DOMAIN log, log[i].proposal # 0
               PROVE  /\ log[i].proposal \in DOMAIN proposals'
                      /\ CarriesOut(log[i], proposals'[log[i].proposal].is)
                      /\ proposals'[log[i].proposal].is.kind = "destravar" => proposals'[log[i].proposal].is.target < i
                      /\ Counted(proposals'[log[i].proposal].is) =>
                           proposals'[log[i].proposal].is.attempt <= Chat!Prior(log, proposals'[log[i].proposal].is.key)
    BY DEF DecidedInv, CarriesOut, Counted
  <2>1. log[i].proposal \in DOMAIN proposals /\ proposals'[log[i].proposal].is = proposals[log[i].proposal].is
    BY DEF DecidedInv
  <2> QED
    BY <2>1 DEF DecidedInv
<1>4. WriteInv'
  <2> SUFFICES ASSUME conf'.step = "write"
               PROVE  LET is == proposals'[conf'.p].is
                      IN /\ is.kind = "delegar" => Chat!Active(log, is.demand) = {} /\ Chat!Prior(log, is.key) < Tries(is.what)
                         /\ Counted(is) => is.attempt = Chat!Prior(log, is.key) + 1
                         /\ is.kind = "destravar" \/ Counted(is) => \A i \in DOMAIN log : log[i].proposal # conf'.p
    BY DEF WriteInv, Counted, Tries
  <2>1. CASE conf' = conf
    <3>1. conf.p \in DOMAIN proposals
      BY <2>1 DEF ConfInv, Chat!Free
    <3> QED
      BY <2>1, <3>1 DEF WriteInv
  <2>2. CASE conf' # conf
    <3> DEFINE p == conf'.p
               is == proposals[p].is
    <3>1. p \in DOMAIN proposals /\ is \in Chat!Valid(log, is.kind, is.what, is.demand, is.target) /\ proposals'[p].is = is
      BY <2>2
    <3>2. is.kind \in Chat!Kinds /\ (is.kind = "delegar" => is.what \in Chat!Categories)
      BY <3>1 DEF CardsInv
    <3> HIDE DEF is, p
    <3>3. /\ is.kind = "delegar" =>
               /\ is.attempt = Chat!Prior(log, is.key) + 1
               /\ Chat!Active(log, is.demand) = {} /\ Chat!Prior(log, is.key) < Tries(is.what)
          /\ is.kind = "destravar" =>
               \A i \in DOMAIN log : log[i].type = "human" /\ log[i].demand = is.demand /\ log[i].arg = is.owner => i <= is.target
      <4> DEFINE kind == is.kind
                 what == is.what
                 d == is.demand
                 target == is.target
      <4>1. LogInv
        OBVIOUS
      <4>2. kind \in Chat!Kinds
        BY <3>2
      <4>3. kind = "delegar" => what \in Chat!Categories
        BY <3>2
      <4>4. is \in Chat!Valid(log, kind, what, d, target)
        BY <3>1
      <4> HIDE DEF kind, what, d, target
      <4>5. /\ kind = "delegar" =>
                 /\ is.what = what /\ is.attempt = Chat!Prior(log, is.key) + 1
                 /\ Chat!Active(log, is.demand) = {} /\ Chat!Prior(log, is.key) < Tries(what)
            /\ kind = "destravar" =>
                 /\ is.target \in DOMAIN log
                 /\ \A i \in DOMAIN log : log[i].type = "human" /\ log[i].demand = is.demand /\ log[i].arg = is.owner => i <= is.target
        BY <4>1, <4>2, <4>3, <4>4, ValidCard
      <4> QED
        BY <4>5 DEF kind, what
    <3>4. ASSUME NEW i \in DOMAIN log, log[i].proposal = p, is.kind = "destravar" \/ Counted(is)
          PROVE  FALSE
      <4>1. p # 0 /\ DOMAIN log \subseteq Nat
        BY <3>1, DomainOf DEF CardsInv, LogInv, IsLog
      <4>2. /\ CarriesOut(log[i], is) /\ (is.kind = "destravar" => is.target < i)
            /\ (Counted(is) => is.attempt <= Chat!Prior(log, is.key))
        BY <3>4, <4>1 DEF DecidedInv, is
      <4>3. is.kind = "destravar" => is.target \in DOMAIN log
        BY <3>1 DEF CardsInv, is
      <4>4. CASE is.kind = "destravar"
        BY <3>3, <4>1, <4>2, <4>3, <4>4 DEF CarriesOut
      <4>5. CASE Counted(is)
        <5>1. Chat!Prior(log, is.key) \in Nat
          BY PriorIsNat DEF LogInv
        <5> QED
          BY <3>3, <4>2, <4>5, <5>1 DEF Counted
      <4> QED
        BY <3>4, <4>4, <4>5
    <3> QED
      BY <3>1, <3>3, <3>4 DEF Counted, is, p
  <2> QED
    BY <2>1, <2>2
<1>5. StartInv'
  <2>1. \A id : Chat!Confirmed(id) => Chat!Confirmed(id)'
    BY DEF Chat!Confirmed
  <2> QED
    BY <2>1 DEF StartInv
<1>6. PushInv'
  BY DEF PushInv, Backed, Chat!NoPush
<1> QED
  BY <1>1, <1>2, <1>3, <1>4, <1>5, <1>6

\* Nothing said and nothing decided.
LEMMA Quiet ==
  ASSUME ChatInv, log' = log, scenario' = scenario, proposals' = proposals, conf' = conf,
         pushing' # Chat!NoPush => Backed(log, Len(log) + 1, pushing'.id)
  PROVE  ChatInv'
<1>1. ConfInv' /\ IsSequence(proposals')
  BY DEF ChatInv, ConfInv, CardsInv, Chat!Free
<1>2. /\ DOMAIN proposals \subseteq DOMAIN proposals'
      /\ \A p \in DOMAIN proposals : proposals'[p].is = proposals[p].is /\ DOMAIN proposals'[p] = DOMAIN proposals[p]
                                     /\ (proposals[p].state = "confirmada" => proposals'[p] = proposals[p])
      /\ DOMAIN proposals' \ DOMAIN proposals = {}
  OBVIOUS
<1> QED
  BY <1>1, <1>2, CardsMove

\* What was pushed goes on being so.
LEMMA StillBacked ==
  ASSUME ChatInv, pushing' = pushing
  PROVE  pushing' # Chat!NoPush => Backed(log, Len(log) + 1, pushing'.id)
BY DEF ChatInv, PushInv

\* An event of the other writers, before it has its place.
LEMMA PutStep ==
  ASSUME ChatInv, NEW e, DOMAIN e = EntryFields, Chat!Put(e), e.proposal = 0, e.type # "delegation",
         proposals' = proposals, conf' = conf, scenario' = scenario,
         pushing' = pushing \/ pushing' = Chat!NoPush,
         e.type = "clarification" => Chat!Answers(log, e),
         e.type = "delegation-start" => Chat!Confirmed(e.delegation),
         e.type = "review-updated" => Backed(log, Len(log) + 1, e.delegation)
  PROVE  ChatInv'
<1> DEFINE w == [e EXCEPT !.id = Len(log) + 1]
<1>1. log' = Append(log, w)
  BY DEF Chat!Put, Chat!NextId
<1>2. w.id = Len(log) + 1 /\ DOMAIN w = EntryFields /\ \A f \in EntryFields \ {"id"} : w[f] = e[f]
  BY Writing
<1>3. w.type = e.type /\ w.proposal = e.proposal /\ w.delegation = e.delegation /\ w.ref = e.ref /\ w.demand = e.demand
  <2> HIDE DEF w
  <2>1. {"type", "proposal", "delegation", "ref", "demand"} \subseteq EntryFields \ {"id"}
    BY DEF EntryFields
  <2> QED
    BY <1>2, <2>1
<1>4. Chat!Answers(log, e) => Chat!Answers(log, w)
  BY <1>3 DEF Chat!Answers
<1> HIDE DEF w
<1> QED
  BY <1>1, <1>2, <1>3, <1>4, OtherWriters

\* Within a delegation, or under none.
LEMMA LogStep ==
  ASSUME ChatInv, NEW e, DOMAIN e = EntryFields, NEW id, Chat!Log(e, id), e.proposal = 0,
         e.type \notin {"delegation", "delegation-start", "review-updated"},
         e.type = "clarification" => Chat!Answers(log, e)
  PROVE  ChatInv'
<1> DEFINE w == [e EXCEPT !.delegation = id]
<1>1. Chat!Put(w) /\ proposals' = proposals /\ conf' = conf /\ scenario' = scenario /\ pushing' = pushing
  BY DEF Chat!Log, Chat!Chat
<1>2. DOMAIN w = EntryFields /\ w.type = e.type /\ w.proposal = e.proposal /\ w.ref = e.ref /\ w.demand = e.demand
  BY DEF EntryFields
<1>3. Chat!Answers(log, e) => Chat!Answers(log, w)
  BY <1>2 DEF Chat!Answers
<1> HIDE DEF w
<1> QED
  BY <1>1, <1>2, <1>3, PutStep

LEMMA EntryIs ==
  ASSUME NEW id, NEW type, NEW agent, NEW d, NEW arg, NEW rec
  PROVE  /\ DOMAIN Chat!Entry(id, type, agent, d, arg, rec) = EntryFields
         /\ Chat!Entry(id, type, agent, d, arg, rec).type = type /\ Chat!Entry(id, type, agent, d, arg, rec).proposal = 0
BY DEF Chat!Entry, EntryFields

-----------------------------------------------------------------------------
(* One step of each.                                                       *)

LEMMA ProposeStep ==
  ASSUME ToolAssumptions, ChatInv, NEW d, NEW w \in scenario.wanted, NEW target, Chat!Propose(d, w, target)
  PROVE  ChatInv'
<1>1. w.kind \in Chat!Kinds /\ (w.kind = "delegar" => w.what \in Chat!Categories)
  BY DEF ToolAssumptions, ChatInv, Chat!Scenario
<1>2. PICK v \in Chat!Valid(log, w.kind, w.what, d, target) :
        proposals' = Append(proposals, [is |-> v, state |-> "open", event |-> 0])
  BY DEF Chat!Propose
<1>3. log' = log /\ conf' = conf /\ pushing' = pushing /\ scenario' = scenario
  BY DEF Chat!Propose, Chat!Git
<1> DEFINE card == [is |-> v, state |-> "open", event |-> 0]
<1>4. card.is = v /\ DOMAIN card = {"is", "state", "event"}
  OBVIOUS
<1> HIDE DEF card
<1>5. /\ IsSequence(proposals) /\ IsSequence(proposals') /\ DOMAIN proposals' = DOMAIN proposals \cup {Len(proposals) + 1}
      /\ Len(proposals) + 1 \notin DOMAIN proposals
      /\ (\A p \in DOMAIN proposals : proposals'[p] = proposals[p]) /\ proposals'[Len(proposals) + 1] = card
  <2>1. IsSequence(proposals) /\ proposals' = Append(proposals, card)
    BY <1>2 DEF ChatInv, CardsInv, card
  <2> QED
    BY <2>1, Appended
<1>6. ConfInv'
  BY <1>3, <1>5 DEF ChatInv, ConfInv, Chat!Free
<1>7. \A p \in DOMAIN proposals' \ DOMAIN proposals :
        /\ DOMAIN proposals'[p] = {"is", "state", "event"}
        /\ \E kind, what, of, t :
             /\ kind \in Chat!Kinds /\ (kind = "delegar" => what \in Chat!Categories)
             /\ proposals'[p].is \in Chat!Valid(log, kind, what, of, t)
  BY <1>1, <1>2, <1>4, <1>5
<1>8. pushing' # Chat!NoPush => Backed(log, Len(log) + 1, pushing'.id)
  BY <1>3, StillBacked
<1> QED
  BY <1>3, <1>5, <1>6, <1>7, <1>8, CardsMove

\* What becomes of one card that was open.
LEMMA OneCard ==
  ASSUME ChatInv, NEW p \in DOMAIN proposals, proposals[p].state = "open", NEW state, NEW event,
         proposals' = [proposals EXCEPT ![p] = [@ EXCEPT !.state = state, !.event = event]],
         log' = log, pushing' = pushing, scenario' = scenario, conf' = Chat!Free
  PROVE  ChatInv'
<1>1. ConfInv'
  BY DEF ConfInv
<1>2. IsSequence(proposals') /\ DOMAIN proposals' = DOMAIN proposals
  BY Replaced DEF ChatInv, CardsInv
<1>3. \A q \in DOMAIN proposals : proposals'[q].is = proposals[q].is /\ DOMAIN proposals'[q] = DOMAIN proposals[q]
                                  /\ (proposals[q].state = "confirmada" => proposals'[q] = proposals[q])
  BY DEF ChatInv, CardsInv
<1>4. pushing' # Chat!NoPush => Backed(log, Len(log) + 1, pushing'.id)
  BY StillBacked
<1>5. conf'.step # "write" /\ DOMAIN proposals' \ DOMAIN proposals = {}
  BY <1>2 DEF Chat!Free
<1> QED
  BY <1>1, <1>2, <1>3, <1>4, <1>5, CardsMove

LEMMA ConfirmReadStep ==
  ASSUME ChatInv, NEW p \in DOMAIN proposals, Chat!ConfirmRead(p)
  PROVE  ChatInv'
<1> DEFINE is == proposals[p].is
<1>1. /\ conf = Chat!Free /\ proposals[p].state = "open" /\ log' = log /\ pushing' = pushing /\ scenario' = scenario
      /\ \/ /\ is \in Chat!Valid(log, is.kind, is.what, is.demand, is.target)
            /\ conf' = [step |-> "write", p |-> p, event |-> 0] /\ proposals' = proposals
         \/ proposals' = [proposals EXCEPT ![p].state = "obsoleta"] /\ conf' = conf
  BY DEF Chat!ConfirmRead, Chat!Git
<1>2. CASE /\ is \in Chat!Valid(log, is.kind, is.what, is.demand, is.target)
           /\ conf' = [step |-> "write", p |-> p, event |-> 0] /\ proposals' = proposals
  <2>1. ConfInv'
    BY <1>1, <1>2 DEF ConfInv
  <2>2. IsSequence(proposals') /\ DOMAIN proposals' = DOMAIN proposals /\ DOMAIN proposals' \ DOMAIN proposals = {}
    BY <1>2 DEF ChatInv, CardsInv
  <2>3. \A q \in DOMAIN proposals : proposals'[q].is = proposals[q].is /\ DOMAIN proposals'[q] = DOMAIN proposals[q]
                                    /\ (proposals[q].state = "confirmada" => proposals'[q] = proposals[q])
    BY <1>2
  <2>4. pushing' # Chat!NoPush => Backed(log, Len(log) + 1, pushing'.id)
    BY <1>1, StillBacked
  <2>5. conf'.p \in DOMAIN proposals
        /\ LET shown == proposals[conf'.p].is
           IN shown \in Chat!Valid(log, shown.kind, shown.what, shown.demand, shown.target)
    BY <1>2
  <2> QED
    BY <1>1, <2>1, <2>2, <2>3, <2>4, <2>5, CardsMove
<1>3. CASE proposals' = [proposals EXCEPT ![p].state = "obsoleta"] /\ conf' = conf
  <2>1. proposals' = [proposals EXCEPT ![p] = [@ EXCEPT !.state = "obsoleta", !.event = proposals[p].event]]
    BY <1>3 DEF ChatInv, CardsInv, IsSequence
  <2> DEFINE event == proposals[p].event
  <2> HIDE DEF event
  <2>2. proposals' = [proposals EXCEPT ![p] = [@ EXCEPT !.state = "obsoleta", !.event = event]] /\ conf' = Chat!Free
    BY <1>1, <1>3, <2>1 DEF event
  <2> QED
    BY <1>1, <2>2, OneCard
<1> QED
  BY <1>1, <1>2, <1>3

LEMMA DiscardStep ==
  ASSUME ChatInv, NEW p \in DOMAIN proposals, Chat!Discard(p)
  PROVE  ChatInv'
<1>1. /\ conf' = Chat!Free /\ proposals[p].state = "open" /\ log' = log /\ pushing' = pushing /\ scenario' = scenario
      /\ proposals' = [proposals EXCEPT ![p].state = "descartada"]
  BY DEF Chat!Discard, Chat!Git
<1>2. proposals' = [proposals EXCEPT ![p] = [@ EXCEPT !.state = "descartada", !.event = proposals[p].event]]
  BY <1>1 DEF ChatInv, CardsInv, IsSequence
<1> DEFINE event == proposals[p].event
<1> HIDE DEF event
<1>3. proposals' = [proposals EXCEPT ![p] = [@ EXCEPT !.state = "descartada", !.event = event]]
  BY <1>2 DEF event
<1>4. conf' = Chat!Free /\ proposals[p].state = "open" /\ log' = log /\ pushing' = pushing /\ scenario' = scenario
  BY <1>1
<1> QED
  BY <1>3, <1>4, OneCard

LEMMA ConfirmRecordStep ==
  ASSUME ChatInv, Chat!ConfirmRecord
  PROVE  ChatInv'
<1>1. /\ conf.step = "record" /\ conf' = Chat!Free /\ log' = log /\ pushing' = pushing /\ scenario' = scenario
      /\ proposals' = [proposals EXCEPT ![conf.p] = [@ EXCEPT !.state = "confirmada", !.event = conf.event]]
  BY DEF Chat!ConfirmRecord, Chat!Git
<1>2. conf.p \in DOMAIN proposals /\ proposals[conf.p].state = "open"
  BY <1>1 DEF ChatInv, ConfInv, Chat!Free
<1> QED
  BY <1>1, <1>2, OneCard

LEMMA CrashStep ==
  ASSUME ChatInv, Chat!Crash
  PROVE  ChatInv'
<1>1. conf' = Chat!Free /\ log' = log /\ pushing' = pushing /\ scenario' = scenario /\ proposals' = proposals
  BY DEF Chat!Crash, Chat!Git
<1>2. ConfInv' /\ conf'.step # "write"
  BY <1>1 DEF ConfInv, Chat!Free
<1>3. IsSequence(proposals') /\ DOMAIN proposals' = DOMAIN proposals /\ DOMAIN proposals' \ DOMAIN proposals = {}
  BY <1>1 DEF ChatInv, CardsInv
<1>4. \A q \in DOMAIN proposals : proposals'[q].is = proposals[q].is /\ DOMAIN proposals'[q] = DOMAIN proposals[q]
                                  /\ (proposals[q].state = "confirmada" => proposals'[q] = proposals[q])
  BY <1>1
<1>5. pushing' # Chat!NoPush => Backed(log, Len(log) + 1, pushing'.id)
  BY <1>1, StillBacked
<1> QED
  BY <1>1, <1>2, <1>3, <1>4, <1>5, CardsMove

LEMMA HumanStep ==
  ASSUME ChatInv, NEW d, NEW h, NEW action, Chat!HumanDecides(d, h) \/ Chat!HumanControls(d, action)
  PROVE  ChatInv'
<1>1. proposals' = proposals /\ conf' = conf /\ scenario' = scenario /\ pushing' = pushing
  BY DEF Chat!HumanDecides, Chat!HumanControls, Chat!Chat
<1>2. \/ Chat!Put(Chat!Entry(0, "human", "humano", d, h.gate, h.action))
      \/ Chat!Put(Chat!Entry(0, "control", "humano", d, action, ""))
  BY DEF Chat!HumanDecides, Chat!HumanControls
<1>3. ASSUME NEW type \in {"human", "control"}, NEW arg, NEW rec,
             Chat!Put(Chat!Entry(0, type, "humano", d, arg, rec))
      PROVE  ChatInv'
  <2> DEFINE e == Chat!Entry(0, type, "humano", d, arg, rec)
  <2>1. DOMAIN e = EntryFields /\ e.type = type /\ e.proposal = 0
    BY EntryIs
  <2>2. Chat!Put(e) /\ e.type \in {"human", "control"}
    BY <1>3, <2>1
  <2> HIDE DEF e
  <2> QED
    BY <1>1, <2>1, <2>2, PutStep
<1>4. "human" \in {"human", "control"} /\ "control" \in {"human", "control"}
  OBVIOUS
<1>5. CASE Chat!Put(Chat!Entry(0, "human", "humano", d, h.gate, h.action))
  BY <1>3, <1>4, <1>5
<1>6. CASE Chat!Put(Chat!Entry(0, "control", "humano", d, action, ""))
  BY <1>3, <1>4, <1>6
<1> QED
  BY <1>2, <1>5, <1>6

LEMMA TellStep ==
  ASSUME ToolAssumptions, ChatInv, NEW e \in scenario.told, Chat!AgentLogs(e) \/ Chat!Clarify(e)
  PROVE  ChatInv'
<1>1. Chat!Plain(e)
  BY DEF ToolAssumptions, ChatInv, Chat!Scenario
<1>2. DOMAIN e = EntryFields /\ e.proposal = 0 /\ e.type \notin Chat!Recorded
  BY <1>1 DEF Chat!Plain, Chat!Entry, EntryFields
<1>3. PICK id : Chat!Log(e, id) /\ (e.type = "clarification" => Chat!Answers(log, e))
  BY DEF Chat!AgentLogs, Chat!Clarify
<1> QED
  BY <1>2, <1>3, LogStep DEF Chat!Recorded

LEMMA CheckStep ==
  ASSUME ChatInv, NEW d, Chat!CheckDelegation(d)
  PROVE  ChatInv'
<1>1. proposals' = proposals /\ conf' = conf /\ scenario' = scenario /\ pushing' = pushing
  BY DEF Chat!CheckDelegation, Chat!Chat
<1> DEFINE to(e) == [Chat!Entry(0, "delegation-result", "orquestrador", d, "", "") EXCEPT !.delegation = e.id]
<1>2. PICK i \in Chat!Active(log, d) :
        \/ \E rec : Chat!Put([to(log[i]) EXCEPT !.rec = rec])
        \/ Chat!Outcome(log[i]) = "ok" /\ Chat!Put([to(log[i]) EXCEPT !.type = "delegation-start"])
  BY DEF Chat!CheckDelegation
<1> DEFINE e == log[i]
<1>3. /\ DOMAIN to(e) = EntryFields /\ to(e).type = "delegation-result" /\ to(e).proposal = 0 /\ to(e).delegation = e.id
  BY DEF Chat!Entry, EntryFields
<1> HIDE DEF to
<1>4. ASSUME NEW rec, Chat!Put([to(e) EXCEPT !.rec = rec]) PROVE ChatInv'
  <2> DEFINE w == [to(e) EXCEPT !.rec = rec]
  <2>1. DOMAIN w = EntryFields /\ w.type = "delegation-result" /\ w.proposal = 0 /\ Chat!Put(w)
    BY <1>3, <1>4 DEF EntryFields
  <2> HIDE DEF w
  <2> QED
    BY <1>1, <2>1, PutStep
<1>5. ASSUME Chat!Outcome(e) = "ok", Chat!Put([to(e) EXCEPT !.type = "delegation-start"]) PROVE ChatInv'
  <2> DEFINE w == [to(e) EXCEPT !.type = "delegation-start"]
  <2>1. DOMAIN w = EntryFields /\ w.type = "delegation-start" /\ w.proposal = 0 /\ w.delegation = e.id /\ Chat!Put(w)
    BY <1>3, <1>5 DEF EntryFields
  <2>2. Chat!Confirmed(e.id)
    BY <1>5 DEF Chat!Outcome
  <2> HIDE DEF w
  <2> QED
    BY <1>1, <2>1, <2>2, PutStep
<1> QED
  BY <1>2, <1>4, <1>5

LEMMA EndStep ==
  ASSUME ChatInv, NEW d, NEW id, NEW status, Chat!EndDelegation(d, id, status)
  PROVE  ChatInv'
<1> DEFINE e == [Chat!Entry(0, "delegation-result", "orquestrador", d, "", status) EXCEPT !.delegation = id]
<1>1. DOMAIN e = EntryFields /\ e.type = "delegation-result" /\ e.proposal = 0
  BY DEF Chat!Entry, EntryFields
<1>2. Chat!Log(e, id)
  BY DEF Chat!EndDelegation
<1> HIDE DEF e
<1> QED
  BY <1>1, <1>2, LogStep

LEMMA NoteStep ==
  ASSUME ChatInv, NEW d, NEW pr, Chat!NoteConflict(d, pr)
  PROVE  ChatInv'
<1>1. PICK type \in {"pr-conflict", "pr-conflict-cleared"} : Chat!Log(Chat!Entry(0, type, "orquestrador", d, pr, ""), 0)
  BY DEF Chat!NoteConflict
<1> DEFINE e == Chat!Entry(0, type, "orquestrador", d, pr, "")
<1>2. DOMAIN e = EntryFields /\ e.type = type /\ e.proposal = 0
  BY DEF Chat!Entry, EntryFields
<1>3. Chat!Log(e, 0)
  BY <1>1
<1> HIDE DEF e
<1> QED
  BY <1>2, <1>3, LogStep

\* review-update reads the log in which the delegation was started and then
\* approved.
LEMMA UpdateReadStep ==
  ASSUME ChatInv, NEW d, NEW id, Chat!UpdateRead(d, id)
  PROVE  ChatInv'
<1>1. /\ log' = log /\ scenario' = scenario /\ proposals' = proposals /\ conf' = conf /\ pushing'.id = id
      /\ Chat!Approved(log, id, d)
  BY DEF Chat!UpdateRead, Chat!Chat
<1> DEFINE gates == {i \in DOMAIN log : log[i].type = "gate" /\ log[i].demand = d}
           n == Chat!LastOf(gates)
<1>2. /\ gates # {} /\ log[n].arg = "G3" /\ log[n].rec = "APPROVE" /\ log[n].delegation = id
      /\ \E s \in Chat!Linked(log, "delegation-start", id) : s < n
  BY <1>1 DEF Chat!Approved, Chat!Where
<1>3. IsLog(log) /\ gates \subseteq DOMAIN log
  BY DEF ChatInv, LogInv
<1>4. n \in gates
  <2> HIDE DEF gates
  <2> QED
    BY <1>2, <1>3, LastIn
<1>5. n \in DOMAIN log /\ log[n].type = "gate" /\ n < Len(log) + 1
  BY <1>3, <1>4, DomainOf DEF IsLog
<1>6. Backed(log, Len(log) + 1, id)
  BY <1>2, <1>5 DEF Backed, Chat!Linked, Chat!Where
<1> QED
  BY <1>1, <1>6, Quiet

LEMMA UpdatePushStep ==
  ASSUME ChatInv, NEW d, Chat!UpdatePush(d)
  PROVE  ChatInv'
<1>1. scenario' = scenario /\ proposals' = proposals /\ conf' = conf /\ pushing' = Chat!NoPush
  BY DEF Chat!UpdatePush, Chat!Chat
<1>2. Backed(log, Len(log) + 1, pushing.id)
  <2>1. \E e \in Chat!EventsOf(log, pushing.id) : e.demand = d
    BY DEF Chat!UpdatePush
  <2>2. \E i \in DOMAIN log : i = pushing.id
    BY <2>1 DEF Chat!EventsOf, ChatInv, LogInv, IsLog
  <2>3. pushing.id # 0
    BY <2>2, DomainOf DEF ChatInv, LogInv, IsLog
  <2>4. pushing # Chat!NoPush
    <3>1. Chat!NoPush.id = 0
      BY DEF Chat!NoPush
    <3> QED
      BY <2>3, <3>1
  <2> QED
    BY <2>4 DEF ChatInv, PushInv
<1>3. CASE log' = log
  BY <1>1, <1>3, Quiet
<1>4. CASE log' # log
  <2> DEFINE e == [Chat!Entry(0, "review-updated", "orquestrador", d, pushing.pr, "") EXCEPT !.delegation = pushing.id]
  <2>1. Chat!Put(e)
    BY <1>4 DEF Chat!UpdatePush
  <2>2. DOMAIN e = EntryFields /\ e.type = "review-updated" /\ e.proposal = 0 /\ e.delegation = pushing.id
    BY DEF Chat!Entry, EntryFields
  <2> HIDE DEF e
  <2> QED
    BY <1>1, <1>2, <2>1, <2>2, PutStep
<1> QED
  BY <1>3, <1>4

\* The clock, the watch and the worktrees.
LEMMA AsideStep ==
  ASSUME ChatInv,
         \/ \E id : Chat!GetsLate(id)
         \/ \E d, kind, agent : Chat!Alarm(d, kind, agent)
         \/ \E w : Chat!AlarmOver(w)
         \/ \E d : \/ Chat!DevelopMoves(d) \/ Chat!DemandWorktree(d) \/ Chat!EditTree(d)
                   \/ Chat!FeatureSync(d) \/ Chat!Resolve(d) \/ Chat!AbortSync(d)
         \/ UNCHANGED Chat!vars
  PROVE  ChatInv'
<1>1. log' = log /\ scenario' = scenario /\ proposals' = proposals /\ conf' = conf /\ pushing' = pushing
  BY DEF Chat!GetsLate, Chat!Alarm, Chat!AlarmOver, Chat!DevelopMoves, Chat!DemandWorktree,
     Chat!EditTree,
         Chat!FeatureSync, Chat!Resolve, Chat!AbortSync, Chat!GitStep, Chat!Chat, Chat!vars
<1> QED
  BY <1>1, StillBacked, Quiet

-----------------------------------------------------------------------------
LEMMA ChatInvStarts ==
  ASSUME ToolAssumptions, Chat!Init
  PROVE  ChatInv
<1>1. /\ scenario \in Pasts /\ log = scenario.log /\ proposals = <<>> /\ conf = Chat!Free /\ pushing = Chat!NoPush
      /\ Chat!Scenario(scenario)
  BY DEF Chat!Init, ToolAssumptions
<1>2. LogInv
  BY <1>1, EntryIs, ZenonT(30) DEF LogInv, IsLog, IsSequence, Chat!Scenario, Chat!Plain
<1>3. \A i \in DOMAIN log : log[i].type \notin Chat!Recorded /\ log[i].proposal = 0
  BY <1>1 DEF Chat!Scenario, Chat!Plain
<1>4. IsSequence(proposals) /\ DOMAIN proposals = {}
  BY <1>1 DEF IsSequence
<1>5. CardsInv /\ ConfInv /\ WriteInv
  BY <1>1, <1>4 DEF CardsInv, ConfInv, WriteInv, Chat!Free
<1>6. DecidedInv /\ StartInv /\ Chat!DecidedOnce
  BY <1>3 DEF DecidedInv, StartInv, Chat!DecidedOnce, Chat!Recorded
<1>7. PushInv
  BY <1>1, <1>3 DEF PushInv, Chat!Recorded
<1>8. DelegationInv
  BY <1>3 DEF DelegationInv, Chat!Active, Chat!Delegations, Chat!Where, Chat!Recorded
<1> QED
  BY <1>1, <1>2, <1>5, <1>6, <1>7, <1>8 DEF ChatInv

LEMMA ChatInvStays ==
  ASSUME ToolAssumptions, ChatInv, [Chat!Next]_(Chat!vars)
  PROVE  ChatInv'
<1>1. ASSUME NEW d \in ChatDemands, NEW w \in scenario.wanted, NEW t \in Chat!Targets, Chat!Propose(d, w, t) PROVE ChatInv'
  BY <1>1, ProposeStep
<1>2. ASSUME NEW p \in DOMAIN proposals, Chat!ConfirmRead(p) \/ Chat!Discard(p) PROVE ChatInv'
  BY <1>2, ConfirmReadStep, DiscardStep
<1>3. ASSUME Chat!ConfirmWrite \/ Chat!ConfirmRecord \/ Chat!Crash PROVE ChatInv'
  BY <1>3, CardWritten, ConfirmRecordStep, CrashStep
<1>4. ASSUME NEW d \in ChatDemands, NEW h \in scenario.decisions, Chat!HumanDecides(d, h) PROVE ChatInv'
  BY <1>4, HumanStep
<1>5. ASSUME NEW d \in ChatDemands, NEW a \in {"pause", "resume", "cancel"}, Chat!HumanControls(d, a) PROVE ChatInv'
  BY <1>5, HumanStep
<1>6. ASSUME NEW e \in scenario.told, Chat!AgentLogs(e) \/ Chat!Clarify(e) PROVE ChatInv'
  BY <1>6, TellStep
<1>7. ASSUME NEW d \in ChatDemands, Chat!CheckDelegation(d) \/ Chat!UpdatePush(d) PROVE ChatInv'
  BY <1>7, CheckStep, UpdatePushStep
<1>8. ASSUME NEW d \in ChatDemands, NEW id \in Chat!Targets,
             Chat!EndDelegation(d, id, "ok") \/ Chat!EndDelegation(d, id, "falhou") \/ Chat!UpdateRead(d, id)
      PROVE ChatInv'
  BY <1>8, EndStep, UpdateReadStep
<1>9. ASSUME NEW d \in ChatDemands, NEW pr, Chat!NoteConflict(d, pr) PROVE ChatInv'
  BY <1>9, NoteStep
<1>10. ASSUME \/ \E id \in Chat!Targets : Chat!GetsLate(id)
              \/ \E d \in ChatDemands : Chat!Alarm(d, "agent-stalled", "backend") \/ Chat!Alarm(d, "test-env-failed", "")
              \/ \E w \in watch : Chat!AlarmOver(w)
              \/ \E d \in ChatDemands : \/ Chat!DevelopMoves(d) \/ Chat!DemandWorktree(d) \/ Chat!EditTree(d)
                                        \/ Chat!FeatureSync(d) \/ Chat!Resolve(d) \/ Chat!AbortSync(d)
              \/ UNCHANGED Chat!vars
       PROVE ChatInv'
  BY <1>10, AsideStep
<1> QED
  BY <1>1, <1>2, <1>3, <1>4, <1>5, <1>6, <1>7, <1>8, <1>9, <1>10 DEF Chat!Next

-----------------------------------------------------------------------------
LEMMA ImplementsChat == ToolsSpec => Chat!Spec
<1>1. ToolsInit => Chat!Init
  BY DEF ToolsInit
<1>2. [ToolsNext]_allVars => [Chat!Next]_(Chat!vars)
  BY DEF ToolsNext, allVars, chatVars, Chat!vars
<1> QED
  BY <1>1, <1>2, PTL DEF ToolsSpec, Chat!Spec

LEMMA ChatInvAlways == ToolsSpec => []ChatInv
<1>1. Chat!Init => ChatInv
  BY ToolAssumptions, ChatInvStarts
<1>2. ChatInv /\ [Chat!Next]_(Chat!vars) => ChatInv'
  BY ToolAssumptions, ChatInvStays
<1> QED
  BY <1>1, <1>2, ImplementsChat, PTL DEF Chat!Spec

\* The alerts kept event by event, each time only those of the demand the event
\* is about, are those the whole log calls for (alerts.py Rules._run).
THEOREM AlertsAreExactAlways == ToolsSpec => []AlertsExact
<1>1. ChatInv => AlertsExact
  BY AlertsAreExact DEF ChatInv, LogInv, AlertsExact, Chat!AlertsExact, Chat!Concerned
<1> QED
  BY <1>1, ChatInvAlways, PTL

\* A demand has one delegation under way, no step is tried more often than its
\* category allows, and a card puts in the log one decision of a gate, and one
\* delegation of a step whose attempts are never cleared, whoever proposes, confirms
\* or stops half way (conversa.py validate_delegation, confirm).  Of the other steps
\* a card may be carried out twice: TLC refutes OneDelegationPerCard.
THEOREM DelegatedOnceAlways == ToolsSpec => []DelegatedOnce
<1>1. ASSUME ChatInv, NEW d \in ChatDemands
      PROVE  Chat!Cardinality(Chat!Active(log, d)) <= 1
  <2> DEFINE S == Chat!Active(log, d)
  <2>1. \A i, j \in S : i = j
    BY <1>1 DEF ChatInv, DelegationInv
  <2> HIDE DEF S
  <2>2. S = {} \/ \E i : S = {i}
    BY <2>1
  <2>3. Cardinality(S) <= 1
    <3>1. CASE S = {}
      BY <3>1, FS_EmptySet
    <3>2. ASSUME NEW i, S = {i} PROVE Cardinality(S) <= 1
      <4>1. Cardinality({i}) = 1
        BY FS_Singleton
      <4> QED
        BY <3>2, <4>1
    <3> QED
      BY <2>2, <3>1, <3>2
  <2> QED
    BY <2>3, SameCount DEF S
<1>2. ChatInv => Chat!OneDelegation
  BY <1>1 DEF ChatInv, DelegationInv, Tries, Chat!OneDelegation
<1>3. ChatInv => DelegatedOnce
  BY <1>2 DEF ChatInv, DelegatedOnce
<1> QED
  BY <1>3, ChatInvAlways, PTL

\* What is pushed to a PR under review in the name of a delegation was confirmed
\* by the human, started, and only then approved at G3 (server.py
\* delegation_check, gitflow.py review_update).
THEOREM PushIsAlwaysAuthorised == ToolsSpec => []PushIsAuthorised
<1>1. ASSUME ChatInv, NEW u \in DOMAIN log, log[u].type = "review-updated"
      PROVE  /\ Chat!Confirmed(log[u].delegation)
             /\ \E s \in Chat!Linked(log, "delegation-start", log[u].delegation),
                   g \in Chat!Linked(log, "gate", log[u].delegation) :
                  s < g /\ g < u /\ log[g].arg = "G3" /\ log[g].rec = "APPROVE"
  <2>1. PICK s, g \in DOMAIN log :
          /\ log[s].type = "delegation-start" /\ log[s].delegation = log[u].delegation
          /\ log[g].type = "gate" /\ log[g].delegation = log[u].delegation /\ log[g].arg = "G3" /\ log[g].rec = "APPROVE"
          /\ s < g /\ g < u
    BY <1>1 DEF ChatInv, PushInv, Backed
  <2>2. Chat!Confirmed(log[u].delegation)
    BY <1>1, <2>1 DEF ChatInv, StartInv
  <2> QED
    BY <2>1, <2>2 DEF Chat!Linked, Chat!Where
<1>2. ChatInv => Chat!PushIsAuthorised
  BY <1>1 DEF Chat!PushIsAuthorised, Chat!Where
<1>3. ChatInv => PushIsAuthorised
  BY <1>2 DEF PushIsAuthorised
<1> QED
  BY <1>3, ChatInvAlways, PTL
=============================================================================
