---- MODULE GitHubSync ----
(* github_sync.py: the log of the squad projected on GitHub issues and on   *)
(* the cards of a Project.  Events are handled in the order of the log; the *)
(* state file is written after each.  A call of gh that fails leaves the    *)
(* event unprocessed, what was already done stays done on GitHub and in the *)
(* memory of the watching process, and the next cycle handles the event     *)
(* from its beginning.                                                      *)
EXTENDS Naturals, Sequences, FiniteSets, SequencesExt, Subsequences

CONSTANTS
  Workers,     \* agents that deliver work: "qa", ...
  Covers,      \* GATE_COVERS: gate -> sequence of the agents it covers
  Histories,   \* logs the first cycle may find
  MaxNew,      \* bound: events appended while it watches
  MaxFault,    \* bound: calls of gh that fail
  MaxCrash     \* bound: restarts of the watching process

Gates == DOMAIN Covers
Agents == Workers \cup {"auditor", "orquestrador"}

VARIABLES
  past,        \* the log found at the start
  events,      \* decisions.jsonl
  mem,         \* Sync.s in the watching process: [done, issues]
  saved,       \* github-sync.json, its last save
  hub,         \* the issues of the repository in the order of their creation
  midway,      \* the next event was tried and stopped half way
  unheard,     \* issues whose unchecked close was lost
  faults, crashes

vars == <<past, events, mem, saved, hub, midway, unheard, faults, crashes>>

Diary == 0     \* the key "_diario"; an event's own key is its place in the log
Nothing == [done |-> 0, issues |-> << >>]

Init ==
  /\ past \in Histories /\ events = past /\ mem = Nothing /\ saved = Nothing /\ hub = << >>
  /\ midway = FALSE /\ unheard = {} /\ faults = 0 /\ crashes = 0
----
(* The log grows by what the server, the gates and the Git Flow allow after *)
(* its first n events.                                                      *)

Registered(log, n) == {i \in 1..n : log[i].type = "task" /\ log[i].agent = "orquestrador"}
Moves == {"start", "review", "delivered", "review-rejected", "cancel"}
Move(e) == IF e.type = "control" THEN e.arg ELSE e.type
\* The last move of demand d.
LastMove(log, d, n) ==
  LET of == {i \in 1..n : log[i].demand = d /\ Move(log[i]) \in Moves}
  IN IF of = {} THEN "none" ELSE Move(log[CHOOSE i \in of : \A j \in of : j <= i])
\* The moves it may come after.
Follows(move) ==
  CASE move = "start"                           -> {"none"}
    [] move = "review"                          -> {"start", "review-rejected"}
    [] move \in {"review-rejected", "delivered"} -> {"review"}
    [] move = "cancel"                          -> {"none", "start", "review", "review-rejected"}

Types == {"task", "handoff", "gate", "human", "defect", "decision", "control", "validation"} \cup (Moves \ {"cancel"})
Events(type, agents, demands, args) == [type : {type}, agent : agents, demand : demands, arg : args]
Possible(type, log, n) ==
  LET demands == Registered(log, n) IN
  CASE type = "task"       -> Events(type, Agents, {0}, {"none"})
    [] type = "handoff"    -> Events(type, Workers, {0} \cup demands, {"none"})
    [] type = "gate"       -> Events(type, {"auditor"}, {0}, Gates \X {"APPROVE", "RETURN", "doubt"})
                              \cup Events(type, {"auditor"}, demands, Gates \X {"APPROVE"})
    [] type = "human"      -> Events(type, {"humano"}, {0}, Gates \X {"OVERRIDE", "RETURN"})
    [] type = "defect"     -> Events(type, Workers, {0}, {"none"})
    [] type = "decision"   -> Events(type, {"orquestrador"}, {0}, {"none"})
    [] type = "control"    -> Events(type, {"humano"}, demands, {"pause", "resume", "cancel", "reprioritize"})
    [] type = "validation" -> Events(type, {"arquiteto"}, demands, {"none"})
    [] type \in Moves      -> Events(type, {"humano"}, demands, {"none"})
Legal(log, n, e) ==
  LET last == LastMove(log, e.demand, n) IN
  /\ Move(e) \in Moves => last \in Follows(Move(e))
  /\ e.type = "control" => last \notin {"delivered", "cancel"}

\* A log that grew by nothing else.
IsLog(log) ==
  /\ Len(log) \in Nat /\ log = [i \in 1..Len(log) |-> log[i]]
  /\ \A i \in DOMAIN log : /\ log[i].type \in Types /\ log[i] \in Possible(log[i].type, log, i - 1)
                           /\ Legal(log, i - 1, log[i])

SyncAssumption ==
  /\ {MaxNew, MaxFault, MaxCrash} \subseteq Nat
  /\ {"auditor", "orquestrador"} \cap Workers = {}
  /\ \A g \in Gates : Covers[g] \in Seq(Workers)
  /\ \A log \in Histories : IsLog(log)

LogGrows ==
  /\ Len(events) < Len(past) + MaxNew
  /\ \E type \in Types : \E e \in Possible(type, events, Len(events)) :
       Legal(events, Len(events), e) /\ events' = Append(events, e)
  /\ UNCHANGED <<past, mem, saved, hub, midway, unheard, faults, crashes>>
----
(* A handler is the sequence of the calls it makes.  A checked call that    *)
(* fails stops it (gh raises RuntimeError); an unchecked one goes on.       *)

\* What can be done to an issue; each of these, one issue after the other.
Say == <<"comment", "none">>
Card(v) == <<"card", v>>                    \* set_field(issue, "Status", v)
Handed(yes) == <<"handed", yes>>
Closing == <<"close", "none">>
Reopening == <<"reopen", "none">>
Each(keys, deeds) ==
  [n \in 1..Len(keys) * Len(deeds) |->
     LET deed == deeds[((n - 1) % Len(deeds)) + 1] IN
     [do |-> deed[1], key |-> keys[((n - 1) \div Len(deeds)) + 1], arg |-> deed[2]]]
On(k, deeds) == Each(<<k>>, deeds)

\* create_issue: the issue, then its card, then the key of the mirror.
Create(k, agent, kind, status) ==
  On(k, << <<"create", "none">>, <<"add", [agent |-> agent, kind |-> kind]>>, Card(status) >>)

\* issues_of: the task issues of an agent in the order they were created.
IssuesOf(s, a, handed, closed) ==
  LET of == {k \in DOMAIN s.issues : /\ k # Diary /\ s.issues[k].agent = a /\ s.issues[k].kind = "task"
                                     /\ s.issues[k].handed \in handed /\ s.issues[k].closed \in closed}
  IN Kept([k \in of |-> k], of)
Tracked(s, k) == k \in DOMAIN s.issues
WithDiary(s) == IF Tracked(s, Diary) THEN << >> ELSE Create(Diary, "orquestrador", "task", "em-andamento")

OnHandoff(s, k, e) ==
  LET waiting == IssuesOf(s, e.agent, {FALSE}, {FALSE})
      of == IF waiting = << >> THEN k ELSE waiting[Len(waiting)]
  IN (IF waiting = << >> THEN Create(k, e.agent, "task", "em-andamento") ELSE << >>)
     \o On(of, << Say, Handed(TRUE), Card("gate") >>)

Verdict(v) ==
  CASE v = "doubt"   -> << Say, Card("intervencao-humana") >>
    [] v = "APPROVE" -> << Say, Card("concluido"), Closing >>
    [] v = "RETURN"  -> << Say, Handed(FALSE), Card("em-andamento") >>
OnGate(s, e) ==
  LET covered == FlattenSeq([n \in DOMAIN Covers[e.arg[1]] |-> IssuesOf(s, Covers[e.arg[1]][n], {TRUE}, {FALSE})])
  IN Each(covered, Verdict(e.arg[2]))
     \o Each(IssuesOf(s, "auditor", BOOLEAN, {FALSE}), << Say, Card("concluido"), Closing >>)

Answer(v) ==
  IF v = "OVERRIDE" THEN << Say, Card("em-andamento") >>
  ELSE << Say, Reopening, Handed(FALSE), Card("em-andamento") >>
OnHuman(s, e) ==
  LET all == FlattenSeq([n \in DOMAIN Covers[e.arg[1]] |-> IssuesOf(s, Covers[e.arg[1]][n], BOOLEAN, BOOLEAN)])
      last == IF Len(all) > 3 THEN SubSeq(all, Len(all) - 2, Len(all)) ELSE all
  IN IF all = << >> THEN WithDiary(s) \o On(Diary, Answer(e.arg[2])) ELSE Each(last, Answer(e.arg[2]))

OnControl(d, e) ==
  On(d, CASE e.arg = "pause"        -> << Say, Card("intervencao-humana") >>
          [] e.arg = "resume"       -> << Say, Card("em-andamento") >>
          [] e.arg = "cancel"       -> << Say, <<"drop", "cancelado">> >>
          [] e.arg = "reprioritize" -> << Say >>)

\* The handlers of events that name a demand start by looking its issue up.
OnDemand(s, e) ==
  LET d == e.demand IN
  IF ~Tracked(s, d) THEN << >>
  ELSE CASE e.type = "start"           -> On(d, << Say, Card("em-andamento") >>)
         [] e.type = "control"         -> OnControl(d, e)
         [] e.type = "validation"      -> IF s.issues[d].closed THEN << >> ELSE On(d, << Say >>)
         [] e.type = "review"          -> On(d, << Say >>)
         [] e.type = "delivered"       -> On(d, << Say, Card("concluido"), Closing >>)
         [] e.type = "review-rejected" -> On(d, << Reopening, Say, Card("em-andamento") >>)

\* on_demand_event: a handoff or a gate is told on the demand's issue too; not
\* even the approval of G3 closes it.
Approved(e) == e.type = "gate" /\ e.arg = <<"G3", "APPROVE">>
AlsoOnDemandClosing(s, e) ==
  IF e.demand = 0 \/ ~Tracked(s, e.demand) THEN << >>
  ELSE On(e.demand, IF Approved(e) THEN << Say, Closing >> ELSE << Say >>)
AlsoOnDemand(s, e) ==
  IF e.demand = 0 \/ ~Tracked(s, e.demand) THEN << >>
  ELSE On(e.demand, IF Approved(e) THEN << Say, Card("em-andamento") >> ELSE << Say >>)

Handler(s, k, e) ==
  CASE e.type = "task"     -> Create(k, e.agent, "task", "em-andamento")
    [] e.type = "defect"   -> Create(k, e.agent, "ticket", "backlog")
    [] e.type = "handoff"  -> OnHandoff(s, k, e) \o AlsoOnDemand(s, e)
    [] e.type = "gate"     -> OnGate(s, e) \o AlsoOnDemand(s, e)
    [] e.type = "human"    -> OnHuman(s, e)
    [] e.type = "decision" -> WithDiary(s) \o On(Diary, << Say >>)
    [] OTHER               -> OnDemand(s, e)
----
(* What each call does to the mirror in memory and to GitHub, and how the   *)
(* calls of a handler are run.                                              *)

Unchecked == {"drop", "handed"}
Number(w, k) == w.issues[k].number
With(w, k, field, v) == [w EXCEPT !.issues[k][field] = v]
IssueAsCreated(agent, kind, n) ==
  [number |-> n, agent |-> agent, kind |-> kind, status |-> "none", handed |-> FALSE, closed |-> FALSE]

Shut(w, k) ==
  IF w.issues[k].closed THEN w
  ELSE [With(w, k, "closed", TRUE) EXCEPT !.hub[Number(w, k)].open = FALSE]
Reopen(w, k) ==
  IF ~w.issues[k].closed THEN w
  ELSE [With(w, k, "closed", FALSE) EXCEPT !.hub[Number(w, k)].open = TRUE]
\* set_field
SetCard(w, k, v) == [With(w, k, "status", v) EXCEPT !.hub[Number(w, k)].card = v]
AddCard(w, k, of) ==
  [w EXCEPT !.issues = [j \in DOMAIN w.issues \cup {k} |->
     IF j = k THEN IssueAsCreated(of.agent, of.kind, Len(w.hub)) ELSE w.issues[j]]]

Done(w, c) ==
  CASE c.do = "create"  -> [w EXCEPT !.hub = Append(@, [key |-> c.key, open |-> TRUE, card |-> "none"])]
    [] c.do = "add"     -> AddCard(w, c.key, c.arg)
    [] c.do = "card"    -> SetCard(w, c.key, c.arg)
    [] c.do = "close"   -> Shut(w, c.key)
    [] c.do = "reopen"  -> Reopen(w, c.key)
    [] c.do = "drop"    -> With(Shut(w, c.key), c.key, "status", c.arg)
    [] c.do = "handed"  -> With(w, c.key, "handed", c.arg)
    [] c.do = "comment" -> w

\* on_control does not look at the exit of `gh issue close`: it records the
\* issue as closed and canceled whatever became of it.
LostDrop(w, c) ==
  [With(With(w, c.key, "closed", TRUE), c.key, "status", c.arg) EXCEPT
     !.lost = IF w.issues[c.key].closed THEN @ ELSE @ \cup {Number(w, c.key)}]

\* A call that fails, or does not, after what came before.
After(w, c, fails) ==
  IF w.stopped THEN w
  ELSE IF ~fails \/ c.do = "handed" THEN Done(w, c)
  ELSE IF c.do \in Unchecked THEN LostDrop(w, c)
  ELSE [w EXCEPT !.stopped = TRUE]

\* The calls of a handler one after the other; those of `bad` fail.
Run(calls, bad) ==
  LET world[n \in 0..Len(calls)] ==
        IF n = 0 THEN [issues |-> mem.issues, hub |-> hub, lost |-> unheard, stopped |-> FALSE]
        ELSE After(world[n - 1], calls[n], n \in bad)
  IN world[Len(calls)]

\* run_once, for the next event of the log that is not processed yet.
NextEvent == mem.done + 1
Attempt(bad) ==
  /\ mem.done < Len(events)
  /\ LET calls == Handler(mem, NextEvent, events[NextEvent])
         w == Run(calls, bad)
         now == [done |-> IF w.stopped THEN mem.done ELSE NextEvent, issues |-> w.issues]
     IN /\ bad \subseteq DOMAIN calls
        /\ mem' = now /\ hub' = w.hub /\ unheard' = w.lost
        /\ saved' = IF w.stopped THEN saved ELSE now
        /\ midway' = w.stopped
  /\ UNCHANGED <<past, events, crashes>>
Process == Attempt({}) /\ UNCHANGED faults
ProcessInOutage ==
  /\ faults < MaxFault /\ faults' = faults + 1
  /\ mem.done < Len(events)
  /\ \E n \in DOMAIN Handler(mem, NextEvent, events[NextEvent]) : Attempt({n})

\* The process is killed, half way through a handler or not, and started again.
Restart ==
  /\ crashes < MaxCrash /\ crashes' = crashes + 1
  /\ mem' = saved
  /\ UNCHANGED <<past, events, saved, hub, midway, unheard, faults>>

Next == LogGrows \/ Process \/ ProcessInOutage \/ Restart
Spec == Init /\ [][Next]_vars
----
(* Type correctness: what the mirror holds is an issue of the repository,   *)
(* and the file never runs ahead of the memory.                             *)
TypeOK ==
  /\ mem.done \in 0..Len(events) /\ saved.done = mem.done
  /\ \A k \in DOMAIN mem.issues :
       /\ mem.issues[k].number \in DOMAIN hub /\ hub[mem.issues[k].number].key = k
       /\ mem.issues[k].agent \in Agents /\ mem.issues[k].closed \in BOOLEAN

(* With no event half handled, the mirror and GitHub agree, whichever call  *)
(* failed and whenever the process was restarted: an issue recorded closed  *)
(* is closed, one recorded open is open, and its card shows the status      *)
(* recorded (but for the closes whose failure the code ignores).  One call  *)
(* only: after a second failure of the same event, and a restart in         *)
(* between, the repeated handler may choose another issue, and the card     *)
(* the lost attempt moved stays where it put it.                            *)
MirrorIsTrue ==
  ~midway /\ faults <= 1 => \A k \in DOMAIN saved.issues :
    LET i == saved.issues[k] IN
    i.number \notin unheard => /\ i.closed <=> ~hub[i.number].open
                               /\ i.status # "cancelado" => i.status = hub[i.number].card

(* The issue of a demand is closed exactly when the events handled so far   *)
(* end in a delivery or a cancellation: neither a gate, a late validation   *)
(* nor a repeated attempt closes it or leaves it open (D8: only the merge   *)
(* concludes).                                                              *)
ClosedByTheLog ==
  \A d \in Registered(events, Len(events)) : Tracked(saved, d) =>
    (saved.issues[d].closed <=> LastMove(events, d, saved.done) \in {"delivered", "cancel"})

(* Stated by the code (line 422, and the docstring: "O sync é idempotente"): *)
(* a failure half way does not duplicate issues.                            *)
NoDuplicateIssue == \A m, n \in DOMAIN hub : hub[m].key = hub[n].key => m = n
====
