---- MODULE DemandIntake ----
(* How a demand enters the squad and is prepared: the routes of server.py   *)
(* that register a demand or a bug, add evidence, clarify, edit, control    *)
(* and start it, the task command of log.py, the triage of triage.py, the   *)
(* codes of product.py and the bug folders and drafts of bugs.py.  Each     *)
(* request is a thread that reads the log and appends to it later; a task   *)
(* of the human gets its code under a lock shared between processes.        *)
EXTENDS Naturals, Sequences, FiniteSets, SequencesExt

CONSTANTS
  Threads,      \* requests of the server and commands that run at a time
  Legacy,       \* human tasks of the log written before codes were recorded
  Until,        \* the last of them that codes.json freezes
  Wanted,       \* the requests the human makes
  MaxRequest,   \* bound: requests, previews of bugs aside
  MaxMishap,    \* bound: timeouts of the lock, stops of the server, torn lines, expired drafts
  MaxDraft      \* bound: drafts of bugs

IntakeAssumption ==
  /\ {Legacy, Until, MaxRequest, MaxMishap, MaxDraft} \subseteq Nat
  /\ Until <= Legacy
  /\ "nobody" \notin Threads
  /\ Wanted \subseteq {"task", "bug", "evidence", "clarify", "edit", "pause", "cancel", "start", "triage"}

VARIABLES
  rows,       \* decisions.jsonl: [type, demand, code, bug, backlog, ok, torn, open]; a
              \* torn line does not parse, an open one has no end of line yet
  codesLock,  \* who holds codes.lock
  bugsLock,   \* who holds bugs.LOCK
  drafts,     \* .squad/bug-drafts
  folders,    \* docs/squad/<kind>/bugs: demand -> evidence numbers of its bug.json
  index,      \* index.jsonl of the kind
  inbox,      \* docs/squad/inbox
  req,        \* the request each thread serves
  told,       \* answers 201 with a code: demand -> code
  fromDraft,  \* the draft of each bug answered 201
  cut,        \* demands whose request a stop of the server cut short
  asked, mishaps, drafted

vars == <<rows, codesLock, bugsLock, drafts, folders, index, inbox, req, told, fromDraft, cut, asked, mishaps, drafted>>

None == "nobody"
Idle == [do |-> "idle", pc |-> "idle", d |-> 0, draft |-> 0, top |-> 0, mark |-> 0, ok |-> FALSE]
Put(f, x, v) == [y \in DOMAIN f \cup {x} |-> IF y = x THEN v ELSE f[y]]
Row(type, d) == [type |-> type, demand |-> d, code |-> 0, bug |-> FALSE, backlog |-> FALSE, ok |-> FALSE,
                  torn |-> FALSE, open |-> FALSE]

Init ==
  /\ rows = [i \in 1..Legacy |-> Row("task", i)]
  /\ codesLock = None /\ bugsLock = None
  /\ drafts = {} /\ folders = << >> /\ index = << >> /\ inbox = {}
  /\ req = [t \in Threads |-> Idle]
  /\ told = << >> /\ fromDraft = << >> /\ cut = {}
  /\ asked = 0 /\ mishaps = 0 /\ drafted = 0

(* A line is appended after what the file ends with: after a line that was  *)
(* cut short the two make one that no reader can parse.                     *)
CutShort(e) == e.torn /\ e.open
Appended(log, e) ==
  IF log # << >> /\ CutShort(log[Len(log)]) THEN [log EXCEPT ![Len(log)] = [e EXCEPT !.torn = TRUE]]
  ELSE Append(log, e)

\* read_rows: lines that do not parse are skipped.
ReadRows == {i \in DOMAIN rows : ~rows[i].torn}
Events(type, d) == {i \in ReadRows : rows[i].type = type /\ rows[i].demand = d}
Has(type, d) == Events(type, d) # {}
HumanTasks == {i \in ReadRows : rows[i].type = "task"}
Known == {rows[i].demand : i \in HumanTasks}
----
(* product._compute: frozen codes first, then the codes recorded in the log *)
(* that nobody holds, then the next free number after the last one.  The    *)
(* functions say what is known after the first n rows.                      *)

\* freeze: the n-th task of the log, up to a given one, keeps the code n.
Frozen == [n \in 1..Until |-> n]
FrozenHeld == {Frozen[d] : d \in Known \cap DOMAIN Frozen}
Accepted[n \in 0..Len(rows)] ==
  IF n = 0 THEN [owned |-> FrozenHeld, codes |-> << >>]
  ELSE LET acc == Accepted[n - 1]
           e == rows[n]
       IN IF n \notin HumanTasks \/ e.demand \in DOMAIN Frozen \/ e.code = 0 \/ e.code \in acc.owned THEN acc
          ELSE [owned |-> acc.owned \cup {e.code}, codes |-> Put(acc.codes, e.demand, e.code)]
FreeAfter(n, taken) ==
  CHOOSE m \in (n + 1)..(n + 1 + Cardinality(taken)) :
    m \notin taken /\ \A k \in (n + 1)..(m - 1) : k \in taken
Given[n \in 0..Len(rows)] ==
  LET accepted == Accepted[Len(rows)] IN
  IF n = 0 THEN [codes |-> << >>, taken |-> accepted.owned, last |-> 0]
  ELSE LET acc == Given[n - 1]
           d == rows[n].demand
           c == IF d \in DOMAIN Frozen THEN Frozen[d]
                ELSE IF d \in DOMAIN accepted.codes THEN accepted.codes[d]
                ELSE FreeAfter(acc.last, acc.taken)
       IN IF n \notin HumanTasks THEN acc
          ELSE [codes |-> Put(acc.codes, d, c), taken |-> acc.taken \cup {c},
                last |-> IF c > acc.last THEN c ELSE acc.last]
DemandCodes == Given[Len(rows)].codes
TopCode == LET codes == DemandCodes IN Max({0} \cup {codes[d] : d \in DOMAIN codes})

----
(* What the routes read: is_canceled, is_done, in_backlog, effective state. *)

TaskOf(d) == rows[Min(Events("task", d))]
IsCanceled(d) == Has("cancel", d)
IsDone(d) == Has("gate", d)
InBacklog(d) == TaskOf(d).backlog /\ ~Has("start", d) /\ ~IsCanceled(d)
\* The last validation says ok, or its questions were answered.
ReadyOnceValidated(d) == Has("validation", d)
Ready(d) ==
  LET vals == Events("validation", d) IN
  /\ vals # {}
  /\ LET last == rows[Max(vals)] IN
     last.ok \/ \E i \in ReadRows : rows[i].type = "clarification" /\ rows[i].code = last.code
NextId == Legacy + asked   \* uuid: the id of the demand a request creates

Serve(t, r) == req' = [req EXCEPT ![t] = r]
Answer(t) == Serve(t, Idle)
At(t, do, pc) == req[t].do = do /\ req[t].pc = pc
Go(t, pc) == Serve(t, [req[t] EXCEPT !.pc = pc])
Ask(t, do) == /\ req[t].pc = "idle" /\ do \in Wanted /\ asked < MaxRequest /\ asked' = asked + 1
Files == <<drafts, folders, index, inbox, fromDraft, cut, drafted>>
----
(* product.append_task: the code is read and the line written under          *)
(* codes.lock; a lock that stays busy for 5 s leaves nothing written.       *)

Creates == {"task", "bug"}
TakeCodesUnlocked(t) ==
  /\ req[t].do \in Creates /\ req[t].pc = "append"
  /\ codesLock' = t
  /\ Serve(t, [req[t] EXCEPT !.pc = "write", !.top = TopCode])
  /\ UNCHANGED <<rows, bugsLock, Files, told, asked, mishaps>>
TakeCodes(t) ==
  /\ req[t].do \in Creates /\ req[t].pc = "append" /\ codesLock = None
  /\ codesLock' = t
  /\ Serve(t, [req[t] EXCEPT !.pc = "write", !.top = TopCode])
  /\ UNCHANGED <<rows, bugsLock, Files, told, asked, mishaps>>

NewTask(r) == [Row("task", r.d) EXCEPT !.code = r.top + 1, !.bug = (r.do = "bug"), !.backlog = r.ok]
WriteTask(t) ==
  LET r == req[t] IN
  /\ r.do \in Creates /\ r.pc = "write"
  /\ rows' = Appended(rows, NewTask(r)) /\ codesLock' = None
  /\ told' = Put(told, r.d, r.top + 1)
  /\ IF r.do = "task" THEN Answer(t) /\ UNCHANGED <<drafts, fromDraft, bugsLock>>
     ELSE /\ drafts' = drafts \ {r.draft} /\ bugsLock' = None /\ Answer(t)
          /\ fromDraft' = Put(fromDraft, r.d, r.draft)
  /\ UNCHANGED <<folders, index, inbox, cut, drafted, asked, mishaps>>

\* discard_bug: the folder goes and the index is cut back to its mark.
DiscardBugFolder(d, mark) ==
  folders' = [i \in DOMAIN folders \ {d} |-> folders[i]] /\ UNCHANGED index
DiscardBug(d, mark) ==
  /\ folders' = [i \in DOMAIN folders \ {d} |-> folders[i]]
  /\ index' = SubSeq(index, 1, mark)
CodesBusy(t) ==
  LET r == req[t] IN
  /\ r.do \in Creates /\ r.pc = "append" /\ codesLock \notin {None, t}
  /\ mishaps < MaxMishap /\ mishaps' = mishaps + 1
  /\ IF r.do = "bug" THEN DiscardBug(r.d, r.mark) /\ bugsLock' = None
     ELSE UNCHANGED <<folders, index, bugsLock>>
  /\ Answer(t)
  /\ UNCHANGED <<rows, codesLock, drafts, inbox, fromDraft, cut, drafted, told, asked>>

\* POST /api/demand, or log.py --agent humano --type task.
CreateTask(t) ==
  /\ Ask(t, "task")
  /\ \E backlog \in BOOLEAN : Serve(t, [Idle EXCEPT !.do = "task", !.pc = "append", !.d = NextId + 1, !.ok = backlog])
  /\ UNCHANGED <<rows, codesLock, bugsLock, Files, told, mishaps>>
----
(* Bugs: a draft, then the bug or more evidence out of a draft.             *)

\* build_draft: evidence masked and kept for a day; nothing in the log.
BuildDraft(t) ==
  /\ req[t].pc = "idle" /\ drafted < MaxDraft
  /\ drafted' = drafted + 1 /\ drafts' = drafts \cup {drafted + 1}
  /\ UNCHANGED <<rows, codesLock, bugsLock, folders, index, inbox, req, told, fromDraft, cut, asked, mishaps>>
\* purge_drafts, or load_draft on one older than DRAFT_TTL_S.
ExpireDraft ==
  /\ mishaps < MaxMishap /\ mishaps' = mishaps + 1
  /\ \E d \in drafts : drafts' = drafts \ {d}
  /\ UNCHANGED <<rows, codesLock, bugsLock, folders, index, inbox, req, told, fromDraft, cut, asked, drafted>>

\* verify_draft outside the lock, the expensive one; then bugs.LOCK.
CreateBug(t) ==
  /\ Ask(t, "bug")
  /\ \E f \in drafts : Serve(t, [Idle EXCEPT !.do = "bug", !.pc = "verified", !.d = NextId + 1, !.draft = f])
  /\ UNCHANGED <<rows, codesLock, bugsLock, Files, told, mishaps>>
\* _bug_evidence: the task is a bug in progress, read before the draft is verified.
AskEvidence(t) ==
  /\ Ask(t, "evidence")
  /\ \E f \in drafts, d \in Known :
       /\ TaskOf(d).bug /\ ~IsCanceled(d) /\ ~Has("delivered", d)
       /\ Serve(t, [Idle EXCEPT !.do = "evidence", !.pc = "verified", !.d = d, !.draft = f])
  /\ UNCHANGED <<rows, codesLock, bugsLock, Files, told, mishaps>>
\* verify_draft again, under the lock: a draft that is gone is refused (404).
TakeBugs(t) ==
  /\ req[t].pc = "verified" /\ bugsLock = None
  /\ IF req[t].draft \in drafts THEN bugsLock' = t /\ Go(t, "files") ELSE bugsLock' = None /\ Answer(t)
  /\ UNCHANGED <<rows, codesLock, Files, told, asked, mishaps>>

\* mark and put_bug.
PutBug(t) ==
  /\ At(t, "bug", "files")
  /\ folders' = Put(folders, req[t].d, {1}) /\ index' = Append(index, req[t].d)
  /\ Serve(t, [req[t] EXCEPT !.pc = "append", !.mark = Len(index)])
  /\ UNCHANGED <<rows, codesLock, bugsLock, drafts, inbox, fromDraft, cut, drafted, told, asked, mishaps>>
\* renumber from the highest number in bug.json, and add_evidence.
AddEvidence(t) ==
  LET r == req[t]
      n == 1 + CHOOSE m \in folders[r.d] : \A k \in folders[r.d] : k <= m
  IN /\ At(t, "evidence", "files")
     /\ IF r.d \in DOMAIN folders
        THEN folders' = [folders EXCEPT ![r.d] = @ \cup {n}] /\ Go(t, "log") /\ UNCHANGED bugsLock
        ELSE bugsLock' = None /\ Answer(t) /\ UNCHANGED folders
     /\ UNCHANGED <<rows, codesLock, drafts, index, inbox, fromDraft, cut, drafted, told, asked, mishaps>>
LogEvidence(t) ==
  /\ At(t, "evidence", "log")
  /\ rows' = Appended(rows, Row("bug-evidence", req[t].d))
  /\ drafts' = drafts \ {req[t].draft} /\ bugsLock' = None /\ Answer(t)
  /\ UNCHANGED <<codesLock, folders, index, inbox, fromDraft, cut, drafted, told, asked, mishaps>>
----
(* The routes on a demand that exists: each reads the log, checks, and      *)
(* appends later, with no lock in between.                                  *)

Later(t, do, d, ok) == Serve(t, [Idle EXCEPT !.do = do, !.pc = "append", !.d = d, !.ok = ok])
Keep == UNCHANGED <<rows, codesLock, bugsLock, Files, told, mishaps>>
Clarify(t) ==
  /\ Ask(t, "clarify") /\ Keep
  /\ \E d \in Known, v \in DOMAIN rows :
       /\ rows[v].type = "validation" /\ rows[v].demand = d /\ ~rows[v].torn
       /\ ~IsCanceled(d)
       /\ Serve(t, [Idle EXCEPT !.do = "clarification", !.pc = "append", !.d = d, !.top = rows[v].code])
Edit(t) ==
  /\ Ask(t, "edit") /\ Keep
  /\ \E d \in Known : ~IsCanceled(d) /\ InBacklog(d) /\ Later(t, "edit", d, FALSE)
Control(t) ==
  /\ \E action \in {"pause", "cancel"} :
       /\ Ask(t, action)
       /\ \E d \in Known : /\ ~IsCanceled(d) /\ (action = "cancel" => ~IsDone(d))
                           /\ Later(t, action, d, FALSE)
  /\ Keep
Start(t) ==
  /\ Ask(t, "start") /\ Keep
  /\ \E d \in Known, override \in BOOLEAN :
       /\ ~IsCanceled(d) /\ ~Has("start", d)
       /\ InBacklog(d) \/ override \/ Ready(d)
       /\ Later(t, "start", d, override \/ InBacklog(d))
\* triage.py: not for a canceled demand, and checked again before it writes.
Triage(t) ==
  /\ Ask(t, "triage") /\ Keep
  /\ \E d \in Known : ~IsCanceled(d) /\ Serve(t, [Idle EXCEPT !.do = "triage", !.pc = "reading", !.d = d])
Verdict(t) ==
  /\ At(t, "triage", "reading")
  /\ IF IsCanceled(req[t].d) THEN Answer(t)
     ELSE \E ok \in BOOLEAN : Later(t, "validation", req[t].d, ok)
  /\ UNCHANGED <<rows, codesLock, bugsLock, Files, told, asked, mishaps>>

Appends == {"clarification", "edit", "pause", "cancel", "start", "validation"}
\* append_log; a validation is known by its place in the log, which its
\* clarification names.
AppendLog(t) ==
  LET r == req[t]
      name == IF r.do = "validation" THEN Len(rows) + 1 ELSE r.top
  IN /\ r.do \in Appends /\ r.pc = "append"
     /\ rows' = Appended(rows, [Row(r.do, r.d) EXCEPT !.ok = r.ok, !.code = name])
     /\ IF r.do = "start" THEN Go(t, "inbox") ELSE Answer(t)
     /\ UNCHANGED <<codesLock, bugsLock, Files, told, asked, mishaps>>
\* The file of the queue is written after the event.
WriteInbox(t) ==
  /\ At(t, "start", "inbox") /\ Answer(t)
  /\ inbox' = inbox \cup {req[t].d}
  /\ UNCHANGED <<rows, codesLock, bugsLock, drafts, folders, index, fromDraft, cut, drafted, told, asked, mishaps>>

\* Gates and deliveries of started demands, written by the squad.
SquadWrites ==
  /\ \E d \in inbox, type \in {"gate", "delivered"} :
       /\ ~Has(type, d) /\ (type = "delivered" => Has("gate", d))
       /\ rows' = Appended(rows, Row(type, d))
  /\ UNCHANGED <<codesLock, bugsLock, Files, req, told, asked, mishaps>>

HalfTask(r) == [NewTask(r) EXCEPT !.torn = TRUE, !.open = TRUE]

(* The server stops (or the machine, half way through the write of a task): *)
(* its threads are gone, the locks are free, nobody was answered.           *)
Stop ==
  /\ mishaps < MaxMishap /\ mishaps' = mishaps + 1
  /\ req' = [t \in Threads |-> Idle] /\ codesLock' = None /\ bugsLock' = None
  /\ \/ UNCHANGED rows
     \/ \E t \in Threads : /\ req[t].do \in Creates /\ req[t].pc = "write"
                           /\ rows' = Appended(rows, HalfTask(req[t]))
  /\ cut' = cut \cup {req[t].d : t \in {u \in Threads : req[u].do # "idle"}}
  /\ UNCHANGED <<drafts, folders, index, inbox, fromDraft, drafted, told, asked>>

Next ==
  \/ \E t \in Threads :
       \/ CreateTask(t) \/ TakeCodes(t) \/ WriteTask(t) \/ CodesBusy(t)
       \/ BuildDraft(t) \/ CreateBug(t) \/ AskEvidence(t) \/ TakeBugs(t) \/ PutBug(t)
       \/ AddEvidence(t) \/ LogEvidence(t)
       \/ Clarify(t) \/ Edit(t) \/ Control(t) \/ Start(t) \/ Triage(t) \/ Verdict(t)
       \/ AppendLog(t) \/ WriteInbox(t)
  \/ ExpireDraft \/ SquadWrites \/ Stop
Spec == Init /\ [][Next]_vars
----
(* A demand that can be read in the log has the code its answer carried,    *)
(* those of the past have the frozen ones, and no two have the same, in     *)
(* whatever order they were registered and whatever could not be read back. *)
CodesStand ==
  LET codes == DemandCodes IN
  /\ \A d \in DOMAIN told \cap DOMAIN codes : codes[d] = told[d]
  /\ \A d, e \in DOMAIN codes : codes[d] = codes[e] => d = e
  /\ \A d \in Known \cap DOMAIN Frozen : codes[d] = Frozen[d]

(* A code is never used again (f2a-resolvedor-de-produto.md, 4): no two     *)
(* demands are answered with the same one.                                  *)
CodesAreNotReused == \A d, e \in DOMAIN told : told[d] = told[e] => d = e

(* Once its request is over, a bug is whole or absent: folder, line of the  *)
(* index and task go together, a draft makes at most one bug, and no        *)
(* evidence is logged without its file (but for requests cut by a stop).    *)
InFlight(d) == \E t \in Threads : req[t].d = d /\ req[t].do = "bug"
BugsWhole ==
  /\ \A d \in DOMAIN fromDraft : d \in DOMAIN folders /\ Contains(index, d)
  /\ \A d \in DOMAIN folders \cup ToSet(index) : InFlight(d) \/ d \in DOMAIN fromDraft \cup cut
  /\ \A d, e \in DOMAIN fromDraft : fromDraft[d] = fromDraft[e] => d = e
  /\ \A d \in DOMAIN folders \ cut : Cardinality(Events("bug-evidence", d)) < Cardinality(folders[d])

(* A demand that was started without an override nor out of the backlog had *)
(* been validated, and its questions answered, whatever requests and triage *)
(* ran at the same time.                                                    *)
StartsReady ==
  \A s \in ReadRows : rows[s].type = "start" /\ ~rows[s].ok =>
    \E v \in Events("validation", rows[s].demand) :
      /\ v < s
      /\ rows[v].ok \/ \E c \in ReadRows : v < c /\ c < s /\ rows[c].type = "clarification" /\ rows[c].code = rows[v].code
====
