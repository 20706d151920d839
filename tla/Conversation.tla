---- MODULE Conversation ----
(* The conversations of the squad panel: Store and Engine of                *)
(* tools/squad/conversa.py, with the server's start and its graceful stop.  *)
(* A conversation is an append-only file; one turn (a question being        *)
(* answered by a runner process) is active in the whole server.  The actors *)
(* are the threads of HTTP requests, one thread per turn, the thread of the *)
(* stop signal, and the runner's process.  A step is what a thread does     *)
(* under one lock, or between two reads of what another thread writes.      *)
EXTENDS Sequences, SequencesExt, FiniteSetsExt, Subsequences

CONSTANTS
  Conversations,   \* c-<12 hex>
  Images,          \* the images a client may attach, by content
  Clients,         \* threads that may be inside `send` together
  MaxMessages,     \* MAX_MESSAGES
  MaxImages,       \* attach_max_conversa(), in images
  MaxQuestions,    \* bound: questions per conversation
  MaxExits         \* bound: how often the server's process ends

ASSUME ConversationAssumption ==
  /\ MaxMessages \in Nat \ {0}
  /\ MaxImages \in Nat
  /\ MaxQuestions \in Nat
  /\ MaxExits \in Nat

VARIABLES
  store,     \* the messages in each conversation's file, oldest first
  images,    \* the images in each conversation's `anexos`
  turns,     \* the Turn objects made since the server started
  active,    \* Engine.active: the number of a Turn object, or 0
  sending,   \* per client inside `send`: the conversation, and how much of its file it read
  server,    \* "up", "stopping" (signal), "exiting" (shutdown returned), "down"
  closing,   \* the turn Engine.shutdown waits for, or 0
  exits      \* times the process ended

vars == <<store, images, turns, active, sending, server, closing, exits>>
files == <<store, images>>
process == <<sending, server, closing, exits>>

Idle == [at |-> "idle"]

Questions(c, n) == {j \in DOMAIN store[c] : store[c][j].role = "humano" /\ store[c][j].turn = n}
Answers(c, n) == {j \in DOMAIN store[c] : store[c][j].role = "orquestrador" /\ store[c][j].turn = n}
TurnsOf(msgs) == {m.turn : m \in ToSet(msgs)}
NextTurn(msgs) == Max(TurnsOf(msgs) \cup {0}) + 1
Asked(c) == Cardinality({j \in DOMAIN store[c] : store[c][j].role = "humano"})
Referenced(c) == UNION {m.images : m \in {q \in ToSet(store[c]) : q.role = "humano"}}
full(msgs) == Len(msgs) >= MaxMessages

Question(n, imgs) == [turn |-> n, role |-> "humano", images |-> imgs]
Answer(n, status) == [turn |-> n, role |-> "orquestrador", status |-> status]
append(c, m) == store' = [store EXCEPT ![c] = Append(@, m)]

Turn(c, n) == [cid |-> c, turn |-> n, stop |-> "none", done |-> FALSE, at |-> "starting",
               proc |-> "none", killed |-> FALSE, reset |-> FALSE, status |-> "none"]
\* A Turn that is done: of the rest nothing is read again.
Finished(t) == [Turn(t.cid, t.turn) EXCEPT !.done = TRUE, !.at = "finally"]
Kill(t) == [t EXCEPT !.killed = @ \/ t.proc = "alive"]
Living == {i \in DOMAIN turns : ~turns[i].done}
Set(i, t) == turns' = [turns EXCEPT ![i] = t]

Init ==
  /\ store = [c \in Conversations |-> <<>>]
  /\ images = [c \in Conversations |-> {}]
  /\ turns = <<>>
  /\ active = 0
  /\ sending = [k \in Clients |-> Idle]
  /\ server = "up"
  /\ closing = 0
  /\ exits = 0
----
(* Images.  All of it runs under Store.lock.                                *)

\* cleanup_attachments: what no message references goes once it is older than
\* PENDING_TTL_S, which any of these may be.
PendingOrNot(c) == images[c]
Pending(c) == images[c] \ Referenced(c)
Swept(after) == \A c \in Conversations : after[c] \subseteq images[c] /\ images[c] \ after[c] \subseteq Pending(c)

\* A sweep, then the room is measured, then the file is written.
upload(c, a) ==
  /\ server = "up"
  /\ \E kept \in [Conversations -> SUBSET Images] :
       /\ Swept(kept)
       /\ images' = IF Cardinality(kept[c]) < MaxImages
                    THEN [kept EXCEPT ![c] = @ \cup {a}] ELSE kept
  /\ UNCHANGED <<store, turns, active, process>>

remove_attachment(c, a) ==
  /\ server = "up"
  /\ a \in Pending(c)
  /\ images' = [images EXCEPT ![c] = @ \ {a}]
  /\ UNCHANGED <<store, turns, active, process>>
----
(* Sending.  The file is read before the locks are taken, and the choice of *)
(* the executor in between may take long (it runs `--version`).             *)

sendReads(k, c) ==
  /\ server = "up"
  /\ sending[k] = Idle /\ Asked(c) < MaxQuestions
  /\ sending' = [sending EXCEPT ![k] = [at |-> "read", cid |-> c, seen |-> Len(store[c])]]
  /\ UNCHANGED <<files, turns, active, server, closing, exits>>

Seen(k) == SubSeq(store[sending[k].cid], 1, sending[k].seen)

Busy == active # 0 /\ ~turns[active].done

sendRefused(k) ==
  /\ sending[k] # Idle
  /\ Busy \/ full(Seen(k))
  /\ sending' = [sending EXCEPT ![k] = Idle]
  /\ UNCHANGED <<files, turns, active, server, closing, exits>>

AdmittedByFile(k) ==
  /\ sending[k] # Idle /\ ~full(Seen(k))
  /\ \A m \in ToSet(Seen(k)) :
       \E x \in ToSet(Seen(k)) : x.role = "orquestrador" /\ x.turn = m.turn
Admitted(k) == sending[k] # Idle /\ ~Busy /\ ~full(Seen(k))

\* The runner is missing: question and error are written, no turn is made.
sendUnavailable(k) ==
  LET c == sending[k].cid
      n == NextTurn(Seen(k)) IN
  /\ \E imgs \in SUBSET images[c] :
       store' = [store EXCEPT ![c] = @ \o <<Question(n, imgs), Answer(n, "erro")>>]
  /\ UNCHANGED <<turns, active>>

sendAccepted(k) ==
  LET c == sending[k].cid
      n == NextTurn(Seen(k)) IN
  /\ \E imgs \in SUBSET images[c] : append(c, Question(n, imgs))
  /\ turns' = Append(turns, Turn(c, n))
  /\ active' = Len(turns) + 1

send(k) ==
  /\ Admitted(k)
  /\ Asked(sending[k].cid) < MaxQuestions
  /\ sendUnavailable(k) \/ sendAccepted(k)
  /\ sending' = [sending EXCEPT ![k] = Idle]
  /\ UNCHANGED <<images, server, closing, exits>>
----
(* The thread of a turn: _run, _attempt and _finish.                        *)

Step(i, from, t) == i \in DOMAIN turns /\ turns[i].at = from /\ Set(i, t)

\* Popen, then `t.proc = proc` ...  or an OSError, which is a failed attempt.
spawn(i) ==
  /\ \/ Step(i, "starting", [turns[i] EXCEPT !.at = "spawned", !.proc = "alive", !.killed = FALSE])
     \/ Step(i, "starting", [turns[i] EXCEPT !.at = "ended", !.status = "erro"])
  /\ UNCHANGED <<files, active, process>>

checkStopForgotten(i) ==
  /\ Step(i, "spawned", [turns[i] EXCEPT !.at = "reading"])
  /\ UNCHANGED <<files, active, process>>

\* ... and the look at stop_reason for a stop that found no process to kill.
checkStop(i) ==
  /\ Step(i, "spawned", [turns[i] EXCEPT !.at = "reading", !.killed = @ \/ turns[i].stop # "none"])
  /\ UNCHANGED <<files, active, process>>

\* The deadline, which only counts while nobody else stopped the turn.
timeOut(i) ==
  /\ i \in DOMAIN turns /\ turns[i].stop = "none"
  /\ Step(i, "reading", Kill([turns[i] EXCEPT !.stop = "tempo_esgotado"]))
  /\ UNCHANGED <<files, active, process>>

\* The output ends and the process is waited for; an answer or a failure.
readEnds(i) ==
  /\ \E result \in {"ok", "erro"} :
       Step(i, "reading", [turns[i] EXCEPT !.at = "ended", !.proc = "none", !.killed = FALSE,
                                           !.status = result])
  /\ UNCHANGED <<files, active, process>>

\* A session its supplier lost: a failure with no output is tried once more.
sessionReset(i) ==
  /\ i \in DOMAIN turns /\ ~turns[i].reset /\ turns[i].status = "erro" /\ turns[i].stop = "none"
  /\ Step(i, "ended", [turns[i] EXCEPT !.at = "starting", !.reset = TRUE, !.status = "none"])
  /\ UNCHANGED <<files, active, process>>

\* _finish, when the server is stopping: under the turn's condition, so it
\* and Engine.shutdown see each other's `done`.
finishInterrupted(i) ==
  /\ i \in DOMAIN turns /\ turns[i].stop = "reinicio"
  /\ Step(i, "ended", Finished(turns[i]))
  /\ IF turns[i].done THEN UNCHANGED store
     ELSE append(turns[i].cid, Answer(turns[i].turn, "interrompida"))
  /\ UNCHANGED <<images, active, process>>

\* _finish otherwise: the status is settled here ...
finishOrdinary(i) ==
  /\ i \in DOMAIN turns /\ turns[i].stop # "reinicio"
  /\ Step(i, "ended", [turns[i] EXCEPT !.at = "writing",
                                       !.status = IF turns[i].stop # "none" THEN turns[i].stop ELSE @])
  /\ UNCHANGED <<files, active, process>>

\* ... and later the record is written and the turn finished, `done` or not.
finishWrites(i) ==
  /\ Step(i, "writing", Finished(turns[i]))
  /\ append(turns[i].cid, Answer(turns[i].turn, turns[i].status))
  /\ UNCHANGED <<images, active, process>>

failsSilently(i) ==
  /\ i \in DOMAIN turns
  /\ turns[i].at \in {"starting", "reading", "ended"}
  /\ Set(i, Finished(turns[i]))
  /\ UNCHANGED <<files, active, process>>

\* An exception anywhere before the record: the handler writes an error
\* record, unless it sees that shutdown has finished the turn.
fails(i) ==
  /\ i \in DOMAIN turns
  /\ turns[i].at \in {"starting", "reading", "ended"}
  /\ Set(i, IF turns[i].done THEN Finished(turns[i])
             ELSE [turns[i] EXCEPT !.at = "writing", !.status = "erro"])
  /\ UNCHANGED <<files, active, process>>

finally(i) ==
  /\ Step(i, "finally", [turns[i] EXCEPT !.at = "over"])
  /\ active' = IF active = i THEN 0 ELSE active
  /\ UNCHANGED <<files, process>>
----
(* Stopping a turn: stop_reason is written, then the process of that moment *)
(* is killed.  One step stands for both: a process born between them meets  *)
(* checkStop.  `turns` holds the last Turn of a number.                     *)

Latest(i) == \A j \in DOMAIN turns :
  j > i => <<turns[j].cid, turns[j].turn>> # <<turns[i].cid, turns[i].turn>>

\* `t.stop_reason or "cancelada"` is a read and a write: a request that read
\* nothing may write over a reason set meanwhile.
cancel(i) ==
  /\ server = "up"
  /\ i \in Living /\ Latest(i)
  /\ \E reason \in {"cancelada", turns[i].stop} \ {"none"} :
       Set(i, Kill([turns[i] EXCEPT !.stop = reason]))
  /\ UNCHANGED <<files, active, process>>
----
(* The process: the stop signal of the publisher, a crash, the next start.  *)

\* The signal: no new request is accepted, those inside go on.
signal ==
  /\ server = "up" /\ exits < MaxExits
  /\ server' = "stopping"
  /\ UNCHANGED <<files, turns, active, sending, closing, exits>>

shutdown ==
  /\ server = "stopping" /\ closing = 0
  /\ IF Busy
     THEN /\ Set(active, Kill([turns[active] EXCEPT !.stop = "reinicio"]))
          /\ closing' = active
          /\ UNCHANGED server
     ELSE /\ server' = "exiting"
          /\ UNCHANGED <<turns, closing>>
  /\ UNCHANGED <<files, active, sending, exits>>

\* wait_s is over, or the turn's thread was in time.
shutdownCloses ==
  /\ closing # 0 /\ server = "stopping"
  /\ IF turns[closing].done
     THEN UNCHANGED <<store, turns>>
     ELSE /\ append(turns[closing].cid, Answer(turns[closing].turn, "interrompida"))
          /\ Set(closing, [turns[closing] EXCEPT !.done = TRUE])
  /\ server' = "exiting"
  /\ UNCHANGED <<images, active, sending, closing, exits>>

\* The process ends, by itself or by a crash, and its threads with it.
exit ==
  /\ server # "down" /\ (server = "up" => exits < MaxExits)
  /\ server' = "down"
  /\ exits' = exits + 1
  /\ turns' = <<>> /\ active' = 0 /\ closing' = 0
  /\ sending' = [k \in Clients |-> Idle]
  /\ UNCHANGED files

Unanswered(c) ==
  {j \in DOMAIN store[c] : store[c][j].role = "humano" /\ Answers(c, store[c][j].turn) = {}}

\* recover: every question without an answer of its number gets one, oldest first.
recover(c) ==
  store[c] \o [j \in 1..Cardinality(Unanswered(c)) |->
                 Answer(store[c][InOrder(Unanswered(c))[j]].turn, "interrompida")]

\* chat(): recover and cleanup_attachments before the first request.
start ==
  /\ server = "down"
  /\ server' = "up"
  /\ store' = [c \in Conversations |-> recover(c)]
  /\ images' \in [Conversations -> SUBSET Images] /\ Swept(images')
  /\ UNCHANGED <<turns, active, sending, closing, exits>>
----
Thread(i) ==
  \/ spawn(i) \/ checkStop(i) \/ timeOut(i) \/ readEnds(i) \/ sessionReset(i)
  \/ finishInterrupted(i) \/ finishOrdinary(i) \/ finishWrites(i) \/ fails(i) \/ finally(i)

Next ==
  \/ \E c \in Conversations, a \in Images :
       upload(c, a) \/ remove_attachment(c, a)
  \/ \E k \in Clients : (\E c \in Conversations : sendReads(k, c)) \/ sendRefused(k) \/ send(k)
  \/ \E i \in DOMAIN turns : Thread(i) \/ cancel(i)
  \/ signal \/ shutdown \/ shutdownCloses \/ exit \/ start

\* A thread goes on; the deadline comes; a process that was killed ends.  A
\* runner left alone may run for ever, and nobody has to cancel it.
Progress(i) ==
  \/ spawn(i) \/ checkStop(i) \/ timeOut(i)
  \/ (i \in DOMAIN turns /\ turns[i].killed /\ readEnds(i))
  \/ finishInterrupted(i) \/ finishOrdinary(i) \/ finishWrites(i) \/ finally(i)

TurnNumbers == 1 .. MaxQuestions * Cardinality(Conversations)
Fairness == \A i \in TurnNumbers : WF_vars(Progress(i))

Spec == Init /\ [][Next]_vars /\ Fairness
----
Stops == {"none", "cancelada", "tempo_esgotado", "reinicio"}
Statuses == {"ok", "erro", "interrompida", "cancelada", "tempo_esgotado"}
Places == {"starting", "spawned", "reading", "ended", "writing", "finally", "over"}

\* The variables have their types, and each file's answers are to questions in it.
TypeOK ==
  /\ \A c \in Conversations :
       /\ images[c] \subseteq Images
       /\ \A m \in ToSet(store[c]) :
            \/ m.role = "humano" /\ m.images \subseteq Images
            \/ m.role = "orquestrador" /\ m.status \in Statuses /\ Questions(c, m.turn) # {}
  /\ \A i \in DOMAIN turns :
       /\ turns[i].cid \in Conversations /\ turns[i].stop \in Stops /\ turns[i].at \in Places
       /\ turns[i].proc \in {"none", "alive"}
  /\ active \in {0} \cup DOMAIN turns /\ closing \in {0} \cup DOMAIN turns
  /\ server \in {"up", "stopping", "exiting", "down"}

\* While the server runs, every question of any file has an answer of its
\* number or a turn that still owes it one, whatever was cancelled, failed, timed
\* out, crashed or was read before it was written (recover and _run).
QuestionsAnswered ==
  server # "down" => \A c \in Conversations : \A m \in ToSet(store[c]) :
    m.role = "humano" => \/ Answers(c, m.turn) # {}
                         \/ \E i \in Living : turns[i].cid = c /\ turns[i].turn = m.turn

\* One turn is open in the whole server, across late threads and requests that
\* read the file long before they were let in (Engine.send).
OneActiveTurn == Cardinality(Living) <= 1

\* A question gets one answer of its turn's thread at most, and is marked as
\* interrupted at most once, however the stop of the server, its start and a late
\* thread follow each other (Engine.shutdown, _finish, recover).
AnswersPerTurn ==
  \A c \in Conversations, n \in TurnNumbers :
    LET Interrupted == {j \in Answers(c, n) : store[c][j].status = "interrompida"}
        Asks == Cardinality(Questions(c, n)) IN
    /\ Cardinality(Interrupted) <= Asks
    /\ Cardinality(Answers(c, n) \ Interrupted) <= Asks

\* The answers of every file: none owed to nobody, none given twice.
AnswersAreSound == QuestionsAnswered /\ AnswersPerTurn

\* An image in a question is there for its turn and for the reader of the
\* history: no sweep, removal or crash takes it (Store.lock around both sides).
ImagesKept == \A c \in Conversations : Referenced(c) \subseteq images[c]

\* A turn ends, also when it was stopped before its process existed or while
\* its session was tried again: then its deadline no longer counts, and only
\* the look at stop_reason after Popen can end it.
TurnsEnd == \A i \in TurnNumbers : []<>(i \notin Living)
====
