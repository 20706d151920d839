---- MODULE Delegation ----
(* Delegation through the conversation: the chat proposes an action on a    *)
(* blocked demand, the human confirms the card, the server validates the    *)
(* proposal again and records ONE event; the orchestrator's rounds check    *)
(* the delegation, start it, work in the demand's worktree and push to the  *)
(* PR under review (conversa.py, server.py, alerts.py, pending.py,          *)
(* gitflow.py).  The server's writers share LOG_WRITE_LOCK; log.py and      *)
(* gate.py, other processes, append without it.                             *)
EXTENDS Alerts

CONSTANTS
  Demands,       \* demands under work
  Pasts          \* where the runs start and how far they go, one of:

Kinds == {"delegar", "destravar", "resume"}
Categories == {"conflito-develop", "gate-travado", "teste-quebrado", "ambiente-teste", "pendencia-handoff",
               "pendencia-change-request", "pendencia-agente-parado", "ajuste-pontual"}
\* What the server, pending.py and gitflow.py record of decisions and delegations.
Recorded == {"human", "delegation", "delegation-start", "delegation-result", "review-updated"}
Plain(e) == DOMAIN e = DOMAIN Entry(0, "", "", "", "", "") /\ e.type \notin Recorded /\ e.proposal = 0

EventsOf(rows, id) == {rows[i] : i \in {j \in DOMAIN rows : rows[j].id = id}}
Answers(rows, e) == \E v \in EventsOf(rows, e.ref) : v.type = "validation" /\ v.demand = e.demand
Answered(rows) == \A i \in DOMAIN rows : rows[i].type = "clarification" => Answers(rows, rows[i])

Scenario(P) ==
  /\ DOMAIN P = {"log", "told", "decisions", "wanted", "new", "proposals", "mishaps"}
  \* log: the log it starts from, without decisions or delegations, in which
  \* answers are to validations of their own demand
  /\ Len(P.log) \in Nat /\ P.log = [i \in 1..Len(P.log) |-> P.log[i]] /\ Answered(P.log)
  /\ \A i \in DOMAIN P.log : Plain(P.log[i]) /\ P.log[i].id = i
  \* told: what the agents then record through log.py and gate.py, and the human's
  \* answers; decisions: what the human decides at /api/human
  /\ \A e \in P.told : Plain(e)
  \* wanted: what the chat proposes (kind, and category or action)
  /\ \A w \in P.wanted : w.kind \in Kinds /\ (w.kind = "delegar" => w.what \in Categories)
  \* bounds: new events, proposals, and mishaps (alarms, moves of develop, crashes)
  /\ P.new \in Nat /\ P.proposals \in Nat /\ P.mishaps \in Nat

VARIABLES
  past,       \* the scenario, one of Pasts
  log,        \* decisions.jsonl
  proposals,  \* the proposals of the conversation and what became of each
  conf,       \* the confirmation under way (holds store.lock), Free when none
  late,       \* ids of the events older than HANDOFF_STALLED_S
  watch,      \* open alerts about runs and the test environment, with the run's facts
  tree,       \* the demand's worktree: absent, clean, dirty, conflicts, resolved
  behind,     \* the local branch lacks the develop
  clash,      \* the pushed branch conflicts with the develop (mergeable: CONFLICTING)
  pushing,    \* the delegation and PR of a review-update that read the log, NoPush when none
  mishaps

vars == <<past, log, proposals, conf, late, watch, tree, behind, clash, pushing, mishaps>>

NoPush == [id |-> 0, pr |-> ""]
Free == [step |-> "free", p |-> 0, event |-> 0]
Fits == Len(log) < Len(past.log) + past.new
NextId == Len(log) + 1
Put(e) == Fits /\ log' = Append(log, [e EXCEPT !.id = NextId])
Mishap == mishaps < past.mishaps /\ mishaps' = mishaps + 1
\* The server's own writers wait for LOG_WRITE_LOCK.
LogFree == conf.step # "write"
----
(* The state a proposal is validated against: rows, the alerts of the       *)
(* replay and the live ones.                                                *)
Handoffs(rows, d) ==
  HandoffStalled(rows, d, late, {w.agent : w \in {x \in watch : x.demand = d /\ x.kind = "agent-stalled"}})
Latest(S) == {a \in S : \A b \in S : b.event <= a.event}
OpenOf(rows, kind, d, target) ==
  Latest({a \in Replayed(rows) : kind \in a.kinds /\ a.demand = d /\ target \in {0, a.event}})
Branched(rows, d) == Reviews(rows, d) # {} \/ Is(rows, "decision", d, "branch") # {}

Case(target, owner, key, max) == [target |-> target, owner |-> owner, key |-> key, max |-> max]
If(test, x) == {y \in {x} : test}

ConflictCase(rows, d, target) ==
  {Case(a.event, "orquestrador", <<d, "conflito-develop", e.arg, 0>>, 2) :
     a \in OpenOf(rows, "pr-conflict", d, target),
     e \in UNION {EventsOf(rows, x.event) : x \in OpenOf(rows, "pr-conflict", d, target)}}

\* A handoff to the Auditor is a gate that does not move.
StalledCase(d, target, category) ==
  LET stalled == Latest({a \in Handoffs(log, d) :
                           /\ target \in {0, a.event}
                           /\ \E e \in EventsOf(log, a.event) : (e.arg = "auditor") = (category = "gate-travado")})
  IN {Case(a.event, (CHOOSE e \in EventsOf(log, a.event) : TRUE).arg, <<d, category, "", a.event>>, 2) : a \in stalled}

\* (ii) of gate-travado: the human overruled a RETURN and nobody acted on it.
Overruled(rows, d) ==
  Where(rows, LAMBDA e : e.type = "human" /\ e.demand = d /\ e.rec \in {"APPROVE", "OVERRIDE"})
  \cap {i \in DOMAIN rows :
          LET before == {j \in Is(rows, "gate", d, rows[i].arg) : j < i}
          IN before # {} /\ rows[LastOf(before)].rec = "RETURN"}
GateCase(rows, d, target) ==
  LET auditor == StalledCase(d, target, "gate-travado")
      last == LastOf(Overruled(rows, d))
  IN IF auditor # {} THEN auditor
     ELSE {Case(id, "orquestrador", <<d, "gate-travado", "", id>>, 2) :
             id \in {rows[i].id : i \in {j \in Overruled(rows, d) :
                       /\ j = last /\ target \in {0, rows[j].id} /\ rows[j].id \in late
                       /\ \A k \in DOMAIN rows : k > j => rows[k].agent # "orquestrador" \/ rows[k].demand # d}}}

\* A test broken on the branch: the evidence named still fails, or none named.
StillFails(rows, d, id) ==
  \E e \in EventsOf(rows, id) :
    /\ e.type = "evidence" /\ e.rec = "fail"
    /\ rows[LastOf(Is(rows, "evidence", d, e.arg))].rec = "fail"
TestCase(rows, d, target) ==
  If(Branched(rows, d) /\ (target # 0 => StillFails(rows, d, target)),
     Case(target, "a-definir", <<d, "teste-quebrado", "", target>>, 2))

RequestCase(rows, d, target) ==
  {c \in {Case(e.id, IF e.rec = "docs" THEN "arquiteto" ELSE e.arg, <<d, "pendencia-change-request", "", e.id>>, 2) :
            e \in UNION {EventsOf(rows, a.event) : a \in OpenOf(rows, "change-request-open", d, target)}} :
     \A e \in EventsOf(rows, c.target) : c.owner # e.agent}

\* The step of a stalled run is the handoff it started from; one retry a step.
RunCase(rows, d, target) ==
  {Case(w.id, w.agent,
        <<d, "pendencia-agente-parado", w.agent,
          LET froms == {i \in Is(rows, "handoff", d, w.agent) : rows[i].id <= w.since}
          IN IF froms = {} THEN 0 ELSE rows[LastOf(froms)].id>>, 1) :
     w \in {x \in watch : x.kind = "agent-stalled" /\ x.demand = d /\ target \in {0, x.id} /\ ~x.delegated}}

Cases(rows, category, d, target) ==
  CASE category = "conflito-develop" -> ConflictCase(rows, d, target)
    [] category = "gate-travado" -> GateCase(rows, d, target)
    [] category = "teste-quebrado" -> TestCase(rows, d, target)
    [] category = "ambiente-teste" ->
         {Case(w.id, "devops", <<d, category, "", w.id>>, 2) :
            w \in {x \in watch : x.kind = "test-env-failed" /\ x.demand = d /\ target \in {0, x.id}}}
    [] category = "pendencia-handoff" -> StalledCase(d, target, category)
    [] category = "pendencia-change-request" -> RequestCase(rows, d, target)
    [] category = "pendencia-agente-parado" -> RunCase(rows, d, target)
    [] category = "ajuste-pontual" ->
         If(Branched(rows, d), Case(0, "a-definir", <<d, category, "", 0>>, 2))

\* _prior_delegations: attempts used on a key; those on a key without a target
\* are cleared by the last delegation on it that ended well.
Keyless(key) == key[4] = 0 /\ key[2] \in {"teste-quebrado", "ajuste-pontual"}
Attempts(rows, key) == Where(rows, LAMBDA e : e.type = "delegation" /\ e.key = key)
EndedWell(rows, key) == Where(rows, LAMBDA e : /\ e.type = "delegation-result" /\ e.rec = "ok"
                                               /\ \E i \in Attempts(rows, key) : rows[i].id = e.delegation)
Prior(rows, key) ==
  Cardinality({i \in Attempts(rows, key) : Keyless(key) => \A j \in EndedWell(rows, key) : j < i})

\* validate_delegation: the delegations the state allows of a category.
KnownTarget(rows, d, target) ==
  target = 0 \/ (\E e \in EventsOf(rows, target) : e.demand = d) \/ (\E w \in watch : w.id = target /\ w.demand = d)
ValidDelegations(rows, category, d, target) ==
  {[kind |-> "delegar", what |-> category, demand |-> d, target |-> c.target, owner |-> c.owner,
    key |-> c.key, attempt |-> Prior(rows, c.key) + 1] :
     c \in {x \in Cases(rows, category, d, target) :
              /\ ~HardClosed(rows, d) /\ KnownTarget(rows, d, target) /\ Active(rows, d) = {}
              /\ Prior(rows, x.key) < x.max}}
----
(* Unblocking: the actions open on the last verdict of a gate.              *)
GateActions(rows, a, g) ==
  LET verdicts == Is(rows, "gate", a.demand, g)
      last == LastOf(verdicts)
      asks == a.kinds \cap {"human-required", "cycle-limit"} # {}
  IN IF \/ a.kinds \cap {"gate-return", "human-required", "cycle-limit"} = {}
        \/ HardClosed(rows, a.demand) \/ \E i \in Is(rows, "human", a.demand, g) : i > last
     THEN {}
     ELSE IF rows[last].rec = "RETURN" THEN If(asks, "APPROVE") \cup {"OVERRIDE"}
     ELSE If(asks /\ rows[last].rec = "APPROVE", "APPROVE")

\* validate_proposal: a decision on an open gate alert, or a resume.
ValidDecisions(rows, action, d, target) ==
  {[kind |-> "destravar", what |-> action, demand |-> d, target |-> e.id, owner |-> e.arg, key |-> <<>>, attempt |-> 0] :
     e \in {x \in EventsOf(rows, target) :
              /\ x.type = "gate" /\ x.demand = d
              /\ \E a \in Replayed(rows) : a.event = x.id /\ a.demand = d /\ action \in GateActions(rows, a, x.arg)}}
ValidResumes(rows, d) ==
  If(~HardClosed(rows, d) /\ Paused(rows, d),
     [kind |-> "resume", what |-> "resume", demand |-> d, target |-> 0, owner |-> "humano", key |-> <<>>, attempt |-> 0])

Valid(rows, kind, what, d, target) ==
  IF kind = "delegar" THEN ValidDelegations(rows, what, d, target)
  ELSE IF kind = "destravar" THEN ValidDecisions(rows, what, d, target) ELSE ValidResumes(rows, d)
----
Init ==
  /\ past \in Pasts /\ log = past.log /\ proposals = <<>> /\ conf = Free /\ late = {} /\ watch = {} /\ pushing = NoPush /\ mishaps = 0
  /\ tree = [d \in Demands |-> "absent"] /\ behind = [d \in Demands |-> FALSE] /\ clash = [d \in Demands |-> FALSE]

Git == <<tree, behind, clash>>
Chat == <<proposals, conf>>

(* The end of a chat turn: the model's block validated and kept.  A         *)
(* proposal that is not valid can never be confirmed and is left out.       *)
Propose(d, w, target) ==
  /\ Len(proposals) < past.proposals
  /\ \E v \in Valid(log, w.kind, w.what, d, target) :
       proposals' = Append(proposals, [is |-> v, state |-> "open", event |-> 0])
  /\ UNCHANGED <<past, log, conf, late, watch, Git, pushing, mishaps>>

\* confirm: under store.lock and LOG_WRITE_LOCK the proposal is validated on
\* the log as read; what differs is obsolete.
ConfirmReadAsShown(p) ==
  /\ conf = Free /\ proposals[p].state = "open" /\ Fits
  /\ conf' = [step |-> "write", p |-> p, event |-> 0]
  /\ UNCHANGED <<past, log, proposals, late, watch, Git, pushing, mishaps>>
ConfirmRead(p) ==
  /\ conf = Free /\ proposals[p].state = "open"
  /\ LET is == proposals[p].is
         now == Valid(log, is.kind, is.what, is.demand, is.target)
     IN IF is \in now
        THEN /\ Fits
             /\ conf' = [step |-> "write", p |-> p, event |-> 0]
             /\ UNCHANGED proposals
        ELSE proposals' = [proposals EXCEPT ![p].state = "obsoleta"] /\ UNCHANGED conf
  /\ UNCHANGED <<past, log, late, watch, Git, pushing, mishaps>>
\* The append, which releases LOG_WRITE_LOCK: record_delegation, record_human
\* or record_control.  The event of a delegation names its proposal; that a
\* decision's does too is a history of the model (the code notes `via`).
Decided(is, p) ==
  [(IF is.kind = "delegar" THEN Entry(0, "delegation", "humano", is.demand, "", is.what)
    ELSE IF is.kind = "destravar" THEN Entry(0, "human", "humano", is.demand, is.owner, is.what)
    ELSE Entry(0, "control", "humano", is.demand, "resume", "")) EXCEPT !.key = is.key, !.proposal = p, !.ref = IF is.kind = "delegar" THEN is.target ELSE 0]
ConfirmWrite ==
  /\ conf.step = "write"
  /\ Put(Decided(proposals[conf.p].is, conf.p))
  /\ conf' = [conf EXCEPT !.step = "record", !.event = NextId]
  /\ UNCHANGED <<past, proposals, late, watch, Git, pushing, mishaps>>
ConfirmRecord ==
  /\ conf.step = "record"
  /\ proposals' = [proposals EXCEPT ![conf.p] = [@ EXCEPT !.state = "confirmada", !.event = conf.event]]
  /\ conf' = Free
  /\ UNCHANGED <<past, log, late, watch, Git, pushing, mishaps>>
Discard(p) ==
  /\ conf = Free /\ proposals[p].state = "open"
  /\ proposals' = [proposals EXCEPT ![p].state = "descartada"]
  /\ UNCHANGED <<past, log, conf, late, watch, Git, pushing, mishaps>>
\* The server stops in the middle of a confirmation and starts again.
Crash ==
  /\ conf # Free /\ Mishap /\ conf' = Free
  /\ UNCHANGED <<past, log, proposals, late, watch, Git, pushing>>
----
(* The other writers of the log.                                            *)
HumanDecides(d, h) ==
  /\ LogFree /\ Put(Entry(0, "human", "humano", d, h.gate, h.action))
  /\ UNCHANGED <<past, Chat, late, watch, Git, pushing, mishaps>>
HumanControls(d, action) ==
  /\ LogFree /\ ~HardClosed(log, d)
  /\ action = "pause" => ~Paused(log, d)
  /\ action = "resume" => Paused(log, d)
  /\ Put(Entry(0, "control", "humano", d, action, ""))
  /\ UNCHANGED <<past, Chat, late, watch, Git, pushing, mishaps>>
\* log.py and gate.py record take no lock of the server; within a delegation
\* under way they name it.
Log(e, delegation) ==
  /\ Put([e EXCEPT !.delegation = delegation])
  /\ UNCHANGED <<past, Chat, late, watch, Git, pushing, mishaps>>
Started(d) == {log[i].id : i \in {j \in Active(log, d) : Linked(log, "delegation-start", log[j].id) # {}}}
AgentLogs(e) == e.type # "clarification" /\ \E id \in {0} \cup Started(e.demand) : Log(e, id)
\* POST /api/demand/clarify: the human answers a validation of the same demand.
Clarify(e) ==
  /\ e.type = "clarification" /\ LogFree /\ ~Canceled(log, e.demand) /\ Answers(log, e)
  /\ Log(e, 0)
GetsLate(id) ==
  /\ id \notin late
  /\ \E e \in EventsOf(log, id) : e.type \in {"handoff", "human"}
  /\ late' = late \cup {id}
  /\ UNCHANGED <<past, log, Chat, watch, Git, pushing, mishaps>>
\* A run stops giving signs of life, or the test environment fails; either ends.
Alarm(d, kind, agent) ==
  /\ Mishap /\ \A w \in watch : w.demand # d \/ w.kind # kind
  /\ watch' = watch \cup {[kind |-> kind, demand |-> d, id |-> 100 + Len(log), agent |-> agent,
                           since |-> Len(log), delegated |-> kind = "agent-stalled" /\ Started(d) # {}]}
  /\ UNCHANGED <<past, log, Chat, late, Git, pushing>>
AlarmOver(w) ==
  /\ watch' = watch \ {w}
  /\ UNCHANGED <<past, log, Chat, late, Git, pushing, mishaps>>
----
(* The orchestrator's rounds: what pending lists.                           *)
Without(id) == SelectSeq(log, LAMBDA e : e.id # id)
Confirmed(id) == \E p \in DOMAIN proposals : proposals[p].state = "confirmada" /\ proposals[p].event = id
\* delegation_check: the outcome for a delegation nobody started.
OutcomeOfAny(e) ==
  IF ValidDelegations(Without(e.id), e.rec, e.demand, e.ref) = {} THEN "obsoleta" ELSE "ok"
Outcome(e) ==
  IF ~Confirmed(e.id) THEN "recusada"
  ELSE IF ValidDelegations(Without(e.id), e.rec, e.demand, e.ref) = {} THEN "obsoleta" ELSE "ok"
CheckDelegation(d) ==
  /\ \E i \in Active(log, d) :
       LET e == log[i]
           to == [Entry(0, "delegation-result", "orquestrador", d, "", "") EXCEPT !.delegation = e.id]
       IN IF Canceled(log, d) THEN Put([to EXCEPT !.rec = "cancelada"])
          ELSE /\ Linked(log, "delegation-start", e.id) = {} /\ ~Paused(log, d)
               /\ Put(IF Outcome(e) = "ok" THEN [to EXCEPT !.type = "delegation-start"]
                                           ELSE [to EXCEPT !.rec = Outcome(e)])
  /\ UNCHANGED <<past, Chat, late, watch, Git, pushing, mishaps>>
EndDelegation(d, id, status) ==
  /\ id \in Started(d)
  /\ Log([Entry(0, "delegation-result", "orquestrador", d, "", status) EXCEPT !.delegation = id], id)
\* pending: mergeable of the PR under review against the last mark in the log.
OpenReviews(d) == {log[i].arg : i \in {j \in Reviews(log, d) : ~PrClosed(log, d, log[j].arg)}}
NoteConflict(d, pr) ==
  /\ pr \in OpenReviews(d) /\ clash[d] # InConflict(log, d, pr)
  /\ Log(Entry(0, IF clash[d] THEN "pr-conflict" ELSE "pr-conflict-cleared", "orquestrador", d, pr, ""), 0)
----
(* gitflow in the worktree of the demand.                                   *)
GitStep == UNCHANGED <<past, log, Chat, late, watch, pushing>>
DevelopMoves(d) ==
  /\ Mishap /\ behind' = [behind EXCEPT ![d] = TRUE] /\ clash' = [clash EXCEPT ![d] = TRUE]
  /\ UNCHANGED tree /\ GitStep
\* demand-worktree: created, or refused (exit 5) when it holds other work.
DemandWorktree(d) ==
  /\ tree[d] = "absent" /\ Branched(log, d) /\ tree' = [tree EXCEPT ![d] = "clean"]
  /\ UNCHANGED <<behind, clash, mishaps>> /\ GitStep
EditTree(d) ==
  /\ tree[d] \in {"clean", "dirty"} /\ tree' = [tree EXCEPT ![d] = IF @ = "clean" THEN "dirty" ELSE "clean"]
  /\ UNCHANGED <<behind, clash, mishaps>> /\ GitStep
\* feature-sync: merges the develop and commits, or stops on the conflicts
\* (exit 3) and is run again to conclude.
FeatureSync(d) ==
  /\ \/ /\ tree[d] = "clean" /\ behind[d] /\ clash[d]
        /\ tree' = [tree EXCEPT ![d] = "conflicts"] /\ UNCHANGED behind
     \/ /\ tree[d] = "resolved" \/ (tree[d] = "clean" /\ behind[d] /\ ~clash[d])
        /\ tree' = [tree EXCEPT ![d] = "clean"] /\ behind' = [behind EXCEPT ![d] = FALSE]
  /\ UNCHANGED <<clash, mishaps>> /\ GitStep
Resolve(d) ==
  /\ tree[d] = "conflicts" /\ tree' = [tree EXCEPT ![d] = "resolved"]
  /\ UNCHANGED <<behind, clash, mishaps>> /\ GitStep
AbortSync(d) ==
  /\ tree[d] \in {"conflicts", "resolved"} /\ tree' = [tree EXCEPT ![d] = "clean"]
  /\ UNCHANGED <<behind, clash, mishaps>> /\ GitStep

\* review-update: the log is read once; the worktree, the fetch and the PR
\* are looked at, and the push and its event come last.
Approved(rows, id, d) ==
  LET starts == Linked(rows, "delegation-start", id)
      gates == Where(rows, LAMBDA e : e.type = "gate" /\ e.demand = d)
      g == rows[LastOf(gates)]
  IN /\ starts # {} /\ ~Ended(rows, id)
     /\ gates # {} /\ g.arg = "G3" /\ g.rec = "APPROVE" /\ g.delegation = id
     /\ \E s \in starts : s < LastOf(gates)
LastReviewOpen(d) == Reviews(log, d) # {} /\ log[LastOf(Reviews(log, d))].arg \in OpenReviews(d)
UpdateRead(d, id) ==
  /\ pushing = NoPush /\ \E e \in EventsOf(log, id) : e.type = "delegation" /\ e.demand = d
  /\ Approved(log, id, d) /\ LastReviewOpen(d)
  /\ pushing' = [id |-> id, pr |-> log[LastOf(Reviews(log, d))].arg]
  /\ UNCHANGED <<past, log, Chat, late, watch, Git, mishaps>>
UpdatePush(d) ==
  /\ \E e \in EventsOf(log, pushing.id) : e.demand = d
  /\ pushing' = NoPush
  /\ IF tree[d] = "clean"
     THEN /\ Put([Entry(0, "review-updated", "orquestrador", d, pushing.pr, "") EXCEPT !.delegation = pushing.id])
          /\ clash' = [clash EXCEPT ![d] = @ /\ behind[d]]
     ELSE UNCHANGED <<log, clash>>
  /\ UNCHANGED <<past, Chat, late, watch, tree, behind, mishaps>>
----
Targets == {0} \cup {log[i].id : i \in DOMAIN log} \cup {w.id : w \in watch}

Next ==
  \/ \E d \in Demands, w \in past.wanted, t \in Targets : Propose(d, w, t)
  \/ \E p \in DOMAIN proposals : ConfirmRead(p) \/ Discard(p)
  \/ ConfirmWrite \/ ConfirmRecord \/ Crash
  \/ \E d \in Demands, h \in past.decisions : HumanDecides(d, h)
  \/ \E d \in Demands, a \in {"pause", "resume", "cancel"} : HumanControls(d, a)
  \/ \E e \in past.told : AgentLogs(e) \/ Clarify(e)
  \/ \E id \in Targets : GetsLate(id)
  \/ \E d \in Demands : Alarm(d, "agent-stalled", "backend") \/ Alarm(d, "test-env-failed", "")
  \/ \E w \in watch : AlarmOver(w)
  \/ \E d \in Demands : CheckDelegation(d) \/ DevelopMoves(d) \/ DemandWorktree(d) \/ EditTree(d)
                        \/ FeatureSync(d) \/ Resolve(d) \/ AbortSync(d) \/ UpdatePush(d)
  \/ \E d \in Demands, id \in Targets : EndDelegation(d, id, "ok") \/ EndDelegation(d, id, "falhou") \/ UpdateRead(d, id)
  \/ \E d \in Demands, pr \in {log[i].arg : i \in Where(log, LAMBDA e : e.type = "review")} : NoteConflict(d, pr)

Spec == Init /\ [][Next]_vars
----
(* The replay of the log event by event shows, at any time, the alerts that *)
(* the whole log calls for: no event changes an alert without evaluating    *)
(* its demand (alerts.py Rules._run).                                       *)
AlertsExact == Replayed(log) = UNION {AlertsOf(log, d) : d \in {log[i].demand : i \in DOMAIN log}}

(* A demand has one delegation under way at a time, and no step is tried    *)
(* more often than its category allows, whoever proposes, confirms or       *)
(* crashes (conversa.py validate_delegation under LOG_WRITE_LOCK).          *)
OneDelegation ==
  /\ \A d \in Demands : Cardinality(Active(log, d)) <= 1
  /\ \A i \in DOMAIN log : log[i].type = "delegation" =>
       Prior(SubSeq(log, 1, i), log[i].key) <= IF log[i].rec = "pendencia-agente-parado" THEN 1 ELSE 2

(* A card puts at most one decision of a gate in the log, and at most one   *)
(* delegation of a step whose attempts are never cleared, even when the     *)
(* server dies between the event and the record of the decision and the     *)
(* human confirms the card again (conversa.py confirm).  Of the other steps *)
(* it says nothing: see OneDelegationPerCard.                               *)
DecidedOnce ==
  \A i, j \in DOMAIN log :
    /\ log[i].proposal = log[j].proposal /\ log[i].proposal # 0
    /\ log[i].type = "human" \/ (log[i].type = "delegation" /\ ~Keyless(log[i].key))
    => i = j

(* CA-11 of delegacao-pela-conversa.md: confirmed twice, a card makes one   *)
(* delegation only, of whatever step.                                       *)
OneDelegationPerCard ==
  \A i, j \in DOMAIN log :
    /\ log[i].type = "delegation" /\ log[j].type = "delegation"
    /\ log[i].proposal = log[j].proposal /\ log[i].proposal # 0
    => i = j

(* What is pushed to a PR under review in the name of a delegation is what  *)
(* the human confirmed in the conversation, started after that, and what    *)
(* the Auditor approved at G3 under it (server.py delegation_check and      *)
(* gitflow.py review_update together).                                      *)
PushIsAuthorised ==
  \A u \in Where(log, LAMBDA e : e.type = "review-updated") :
    LET id == log[u].delegation
    IN /\ Confirmed(id)
       /\ \E s \in Linked(log, "delegation-start", id), g \in Linked(log, "gate", id) :
            s < g /\ g < u /\ log[g].arg = "G3" /\ log[g].rec = "APPROVE"

(* The human's decision confirmed in the conversation answers the verdict   *)
(* the card showed: validated and recorded at once with respect to the      *)
(* other writers of the log, as conversa.py says of confirm.  The gate's    *)
(* next verdict, recorded by gate.py without the server's lock, may come    *)
(* between the two.                                                         *)
DecisionOnVerdictSeen ==
  \A i \in DOMAIN log : log[i].type = "human" /\ log[i].proposal # 0 =>
    proposals[log[i].proposal].is.target =
      log[LastOf({j \in Is(log, "gate", log[i].demand, log[i].arg) : j < i})].id
====
