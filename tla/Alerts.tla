---- MODULE Alerts ----
(* alerts.py: what waits on whom, derived from the log alone.  The class    *)
(* Rules replays the log event by event and opens and closes the alerts of  *)
(* the demand an event is about (gates B1-B3 and A1, triage B4, reviews A3  *)
(* and their conflicts B6, change-requests A7); a handoff without sequel    *)
(* (A6) is read off the log and the clock.  A log is a sequence of events   *)
(* with an identity; the words of an alert are left out.                    *)
EXTENDS Naturals, Sequences, FiniteSets, SequencesExt

CONSTANT MaxAutoCycles   \* MAX_AUTO_CYCLES: returns of a gate before the human decides

(* One event: who wrote what about which demand, with the fields the rules  *)
(* read.  arg is what its type is about: the gate, the PR, the control      *)
(* action, the addressee, the name of an evidence; ref the event it answers. *)
Entry(id, type, agent, demand, arg, rec) ==
  [id |-> id, type |-> type, agent |-> agent, demand |-> demand, arg |-> arg, rec |-> rec, ref |-> 0,
   low |-> FALSE, high |-> FALSE, delegation |-> 0, key |-> <<>>, proposal |-> 0]

Where(log, Test(_)) == {i \in DOMAIN log : Test(log[i])}
LastOf(S) == CHOOSE i \in S : \A j \in S : j <= i
Is(log, type, d, arg) == Where(log, LAMBDA e : e.type = type /\ e.demand = d /\ e.arg = arg)
Some(log, type, d) == Where(log, LAMBDA e : e.type = type /\ e.demand = d) # {}
----
(* The state Rules accumulates, as queries on the events replayed so far.   *)

GatesOf(log, d) == {e.arg : e \in {log[i] : i \in Where(log, LAMBDA e : e.type = "gate" /\ e.demand = d)}}
Canceled(log, d) == Is(log, "control", d, "cancel") # {}
Delivered(log, d) == Some(log, "delivered", d)
G3Approved(log, d) == \E i \in Is(log, "gate", d, "G3") : log[i].rec = "APPROVE"
Reviews(log, d) == Where(log, LAMBDA e : e.type = "review" /\ e.demand = d)
PrClosed(log, d, pr) == Is(log, "delivered", d, pr) \cup Is(log, "review-rejected", d, pr) # {}
InConflict(log, d, pr) ==
  LET marks == Is(log, "pr-conflict", d, pr) \cup Is(log, "pr-conflict-cleared", d, pr)
  IN marks # {} /\ log[LastOf(marks)].type = "pr-conflict"
Closed(log, d) == \/ Canceled(log, d) \/ Delivered(log, d)
                  \/ G3Approved(log, d) /\ Reviews(log, d) = {}
HardClosed(log, d) == Canceled(log, d) \/ Delivered(log, d)
Paused(log, d) ==
  LET acts == Is(log, "control", d, "pause") \cup Is(log, "control", d, "resume")
  IN acts # {} /\ log[LastOf(acts)].arg = "pause"

\* The identity of an alert in the code is its kind and its event.
Alert(kinds, e) == [kinds |-> kinds, demand |-> e.demand, event |-> e.id]

\* _eval_gate: what the last verdict of a gate still asks for.
GateKinds(log, d, g) ==
  LET verdicts == Is(log, "gate", d, g)
      humans == Is(log, "human", d, g)
      last == LastOf(verdicts)
      after == {i \in humans : i > last}
      returns == {i \in verdicts : log[i].rec = "RETURN" /\ \A h \in humans : h < i}
      e == log[last]
      limit == Cardinality(returns) > MaxAutoCycles /\ after = {}
      kinds ==
             {k \in {"gate-return"} : e.rec = "RETURN" /\ \A h \in after : log[h].rec # "OVERRIDE"}
        \cup {k \in {"cycle-limit"} : limit}
        \cup {k \in {"human-required"} : ~limit /\ after = {} /\ (e.low \/ e.high)}
        \cup {k \in {"low-confidence"} : e.low /\ \E h \in after : log[h].rec \in {"APPROVE", "OVERRIDE"}}
  IN IF Closed(log, d) THEN kinds \cap {"human-required", "cycle-limit"} ELSE kinds
GateAlerts(log, d) ==
  {Alert(GateKinds(log, d, g), log[LastOf(Is(log, "gate", d, g))]) :
     g \in {h \in GatesOf(log, d) : /\ ~HardClosed(log, d)
                                    /\ Closed(log, d) => h = "G3"
                                    /\ GateKinds(log, d, h) # {}}}

TriageAlerts(log, d) ==
  LET vals == Where(log, LAMBDA e : e.type = "validation" /\ e.demand = d)
  IN {Alert({"triage-open"}, log[i]) :
        i \in {v \in vals : /\ v = LastOf(vals) /\ log[v].rec = "perguntas" /\ ~Closed(log, d)
                            /\ Where(log, LAMBDA e : e.type = "clarification" /\ e.ref = log[v].id) = {}
                            /\ Is(log, "start", d, "override") = {}}}

ReviewAlerts(log, d) ==
  LET waiting == {i \in Reviews(log, d) : ~PrClosed(log, d, log[i].arg) /\ ~Canceled(log, d)}
      mark(i) == LastOf(Is(log, "pr-conflict", d, log[i].arg))
  IN {Alert({"pr-waiting"}, log[i]) : i \in waiting}
     \cup {Alert({"pr-conflict"}, log[mark(i)]) : i \in {j \in waiting : InConflict(log, d, log[j].arg)}}

RequestAlerts(log, d) ==
  {Alert({"change-request-open"}, log[i]) :
     i \in {j \in Where(log, LAMBDA e : e.type = "change-request" /\ e.demand = d) :
              ~Closed(log, d) /\ Where(log, LAMBDA e : e.type = "decision" /\ e.ref = log[j].id) = {}}}

\* _eval_demand
AlertsOf(log, d) ==
  GateAlerts(log, d) \cup TriageAlerts(log, d) \cup ReviewAlerts(log, d) \cup RequestAlerts(log, d)
----
(* _run: after each event of these types, the alerts of its demand are      *)
(* evaluated again and the others kept.                                     *)

TriggersButClarification == {"gate", "human", "validation", "start", "control", "review", "delivered",
             "review-rejected", "pr-conflict", "pr-conflict-cleared", "change-request"}
Triggers == {"gate", "human", "validation", "clarification", "start", "control", "review", "delivered",
             "review-rejected", "pr-conflict", "pr-conflict-cleared", "change-request"}
RequestsOf(log, e) == {i \in DOMAIN log : e.type = "decision" /\ log[i].type = "change-request" /\ log[i].id = e.ref}
\* The demand an event has evaluated again: a decision that closes a
\* change-request, the demand of the request; it and the triggers else, their own.
Touches(log, e) ==
  {log[i].demand : i \in RequestsOf(log, e)}
  \cup {d \in {e.demand} : \/ e.type \in Triggers
                           \/ e.type = "decision" /\ e.ref # 0 /\ RequestsOf(log, e) = {}}
\* What is left open of a demand is what its last evaluation opened, on the log
\* up to then.
Evaluations(log, d) == {n \in DOMAIN log : d \in Touches(SubSeq(log, 1, n), log[n])}
Concerned(log) == {log[i].demand : i \in DOMAIN log}
Replayed(log) ==
  UNION {AlertsOf(SubSeq(log, 1, LastOf(Evaluations(log, d))), d) : d \in {x \in Concerned(log) : Evaluations(log, x) # {}}}

(* handoff_alerts: the last handoff to an agent, which wrote nothing on the *)
(* demand since and has no run on it, older than the threshold (late: the   *)
(* events the clock has left that far behind).                              *)
HandoffStalled(log, d, late, busy) ==
  LET to == {log[i].arg : i \in Where(log, LAMBDA e : e.type = "handoff" /\ e.demand = d /\ e.arg # e.agent)}
      last(a) == LastOf(Where(log, LAMBDA e : e.type = "handoff" /\ e.demand = d /\ e.arg = a /\ e.agent # a))
  IN {Alert({"handoff-stalled"}, log[last(a)]) :
        a \in {b \in to : /\ ~Closed(log, d) /\ ~Paused(log, d)
                          /\ \A j \in DOMAIN log : j > last(b) => log[j].agent # b \/ log[j].demand # d
                          /\ log[last(b)].id \in late /\ b \notin busy}}

\* delegations_of and active_delegation: a delegation without a result.
Delegations(log, d) == Where(log, LAMBDA e : e.type = "delegation" /\ e.demand = d)
Linked(log, type, id) == Where(log, LAMBDA e : e.type = type /\ e.delegation = id)
Ended(log, id) == Linked(log, "delegation-result", id) # {}
Active(log, d) == {i \in Delegations(log, d) : ~Ended(log, log[i].id)}
====
