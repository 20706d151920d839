------------------------- MODULE DelegationScenarios -------------------------
(***************************************************************************)
(* Where the TLC runs of Delegation start: logs that show each kind of     *)
(* alert, with what the agents, the human and the chat may then do.        *)
(***************************************************************************)
EXTENDS Alerts

Of(type, agent, demand, arg, rec) == Entry(0, type, agent, demand, arg, rec)
Refers(e, to) == [e EXCEPT !.ref = to]
Numbered(rows) == [i \in DOMAIN rows |-> [rows[i] EXCEPT !.id = i]]
Wish(kind, what) == [kind |-> kind, what |-> what]
Delegate(categories) == {Wish("delegar", c) : c \in categories}

Approve == Of("gate", "auditor", "a", "G3", "APPROVE")
Return == [Of("gate", "auditor", "a", "G3", "RETURN") EXCEPT !.low = TRUE]

\* A PR under review in conflict with the develop.
InReview ==
  [log |-> Numbered(<<Of("review", "orquestrador", "a", "7", ""), Of("pr-conflict", "orquestrador", "a", "7", "")>>),
   told |-> {Approve}, decisions |-> {}, wanted |-> Delegate({"conflito-develop"}),
   new |-> 4, proposals |-> 1, mishaps |-> 1]

\* A verdict that asks for the human.
AtGate ==
  [log |-> Numbered(<<Of("handoff", "backend", "a", "auditor", ""), Return, Of("review", "orquestrador", "b", "8", "")>>),
   told |-> {Approve, Return, Of("delivered", "orquestrador", "a", "7", "")},
   decisions |-> {[gate |-> "G3", action |-> "OVERRIDE"]},
   wanted |-> {Wish("destravar", "OVERRIDE"), Wish("resume", "resume")} \cup Delegate({"gate-travado"}),
   new |-> 3, proposals |-> 1, mishaps |-> 1]

\* Work that stands still: a handoff, a change-request, a test, a run.
Stalled ==
  [log |-> Numbered(<<Of("decision", "orquestrador", "a", "branch", ""), Of("change-request", "backend", "b", "frontend", ""),
                      Of("handoff", "orquestrador", "a", "backend", ""), Of("evidence", "qa", "a", "unit", "fail"),
                      Of("validation", "arquiteto", "a", "", "perguntas"), Of("change-request", "qa", "a", "backend", "docs")>>),
   told |-> {Refers(Of("decision", "frontend", "a", "", "aceita"), 2), Refers(Of("clarification", "humano", "a", "", ""), 5),
             Of("evidence", "qa", "a", "unit", "pass")},
   decisions |-> {},
   wanted |-> Delegate({"teste-quebrado", "ambiente-teste", "pendencia-handoff", "pendencia-change-request",
                        "pendencia-agente-parado", "ajuste-pontual"}),
   new |-> 2, proposals |-> 1, mishaps |-> 1]

\* Two cards on the screen.
TwoCards ==
  [log |-> Numbered(<<Of("decision", "orquestrador", "a", "branch", "")>>), told |-> {}, decisions |-> {},
   wanted |-> Delegate({"teste-quebrado", "ajuste-pontual"}), new |-> 3, proposals |-> 2, mishaps |-> 1]

Scenarios == {InReview, AtGate, Stalled, TwoCards}
=============================================================================
