----------------------------- MODULE MCSquadTools -----------------------------
(***************************************************************************)
(* TLC instances of the squad's tools:                                     *)
(*   settings: two roles, a panel and a run, one login, two saves;         *)
(*   panels: the same file, two panels and three saves, no run;            *)
(*   dispatch: the same file, two runs of one demand at a time;            *)
(*   production: two services and one that is only restarted, over three   *)
(*     commits of which the last has a migration and a new definition;     *)
(*   delivery: one demand with two pull requests, a command that stops     *)
(*     half way, a PR opened again;                                        *)
(*   mirror: GitHub's issues of a delivered demand, or of an agent's two   *)
(*     tasks, with a call of gh that fails and a restart;                  *)
(*   intake: requests of the human at two threads of the server;           *)
(*   chat: the scenarios of DelegationScenarios.                           *)
(***************************************************************************)
EXTENDS SquadTools

\* `order` and `payment` change in commit 2, the first in a way that never gets
\* healthy, and are taken back in 3, with another definition and a migration.
MCSource == <<[order |-> 1, payment |-> 1, console |-> 1], [order |-> 3, payment |-> 2, console |-> 2],
              [order |-> 1, payment |-> 1, console |-> 2]>>
MCDefinition == <<[order |-> 1, payment |-> 1, console |-> 1], [order |-> 1, payment |-> 1, console |-> 2],
                  [order |-> 2, payment |-> 2, console |-> 1]>>
MCMigrations == <<{}, {}, {"m"}>>
\* What commit 3 takes back in `payment` was a file renamed out of it.
MCUnseen == [from \in 1..3 |-> [to \in 1..3 |-> IF from = 2 /\ to = 3 THEN {"payment"} ELSE {}]]

MCBack == << >>

MCCovers == [g \in {"G3"} |-> <<"qa">>]
Row(type, agent, of) == [type |-> type, agent |-> agent, demand |-> of, arg |-> "none"]
MCHistories == {<< >>,
  <<Row("task", "orquestrador", 0), Row("start", "humano", 1), Row("review", "humano", 1)>>,
  <<Row("task", "qa", 0), Row("task", "qa", 0), Row("handoff", "qa", 0)>>}

Cases == INSTANCE DelegationScenarios
MCPasts == Cases!Scenarios
=============================================================================
