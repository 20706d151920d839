----------------------------- MODULE MCSquadFlows -----------------------------
(***************************************************************************)
(* TLC instances of what goes through several hands on the squad's side,   *)
(* next to each other in one run: in each behaviour one of them moves and  *)
(* the others stay as they start.                                          *)
(*   conversation: one conversation, two requests at a time, two           *)
(*     questions, one image, one end of the server;                        *)
(*   delivery: one demand and one release through their pull requests, one *)
(*     command that stops half way, one PR the human opens again;          *)
(*   environment: two demands that ask for the test environment, one of    *)
(*     them with two commits of which the second is unfit to run, two      *)
(*     requests, one mishap.                                               *)
(***************************************************************************)
EXTENDS Conversation, SharedEnvironment

VARIABLES
  part,                                       \* the one that moves
  where, log, pushed, prs, verdicts, judged, released, step, made, stops, reopened   \* DemandDelivery

deliveryVars == <<where, log, pushed, prs, verdicts, judged, released, step, made, stops, reopened>>
environmentVars == <<pr, ledger, env, queue, republish, reset, stack, checkout, asking, op, asks, faults, owed>>
allVars == <<part, vars, deliveryVars, environmentVars>>

Delivery == INSTANCE DemandDelivery WITH
  Demands <- {"d1"}, Releases <- {"r1"}, Back <- [r \in {"r1"} |-> "back"], Checks <- {},
  MaxEvents <- 1, MaxPr <- 1, MaxStop <- 1, MaxReopen <- 1, MaxAside <- 3

\* The guard of the test environment refuses the second commit of `a`.
MCUnfit == {<<"a", 2>>}
MCPushes == [d \in Demands |-> IF d = "a" THEN 2 ELSE 1]

ASSUME FlowsAssumption == Delivery!DeliveryAssumption /\ Test!TestEnvironmentAssumption

-----------------------------------------------------------------------------
FlowsInit ==
  part \in {"conversation", "delivery", "environment"} /\ Init /\ Delivery!Init /\ Test!Init

ConversationMoves(A) == part = "conversation" /\ A /\ UNCHANGED <<part, deliveryVars, environmentVars>>
DeliveryMoves(A)     == part = "delivery" /\ A /\ UNCHANGED <<part, vars, environmentVars>>
EnvironmentMoves(A)  == part = "environment" /\ A /\ UNCHANGED <<part, vars, deliveryVars>>

FlowsNext ==
  ConversationMoves(Next) \/ DeliveryMoves(Delivery!Next) \/ EnvironmentMoves(Test!Next)

\* The fairness of the three modules, each in its own behaviours.
FlowsFairness ==
  /\ \A i \in TurnNumbers : WF_allVars(ConversationMoves(Progress(i)))
  /\ WF_allVars(DeliveryMoves(Delivery!Command))
  /\ WF_allVars(DeliveryMoves(Delivery!Switch("develop")))
  /\ SF_allVars(DeliveryMoves(Delivery!Duty))
  /\ WF_allVars(EnvironmentMoves(Test!Work))
  /\ WF_allVars(EnvironmentMoves(Test!RequestWrite))

FlowsSpec == FlowsInit /\ [][FlowsNext]_allVars /\ FlowsFairness

-----------------------------------------------------------------------------
\* What the human did with a demand's last PR reaches the log (review_sync).
LastOutcomeRecorded == Delivery!LastOutcomeRecorded
=============================================================================
