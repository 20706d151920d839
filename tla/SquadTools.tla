------------------------------ MODULE SquadTools ------------------------------
(***************************************************************************)
(* The squad's tools, side by side: in each behaviour one of them moves    *)
(* and the others stay as they start.  They share no state but the log,    *)
(* of which each part has the events it reads and writes.                  *)
(*   settings, panels, dispatch: executores.py and run_agent.py, with      *)
(*     panels and runs at once, with panels alone and with runs alone;     *)
(*   production: prod.py; delivery: gate.py and gitflow.py;                *)
(*   mirror: github_sync.py; intake: product.py, bugs.py and the server's  *)
(*   requests; chat: delegation through the conversation.                  *)
(* Production, mirror and intake are named in SquadParts.                  *)
(***************************************************************************)
EXTENDS ExecutorSettings, SquadParts, Sequences

CONSTANTS
  PanelEditors, PanelVersions, DispatchRuns,                         \* panels, dispatch
  Deliveries, Releases, Back, Checks, MaxEvents, MaxPr, MaxStop, MaxReopen, MaxAside,
  MaxAutoCycles, ChatDemands, Pasts                                  \* chat

VARIABLES
  part,                                                     \* the one that moves
  where, branchLog, pushed, prs, verdicts, judged, released, step, made, stops, reopened,
  scenario, log, proposals, conf, late, watch, tree, behind, clash, pushing, alarms

deliveryVars == <<where, branchLog, pushed, prs, verdicts, judged, released, step, made, stops, reopened>>
chatVars == <<scenario, log, proposals, conf, late, watch, tree, behind, clash, pushing, alarms>>
allVars == <<part, vars, productionVars, deliveryVars, mirrorVars, intakeVars, chatVars>>

-----------------------------------------------------------------------------
Panels == INSTANCE ExecutorSettings WITH
  Editors <- PanelEditors, Runs <- {}, MaxFlip <- 0, MaxVersion <- PanelVersions
Dispatch == INSTANCE ExecutorSettings WITH Runs <- DispatchRuns, Editors <- {}, MaxFlip <- 0
Delivery == INSTANCE DemandDelivery WITH Demands <- Deliveries, log <- branchLog
Chat == INSTANCE Delegation WITH Demands <- ChatDemands, past <- scenario, mishaps <- alarms

ASSUME ToolAssumptions ==
  Delivery!DeliveryAssumption /\ \A P \in Pasts : Chat!Scenario(P)

-----------------------------------------------------------------------------
\* A part that stays still starts from the empty log, or from some scenario.
ToolsInit ==
  /\ part \in {"settings", "panels", "dispatch", "production", "delivery", "mirror", "intake", "chat"}
  /\ CASE part = "panels" -> Panels!Init [] part = "dispatch" -> Dispatch!Init [] OTHER -> Init
  /\ Production!Init /\ Delivery!Init /\ Mirror!Init /\ Intake!Init /\ Chat!Init
  /\ part # "mirror" => found = << >>
  /\ part # "chat" => scenario = CHOOSE P \in Pasts : TRUE

ToolsNext ==
  \/ /\ part = "settings" /\ Next
     /\ UNCHANGED <<part, productionVars, deliveryVars, mirrorVars, intakeVars, chatVars>>
  \/ /\ part = "panels" /\ Panels!Next
     /\ UNCHANGED <<part, productionVars, deliveryVars, mirrorVars, intakeVars, chatVars>>
  \/ /\ part = "dispatch" /\ Dispatch!Next
     /\ UNCHANGED <<part, productionVars, deliveryVars, mirrorVars, intakeVars, chatVars>>
  \/ /\ part = "production" /\ Production!Next
     /\ UNCHANGED <<part, vars, deliveryVars, mirrorVars, intakeVars, chatVars>>
  \/ /\ part = "delivery" /\ Delivery!Next
     /\ UNCHANGED <<part, vars, productionVars, mirrorVars, intakeVars, chatVars>>
  \/ /\ part = "mirror" /\ Mirror!Next
     /\ UNCHANGED <<part, vars, productionVars, deliveryVars, intakeVars, chatVars>>
  \/ /\ part = "intake" /\ Intake!Next
     /\ UNCHANGED <<part, vars, productionVars, deliveryVars, mirrorVars, chatVars>>
  \/ /\ part = "chat" /\ Chat!Next
     /\ UNCHANGED <<part, vars, productionVars, deliveryVars, mirrorVars, intakeVars>>

ToolsSpec == ToolsInit /\ [][ToolsNext]_allVars

-----------------------------------------------------------------------------
(* The properties of the parts, each looked at where it may change; the    *)
(* settings' are their own.                                                *)

\* What an update records as deployed is what it leaves running, but for the services
\* it does not answer for (prod.py update).
UpdatedIsDeployed == Production!UpdatedIsDeployed

\* What was saved and tagged again is back, once an update says so (prod.py update).
RolledBackIsBefore == Production!RolledBackIsBefore

\* One `review` per PR, and none of a demand the Auditor never approved (gitflow.py
\* feature_finish, open_review).
ReviewsAreSound == part = "delivery" => Delivery!OneReviewPerPr /\ Delivery!ReviewIsApproved

\* The mirror says of GitHub's issues what is true, and a demand's issue is closed
\* by its delivery or cancellation alone (github_sync.py).
MirrorIsSound == part = "mirror" => Mirror!MirrorIsTrue /\ Mirror!ClosedByTheLog

\* A demand that can be read in the log has the code its answer carried, and no two
\* such demands share one (product.py).
CodesStand == part = "intake" => Intake!CodesStand

\* A bug is whole or absent (bugs.py, server.py _create_bug).
BugsWhole == part = "intake" => Intake!BugsWhole

\* A demand started without an override was ready (server.py start).
StartsReady == part = "intake" => Intake!StartsReady

\* The alerts kept event by event are those the whole log calls for (alerts.py).
AlertsExact == part = "chat" => Chat!AlertsExact

\* One delegation at a time per demand, no step tried too often, and no card decides
\* a gate twice, nor delegates twice a step whose attempts are never cleared
\* (conversa.py validate_delegation, confirm).
DelegatedOnce == part = "chat" => Chat!OneDelegation /\ Chat!DecidedOnce

\* What is pushed for a delegation was confirmed and approved (review_update).
PushIsAuthorised == part = "chat" => Chat!PushIsAuthorised
=============================================================================
