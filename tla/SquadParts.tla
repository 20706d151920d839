------------------------------ MODULE SquadParts ------------------------------
(***************************************************************************)
(* Three of the squad's tools that share no state, under names that set    *)
(* them apart: the production update (prod.py), the mirror on GitHub       *)
(* (github_sync.py) and the intake of demands and bugs (product.py,        *)
(* bugs.py and the server's requests).                                     *)
(***************************************************************************)
EXTENDS Naturals

CONSTANTS
  App, Infra, MaxCommit, Source, Definition, Migrations, Unseen, Unhealthy,  \* production
  Callers, MaxRace, MaxProdMishap,
  Workers, Covers, Histories, MaxNew, MaxFault, MaxCrash,            \* mirror
  Threads, Legacy, Until, Wanted, MaxRequest, MaxMishap, MaxDraft    \* intake

VARIABLES
  origin, head, image, running, defined, prodLog, caller, prodOp, prodMishaps, races,
  found, events, mem, saved, hub, midway, unheard, faults, crashes,
  rows, codesLock, bugsLock, drafts, folders, index, inbox, req, told, fromDraft, cut, asked, mishaps, drafted

productionVars == <<origin, head, image, running, defined, prodLog, caller, prodOp, prodMishaps, races>>
mirrorVars == <<found, events, mem, saved, hub, midway, unheard, faults, crashes>>
intakeVars == <<rows, codesLock, bugsLock, drafts, folders, index, inbox, req, told, fromDraft, cut, asked, mishaps, drafted>>

Production == INSTANCE ProductionUpdate WITH
  MaxMishap <- MaxProdMishap, log <- prodLog, op <- prodOp, mishaps <- prodMishaps
Mirror == INSTANCE GitHubSync WITH past <- found
Intake == INSTANCE DemandIntake

ASSUME PartAssumptions ==
  Production!ProductionAssumption /\ Mirror!SyncAssumption /\ Intake!IntakeAssumption
=============================================================================
