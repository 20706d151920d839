SPECIFICATION ToolsSpec
CONSTANTS
  Roles = {"orquestrador", "qa"}
  Orchestrator = "orquestrador"
  Demands = {"d1"}
  Editors = {"e1"}
  Runs = {"u1"}
  MaxVersion = 2
  MaxFlip = 1
  PanelEditors = {"e1", "e2"}
  PanelVersions = 3
  DispatchRuns = {"u1", "u2"}
  App = {"order", "payment"}
  Infra = {"console"}
  MaxCommit = 3
  Source <- MCSource
  Definition <- MCDefinition
  Migrations <- MCMigrations
  Unseen <- MCUnseen
  Unhealthy = {3}
  Callers = {"auto", "human"}
  MaxRace = 1
  MaxProdMishap = 1
  Deliveries = {"d1"}
  Releases = {}
  Back <- MCBack
  Checks = {"tests"}
  MaxEvents = 2
  MaxPr = 2
  MaxStop = 1
  MaxReopen = 1
  MaxAside = 3
  Workers = {"qa"}
  Covers <- MCCovers
  Histories <- MCHistories
  MaxNew = 2
  MaxFault = 1
  MaxCrash = 1
  Threads = {"s", "t"}
  Legacy = 1
  Until = 1
  Wanted = {"task", "bug", "evidence", "clarify", "edit", "pause", "cancel", "start", "triage"}
  MaxRequest = 3
  MaxMishap = 1
  MaxDraft = 2
  MaxAutoCycles = 2
  ChatDemands = {"a"}
  Pasts <- MCPasts
INVARIANTS
  OrchestratorOnClaude
  ReviewsAreSound
  MirrorIsSound
  CodesStand
  BugsWhole
  StartsReady
  AlertsExact
  DelegatedOnce
  PushIsAuthorised
PROPERTIES
  NoLostEdit
  OnePhoto
  UpdatedIsDeployed
  RolledBackIsBefore
\* Commits, events, requests and proposals are bounded, and then nothing moves.
CHECK_DEADLOCK FALSE
