SPECIFICATION Spec
CONSTANTS
  MaxAutoCycles = 2
  Demands = {"a"}
  Pasts <- MCPasts
INVARIANTS
  DecisionOnVerdictSeen
CHECK_DEADLOCK FALSE
