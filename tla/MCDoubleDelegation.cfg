SPECIFICATION Spec
CONSTANTS
  MaxAutoCycles = 2
  Demands = {"a"}
  Pasts <- MCTwoCards
INVARIANTS
  OneDelegationPerCard
CHECK_DEADLOCK FALSE
