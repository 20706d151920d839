SPECIFICATION Spec
CONSTANTS
  Workers = {"qa"}
  Covers <- MCCovers
  Histories <- MCHistories
  MaxNew = 2
  MaxFault = 1
  MaxCrash = 1
INVARIANTS
  NoDuplicateIssue
CHECK_DEADLOCK FALSE
