SPECIFICATION Spec
CONSTANTS
  Threads = {"s", "t"}
  Legacy = 1
  Until = 1
  Wanted = {"task"}
  MaxRequest = 3
  MaxMishap = 1
  MaxDraft = 0
INVARIANTS
  CodesAreNotReused
CHECK_DEADLOCK FALSE
