SPECIFICATION Spec
CONSTANTS
  Topics <- TwoTopics
  MaxPush = 2
  MaxPing = 2
  MaxDrop = 1
  Kind <- OrderUpdates
  Fault <- Faults
INVARIANTS RefusalsReported
CHECK_DEADLOCK FALSE
