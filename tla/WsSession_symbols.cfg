SPECIFICATION Spec
CONSTANTS
  Topics <- TwoTopics
  MaxPush = 2
  MaxPing = 2
  MaxDrop = 1
  Kind <- Requests
  Fault <- NoFault
INVARIANTS AnswersEveryTopic
CHECK_DEADLOCK FALSE
