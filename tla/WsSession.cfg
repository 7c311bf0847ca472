SPECIFICATION FairSpec
CONSTANTS
  Topics <- TwoTopics
  MaxPush = 3
  MaxPing = 2
  MaxDrop = 2
  Kind <- FeedKinds
  Fault <- Faults
INVARIANTS TypeOK AsksOnce SignedInFirst DeliversInOrder AnswersPings OneAnswer
PROPERTIES Resubscribes
CHECK_DEADLOCK FALSE
