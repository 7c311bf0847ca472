SPECIFICATION Spec
CONSTANT MaxLast = 6
INVARIANTS OpensLatestRun ZeroMeansBeginning
CHECK_DEADLOCK FALSE
