SPECIFICATION FairSpec
CONSTANTS
  u1 = u1
  u2 = u2
  j1 = j1
  Client <- TwoClients
  Job <- OneJob
  MaxSub <- TwoAndOne
  Nobody = Nobody
INVARIANTS TypeOK OneHolder ListIsExact StuckOnlyAfterAbort MissesOnePerRemoval
PROPERTIES ErrorIsNoticed EveryoneGetsTheLock
