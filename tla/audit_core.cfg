SPECIFICATION FairSpec
CONSTANTS
  w1 = w1
  w2 = w2
  Worker = {w1, w2}
  Rule = {m1, m2}
  Method = {"create", "write"}
  LogType = {"full", "fast"}
  Deployment <- Sound
  MaxAsks = 3
  None = None
  m1 = m1
  m2 = m2
CHECK_DEADLOCK FALSE
INVARIANTS
  TypeOK
  NothingMissed
  InSync
PROPERTY RuleReachesWorkers
