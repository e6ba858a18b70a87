SPECIFICATION Spec
CONSTANTS
  w1 = w1
  w2 = w2
  Worker = {w1, w2}
  Rule = {m1}
  Method = {"create", "write"}
  LogType = {"full"}
  Deployment <- Clearing
  MaxAsks = 6
  None = None
  m1 = m1
CHECK_DEADLOCK FALSE
INVARIANT NothingMissed
