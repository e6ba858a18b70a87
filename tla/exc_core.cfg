SPECIFICATION FairSpec
CONSTANTS
  Document = {d1, d2}
  User = {u1, u2}
  soft = soft
  hard = hard
  ExcRule <- Rules
  Blocking <- Hard
  MaxAsks = 3
  None = None
INVARIANT TypeOK
PROPERTIES ConfirmedOnlyIfValid IgnoreRefusesBlocking StoredBeforeRollback RequestsEnd
CHECK_DEADLOCK FALSE
