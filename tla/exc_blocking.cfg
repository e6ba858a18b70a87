SPECIFICATION Spec
CONSTANTS
  Document = {d1}
  User = {u1}
  soft = soft
  hard = hard
  ExcRule <- Rules
  Blocking <- Hard
  MaxAsks = 3
  None = None
PROPERTY BlockingNeverConfirmed
CHECK_DEADLOCK FALSE
