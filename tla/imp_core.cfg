SPECIFICATION Spec
CONSTANTS
  t1 = t1
  t2 = t2
  c1 = c1
  u1 = u1
  Task = {t1, t2}
  Name = {n1, n2}
  Cron = {c1}
  Session = {u1}
  Deployment <- RaceOrAlone
  MaxUploads = 2
  MaxRuns = 3
  MaxFaults = 1
  None = None
  n1 = n1
  n2 = n2
CHECK_DEADLOCK FALSE
INVARIANTS
  TypeOK
  OnlyInterruptedLost
  ImportedOnce
PROPERTY NoDuplicateName
