SPECIFICATION Spec
CONSTANTS
  t1 = t1
  t2 = t2
  c1 = c1
  u1 = u1
  Task = {t1, t2}
  Name = {n1}
  Cron = {c1}
  Session = {u1}
  Deployment <- OneTask
  MaxUploads = 1
  MaxRuns = 1
  MaxFaults = 1
  None = None
  n1 = n1
CHECK_DEADLOCK FALSE
INVARIANT NoFileLost
