SPECIFICATION OneFairSpec
CONSTANTS
  a = a
  b = b
  c = c
  CronJob = {a, b, c}
  Exclusion <- Star
  Worker = {w1, w2}
  Session = {s1}
  MaxDue = 3
  MaxAsks = 2
  NoJob = NoJob
  NoOne = NoOne
  w1 = w1
  w2 = w2
  s1 = s1
CHECK_DEADLOCK FALSE
INVARIANTS
  TypeOK
  ExclusiveJobsApart
  NothingLeftLocked
PROPERTY DueJobsRunAlone
