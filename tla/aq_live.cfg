SPECIFICATION FairSpec
CONSTANTS
  Attachment = {a1}
  Job = {j1, j2}
  Runner = {r1, r2}
  Session = {s1}
  UserOps = {"manual", "reschedule", "set_done"}
  MailMayRaise = FALSE
  MaxRetries = 2
  MaxAsks = 2
  MaxFaults = 1
  NoAttachment = NoAttachment
  NoJob = NoJob
  NoWorker = NoWorker
  a1 = a1
  j1 = j1
  j2 = j2
  r1 = r1
  r2 = r2
  s1 = s1
CHECK_DEADLOCK FALSE
INVARIANT PendingHasJob
PROPERTIES
  PendingIsServed
  JobsEnd
