SPECIFICATION Spec
CONSTANTS
  Attachment = {a1, a2}
  Job = {j1, j2, j3}
  Runner = {r1, r2}
  Session = {s1}
  UserOps = {"manual", "reschedule", "set_done", "statusbar"}
  MailMayRaise = TRUE
  MaxRetries = 2
  MaxAsks = 2
  MaxFaults = 1
  NoAttachment = NoAttachment
  NoJob = NoJob
  NoWorker = NoWorker
  a1 = a1
  a2 = a2
  j1 = j1
  j2 = j2
  j3 = j3
  r1 = r1
  r2 = r2
  s1 = s1
CHECK_DEADLOCK FALSE
SYMMETRY Symmetry
INVARIANTS
  TypeOK
  ProcessingIsExclusive
  DecisionIsFresh
  OncePerRequest
PROPERTY RefinesLog
