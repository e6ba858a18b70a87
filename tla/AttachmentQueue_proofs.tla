----------------------- MODULE AttachmentQueue_proofs -----------------------
(* Theorems about AttachmentQueue, for any sets of records, jobs, workers  *)
(* and operations and any bounds.                                          *)
EXTENDS AttachmentQueue, TLAPS

(***************************************************************************)
(* The inductive invariant.                                                *)
(***************************************************************************)
\* What a job row is worth at each of its states.
JobShape ==
  \A j \in Job:
     /\ job[j].st # "none" => job[j].att \in Attachment /\ state[job[j].att] # "absent"
     /\ Live(j) => job[j].retry < MaxRetries

\* What the transaction t of a worker says of itself at each step.
Shape(t) ==
  /\ t.pc = "idle" => t = Idle
  /\ t.pc # "idle" => t.op # "none" /\ t.att \in Attachment
  /\ t.op \notin {"job", "reschedule"} => t.job = NoJob
  /\ t.op \in {"job", "reschedule"} => t.job \in Job
  /\ t.pc \in {"locked", "ran"} => t.op \in Processing
  /\ t.pc \in {"commitAndRaise", "raised"} => t.op = "job"
  /\ t.op \in Ops \ {"manual"} => t.new # "keep" /\ ~t.eff
  /\ t.op = "reschedule" => t.new = "pending"
  /\ t.op = "set_done" => t.new = "done"
  /\ t.op \in Processing /\ t.pc \in {"begin", "locked"} => t.new = "keep" /\ ~t.eff
  /\ t.pc = "ran" => t.new = "keep" /\ t.eff /\ t.snap # "done"
  /\ t.op \in Processing /\ t.pc = "commit" =>
        \/ t.new = "keep" /\ ~t.eff /\ t.snap = "done"
        \/ t.new = "done" /\ t.eff /\ t.snap # "done"
        \/ t.new = "failed" /\ ~t.eff /\ t.snap # "done"
  /\ t.pc = "commitAndRaise" => t.new = "failed" /\ ~t.eff /\ t.snap # "done"

TxShape == \A w \in Worker: Shape(tx[w])

\* A job is named by one worker only, and is started, or still reserved.
JobOwned ==
  /\ \A w \in Worker:
        /\ tx[w].op = "job" => /\ job[tx[w].job].st = "started"
                               /\ job[tx[w].job].att = tx[w].att
        /\ tx[w].op = "reschedule" => job[tx[w].job].st = "none"
  /\ \A v, w \in Worker: tx[v].job = tx[w].job /\ tx[v].job # NoJob => v = w

\* rowLock says exactly who is between locking a row and ending.
LockHeld ==
  \A w \in Worker, a \in Attachment:
     rowLock[a] = w <=> tx[w].pc \in Holding /\ tx[w].att = a

\* A snapshot that is not stale is current, and holders are never stale.
SnapCurrent ==
  \A w \in Worker:
     /\ tx[w].pc \in Holding => ~tx[w].stale
     /\ tx[w].pc \in Holding \union {"begin"} =>
           /\ ~tx[w].stale => tx[w].snap = state[tx[w].att]
           /\ state[tx[w].att] # "absent"

Ind == TypeOK /\ JobShape /\ TxShape /\ JobOwned /\ LockHeld /\ SnapCurrent

LEMMA InitInd == Init => Ind
BY Parameters DEF Init, Ind, TypeOK, JobShape, TxShape, Shape, JobOwned, LockHeld,
   SnapCurrent, Idle, Tx, JobRow, Pc, Ops, States, Live, Holding, Worker, Processing

-----------------------------------------------------------------------------
(* Steps by what they do to the transaction of a worker.                   *)

LEMMA TxType ==
  ASSUME TypeOK, NEW w \in Worker, NEW t \in Tx, tx' = [tx EXCEPT ![w] = t]
  PROVE  tx' \in [Worker -> Tx]
BY DEF TypeOK

LEMMA IdleType == Idle \in Tx /\ Shape(Idle)
BY DEF Idle, Tx, Pc, Ops, States, Shape, Processing

\* A step inside a transaction that holds its row lock.
LEMMA HoldingStep ==
  ASSUME Ind, NEW w \in Worker, NEW t \in Tx, Shape(t),
         tx' = [tx EXCEPT ![w] = t],
         tx[w].pc \in Holding, t.pc \in Holding,
         t.op = tx[w].op, t.att = tx[w].att, t.job = tx[w].job,
         t.snap = tx[w].snap, t.stale = tx[w].stale,
         UNCHANGED <<state, effects, requests, job, rowLock, asks, faults>>
  PROVE  Ind'
<1>1. TypeOK'
  BY TxType DEF Ind, TypeOK
<1>2. JobShape'
  BY DEF Ind, JobShape, Live
<1>3. TxShape'
  BY DEF Ind, TxShape, TypeOK
<1>4. JobOwned'
  BY DEF Ind, JobOwned, TypeOK
<1>5. LockHeld'
  BY DEF Ind, LockHeld, TypeOK
<1>6. SnapCurrent'
  BY DEF Ind, SnapCurrent, TypeOK
<1> QED BY <1>1, <1>2, <1>3, <1>4, <1>5, <1>6 DEF Ind

\* A step that takes the row lock, by SELECT FOR UPDATE or by UPDATE.
LEMMA LockingStep ==
  ASSUME Ind, NEW w \in Worker, tx[w].pc = "begin", MayLock(w),
         NEW pc \in Holding, Shape([tx[w] EXCEPT !.pc = pc]),
         tx' = [tx EXCEPT ![w].pc = pc],
         rowLock' = [rowLock EXCEPT ![tx[w].att] = w],
         UNCHANGED <<state, effects, requests, job, asks, faults>>
  PROVE  Ind'
<1> DEFINE t == [tx[w] EXCEPT !.pc = pc]
<1>1. t \in Tx /\ tx' = [tx EXCEPT ![w] = t]
  BY DEF Ind, TypeOK, Tx, Pc, Holding
<1>2. tx[w].att \in Attachment
  BY DEF Ind, TxShape, Shape
<1>3. TypeOK'
  BY <1>1, <1>2, TxType DEF Ind, TypeOK
<1>4. JobShape'
  BY DEF Ind, JobShape, Live
<1>5. TxShape'
  BY <1>1 DEF Ind, TxShape, TypeOK
<1>6. JobOwned'
  BY DEF Ind, JobOwned, TypeOK, Tx
<1>7. LockHeld'
  BY <1>2, Parameters DEF Ind, LockHeld, TypeOK, Tx, MayLock, Holding
<1>8. SnapCurrent'
  BY DEF Ind, SnapCurrent, TypeOK, Tx, MayLock, Holding
<1> QED BY <1>3, <1>4, <1>5, <1>6, <1>7, <1>8 DEF Ind

\* The end of a transaction without a trace, whatever becomes of its job.
LEMMA RollbackStep ==
  ASSUME Ind, NEW w \in Worker, tx[w].pc # "idle",
         NEW st \in {"pending", "started", "failed"}, Rollback(w, st),
         asks' \in 0..MaxAsks, faults' \in 0..MaxFaults
  PROVE  Ind'
<1> USE DEF Rollback, SetJob
<1>1. TypeOK'
  <2>1. tx' \in [Worker -> Tx]
    BY TxType, IdleType DEF Ind
  <2>2. job' \in [Job -> JobRow]
    BY DEF Ind, TypeOK, TxShape, Shape, JobRow
  <2>3. rowLock' \in [Attachment -> Worker \union {NoWorker}]
    BY DEF Ind, TypeOK
  <2> QED BY <2>1, <2>2, <2>3 DEF Ind, TypeOK
<1>2. JobShape'
  <2>1. \A j \in Job: /\ job'[j].att = job[j].att
                      /\ job'[j].retry = job[j].retry
                      /\ job'[j].st # job[j].st => tx[w].op = "job" /\ j = tx[w].job
    BY DEF Ind, TypeOK, JobRow
  <2>2. tx[w].op = "job" => job[tx[w].job].st = "started"
    BY DEF Ind, JobOwned
  <2> QED BY <2>1, <2>2 DEF Ind, JobShape, Live
<1>3. TxShape'
  BY IdleType DEF Ind, TxShape, TypeOK
<1>4. JobOwned'
  BY Parameters DEF Ind, TypeOK, JobOwned, TxShape, Shape, Idle, JobRow
<1>5. LockHeld'
  BY Parameters DEF Ind, TypeOK, LockHeld, Holding, Idle
<1>6. SnapCurrent'
  BY DEF Ind, TypeOK, SnapCurrent, Holding, Idle
<1> QED BY <1>1, <1>2, <1>3, <1>4, <1>5, <1>6 DEF Ind

\* A request that is run again by the server, on a new snapshot.
LEMMA RestartStep ==
  ASSUME Ind, NEW w \in Worker, tx[w].op \in Ops,
         NEW new \in States \union {"keep"},
         tx[w].op = "manual" => new = "keep",
         tx[w].op # "manual" => new = tx[w].new,
         tx[w].pc \in Holding \union {"begin"},
         tx' = [tx EXCEPT ![w] = Snapshot(tx[w].op, tx[w].att, tx[w].job, new)],
         \/ tx[w].pc = "begin" /\ UNCHANGED rowLock
         \/ tx[w].pc \in Holding /\ rowLock' = [rowLock EXCEPT ![tx[w].att] = NoWorker],
         faults' \in 0..MaxFaults,
         UNCHANGED <<state, effects, requests, job, asks>>
  PROVE  Ind'
<1> DEFINE t == Snapshot(tx[w].op, tx[w].att, tx[w].job, new)
<1>1. tx[w].att \in Attachment
  BY DEF Ind, TxShape, Shape, Holding
<1>2. t \in Tx
  BY <1>1 DEF Ind, TypeOK, Tx, Pc, Snapshot
<1>3. Shape(t)
  BY <1>1 DEF Ind, TxShape, Shape, Snapshot, Ops, Processing
<1>4. TypeOK'
  BY <1>2, TxType DEF Ind, TypeOK
<1>5. JobShape'
  BY DEF Ind, JobShape, Live
<1>6. TxShape'
  BY <1>3 DEF Ind, TxShape, TypeOK
<1>7. JobOwned'
  BY DEF Ind, JobOwned, TypeOK, Snapshot, Tx
<1>8. LockHeld'
  BY <1>1, Parameters DEF Ind, LockHeld, TypeOK, Snapshot, Holding
<1>9. SnapCurrent'
  BY DEF Ind, SnapCurrent, TypeOK, Snapshot, Holding, Tx
<1> QED BY <1>4, <1>5, <1>6, <1>7, <1>8, <1>9 DEF Ind

\* A commit: what it does to everything but the jobs and the requests.
LEMMA PublishStep ==
  ASSUME Ind, NEW w \in Worker, tx[w].pc \in Holding,
         NEW next \in Tx, Shape(next), next.pc \in {"idle", "raised"},
         Publish(w, next)
  PROVE  /\ state' \in [Attachment -> States \union {"absent"}]
         /\ effects' \in [Attachment -> Nat]
         /\ rowLock' \in [Attachment -> Worker \union {NoWorker}]
         /\ tx' \in [Worker -> Tx]
         /\ TxShape' /\ LockHeld' /\ SnapCurrent'
         /\ \A a \in Attachment: state[a] # "absent" => state'[a] # "absent"
         /\ tx'[w] = next
         /\ \A v \in Worker \ {w}: /\ tx'[v].op = tx[v].op
                                  /\ tx'[v].job = tx[v].job
                                  /\ tx'[v].att = tx[v].att
                                  /\ tx'[v].pc = tx[v].pc
<1> DEFINE a == tx[w].att
           Stale(v) == [tx[v] EXCEPT !.stale = TRUE]
<1>1. a \in Attachment
  BY DEF Ind, TxShape, Shape, Holding
<1>2. \A v \in Worker: \/ v = w /\ tx'[v] = next
                       \/ v # w /\ tx'[v] = tx[v] /\ (tx[w].new = "keep"
                                      \/ tx[v].pc # "begin" \/ tx[v].att # a)
                       \/ v # w /\ tx'[v] = Stale(v) /\ tx[v].pc = "begin"
  BY DEF Publish
<1>3. tx' \in [Worker -> Tx]
  <2>1. \A v \in Worker: tx[v] \in Tx /\ Stale(v) \in Tx
    BY DEF Ind, TypeOK, Tx
  <2> QED BY <2>1, <1>2 DEF Publish
<1>4. state' \in [Attachment -> States \union {"absent"}]
  BY <1>1 DEF Ind, TypeOK, Tx, Publish
<1>5. effects' \in [Attachment -> Nat] /\ rowLock' \in [Attachment -> Worker \union {NoWorker}]
  BY <1>1 DEF Ind, TypeOK, Publish
<1>6. TxShape'
  <2>1. ASSUME NEW v \in Worker, tx[v].pc = "begin" PROVE Shape(Stale(v))
    <3>1. Shape(tx[v]) /\ tx[v] \in Tx
      BY DEF Ind, TxShape, TypeOK
    <3> QED BY <3>1, <2>1 DEF Shape, Tx
  <2> QED BY <2>1, <1>2 DEF Ind, TxShape
<1>7. \A v \in Worker: /\ tx'[v].pc \in Holding <=> v # w /\ tx[v].pc \in Holding
                       /\ v # w => tx'[v].att = tx[v].att
  <2> TAKE v \in Worker
  <2>1. Stale(v).pc = tx[v].pc /\ Stale(v).att = tx[v].att
    BY DEF Ind, TypeOK, Tx
  <2> QED BY <1>2, <2>1 DEF Holding
<1>8. LockHeld'
  BY <1>1, <1>7, Parameters DEF Ind, LockHeld, TypeOK, Publish
<1>9. \A b \in Attachment: state[b] # "absent" => state'[b] # "absent"
  BY <1>1 DEF Ind, TypeOK, TxShape, Shape, Publish, Tx, States, Ops, Processing, Holding
<1>10. SnapCurrent'
  <2> SUFFICES ASSUME NEW v \in Worker, tx'[v].pc \in Holding \union {"begin"}
               PROVE  /\ tx'[v].pc \in Holding => ~tx'[v].stale
                      /\ ~tx'[v].stale => tx'[v].snap = state'[tx'[v].att]
                      /\ state'[tx'[v].att] # "absent"
    BY DEF SnapCurrent
  <2>1. v # w /\ tx[v].att \in Attachment
    BY <1>2 DEF Ind, TxShape, Shape, Holding
  <2>2. CASE tx'[v] = Stale(v) /\ tx[v].pc = "begin"
    BY <2>1, <2>2, <1>9 DEF Ind, SnapCurrent, Holding, TypeOK, Tx
  <2>3. CASE tx'[v] = tx[v] /\ (tx[w].new = "keep" \/ tx[v].pc # "begin" \/ tx[v].att # a)
    <3>1. state'[tx[v].att] = state[tx[v].att]
      <4>1. tx[v].pc # "begin" => tx[v].att # a
        BY <2>1, <2>3, <1>1 DEF Ind, LockHeld
      <4> QED BY <4>1, <2>1, <2>3, <1>1 DEF Publish, Ind, TypeOK
    <3> QED BY <2>1, <2>3, <3>1, <1>9 DEF Ind, SnapCurrent
  <2> QED BY <1>2, <2>1, <2>2, <2>3
<1>11. \A v \in Worker: \A f \in {"op", "job", "att", "pc"}: Stale(v)[f] = tx[v][f]
  BY DEF Ind, TypeOK, Tx
<1>12. tx'[w] = next
  BY <1>2 DEF Publish
<1> QED BY <1>2, <1>3, <1>4, <1>5, <1>6, <1>8, <1>9, <1>10, <1>11, <1>12

-----------------------------------------------------------------------------
(* The actions.                                                            *)

LEMMA WorkerStep ==
  ASSUME Ind, NEW w \in Worker, Step(w) \/ ConcurrencyError(w) \/ Crash(w)
  PROVE  Ind'
<1> USE DEF Holding
<1>0. tx[w] \in Tx /\ Shape(tx[w])
  BY DEF Ind, TypeOK, TxShape
<1>1. CASE LockNowait(w)
  <2>1. Shape([tx[w] EXCEPT !.pc = "locked"])
    BY <1>0, <1>1 DEF LockNowait, Shape, Tx, Processing
  <2> QED BY <1>1, <2>1, LockingStep DEF LockNowait
<1>2. CASE Busy(w)
  BY <1>2, RollbackStep DEF Busy, Ind, TypeOK
<1>3. CASE SkipDone(w)
  <2> DEFINE t == [tx[w] EXCEPT !.pc = "commit"]
  <2>1. t \in Tx /\ Shape(t)
    BY <1>0, <1>3 DEF SkipDone, Shape, Tx, Processing, Pc
  <2> QED BY <1>0, <1>3, <2>1, HoldingStep DEF SkipDone, Tx
<1>4. CASE RunBody(w)
  <2> DEFINE t == [tx[w] EXCEPT !.pc = "ran", !.eff = TRUE]
  <2>1. t \in Tx /\ Shape(t)
    BY <1>0, <1>4 DEF RunBody, Shape, Tx, Processing, Pc, Ops
  <2>2. tx' = [tx EXCEPT ![w] = t]
    BY <1>4 DEF RunBody, Ind, TypeOK
  <2>3. /\ t.op = tx[w].op /\ t.att = tx[w].att /\ t.job = tx[w].job
        /\ t.snap = tx[w].snap /\ t.stale = tx[w].stale /\ t.pc \in Holding
    BY <1>0 DEF Tx
  <2> QED BY <1>4, <2>1, <2>2, <2>3, HoldingStep DEF RunBody
<1>5. CASE RunOk(w)
  <2> DEFINE t == [tx[w] EXCEPT !.pc = "commit", !.new = "done"]
  <2>1. t \in Tx /\ Shape(t)
    BY <1>0, <1>5 DEF RunOk, Shape, Tx, Processing, Pc, Ops, States
  <2>2. tx' = [tx EXCEPT ![w] = t]
    BY <1>5 DEF RunOk, Ind, TypeOK
  <2>3. /\ t.op = tx[w].op /\ t.att = tx[w].att /\ t.job = tx[w].job
        /\ t.snap = tx[w].snap /\ t.stale = tx[w].stale /\ t.pc \in Holding
    BY <1>0 DEF Tx
  <2> QED BY <1>5, <2>1, <2>2, <2>3, HoldingStep DEF RunOk
<1>6. CASE RunFails(w)
  <2> DEFINE t == [tx[w] EXCEPT !.pc = "commit", !.eff = FALSE, !.new = "failed"]
  <2>1. t \in Tx /\ Shape(t)
    BY <1>0, <1>6 DEF RunFails, Shape, Tx, Processing, Pc, Ops, States
  <2>2. tx' = [tx EXCEPT ![w] = t]
    BY <1>6 DEF RunFails, FailureWritten, Ind, TypeOK
  <2>3. /\ t.op = tx[w].op /\ t.att = tx[w].att /\ t.job = tx[w].job
        /\ t.snap = tx[w].snap /\ t.stale = tx[w].stale /\ t.pc \in Holding
    BY <1>0 DEF Tx
  <2> QED BY <1>6, <2>1, <2>2, <2>3, HoldingStep DEF RunFails, FailureWritten
<1>7. CASE RunRetryable(w)
  <2> DEFINE t == [tx[w] EXCEPT !.pc = "commitAndRaise", !.eff = FALSE, !.new = "failed"]
  <2>1. t \in Tx /\ Shape(t)
    BY <1>0, <1>7 DEF RunRetryable, Shape, Tx, Processing, Pc, Ops, States
  <2>2. tx' = [tx EXCEPT ![w] = t]
    BY <1>7 DEF RunRetryable, FailureWritten, Ind, TypeOK
  <2>3. /\ t.op = tx[w].op /\ t.att = tx[w].att /\ t.job = tx[w].job
        /\ t.snap = tx[w].snap /\ t.stale = tx[w].stale /\ t.pc \in Holding
    BY <1>0 DEF Tx
  <2> QED BY <1>7, <2>1, <2>2, <2>3, HoldingStep DEF RunRetryable, FailureWritten
<1>8. CASE FailureMailRaises(w) \/ ManualRunFails(w) \/ Crash(w)
  BY <1>8, RollbackStep, Parameters
     DEF FailureMailRaises, ManualRunFails, Crash, Ind, TypeOK
<1>9. CASE ConcurrencyError(w)
  <2>1. faults' \in 0..MaxFaults /\ UNCHANGED asks
    BY <1>9, Parameters DEF ConcurrencyError, Ind, TypeOK
  <2>2. CASE Rollback(w, "pending")
    BY <1>9, <2>1, <2>2, RollbackStep DEF ConcurrencyError, Ind, TypeOK
  <2>3. CASE ~Rollback(w, "pending")
    BY <1>0, <1>9, <2>1, <2>3, RestartStep DEF ConcurrencyError, Shape, Ops
  <2> QED BY <2>2, <2>3
<1>10. CASE Write(w)
  <2>1. Shape([tx[w] EXCEPT !.pc = "commit"])
    BY <1>0, <1>10 DEF Write, Shape, Tx, Processing
  <2> QED BY <1>10, <2>1, LockingStep DEF Write
<1>11. CASE WriteConflict(w)
  <2>1. CASE Rollback(w, "pending")
    BY <1>11, <2>1, RollbackStep DEF WriteConflict, Ind, TypeOK
  <2>2. CASE ~Rollback(w, "pending")
    <3>1. tx[w].op \in Ops \ {"manual"} /\ tx[w].new \in States \union {"keep"}
      BY <1>0, <1>11, Parameters DEF WriteConflict, Shape, Ops, Processing, Tx
    <3> QED BY <1>11, <2>2, <3>1, RestartStep DEF WriteConflict, Ind, TypeOK
  <2> QED BY <2>1, <2>2
<1>12. CASE CommitJob(w)
  <2>1. tx[w].job \in Job /\ tx[w].pc \in Holding
    BY <1>0, <1>12 DEF CommitJob, Shape
  <2>2. Publish(w, Idle) /\ SetJob(tx[w].job, "done") /\ UNCHANGED requests
    BY <1>12 DEF CommitJob
  <2>3. TypeOK' /\ TxShape' /\ LockHeld' /\ SnapCurrent'
    <3>1. job' \in [Job -> JobRow]
      BY <2>1, <2>2 DEF SetJob, Ind, TypeOK, JobRow
    <3> QED BY <2>1, <2>2, <3>1, IdleType, PublishStep DEF Publish, Ind, TypeOK, Idle
  <2>4. /\ \A a \in Attachment: state[a] # "absent" => state'[a] # "absent"
        /\ tx'[w] = Idle
        /\ \A v \in Worker \ {w}: /\ tx'[v].op = tx[v].op
                                 /\ tx'[v].job = tx[v].job
                                 /\ tx'[v].att = tx[v].att
    BY <2>1, <2>2, IdleType, PublishStep DEF Idle
  <2>5. \A k \in Job: /\ job'[k].att = job[k].att
                      /\ job'[k].retry = job[k].retry
                      /\ job'[k].st = IF k = tx[w].job THEN "done" ELSE job[k].st
    BY <2>1, <2>2 DEF SetJob, Ind, TypeOK, JobRow
  <2>6. JobShape'
    <3>1. job[tx[w].job].st = "started"
      BY <1>12 DEF CommitJob, Ind, JobOwned
    <3> QED BY <2>1, <2>4, <2>5, <3>1 DEF Ind, JobShape, Live
  <2>7. JobOwned'
    <3>1. Idle.op = "none" /\ Idle.job = NoJob
      BY DEF Idle
    <3>2. \A v \in Worker: tx[v].op \in {"job", "reschedule"} => tx[v].job \in Job
      BY DEF Ind, TxShape, Shape
    <3> QED BY <2>1, <2>4, <2>5, <3>1, <3>2, Parameters DEF Ind, JobOwned
  <2> QED BY <2>3, <2>6, <2>7 DEF Ind
<1>13. CASE CommitReschedule(w)
  <2>1. tx[w].job \in Job /\ tx[w].att \in Attachment /\ tx[w].pc \in Holding
    BY <1>0, <1>13 DEF CommitReschedule, Shape
  <2>2. /\ Publish(w, Idle) /\ ScheduleJob(tx[w].job, tx[w].att)
        /\ requests' = [requests EXCEPT ![tx[w].att] = @ + 1]
    BY <1>13 DEF CommitReschedule
  <2>3. TypeOK' /\ TxShape' /\ LockHeld' /\ SnapCurrent'
    <3>1. job' \in [Job -> JobRow] /\ requests' \in [Attachment -> Nat]
      BY <2>1, <2>2, Parameters DEF ScheduleJob, Ind, TypeOK, JobRow
    <3> QED BY <2>1, <2>2, <3>1, IdleType, PublishStep DEF Publish, Ind, TypeOK, Idle
  <2>4. JobShape'
    <3>1. state'[tx[w].att] # "absent"
      BY <2>1, <2>2, IdleType, PublishStep DEF Ind, SnapCurrent, Idle
    <3> QED BY <2>1, <2>2, <3>1, IdleType, PublishStep, Parameters
            DEF Ind, TypeOK, JobShape, JobRow, Live, ScheduleJob, Idle
  <2>5. /\ tx'[w] = Idle
        /\ \A v \in Worker \ {w}: /\ tx'[v].op = tx[v].op
                                 /\ tx'[v].job = tx[v].job
                                 /\ tx'[v].att = tx[v].att
    BY <2>1, <2>2, IdleType, PublishStep DEF Idle
  <2>6. JobOwned'
    <3>1. Idle.op = "none" /\ Idle.job = NoJob
      BY DEF Idle
    <3>2. \A v \in Worker: tx[v].op \in {"job", "reschedule"} => tx[v].job \in Job
      BY DEF Ind, TxShape, Shape
    <3>3. \A k \in Job: k # tx[w].job => job'[k] = job[k]
      BY <2>1, <2>2 DEF ScheduleJob, Ind, TypeOK
    <3> QED BY <2>1, <2>5, <3>1, <3>2, <3>3, Parameters DEF Ind, JobOwned
  <2> QED BY <2>3, <2>4, <2>6 DEF Ind
<1>14. CASE CommitRequest(w)
  <2>1. tx[w].att \in Attachment /\ tx[w].pc \in Holding
    BY <1>0, <1>14 DEF CommitRequest, Shape
  <2>2. Publish(w, Idle) /\ UNCHANGED job
    BY <1>14 DEF CommitRequest
  <2>3. TypeOK' /\ TxShape' /\ LockHeld' /\ SnapCurrent'
    <3>1. requests' \in [Attachment -> Nat]
      BY <2>1, <1>14 DEF CommitRequest, Ind, TypeOK
    <3> QED BY <2>1, <2>2, <3>1, IdleType, PublishStep DEF Publish, Ind, TypeOK, Idle
  <2>4. JobShape'
    BY <2>1, <2>2, IdleType, PublishStep DEF Ind, TypeOK, JobShape, Live, Idle
  <2>5. JobOwned'
    BY <2>1, <2>2, <1>0, <1>14 DEF CommitRequest, Publish, Ind, TypeOK, JobOwned, Tx, Idle
  <2> QED BY <2>3, <2>4, <2>5 DEF Ind
<1>15. CASE CommitFailure(w)
  <2> DEFINE next == [Idle EXCEPT !.pc = "raised", !.op = "job",
                                  !.att = tx[w].att, !.job = tx[w].job]
  <2>1. /\ tx[w].op = "job" /\ tx[w].job \in Job /\ tx[w].att \in Attachment
        /\ tx[w].pc \in Holding
    BY <1>0, <1>15 DEF CommitFailure, Shape
  <2>2. Publish(w, next) /\ UNCHANGED <<requests, job>>
    BY <1>15 DEF CommitFailure
  <2>3. next \in Tx /\ Shape(next) /\ next.pc = "raised" /\ next.job = tx[w].job
          /\ next.op = "job" /\ next.att = tx[w].att
    BY <2>1 DEF Idle, Tx, Pc, States, Ops, Shape, Processing
  <2>4. TypeOK' /\ TxShape' /\ LockHeld' /\ SnapCurrent'
    BY <2>1, <2>2, <2>3, PublishStep DEF Publish, Ind, TypeOK
  <2>5. JobShape'
    BY <2>1, <2>2, <2>3, PublishStep DEF Ind, TypeOK, JobShape, Live
  <2>6. JobOwned'
    BY <2>1, <2>2, <2>3 DEF Publish, Ind, TypeOK, JobOwned, Tx
  <2> QED BY <2>4, <2>5, <2>6 DEF Ind
<1>16. CASE RetryJob(w)
  <2> DEFINE j == tx[w].job
  <2>1. j \in Job /\ tx[w].pc = "raised" /\ job[j].st = "started"
    BY <1>0, <1>16 DEF RetryJob, Shape, Ind, JobOwned
  <2>2. job[j].retry + 1 \in 0..MaxRetries
    BY <2>1, Parameters DEF Ind, TypeOK, JobShape, Live, JobRow
  <2>3. TypeOK'
    <3>1. job' \in [Job -> JobRow]
      BY <1>16, <2>1, <2>2 DEF RetryJob, Ind, TypeOK, JobRow
    <3> QED BY <1>16, <3>1, IdleType, TxType DEF RetryJob, Ind, TypeOK
  <2>4. /\ \A k \in Job \ {j}: job'[k] = job[k]
        /\ job'[j].att = job[j].att
        /\ job'[j].st \in {"pending", "failed"}
        /\ job'[j].st = "pending" => job'[j].retry < MaxRetries
    BY <1>16, <2>1, <2>2, Parameters DEF RetryJob, Ind, TypeOK, JobRow
  <2>5. JobShape'
    BY <1>16, <2>1, <2>4 DEF RetryJob, Ind, JobShape, Live
  <2>6. TxShape'
    BY <1>16, IdleType DEF RetryJob, Ind, TypeOK, TxShape
  <2>7. JobOwned'
    <3>1. tx' = [tx EXCEPT ![w] = Idle] /\ Idle.op = "none" /\ Idle.job = NoJob
      BY <1>16 DEF RetryJob, Idle
    <3>2. \A v \in Worker: tx[v].op \in {"job", "reschedule"} => tx[v].job \in Job
      BY DEF Ind, TxShape, Shape
    <3> QED BY <2>1, <2>4, <3>1, <3>2, Parameters DEF Ind, TypeOK, JobOwned
  <2>8. LockHeld' /\ SnapCurrent'
    BY <1>16 DEF RetryJob, Ind, TypeOK, LockHeld, SnapCurrent, Idle
  <2> QED BY <2>3, <2>5, <2>6, <2>7, <2>8 DEF Ind
<1> QED BY <1>1, <1>2, <1>3, <1>4, <1>5, <1>6, <1>7, <1>8, <1>9, <1>10, <1>11,
           <1>12, <1>13, <1>14, <1>15, <1>16 DEF Step

LEMMA BeginRequestStep ==
  ASSUME Ind, NEW w \in Worker, NEW op \in UserOps, NEW a \in Attachment,
         NEW j \in Job \union {NoJob}, NEW new \in States \union {"keep"},
         op = "manual" <=> new = "keep",
         op = "reschedule" => j \in Job /\ FreeJob(j) /\ new = "pending",
         op # "reschedule" => j = NoJob,
         op = "set_done" => new = "done",
         BeginRequest(w, op, a, j, new)
  PROVE  Ind'
<1> DEFINE t == Snapshot(op, a, j, new)
<1>1. t \in Tx /\ Shape(t)
  BY Parameters DEF Snapshot, Ind, TypeOK, Tx, Pc, Shape, Ops, Processing, Holding
<1>2. tx' = [tx EXCEPT ![w] = t] /\ tx[w].pc = "idle" /\ state[a] # "absent"
  BY DEF BeginRequest, Ask
<1>3. TypeOK'
  BY <1>1, <1>2, TxType, Parameters DEF BeginRequest, Ask, Ind, TypeOK
<1>4. JobShape'
  BY DEF BeginRequest, Ind, JobShape, Live
<1>5. TxShape'
  BY <1>1, <1>2 DEF Ind, TypeOK, TxShape
<1>6. JobOwned'
  BY <1>2, Parameters DEF BeginRequest, Ind, TypeOK, JobOwned, Snapshot, FreeJob, Ops
<1>7. LockHeld'
  BY <1>2 DEF BeginRequest, Ind, TypeOK, LockHeld, Snapshot, Holding
<1>8. SnapCurrent'
  BY <1>2 DEF BeginRequest, Ind, TypeOK, SnapCurrent, Snapshot, Holding
<1> QED BY <1>3, <1>4, <1>5, <1>6, <1>7, <1>8 DEF Ind

LEMMA StartJobStep ==
  ASSUME Ind, NEW w \in Worker, NEW j \in Job, StartJob(w, j) PROVE Ind'
<1> DEFINE t == Snapshot("job", job[j].att, j, "keep")
<1>1. /\ job[j].att \in Attachment /\ state[job[j].att] # "absent"
      /\ job[j].st = "pending" /\ job[j].retry < MaxRetries
  BY DEF StartJob, Ind, JobShape, Live
<1>2. t \in Tx /\ Shape(t)
  BY <1>1 DEF Snapshot, Ind, TypeOK, Tx, Pc, Shape, Ops, Processing, Holding
<1>3. tx' = [tx EXCEPT ![w] = t] /\ tx[w].pc = "idle" /\ SetJob(j, "started")
  BY DEF StartJob
<1>4. TypeOK'
  <2>1. job' \in [Job -> JobRow]
    BY <1>3 DEF SetJob, Ind, TypeOK, JobRow
  <2> QED BY <2>1, <1>2, <1>3, TxType DEF StartJob, Ind, TypeOK
<1>5. JobShape'
  BY <1>1, <1>3 DEF StartJob, SetJob, Ind, TypeOK, JobShape, Live, JobRow
<1>6. TxShape'
  BY <1>2, <1>3 DEF Ind, TypeOK, TxShape
<1>7. JobOwned'
  <2>1. \A v \in Worker: tx[v].job # j
    BY <1>1, Parameters DEF Ind, JobOwned, TxShape, Shape
  <2> QED BY <1>1, <1>3, <2>1 DEF SetJob, Ind, TypeOK, JobOwned, Snapshot, JobRow, TxShape, Shape
<1>8. LockHeld'
  BY <1>3 DEF StartJob, Ind, TypeOK, LockHeld, Snapshot, Holding
<1>9. SnapCurrent'
  BY <1>1, <1>3 DEF StartJob, Ind, TypeOK, SnapCurrent, Snapshot, Holding
<1> QED BY <1>4, <1>5, <1>6, <1>7, <1>8, <1>9 DEF Ind

LEMMA CreateStep ==
  ASSUME Ind, NEW a \in Attachment, NEW j \in Job, Create(a, j) PROVE Ind'
<1> USE DEF Create, ScheduleJob, FreeJob
<1>1. TypeOK'
  BY Parameters DEF Ind, TypeOK, JobRow, States
<1>2. JobShape'
  BY Parameters DEF Ind, TypeOK, JobShape, Live
<1>3. TxShape' /\ LockHeld'
  BY DEF Ind, TxShape, LockHeld
<1>4. JobOwned'
  BY DEF Ind, TypeOK, JobOwned
<1>5. SnapCurrent'
  BY DEF Ind, TypeOK, SnapCurrent
<1> QED BY <1>1, <1>2, <1>3, <1>4, <1>5 DEF Ind

LEMMA RequeueDeadJobStep ==
  ASSUME Ind, NEW j \in Job, RequeueDeadJob(j) PROVE Ind'
<1> USE DEF RequeueDeadJob, SetJob
<1>1. TypeOK'
  BY DEF Ind, TypeOK, JobRow
<1>2. JobShape'
  BY DEF Ind, TypeOK, JobShape, Live, JobRow
<1>3. TxShape' /\ LockHeld' /\ SnapCurrent'
  BY DEF Ind, TxShape, LockHeld, SnapCurrent
<1>4. JobOwned'
  BY DEF Ind, TypeOK, JobOwned, JobRow
<1> QED BY <1>1, <1>2, <1>3, <1>4 DEF Ind

LEMMA RequestStep ==
  ASSUME Ind, NEW w \in Session, NEW a \in Attachment, Request(w, a) PROVE Ind'
<1> USE Parameters DEF Ops, States
<1>1. w \in Worker
  BY DEF Worker
<1>2. CASE button_manual_run(w, a)
  BY <1>1, <1>2, BeginRequestStep DEF button_manual_run, BeginRequest
<1>3. ASSUME NEW j \in Job, button_reschedule(w, a, j) PROVE Ind'
  <2>1. FreeJob(j) /\ BeginRequest(w, "reschedule", a, j, "pending")
    BY <1>3 DEF button_reschedule
  <2>2. "reschedule" \in UserOps
    BY <2>1 DEF BeginRequest
  <2> QED BY <1>1, <2>1, <2>2, BeginRequestStep
<1>4. CASE set_done(w, a)
  BY <1>1, <1>4, BeginRequestStep DEF set_done, BeginRequest
<1>5. ASSUME NEW s \in States, click_statusbar(w, a, s) PROVE Ind'
  BY <1>1, <1>5, BeginRequestStep DEF click_statusbar, BeginRequest
<1> QED BY <1>2, <1>3, <1>4, <1>5 DEF Request

LEMMA NextInd == Ind /\ [Next]_vars => Ind'
<1> SUFFICES ASSUME Ind, [Next]_vars PROVE Ind'
  OBVIOUS
<1>1. CASE UNCHANGED vars
  BY <1>1 DEF vars, Ind, TypeOK, JobShape, TxShape, JobOwned, LockHeld, SnapCurrent, Live
<1>2. CASE \E a \in Attachment, j \in Job: Create(a, j)
  BY <1>2, CreateStep
<1>3. CASE \E w \in Session, a \in Attachment: Request(w, a)
  BY <1>3, RequestStep
<1>4. CASE \E w \in Runner, j \in Job: StartJob(w, j)
  BY <1>4, StartJobStep DEF Worker
<1>5. CASE \E j \in Job: RequeueDeadJob(j)
  BY <1>5, RequeueDeadJobStep
<1>6. CASE \E w \in Worker: Step(w) \/ ConcurrencyError(w) \/ Crash(w)
  BY <1>6, WorkerStep
<1> QED BY <1>1, <1>2, <1>3, <1>4, <1>5, <1>6 DEF Next

LEMMA SpecInd == Spec => []Ind
BY InitInd, NextInd, PTL DEF Spec

-----------------------------------------------------------------------------
(* The results.                                                            *)

\* The variables keep their types in every behaviour of the attachment queue.
THEOREM TypeCorrect == Spec => []TypeOK
<1>1. Ind => TypeOK
  BY DEF Ind
<1> QED BY <1>1, SpecInd, PTL

\* Jobs and manual runs never process one attachment at the same time: the
\* row lock of run_as_job and button_manual_run excludes them, for any number
\* of workers.
THEOREM ExclusiveProcessing == Spec => []ProcessingIsExclusive
<1>1. Ind => ProcessingIsExclusive
  BY Parameters DEF Ind, TypeOK, LockHeld, ProcessingIsExclusive, Processes
<1> QED BY <1>1, SpecInd, PTL

\* The state that "if self.state != 'done'" reads under the lock is the
\* committed one, although it comes from a snapshot taken before the lock.
THEOREM FreshDecision == Spec => []DecisionIsFresh
<1>1. Ind => DecisionIsFresh
  BY DEF Ind, SnapCurrent, DecisionIsFresh, Processes
<1> QED BY <1>1, SpecInd, PTL

-----------------------------------------------------------------------------
(* Refinement of ProcessingLog.  Only a commit changes what the log shows. *)

LEMMA CommitRefines ==
  ASSUME Ind, NEW w \in Worker, NEW next, Publish(w, next),
         tx[w].pc \in {"commit", "commitAndRaise"},
         requests' = IF tx[w].op = "reschedule" \/
                        (tx[w].op = "statusbar" /\ tx[w].new # "done")
                     THEN [requests EXCEPT ![tx[w].att] = @ + 1] ELSE requests
  PROVE  Log!Next \/ UNCHANGED Log!vars
<1> DEFINE a == tx[w].att
<1> USE DEF Publish, Log!vars
<1>1. a \in Attachment /\ Shape(tx[w]) /\ tx[w] \in Tx
  BY DEF Ind, TypeOK, TxShape, Shape
<1>2. state[a] = tx[w].snap /\ state[a] # "absent"
  BY DEF Ind, SnapCurrent, Holding
<1>3. CASE tx[w].op \in Processing
  <2>1. tx[w].new \in {"keep", "done", "failed"}
    BY <1>1, <1>3 DEF Shape, Processing
  <2>2. CASE tx[w].new = "keep"
    BY <1>1, <1>3, <2>2 DEF Shape, Processing
  <2>3. CASE tx[w].new = "done"
    <3>1. Log!Process(a)
      BY <1>1, <1>2, <1>3, <2>3 DEF Log!Process, Log!Open, Shape, Processing, Tx, States
    <3> QED BY <1>1, <3>1 DEF Log!Next
  <2>4. CASE tx[w].new = "failed"
    <3>1. Log!Fail(a)
      BY <1>1, <1>2, <1>3, <2>4 DEF Log!Fail, Log!Open, Shape, Processing, Tx, States
    <3> QED BY <1>1, <3>1 DEF Log!Next
  <2> QED BY <2>1, <2>2, <2>3, <2>4
<1>4. CASE tx[w].op \notin Processing
  <2>1. tx[w].op \in Ops \ {"manual"} /\ ~tx[w].eff /\ tx[w].new # "keep"
    BY <1>1, <1>4, Parameters DEF Shape, Tx, Ops, Processing
  <2>2. CASE tx[w].new = "done"
    <3>1. Log!Close(a)
      BY <1>1, <1>2, <2>1, <2>2 DEF Log!Close, Shape
    <3> QED BY <1>1, <3>1 DEF Log!Next
  <2>3. CASE tx[w].new # "done"
    <3>1. Log!Reopen(a)
      BY <1>1, <1>2, <2>1, <2>3 DEF Log!Reopen, Log!Open, Shape, Tx, States, Ops
    <3> QED BY <1>1, <3>1 DEF Log!Next
  <2> QED BY <2>2, <2>3
<1> QED BY <1>3, <1>4

LEMMA StepRefines == Ind /\ [Next]_vars => [Log!Next]_Log!vars
<1> SUFFICES ASSUME Ind, [Next]_vars PROVE Log!Next \/ UNCHANGED Log!vars
  OBVIOUS
<1> USE DEF Log!vars
<1>1. CASE UNCHANGED vars
  BY <1>1 DEF vars
<1>2. ASSUME NEW a \in Attachment, NEW j \in Job, Create(a, j) PROVE Log!Next
  BY <1>2 DEF Create, Log!Next, Log!Create
<1>3. CASE \E w \in Session, a \in Attachment: Request(w, a)
  BY <1>3 DEF Request, button_manual_run, button_reschedule, set_done,
     click_statusbar, BeginRequest
<1>4. CASE \E j \in Job: RequeueDeadJob(j) \/ \E w \in Runner: StartJob(w, j)
  BY <1>4 DEF RequeueDeadJob, StartJob
<1>5. ASSUME NEW w \in Worker, CommitJob(w) \/ CommitReschedule(w)
                                 \/ CommitRequest(w) \/ CommitFailure(w)
      PROVE  Log!Next \/ UNCHANGED Log!vars
  <2>1. CASE CommitJob(w)
    BY <2>1, CommitRefines DEF CommitJob
  <2>2. CASE CommitReschedule(w)
    BY <2>2, CommitRefines DEF CommitReschedule
  <2>3. CASE CommitRequest(w)
    BY <2>3, CommitRefines DEF CommitRequest
  <2>4. CASE CommitFailure(w)
    <3>1. tx[w].op = "job"
      BY <2>4 DEF CommitFailure, Ind, TxShape, Shape
    <3> QED BY <2>4, <3>1, CommitRefines DEF CommitFailure
  <2> QED BY <1>5, <2>1, <2>2, <2>3, <2>4
<1>6. ASSUME NEW w \in Worker, Step(w) \/ ConcurrencyError(w) \/ Crash(w),
             ~(CommitJob(w) \/ CommitReschedule(w) \/ CommitRequest(w) \/ CommitFailure(w))
      PROVE  UNCHANGED Log!vars
  BY <1>6 DEF Step, LockNowait, Busy, SkipDone, RunBody, RunOk, RunFails, RunRetryable,
     FailureMailRaises, ManualRunFails, ConcurrencyError, Write, WriteConflict, RetryJob,
     Crash, Rollback, FailureWritten
<1> QED BY <1>1, <1>2, <1>3, <1>4, <1>5, <1>6 DEF Next

\* Every behaviour of jobs, clicks, crashes and retries shows a behaviour of
\* ProcessingLog: run() takes effect at one instant, only on an open
\* attachment, together with "done", and a failure has no effects.
THEOREM Refinement == Spec => RefinesLog
<1>1. Init => Log!Init
  BY DEF Init, Log!Init
<1> QED BY <1>1, StepRefines, SpecInd, PTL DEF Spec, RefinesLog, Log!Spec

\* LogInv is inductive in ProcessingLog: Process needs the strict part of
\* OncePerRequest, and spends it.
LogInv == Log!TypeOK /\ Log!OncePerRequest

LEMMA LogInvStep == LogInv /\ [Log!Next]_Log!vars => LogInv'
<1> SUFFICES ASSUME LogInv, [Log!Next]_Log!vars PROVE LogInv'
  OBVIOUS
<1> USE DEF LogInv, Log!TypeOK, Log!OncePerRequest, Log!Status, Log!Open
<1>1. CASE UNCHANGED Log!vars
  BY <1>1 DEF Log!vars
<1>2. ASSUME NEW a \in Attachment, Log!Create(a) PROVE LogInv'
  BY <1>2 DEF Log!Create
<1>3. ASSUME NEW a \in Attachment, Log!Reopen(a) PROVE LogInv'
  BY <1>3 DEF Log!Reopen
<1>4. ASSUME NEW a \in Attachment, Log!Process(a) PROVE LogInv'
  BY <1>4 DEF Log!Process
<1>5. ASSUME NEW a \in Attachment, Log!Fail(a) PROVE LogInv'
  BY <1>5 DEF Log!Fail
<1>6. ASSUME NEW a \in Attachment, Log!Close(a) PROVE LogInv'
  BY <1>6 DEF Log!Close
<1> QED BY <1>1, <1>2, <1>3, <1>4, <1>5, <1>6 DEF Log!Next

\* Every behaviour of the log processes each request at most once (run and
\* button_reschedule, whatever the number of attachments).
THEOREM LogOncePerRequest == Log!Spec => []Log!OncePerRequest
<1>1. Log!Init => LogInv
  BY DEF Log!Init, LogInv, Log!TypeOK, Log!OncePerRequest, Log!Status, Log!Open
<1>2. LogInv => Log!OncePerRequest
  BY DEF LogInv
<1> QED BY <1>1, <1>2, LogInvStep, PTL DEF Log!Spec

\* Each creation or reopening of an attachment has its effects committed at
\* most once, and an open attachment still has a request to be processed.
THEOREM OncePerRequestThm == Spec => []OncePerRequest
BY Refinement, LogOncePerRequest, PTL DEF RefinesLog, OncePerRequest

-----------------------------------------------------------------------------
(* No pending attachment is left without a job.                            *)

\* A step that commits nothing keeps every job that serves a record.
LEMMA QuietStep ==
  ASSUME Ind, ~MailMayRaise, NEW w \in Worker,
         Step(w) \/ ConcurrencyError(w) \/ Crash(w),
         ~(CommitJob(w) \/ CommitReschedule(w) \/ CommitRequest(w) \/ CommitFailure(w)),
         NEW j \in Job, NEW a \in Attachment, Serves(j, a)
  PROVE  Serves(j, a)'
<1>0. Shape(tx[w]) /\ tx[w] \in Tx
  BY DEF Ind, TypeOK, TxShape
<1>1. ASSUME Rollback(w, "pending") \/ Rollback(w, "started") PROVE Serves(j, a)'
  <2>1. job'[j].att = a /\ job'[j].st \in {"pending", "started"}
    BY <1>0, <1>1 DEF Rollback, SetJob, Ind, TypeOK, JobRow, Serves, Live, Shape
  <2>2. tx' = [tx EXCEPT ![w] = Idle] /\ Idle.job = NoJob
    BY <1>1 DEF Rollback, Idle
  <2> QED BY <2>1, <2>2, Parameters DEF Serves, Live, Ind, TypeOK
<1>2. ASSUME UNCHANGED job, NEW t, tx' = [tx EXCEPT ![w] = t], t.job = tx[w].job,
             t.pc # "raised"
      PROVE  Serves(j, a)'
  BY <1>2 DEF Serves, Live, Ind, TypeOK
<1>3. CASE LockNowait(w) \/ SkipDone(w) \/ Write(w)
  BY <1>0, <1>3, <1>2 DEF LockNowait, SkipDone, Write, Tx, Ind, TypeOK
<1>4. CASE RunBody(w) \/ RunOk(w) \/ RunFails(w) \/ RunRetryable(w)
  BY <1>0, <1>4, <1>2 DEF RunBody, RunOk, RunFails, RunRetryable, FailureWritten, Tx, Ind, TypeOK
<1>5. CASE Busy(w) \/ FailureMailRaises(w) \/ ManualRunFails(w) \/ Crash(w)
  BY <1>5, <1>1 DEF Busy, FailureMailRaises, ManualRunFails, Crash
<1>6. CASE ConcurrencyError(w) \/ WriteConflict(w)
  <2>1. tx[w].op = "manual" => tx[w].job = NoJob
    BY <1>0 DEF Shape
  <2> QED BY <1>6, <1>1, <1>2, <2>1 DEF ConcurrencyError, WriteConflict, Snapshot
<1>7. CASE RetryJob(w)
  <2>1. tx[w].pc = "raised" /\ tx[w].job # j /\ tx[w].job \in Job
    BY <1>0, <1>7 DEF RetryJob, Serves, Shape
  <2>2. job'[j] = job[j] /\ tx' = [tx EXCEPT ![w] = Idle] /\ Idle.job = NoJob
    BY <1>7, <2>1 DEF RetryJob, Ind, TypeOK, Idle
  <2> QED BY <2>2, Parameters DEF Serves, Live, Ind, TypeOK
<1> QED BY <1>3, <1>4, <1>5, <1>6, <1>7 DEF Step

\* A commit leaves the jobs that serve other records alone.
LEMMA CommitServes ==
  ASSUME Ind, NEW w \in Worker,
         CommitJob(w) \/ CommitReschedule(w) \/ CommitRequest(w) \/ CommitFailure(w),
         NEW j \in Job, NEW a \in Attachment, Serves(j, a),
         tx[w].att # a \/ CommitRequest(w)
  PROVE  Serves(j, a)'
<1>1. /\ \A v \in Worker \ {w}: tx'[v].job = tx[v].job /\ tx'[v].pc = tx[v].pc
      /\ tx'[w] = Idle \/ CommitFailure(w)
  <2>1. tx[w].pc \in Holding /\ Shape(tx[w]) /\ Idle.pc = "idle"
    BY DEF CommitJob, CommitReschedule, CommitRequest, CommitFailure, Holding,
       Ind, TxShape, Idle
  <2>2. CASE CommitFailure(w)
    <3> DEFINE next == [Idle EXCEPT !.pc = "raised", !.op = "job",
                                    !.att = tx[w].att, !.job = tx[w].job]
    <3>1. next \in Tx /\ Shape(next) /\ next.pc = "raised"
      BY <2>1, <2>2 DEF CommitFailure, Idle, Tx, Pc, States, Ops, Shape, Processing
    <3> QED BY <2>1, <2>2, <3>1, PublishStep DEF CommitFailure
  <2> QED BY <2>1, <2>2, IdleType, PublishStep
          DEF CommitJob, CommitReschedule, CommitRequest
<1>2. Idle.job = NoJob /\ NoJob # j
  BY Parameters DEF Idle
<1>3. CASE CommitJob(w) \/ CommitReschedule(w) \/ CommitFailure(w)
  <2>1. tx[w].job \in Job \ {j}
    BY <1>3 DEF CommitJob, CommitReschedule, CommitFailure, CommitRequest, Ind, TypeOK, JobOwned,
       TxShape, Shape, Serves, Live
  <2>2. job'[j] = job[j]
    BY <1>3, <2>1 DEF CommitJob, CommitReschedule, CommitFailure, SetJob, ScheduleJob,
       Ind, TypeOK
  <2>3. tx'[w].job # j
    BY <1>1, <1>2, <1>3, <2>1 DEF CommitFailure, Publish, Idle
  <2> QED BY <1>1, <2>2, <2>3 DEF Serves, Live
<1>4. CASE CommitRequest(w)
  <2>1. tx'[w] = Idle /\ UNCHANGED job
    BY <1>4 DEF CommitRequest, Publish
  <2> QED BY <1>1, <1>2, <2>1 DEF Serves, Live
<1> QED BY <1>3, <1>4

LEMMA PendingHasJobStep ==
  ASSUME Ind, ~MailMayRaise, "statusbar" \notin UserOps, PendingHasJob, [Next]_vars
  PROVE  PendingHasJob'
<1> SUFFICES ASSUME NEW a \in Attachment, state'[a] = "pending"
             PROVE  \E j \in Job: Serves(j, a)'
  BY DEF PendingHasJob
<1>1. ASSUME NEW j \in Job, NEW b \in Attachment, ScheduleJob(j, b), UNCHANGED tx,
             FreeJob(j)
      PROVE  /\ Serves(j, b)'
             /\ \A k \in Job: Serves(k, a) => Serves(k, a)'
  BY <1>1 DEF ScheduleJob, FreeJob, Serves, Live, Ind, TypeOK
<1>2. CASE UNCHANGED vars
  BY <1>2 DEF vars, PendingHasJob, Serves, Live
<1>3. ASSUME NEW b \in Attachment, NEW j \in Job, Create(b, j)
      PROVE  \E k \in Job: Serves(k, a)'
  BY <1>1, <1>3 DEF Create, PendingHasJob, Ind, TypeOK
<1>4. ASSUME NEW w \in Session, NEW b \in Attachment, Request(w, b)
      PROVE  \E k \in Job: Serves(k, a)'
  <2>1. PICK op, j, new:
           BeginRequest(w, op, b, j, new) /\ (j = NoJob \/ (j \in Job /\ FreeJob(j)))
    BY <1>4 DEF Request, button_manual_run, button_reschedule, set_done, click_statusbar
  <2>2. \A k \in Job: Serves(k, a) => Serves(k, a)'
    BY <2>1 DEF BeginRequest, Snapshot, Serves, Live, Ind, TypeOK, Worker
  <2> QED BY <2>1, <2>2 DEF BeginRequest, PendingHasJob
<1>5. ASSUME NEW w \in Runner, NEW j \in Job, StartJob(w, j)
      PROVE  \E k \in Job: Serves(k, a)'
  <2>1. \A k \in Job: Serves(k, a) => Serves(k, a)'
    BY <1>5 DEF StartJob, SetJob, Snapshot, Serves, Live, Ind, TypeOK, JobRow, Worker
  <2> QED BY <1>5, <2>1 DEF StartJob, PendingHasJob
<1>6. ASSUME NEW j \in Job, RequeueDeadJob(j) PROVE \E k \in Job: Serves(k, a)'
  <2>1. \A k \in Job: Serves(k, a) => Serves(k, a)'
    BY <1>6 DEF RequeueDeadJob, SetJob, Serves, Live, Ind, TypeOK, JobRow
  <2> QED BY <1>6, <2>1 DEF RequeueDeadJob, PendingHasJob
<1>7. ASSUME NEW w \in Worker, Step(w) \/ ConcurrencyError(w) \/ Crash(w),
             ~(CommitJob(w) \/ CommitReschedule(w) \/ CommitRequest(w) \/ CommitFailure(w))
      PROVE  \E k \in Job: Serves(k, a)'
  <2>1. UNCHANGED state
    BY <1>7 DEF Step, LockNowait, Busy, SkipDone, RunBody, RunOk, RunFails, RunRetryable,
       FailureMailRaises, ManualRunFails, ConcurrencyError, Write, WriteConflict, RetryJob,
       Crash, Rollback, FailureWritten
  <2> QED BY <1>7, <2>1, QuietStep DEF PendingHasJob
<1>8. ASSUME NEW w \in Worker,
             CommitJob(w) \/ CommitReschedule(w) \/ CommitRequest(w) \/ CommitFailure(w)
      PROVE  \E k \in Job: Serves(k, a)'
  <2>1. tx[w].pc \in Holding /\ Shape(tx[w]) /\ tx[w] \in Tx /\ tx[w].att \in Attachment
    BY <1>8 DEF CommitJob, CommitReschedule, CommitRequest, CommitFailure, Holding,
       Ind, TypeOK, TxShape, Shape
  <2>2. CASE tx[w].att # a
    <3>1. state'[a] = state[a]
      BY <1>8, <2>1, <2>2 DEF CommitJob, CommitReschedule, CommitRequest, CommitFailure,
         Publish, Ind, TypeOK
    <3> QED BY <1>8, <2>2, <3>1, CommitServes DEF PendingHasJob
  <2>3. CASE tx[w].att = a /\ CommitReschedule(w)
    <3> DEFINE j == tx[w].job
    <3>1. j \in Job /\ job'[j].st = "pending" /\ job'[j].att = a
      BY <2>1, <2>3 DEF CommitReschedule, ScheduleJob, Shape, Ind, TypeOK
    <3>2. \A v \in Worker: tx'[v].job # j
      <4>1. /\ \A v \in Worker \ {w}: tx'[v].job = tx[v].job
            /\ tx'[w] = Idle
        BY <2>1, <2>3, IdleType, PublishStep DEF CommitReschedule, Idle
      <4> QED BY <4>1, <3>1, Parameters DEF Ind, JobOwned, Idle
    <3> QED BY <3>1, <3>2 DEF Serves, Live
  <2>4. CASE tx[w].att = a /\ ~CommitReschedule(w)
    <3>1. state[a] = tx[w].snap
      BY <2>1, <2>4 DEF Ind, SnapCurrent
    <3>2. state'[a] = IF tx[w].new = "keep" THEN tx[w].snap ELSE tx[w].new
      BY <1>8, <2>1, <2>4, <3>1 DEF CommitJob, CommitRequest, CommitFailure, Publish,
         Ind, TypeOK
    <3>3. FALSE
      BY <1>8, <2>1, <2>4, <3>2, Parameters DEF CommitJob, CommitRequest, CommitFailure,
         Shape, Tx, Ops, States, Processing
    <3> QED BY <3>3
  <2> QED BY <2>2, <2>3, <2>4
<1> QED BY <1>2, <1>3, <1>4, <1>5, <1>6, <1>7, <1>8 DEF Next

\* "We would not want a pending attachment with no related pending job": it
\* never happens, whatever crashes, errors and retries do, as long as sending
\* the failure mail does not raise and nobody clicks on the status bar.
THEOREM NoLostPending ==
  ~MailMayRaise /\ "statusbar" \notin UserOps => (Spec => []PendingHasJob)
<1> SUFFICES ASSUME ~MailMayRaise, "statusbar" \notin UserOps
             PROVE  Spec => []PendingHasJob
  OBVIOUS
<1>1. Init => PendingHasJob
  BY DEF Init, PendingHasJob
<1>2. Ind /\ PendingHasJob /\ [Next]_vars => PendingHasJob'
  BY PendingHasJobStep
<1> QED BY <1>1, <1>2, SpecInd, PTL DEF Spec
==============================================================================
