--------------------------- MODULE AttachmentQueue ---------------------------
(***************************************************************************)
(* attachment_queue: records wrapping an attachment, each processed by     *)
(* asynchronous jobs and by users' clicks that race with them.             *)
(*                                                                         *)
(* A worker is a PostgreSQL transaction (REPEATABLE READ, as Odoo runs     *)
(* them) of a job runner or of a user session.  It sees the row as it was  *)
(* when its snapshot was taken; a row that another transaction updated     *)
(* since then is "stale" to it, and locking or updating that row fails.    *)
(* Its own writes stay in tx[w] until it commits.                          *)
(***************************************************************************)
EXTENDS Naturals

CONSTANTS Attachment, \* the attachment.queue records
          Job,        \* the queue.job records the bound allows
          Runner,     \* processes that perform jobs
          Session,    \* processes that serve users
          UserOps,    \* the user operations that are considered
          MailMayRaise, \* sending the failure mail may raise
          MaxRetries, \* max_retries of a job
          MaxAsks,    \* bound: operations users start
          MaxFaults,  \* bound: crashes and PostgreSQL concurrency errors
          NoAttachment, NoJob, NoWorker

Worker == Runner \union Session
Ops == {"manual", "reschedule", "set_done", "statusbar"}
States == {"pending", "done", "failed"}

ASSUME Parameters ==
  /\ NoAttachment \notin Attachment
  /\ NoJob \notin Job
  /\ NoWorker \notin Worker
  /\ Runner \intersect Session = {}
  /\ UserOps \subseteq Ops
  /\ MailMayRaise \in BOOLEAN
  /\ MaxRetries \in Nat \ {0}
  /\ MaxAsks \in Nat
  /\ MaxFaults \in Nat

VARIABLES state,    \* committed state of a record, "absent" before create()
          effects,  \* history: committed effects of _run, per record
          requests, \* history: create() and reopening writes, per record
          job,      \* the committed queue.job rows
          rowLock,  \* who holds the row lock of a record
          tx,       \* the transaction each worker is in
          asks, faults \* how much of the bounds is used

vars == <<state, effects, requests, job, rowLock, tx, asks, faults>>

Pc == {"idle", "begin", "locked", "ran", "commit", "commitAndRaise", "raised"}

Tx == [pc: Pc,
       op: UserOps \union {"none", "job"},
       att: Attachment \union {NoAttachment},
       job: Job \union {NoJob},
       snap: States \union {"absent"},  \* the state the snapshot shows
       stale: BOOLEAN,                  \* updated by others since the snapshot
       eff: BOOLEAN,                    \* effects of _run, not committed yet
       new: States \union {"keep"}]     \* state written, not committed yet

Idle == [pc |-> "idle", op |-> "none", att |-> NoAttachment, job |-> NoJob,
         snap |-> "absent", stale |-> FALSE, eff |-> FALSE, new |-> "keep"]

JobRow == [att: Attachment \union {NoAttachment},
           st: {"none", "pending", "started", "done", "failed"},
           retry: 0..MaxRetries]

Live(j) == job[j].st \in {"pending", "started"}
Processing == {"job", "manual"}
Holding == {"locked", "ran", "commit", "commitAndRaise"}

\* j will be performed for a (again), and this is not its last try ending.
Serves(j, a) == /\ Live(j)
                /\ job[j].att = a
                /\ \A w \in Worker: tx[w].job = j => tx[w].pc # "raised"

\* w has locked its record to process it.
Processes(w, a) == /\ tx[w].op \in Processing
                   /\ tx[w].pc \in Holding
                   /\ tx[w].att = a

TypeOK == /\ state \in [Attachment -> States \union {"absent"}]
          /\ effects \in [Attachment -> Nat]
          /\ requests \in [Attachment -> Nat]
          /\ job \in [Job -> JobRow]
          /\ rowLock \in [Attachment -> Worker \union {NoWorker}]
          /\ tx \in [Worker -> Tx]
          /\ asks \in 0..MaxAsks
          /\ faults \in 0..MaxFaults

Init == /\ state = [a \in Attachment |-> "absent"]
        /\ effects = [a \in Attachment |-> 0]
        /\ requests = [a \in Attachment |-> 0]
        /\ job = [j \in Job |-> [att |-> NoAttachment, st |-> "none", retry |-> 0]]
        /\ rowLock = [a \in Attachment |-> NoWorker]
        /\ tx = [w \in Worker |-> Idle]
        /\ asks = 0
        /\ faults = 0

-----------------------------------------------------------------------------
(* Jobs: with_delay() inserts a row in the transaction of the caller; the  *)
(* job runner starts it, and puts it back when its worker died.            *)

FreeJob(j) == job[j].st = "none" /\ \A w \in Worker: tx[w].job # j

ScheduleJob(j, a) ==
  job' = [job EXCEPT ![j] = [att |-> a, st |-> "pending", retry |-> 0]]

SetJob(j, st) == job' = [job EXCEPT ![j].st = st]

\* create(): the record and its job appear in one commit.
Create(a, j) ==
  /\ state[a] = "absent"
  /\ FreeJob(j)
  /\ state' = [state EXCEPT ![a] = "pending"]
  /\ requests' = [requests EXCEPT ![a] = @ + 1]
  /\ ScheduleJob(j, a)
  /\ UNCHANGED <<effects, rowLock, tx, asks, faults>>

Snapshot(op, a, j, new) ==
  [pc |-> "begin", op |-> op, att |-> a, job |-> j, snap |-> state[a],
   stale |-> FALSE, eff |-> FALSE, new |-> new]

StartJob(w, j) ==
  /\ tx[w].pc = "idle"
  /\ job[j].st = "pending"
  /\ SetJob(j, "started")
  /\ tx' = [tx EXCEPT ![w] = Snapshot("job", job[j].att, j, "keep")]
  /\ UNCHANGED <<state, effects, requests, rowLock, asks, faults>>

RequeueDeadJob(j) ==
  /\ job[j].st = "started"
  /\ \A w \in Worker: tx[w].job # j
  /\ SetJob(j, "pending")
  /\ UNCHANGED <<state, effects, requests, rowLock, tx, asks, faults>>

-----------------------------------------------------------------------------
(* What users start.                                                       *)

Ask(w) == /\ tx[w].pc = "idle"
          /\ asks < MaxAsks
          /\ asks' = asks + 1

BeginRequest(w, op, a, j, new) ==
  /\ Ask(w)
  /\ op \in UserOps
  /\ state[a] # "absent"
  /\ tx' = [tx EXCEPT ![w] = Snapshot(op, a, j, new)]
  /\ UNCHANGED <<state, effects, requests, job, rowLock, faults>>

button_manual_run(w, a) == BeginRequest(w, "manual", a, NoJob, "keep")
button_reschedule(w, a, j) ==
  FreeJob(j) /\ BeginRequest(w, "reschedule", a, j, "pending")
set_done(w, a) == BeginRequest(w, "set_done", a, NoJob, "done")
\* The status bar of the form is clickable and state is not read-only: a
\* click is a plain write, which schedules nothing.
click_statusbar(w, a, s) == BeginRequest(w, "statusbar", a, NoJob, s)

-----------------------------------------------------------------------------
(* Transactions.                                                           *)

\* Mutant: locking a row does not notice that the snapshot is older than it.
MayLock_ReadCommitted(w) == rowLock[tx[w].att] = NoWorker

MayLock(w) == rowLock[tx[w].att] = NoWorker /\ ~tx[w].stale

\* Mutant: the record is read without FOR UPDATE.
LockNowait_NoLock(w) ==
  /\ tx[w].pc = "begin"
  /\ tx[w].op \in Processing
  /\ tx' = [tx EXCEPT ![w].pc = "locked"]
  /\ UNCHANGED <<state, effects, requests, job, rowLock, asks, faults>>

\* SELECT ... FOR UPDATE NOWAIT: a snapshot on which it succeeds is current.
LockNowait(w) ==
  /\ tx[w].pc = "begin"
  /\ tx[w].op \in Processing
  /\ MayLock(w)
  /\ rowLock' = [rowLock EXCEPT ![tx[w].att] = w]
  /\ tx' = [tx EXCEPT ![w].pc = "locked"]
  /\ UNCHANGED <<state, effects, requests, job, asks, faults>>

\* The transaction of w ends without a trace, and its job becomes st.
Rollback(w, st) ==
  /\ tx' = [tx EXCEPT ![w] = Idle]
  /\ rowLock' = [a \in Attachment |->
                    IF rowLock[a] = w THEN NoWorker ELSE rowLock[a]]
  /\ IF tx[w].op = "job" THEN SetJob(tx[w].job, st) ELSE UNCHANGED job
  /\ UNCHANGED <<state, effects, requests>>

\* Mutant: the lock error is not a RetryableJobError, so the job fails.
Busy_NotRetryable(w) ==
  /\ tx[w].pc = "begin"
  /\ tx[w].op \in Processing
  /\ ~MayLock(w)
  /\ Rollback(w, "failed")
  /\ UNCHANGED <<asks, faults>>

\* The row is locked or changed: a job is retried without counting the try,
\* a user gets an error.
Busy(w) ==
  /\ tx[w].pc = "begin"
  /\ tx[w].op \in Processing
  /\ ~MayLock(w)
  /\ Rollback(w, "pending")
  /\ UNCHANGED <<asks, faults>>

\* if self.state != "done": a job that comes late finishes without a write.
SkipDone(w) ==
  /\ tx[w].pc = "locked"
  /\ tx[w].snap = "done"
  /\ tx' = [tx EXCEPT ![w].pc = "commit"]
  /\ UNCHANGED <<state, effects, requests, job, rowLock, asks, faults>>

\* Mutant: run() is called whatever the state is.
RunBody_AnyState(w) ==
  /\ tx[w].pc = "locked"
  /\ tx' = [tx EXCEPT ![w].pc = "ran", ![w].eff = TRUE]
  /\ UNCHANGED <<state, effects, requests, job, rowLock, asks, faults>>

\* _run() has had effects in the database; run() writes "done" next.
RunBody(w) ==
  /\ tx[w].pc = "locked"
  /\ tx[w].snap # "done"
  /\ tx' = [tx EXCEPT ![w].pc = "ran", ![w].eff = TRUE]
  /\ UNCHANGED <<state, effects, requests, job, rowLock, asks, faults>>

RunOk(w) ==
  /\ tx[w].pc = "ran"
  /\ tx' = [tx EXCEPT ![w].pc = "commit", ![w].new = "done"]
  /\ UNCHANGED <<state, effects, requests, job, rowLock, asks, faults>>

\* Mutant: run() is called without a savepoint.
FailureWritten_NoSavepoint(w, pc) ==
  /\ tx' = [tx EXCEPT ![w].pc = pc, ![w].new = "failed"]
  /\ UNCHANGED <<state, effects, requests, job, rowLock, asks, faults>>

\* Mutant: the state that is written is not one of the selection.
FailureWritten_BadState(w, pc) ==
  /\ tx' = [tx EXCEPT ![w].pc = pc, ![w].eff = FALSE, ![w].new = "failure"]
  /\ UNCHANGED <<state, effects, requests, job, rowLock, asks, faults>>

\* The savepoint around run() is rolled back, then the failure is written.
FailureWritten(w, pc) ==
  /\ tx' = [tx EXCEPT ![w].pc = pc, ![w].eff = FALSE, ![w].new = "failed"]
  /\ UNCHANGED <<state, effects, requests, job, rowLock, asks, faults>>

\* except Exception / OperationalError without a concurrency code.
RunFails(w) ==
  /\ tx[w].pc = "ran"
  /\ tx[w].op = "job"
  /\ FailureWritten(w, "commit")

\* Mutant: a RetryableJobError is re-raised and nothing is written.
RunRetryable_NoWrite(w) ==
  /\ tx[w].pc = "ran"
  /\ tx[w].op = "job"
  /\ tx' = [tx EXCEPT ![w].pc = "commitAndRaise", ![w].eff = FALSE]
  /\ UNCHANGED <<state, effects, requests, job, rowLock, asks, faults>>

\* Mutant: ... it carries ignore_retry, and nothing is written either.
RunRetryable_IgnoreRetry(w) ==
  /\ tx[w].pc = "ran"
  /\ tx[w].op = "job"
  /\ Rollback(w, "pending")
  /\ UNCHANGED <<asks, faults>>

\* except RetryableJobError: the failure is committed, then re-raised.
RunRetryable(w) ==
  /\ tx[w].pc = "ran"
  /\ tx[w].op = "job"
  /\ FailureWritten(w, "commitAndRaise")

\* _set_attachment_failure raises while it renders or sends the mail.
FailureMailRaises(w) ==
  /\ MailMayRaise
  /\ tx[w].pc = "ran"
  /\ tx[w].op = "job"
  /\ Rollback(w, "failed")
  /\ UNCHANGED <<asks, faults>>

\* Nothing catches an error of a manual run: the request is rolled back.
ManualRunFails(w) ==
  /\ tx[w].pc = "ran"
  /\ tx[w].op = "manual"
  /\ Rollback(w, "pending")
  /\ UNCHANGED <<asks, faults>>

\* A serialization failure or deadlock inside _run: a job goes back to the
\* queue, a request is run again by the server.
ConcurrencyError(w) ==
  /\ tx[w].pc = "ran"
  /\ faults < MaxFaults
  /\ faults' = faults + 1
  /\ \/ Rollback(w, "pending")
     \/ /\ tx[w].op = "manual"
        /\ tx' = [tx EXCEPT ![w] = Snapshot("manual", tx[w].att, NoJob, "keep")]
        /\ rowLock' = [rowLock EXCEPT ![tx[w].att] = NoWorker]
        /\ UNCHANGED <<state, effects, requests, job>>
  /\ UNCHANGED asks

\* The plain UPDATE of a user operation waits for the lock.
Write(w) ==
  /\ tx[w].pc = "begin"
  /\ tx[w].op \notin Processing
  /\ MayLock(w)
  /\ rowLock' = [rowLock EXCEPT ![tx[w].att] = w]
  /\ tx' = [tx EXCEPT ![w].pc = "commit"]
  /\ UNCHANGED <<state, effects, requests, job, asks, faults>>

\* ... and fails when the row was updated since the snapshot: the server
\* runs the request again on a new snapshot, or gives up.
WriteConflict(w) ==
  /\ tx[w].pc = "begin"
  /\ tx[w].op \notin Processing
  /\ tx[w].stale
  /\ rowLock[tx[w].att] = NoWorker
  /\ \/ /\ tx' = [tx EXCEPT ![w] =
                    Snapshot(tx[w].op, tx[w].att, tx[w].job, tx[w].new)]
        /\ UNCHANGED <<state, effects, requests, job, rowLock>>
     \/ Rollback(w, "pending")
  /\ UNCHANGED <<asks, faults>>

\* The writes of w become visible, its lock is released, and the snapshots
\* others hold of the row it updated are stale.
Publish(w, next) ==
  LET a == tx[w].att
      wrote == tx[w].new # "keep"
  IN  /\ state' = IF wrote THEN [state EXCEPT ![a] = tx[w].new] ELSE state
      /\ effects' = IF tx[w].eff THEN [effects EXCEPT ![a] = @ + 1] ELSE effects
      /\ rowLock' = [rowLock EXCEPT ![a] = NoWorker]
      /\ tx' = [v \in Worker |->
                  IF v = w THEN next
                  ELSE IF wrote /\ tx[v].pc = "begin" /\ tx[v].att = a
                       THEN [tx[v] EXCEPT !.stale = TRUE]
                       ELSE tx[v]]
      /\ UNCHANGED <<asks, faults>>

CommitJob(w) ==
  /\ tx[w].pc = "commit"
  /\ tx[w].op = "job"
  /\ Publish(w, Idle)
  /\ SetJob(tx[w].job, "done")
  /\ UNCHANGED requests

CommitReschedule(w) ==
  /\ tx[w].pc = "commit"
  /\ tx[w].op = "reschedule"
  /\ Publish(w, Idle)
  /\ ScheduleJob(tx[w].job, tx[w].att)
  /\ requests' = [requests EXCEPT ![tx[w].att] = @ + 1]

CommitRequest(w) ==
  /\ tx[w].pc = "commit"
  /\ tx[w].op \in {"manual", "set_done", "statusbar"}
  /\ Publish(w, Idle)
  /\ requests' = IF tx[w].op = "statusbar" /\ tx[w].new # "done"
                 THEN [requests EXCEPT ![tx[w].att] = @ + 1] ELSE requests
  /\ UNCHANGED job

\* self.env.cr.commit() before the RetryableJobError is raised again.
CommitFailure(w) ==
  /\ tx[w].pc = "commitAndRaise"
  /\ Publish(w, [Idle EXCEPT !.pc = "raised", !.op = "job",
                             !.att = tx[w].att, !.job = tx[w].job])
  /\ UNCHANGED <<requests, job>>

\* The job sees the RetryableJobError: again later, until max_retries.
RetryJob(w) ==
  /\ tx[w].pc = "raised"
  /\ LET j == tx[w].job
         tries == job[j].retry + 1
     IN  job' = [job EXCEPT ![j].retry = tries,
                            ![j].st = IF tries < MaxRetries THEN "pending"
                                                            ELSE "failed"]
  /\ tx' = [tx EXCEPT ![w] = Idle]
  /\ UNCHANGED <<state, effects, requests, rowLock, asks, faults>>

\* The process dies: its transaction is rolled back, its job stays "started".
Crash(w) ==
  /\ tx[w].pc # "idle"
  /\ faults < MaxFaults
  /\ faults' = faults + 1
  /\ Rollback(w, "started")
  /\ UNCHANGED asks

-----------------------------------------------------------------------------
Step(w) == \/ LockNowait(w) \/ Busy(w) \/ SkipDone(w)
           \/ RunBody(w) \/ RunOk(w) \/ RunFails(w) \/ RunRetryable(w)
           \/ FailureMailRaises(w) \/ ManualRunFails(w)
           \/ Write(w) \/ WriteConflict(w)
           \/ CommitJob(w) \/ CommitReschedule(w) \/ CommitRequest(w)
           \/ CommitFailure(w) \/ RetryJob(w)

Request(w, a) == \/ button_manual_run(w, a)
                 \/ \E j \in Job: button_reschedule(w, a, j)
                 \/ set_done(w, a)
                 \/ \E s \in States: click_statusbar(w, a, s)

Next == \/ \E a \in Attachment, j \in Job: Create(a, j)
        \/ \E w \in Session, a \in Attachment: Request(w, a)
        \/ \E w \in Runner, j \in Job: StartJob(w, j)
        \/ \E j \in Job: RequeueDeadJob(j)
        \/ \E w \in Worker: Step(w) \/ ConcurrencyError(w) \/ Crash(w)

Spec == Init /\ [][Next]_vars

\* The runner keeps starting and recovering jobs, a transaction that can take
\* a step takes one.  Nothing obliges users to act, or the system to fail.
Fairness == /\ \A w \in Worker: WF_vars(Step(w))
            /\ \A j \in Job: /\ WF_vars(\E w \in Runner: StartJob(w, j))
                             /\ WF_vars(RequeueDeadJob(j))

FairSpec == Spec /\ Fairness

-----------------------------------------------------------------------------
\* No two workers process the same attachment at once, whether they run a
\* job or serve the button (the FOR UPDATE NOWAIT of both).
ProcessingIsExclusive ==
  \A a \in Attachment: \A v, w \in Worker:
     Processes(v, a) /\ Processes(w, a) => v = w

\* "if self.state != 'done'" reads a snapshot that may be older than the
\* lock; whenever the decision is taken or acted upon it is still right.
DecisionIsFresh ==
  \A w \in Worker: \A a \in Attachment:
     Processes(w, a) => tx[w].snap = state[a]

\* "We would not want a pending attachment with no related pending job"
\* (comment in run_as_job).  A job a retry or a failure is about to be
\* recorded for does not count: it may be its last try.
PendingHasJob ==
  \A a \in Attachment: state[a] = "pending" => \E j \in Job: Serves(j, a)

\* The state, the requests and the committed effects of _run behave like the
\* log of ProcessingLog: processed at most once per request, only while open,
\* never with effects when it failed.
Log == INSTANCE ProcessingLog WITH status <- state, processed <- effects
RefinesLog == Log!Spec
OncePerRequest == Log!OncePerRequest

\* A pending attachment is eventually processed, failed or closed, in spite
\* of crashes, lock conflicts and retries.
PendingIsServed ==
  \A a \in Attachment: state[a] = "pending" ~> state[a] \in {"done", "failed"}

\* A job that was created ends: it is not retried forever.
JobsEnd ==
  \A j \in Job: Live(j) ~> job[j].st \in {"done", "failed"}
==============================================================================
