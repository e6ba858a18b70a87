---------------------------- MODULE CronExclusion ----------------------------
(***************************************************************************)
(* base_cron_exclusion: scheduled actions that must not run together.      *)
(*                                                                         *)
(* A cron worker locks the row of the job it acquired on one cursor        *)
(* (cron_cr); the addon then locks, on a second cursor (lock_cr), the rows *)
(* of every active job the first one excludes, FOR UPDATE NOWAIT, and      *)
(* keeps them until the job ends.  The loop around _process_job, manual    *)
(* triggers and writes on a job are Odoo's.                                *)
(***************************************************************************)
EXTENDS Naturals

CONSTANTS CronJob,
          Worker,    \* cron workers
          Session,   \* users who trigger a job by hand
          Exclusion, \* rows of ir_cron_exclusion: pairs of jobs
          MaxDue,    \* bound: how often jobs become due
          MaxAsks,   \* bound: what users do
          NoJob, NoOne

ASSUME CronParameters ==
  /\ Exclusion \subseteq CronJob \X CronJob
  /\ NoJob \notin CronJob
  /\ NoOne \notin Worker \union Session
  /\ Worker \intersect Session = {}
  /\ MaxDue \in Nat
  /\ MaxAsks \in Nat

\* _check_auto_exclusion.
ASSUME NoAutoExclusion == \A j \in CronJob: <<j, j>> \notin Exclusion

VARIABLES active, due, \* the jobs that are active, and those whose time has come
          rowLock,     \* who holds the lock of a row of ir_cron
          cr,          \* what each cron worker is doing
          manual,      \* the job each user session runs, or NoJob
          asked, ticks \* how much of the bounds is used

vars == <<active, due, rowLock, cr, manual, asked, ticks>>

Idle == [pc |-> "idle", ready |-> {}, job |-> NoJob, want |-> {}, changed |-> {}]

Pc == {"idle", "loop", "acquired", "locking", "failed", "running", "closing"}

Work == [pc: Pc,
         ready: SUBSET CronJob,         \* jobs of this round left
         job: CronJob \union {NoJob},   \* the job acquired
         want: SUBSET CronJob,          \* rows still to lock
         changed: SUBSET CronJob]       \* rows updated since the snapshot

TypeOK ==
  /\ active \in SUBSET CronJob
  /\ due \in SUBSET CronJob
  /\ rowLock \in [CronJob -> Worker \union Session \union {NoOne}]
  /\ cr \in [Worker -> Work]
  /\ manual \in [Session -> CronJob \union {NoJob}]
  /\ asked \in 0..MaxAsks
  /\ ticks \in 0..MaxDue

Init == /\ active = CronJob
        /\ due = {}
        /\ rowLock = [j \in CronJob |-> NoOne]
        /\ cr = [w \in Worker |-> Idle]
        /\ manual = [s \in Session |-> NoJob]
        /\ asked = 0
        /\ ticks = 0

\* The jobs that exclude j or that j excludes.
Exclusive(j, k) == <<j, k>> \in Exclusion \/ <<k, j>> \in Exclusion

LockedIds(j) == {k \in CronJob: Exclusive(j, k)}

\* Rows updated in a commit are stale for the snapshot of every lock_cr.
Changed(j, w, t) ==
  cr' = [v \in Worker |->
           IF v = w THEN t
           ELSE IF cr[v].pc = "locking"
                THEN [cr[v] EXCEPT !.changed = @ \union {j}]
                ELSE cr[v]]

-----------------------------------------------------------------------------
(* Odoo's scheduler.                                                       *)

Tick(j) ==
  /\ ticks < MaxDue
  /\ j \notin due
  /\ ticks' = ticks + 1
  /\ due' = due \union {j}
  /\ UNCHANGED <<active, rowLock, cr, manual, asked>>

GetReadyJobs(w) ==
  /\ cr[w].pc = "idle"
  /\ due \intersect active # {}
  /\ cr' = [cr EXCEPT ![w] = [Idle EXCEPT !.pc = "loop",
                                          !.ready = due \intersect active]]
  /\ UNCHANGED <<active, due, rowLock, manual, asked, ticks>>

\* FOR NO KEY UPDATE SKIP LOCKED, while the job is still ready.
Acquire(w, j) ==
  /\ cr[w].pc = "loop"
  /\ j \in cr[w].ready \intersect due \intersect active
  /\ rowLock[j] = NoOne
  /\ rowLock' = [rowLock EXCEPT ![j] = w]
  /\ cr' = [cr EXCEPT ![w].pc = "acquired", ![w].job = j, ![w].ready = @ \ {j}]
  /\ UNCHANGED <<active, due, manual, asked, ticks>>

Skip(w, j) ==
  /\ cr[w].pc = "loop"
  /\ j \in cr[w].ready
  /\ rowLock[j] # NoOne \/ j \notin due \intersect active
  /\ cr' = [cr EXCEPT ![w].ready = @ \ {j}]
  /\ UNCHANGED <<active, due, rowLock, manual, asked, ticks>>

EndRound(w) ==
  /\ cr[w].pc = "loop"
  /\ cr[w].ready = {}
  /\ cr' = [cr EXCEPT ![w] = Idle]
  /\ UNCHANGED <<active, due, rowLock, manual, asked, ticks>>

-----------------------------------------------------------------------------
(* _lock_mutually_exclusive_cron.                                          *)

\* Mutant: an inactive job gives a row of NULLs (LEFT JOIN).
SelectExclusive_LeftJoin(w) ==
  /\ cr[w].pc = "acquired"
  /\ cr' = [cr EXCEPT ![w].pc = "locking",
                      ![w].want = {IF k \in active THEN k ELSE NoJob: k \in LockedIds(cr[w].job)},
                      ![w].changed = {}]
  /\ UNCHANGED <<active, due, rowLock, manual, asked, ticks>>

\* The snapshot of lock_cr: the rows to lock are the active ones it shows.
SelectExclusive(w) ==
  /\ cr[w].pc = "acquired"
  /\ cr' = [cr EXCEPT ![w].pc = "locking",
                      ![w].want = LockedIds(cr[w].job) \intersect active,
                      ![w].changed = {}]
  /\ UNCHANGED <<active, due, rowLock, manual, asked, ticks>>

\* Mutant: FOR UPDATE SKIP LOCKED.
LockRow_SkipLocked(w, k) ==
  /\ cr[w].pc = "locking"
  /\ k \in cr[w].want
  /\ rowLock' = [rowLock EXCEPT ![k] = IF @ = NoOne THEN w ELSE @]
  /\ cr' = [cr EXCEPT ![w].want = @ \ {k}]
  /\ UNCHANGED <<active, due, manual, asked, ticks>>

\* FOR UPDATE NOWAIT takes the rows one after the other.
LockRow(w, k) ==
  /\ cr[w].pc = "locking"
  /\ k \in cr[w].want
  /\ rowLock[k] = NoOne
  /\ k \notin cr[w].changed
  /\ rowLock' = [rowLock EXCEPT ![k] = w]
  /\ cr' = [cr EXCEPT ![w].want = @ \ {k}]
  /\ UNCHANGED <<active, due, manual, asked, ticks>>

\* A row is locked or was updated: the statement fails, which releases what
\* lock_cr had locked.
LockFails(w, k) ==
  /\ cr[w].pc = "locking"
  /\ k \in cr[w].want
  /\ rowLock[k] # NoOne \/ k \in cr[w].changed
  /\ rowLock' = [j \in CronJob |-> IF rowLock[j] = w /\ j # cr[w].job
                                   THEN NoOne ELSE rowLock[j]]
  /\ cr' = [cr EXCEPT ![w].pc = "failed"]
  /\ UNCHANGED <<active, due, manual, asked, ticks>>

\* Mutant: the handler forgets the lock on the job's own row.
Abort_KeepsRow(w) ==
  /\ cr[w].pc = "failed"
  /\ cr' = [cr EXCEPT ![w] = Idle]
  /\ UNCHANGED <<active, due, rowLock, manual, asked, ticks>>

\* The error leaves _process_job and the loop of the scheduler: cron_cr is
\* closed and the jobs of the round that are left wait for the next one.
Abort(w) ==
  /\ cr[w].pc = "failed"
  /\ rowLock' = [rowLock EXCEPT ![cr[w].job] = NoOne]
  /\ cr' = [cr EXCEPT ![w] = Idle]
  /\ UNCHANGED <<active, due, manual, asked, ticks>>

-----------------------------------------------------------------------------
(* super()._process_job between the lock and the close of lock_cr.         *)

RunJob(w) ==
  /\ cr[w].pc = "locking"
  /\ cr[w].want = {}
  /\ cr' = [cr EXCEPT ![w].pc = "running"]
  /\ UNCHANGED <<active, due, rowLock, manual, asked, ticks>>

\* The job is rescheduled and cron_cr committed ...
FinishJob(w) ==
  LET j == cr[w].job
  IN  /\ cr[w].pc = "running"
      /\ due' = due \ {j}
      /\ rowLock' = [rowLock EXCEPT ![j] = NoOne]
      /\ Changed(j, w, [cr[w] EXCEPT !.pc = "closing"])
      /\ UNCHANGED <<active, manual, asked, ticks>>

\* Mutant: lock_cr is not closed when the job has ended.
CloseLocks_Leak(w) ==
  /\ cr[w].pc = "closing"
  /\ cr' = [cr EXCEPT ![w].pc = "loop", ![w].job = NoJob]
  /\ UNCHANGED <<active, due, rowLock, manual, asked, ticks>>

\* ... before lock_cr is closed (finally).
CloseLocks(w) ==
  /\ cr[w].pc = "closing"
  /\ rowLock' = [k \in CronJob |-> IF rowLock[k] = w THEN NoOne ELSE rowLock[k]]
  /\ cr' = [cr EXCEPT ![w].pc = "loop", ![w].job = NoJob]
  /\ UNCHANGED <<active, due, manual, asked, ticks>>

\* The worker dies: both cursors are closed.
Crash(w) ==
  /\ cr[w].pc # "idle"
  /\ asked < MaxAsks
  /\ asked' = asked + 1
  /\ rowLock' = [k \in CronJob |-> IF rowLock[k] = w THEN NoOne ELSE rowLock[k]]
  /\ cr' = [cr EXCEPT ![w] = Idle]
  /\ UNCHANGED <<active, due, manual, ticks>>

-----------------------------------------------------------------------------
(* Users: a trigger and a write lock the row of the job, NOWAIT.           *)

method_direct_trigger(s, j) ==
  /\ manual[s] = NoJob
  /\ rowLock[j] = NoOne
  /\ asked < MaxAsks
  /\ asked' = asked + 1
  /\ rowLock' = [rowLock EXCEPT ![j] = s]
  /\ manual' = [manual EXCEPT ![s] = j]
  /\ UNCHANGED <<active, due, cr, ticks>>

EndManualRun(s) ==
  /\ manual[s] # NoJob
  /\ rowLock' = [rowLock EXCEPT ![manual[s]] = NoOne]
  /\ manual' = [manual EXCEPT ![s] = NoJob]
  /\ cr' = [v \in Worker |-> IF cr[v].pc = "locking"
                             THEN [cr[v] EXCEPT !.changed = @ \union {manual[s]}]
                             ELSE cr[v]]
  /\ UNCHANGED <<active, due, asked, ticks>>

ToggleActive(j) ==
  /\ rowLock[j] = NoOne
  /\ asked < MaxAsks
  /\ asked' = asked + 1
  /\ active' = IF j \in active THEN active \ {j} ELSE active \union {j}
  /\ cr' = [v \in Worker |-> IF cr[v].pc = "locking"
                             THEN [cr[v] EXCEPT !.changed = @ \union {j}]
                             ELSE cr[v]]
  /\ UNCHANGED <<due, rowLock, manual, ticks>>

-----------------------------------------------------------------------------
WorkerStep(w) ==
  \/ GetReadyJobs(w) \/ EndRound(w) \/ SelectExclusive(w) \/ RunJob(w)
  \/ FinishJob(w) \/ CloseLocks(w) \/ Abort(w)
  \/ \E j \in CronJob: Acquire(w, j) \/ Skip(w, j) \/ LockRow(w, j) \/ LockFails(w, j)

SessionStep(s) == EndManualRun(s) \/ \E j \in CronJob: method_direct_trigger(s, j)

Next == \/ \E j \in CronJob: Tick(j) \/ ToggleActive(j)
        \/ \E w \in Worker: WorkerStep(w) \/ Crash(w)
        \/ \E s \in Session: SessionStep(s)

Spec == Init /\ [][Next]_vars

FairSpec == /\ Spec
            /\ \A w \in Worker: WF_vars(WorkerStep(w))
            /\ \A s \in Session: WF_vars(EndManualRun(s))

-----------------------------------------------------------------------------
Runs(w, j) == cr[w].pc = "running" /\ cr[w].job = j

\* Two workers never run exclusive jobs at the same time, whichever of the two
\* the exclusion was entered on, and whatever is activated meanwhile.
ExclusiveJobsApart ==
  \A v, w \in Worker: \A j, k \in CronJob:
     Runs(v, j) /\ Runs(w, k) /\ v # w => j # k /\ ~Exclusive(j, k)

\* A worker that is idle, or between two jobs, and a user who runs nothing
\* hold no row: no failure or death leaves a job blocked.
NothingLeftLocked ==
  \A j \in CronJob: \/ rowLock[j] = NoOne
                    \/ rowLock[j] \in Worker /\ cr[rowLock[j]].pc \notin {"idle", "loop"}
                    \/ rowLock[j] \in Session /\ manual[rowLock[j]] = j

\* With one worker, an active job whose time has come is run, although a user
\* may hold the rows it needs and make the round fail.
DueJobsRun ==
  \A j \in CronJob: j \in due ~> (j \notin due \/ j \notin active)
==============================================================================
