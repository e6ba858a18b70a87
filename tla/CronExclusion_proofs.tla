------------------------ MODULE CronExclusion_proofs ------------------------
(* Mutual exclusion of base_cron_exclusion and the release of its locks,   *)
(* for any jobs, exclusions, workers and users.                            *)
EXTENDS CronExclusion, TLAPS

\* From Acquire on, a worker holds the row of its job, which stays active.
OwnRow ==
  \A w \in Worker:
     cr[w].pc \in {"acquired", "locking", "failed", "running"} =>
        /\ cr[w].job \in CronJob
        /\ rowLock[cr[w].job] = w
        /\ cr[w].job \in active

OwnManual ==
  \A s \in Session: manual[s] # NoJob => rowLock[manual[s]] = s

\* Whichever of two workers with exclusive jobs selects its rows last finds
\* the other's job among them, and cannot lock it.
Pairing ==
  /\ \A w \in Worker: cr[w].pc = "running" => cr[w].want = {}
  /\ \A v, w \in Worker:
        /\ v # w
        /\ cr[v].pc \in {"locking", "running"}
        /\ cr[w].pc \in {"locking", "running"}
        /\ Exclusive(cr[v].job, cr[w].job)
        => cr[w].job \in cr[v].want \/ cr[v].job \in cr[w].want

CronInd == TypeOK /\ OwnRow /\ OwnManual /\ Pairing

LEMMA IdleWork == Idle \in Work /\ Idle.pc = "idle"
BY DEF Idle, Work, Pc

LEMMA CronInit == Init => CronInd
<1> SUFFICES ASSUME Init PROVE CronInd
  OBVIOUS
<1>1. \A w \in Worker: cr[w] = Idle
  BY DEF Init
<1>2. TypeOK
  BY CronParameters, IdleWork DEF Init, TypeOK
<1>3. OwnRow /\ OwnManual /\ Pairing
  BY <1>1, IdleWork DEF Init, OwnRow, OwnManual, Pairing
<1> QED BY <1>2, <1>3 DEF CronInd

\* Marking rows as changed touches nothing else of the other workers.
LEMMA ChangedFields ==
  ASSUME TypeOK, NEW v \in Worker, NEW S
  PROVE  LET t == [cr[v] EXCEPT !.changed = S]
         IN  /\ t.pc = cr[v].pc /\ t.job = cr[v].job /\ t.want = cr[v].want
             /\ t.ready = cr[v].ready
             /\ S \in SUBSET CronJob => t \in Work
BY DEF TypeOK, Work

LEMMA WorkType ==
  ASSUME TypeOK, NEW w \in Worker, NEW t \in Work, cr' = [cr EXCEPT ![w] = t]
  PROVE  cr' \in [Worker -> Work]
BY DEF TypeOK

LEMMA CronWorkerStep ==
  ASSUME CronInd, NEW w \in Worker, WorkerStep(w) \/ Crash(w)
  PROVE  CronInd'
<1> USE CronParameters DEF CronInd
<1>1. CASE GetReadyJobs(w) \/ EndRound(w) \/ \E j \in CronJob: Skip(w, j)
  <2>1. PICK t \in Work: cr' = [cr EXCEPT ![w] = t] /\ t.pc \in {"idle", "loop"}
    <3>1. CASE GetReadyJobs(w)
      <4>1. [Idle EXCEPT !.pc = "loop", !.ready = due \intersect active] \in Work
        BY DEF TypeOK, Idle, Work, Pc
      <4> QED BY <3>1, <4>1 DEF GetReadyJobs, Idle
    <3>2. CASE EndRound(w)
      BY <3>2, IdleWork DEF EndRound
    <3>3. ASSUME NEW j \in CronJob, Skip(w, j)
          PROVE  \E t \in Work: cr' = [cr EXCEPT ![w] = t] /\ t.pc \in {"idle", "loop"}
      <4>1. [cr[w] EXCEPT !.ready = @ \ {j}] \in Work
        BY DEF TypeOK, Work
      <4>2. [cr[w] EXCEPT !.ready = @ \ {j}].pc = "loop"
        BY <3>3 DEF Skip, TypeOK, Work
      <4> QED BY <3>3, <4>1, <4>2 DEF Skip, TypeOK
    <3> QED BY <1>1, <3>1, <3>2, <3>3
  <2>2. UNCHANGED <<active, due, rowLock, manual, asked, ticks>>
    BY <1>1 DEF GetReadyJobs, EndRound, Skip
  <2>3. TypeOK'
    BY <2>1, <2>2, WorkType DEF TypeOK
  <2>4. OwnRow' /\ OwnManual'
    BY <2>1, <2>2 DEF TypeOK, OwnRow, OwnManual
  <2>5. Pairing'
    BY <2>1 DEF TypeOK, Pairing, Exclusive
  <2> QED BY <2>3, <2>4, <2>5
<1>2. ASSUME NEW j \in CronJob, Acquire(w, j) PROVE CronInd'
  <2>1. TypeOK'
    BY <1>2 DEF Acquire, TypeOK, Pc, Work
  <2>2. OwnRow' /\ OwnManual'
    BY <1>2 DEF Acquire, TypeOK, OwnRow, OwnManual
  <2>3. Pairing'
    BY <1>2 DEF Acquire, TypeOK, Pairing, Exclusive
  <2> QED BY <2>1, <2>2, <2>3
<1>3. CASE SelectExclusive(w)
  <2> DEFINE t == [cr[w] EXCEPT !.pc = "locking", !.changed = {},
                                !.want = LockedIds(cr[w].job) \intersect active]
  <2>1. t \in Work
    <3>1. cr[w] \in Work
      BY DEF TypeOK
    <3>2. LockedIds(cr[w].job) \intersect active \in SUBSET CronJob
      BY DEF LockedIds
    <3> QED BY <3>1, <3>2 DEF Work, Pc
  <2>2. /\ cr' = [cr EXCEPT ![w] = t] /\ t.pc = "locking" /\ t.job = cr[w].job
        /\ t.want = LockedIds(cr[w].job) \intersect active
        /\ UNCHANGED <<active, due, rowLock, manual, asked, ticks>>
    <3>1. cr[w] \in Work
      BY DEF TypeOK
    <3>2. cr' = [cr EXCEPT ![w] = t]
      BY <1>3 DEF SelectExclusive, TypeOK
    <3>3. /\ t.pc = "locking" /\ t.job = cr[w].job
          /\ t.want = LockedIds(cr[w].job) \intersect active
      BY <3>1 DEF Work
    <3> QED BY <1>3, <3>2, <3>3 DEF SelectExclusive
  <2>3. TypeOK'
    BY <2>1, <2>2, WorkType DEF TypeOK
  <2>4. OwnRow' /\ OwnManual'
    BY <1>3, <2>2 DEF SelectExclusive, TypeOK, OwnRow, OwnManual
  <2>5. ASSUME NEW v \in Worker \ {w}, cr[v].pc \in {"locking", "running"},
               Exclusive(cr[v].job, cr[w].job) \/ Exclusive(cr[w].job, cr[v].job)
        PROVE  cr[v].job \in t.want
    BY <2>2, <2>5 DEF OwnRow, LockedIds, Exclusive
  <2>6. Pairing'
    BY <2>2, <2>5 DEF TypeOK, Pairing
  <2> QED BY <2>3, <2>4, <2>6
<1>4. ASSUME NEW k \in CronJob, LockRow(w, k) PROVE CronInd'
  <2>1. TypeOK'
    BY <1>4 DEF LockRow, TypeOK, Pc, Work
  <2>2. OwnRow' /\ OwnManual'
    BY <1>4 DEF LockRow, TypeOK, OwnRow, OwnManual
  <2>3. \A v \in Worker: cr[v].pc \in {"locking", "running"} => cr[v].job # k
    BY <1>4 DEF LockRow, OwnRow
  <2>4. Pairing'
    BY <1>4, <2>3 DEF LockRow, TypeOK, Pairing, Exclusive
  <2> QED BY <2>1, <2>2, <2>4
<1>5. ASSUME NEW k \in CronJob, LockFails(w, k) PROVE CronInd'
  <2>1. TypeOK'
    BY <1>5 DEF LockFails, TypeOK, Pc, Work
  <2>2. OwnRow' /\ OwnManual'
    BY <1>5 DEF LockFails, TypeOK, OwnRow, OwnManual
  <2>3. Pairing'
    BY <1>5 DEF LockFails, TypeOK, Pairing, Exclusive
  <2> QED BY <2>1, <2>2, <2>3
<1>6. CASE Abort(w) \/ Crash(w)
  <2>1. TypeOK'
    BY <1>6 DEF Abort, Crash, TypeOK, Pc, Work, Idle, OwnRow
  <2>2. OwnRow' /\ OwnManual'
    BY <1>6 DEF Abort, Crash, TypeOK, OwnRow, OwnManual, Idle
  <2>3. Pairing'
    BY <1>6 DEF Abort, Crash, TypeOK, Pairing, Exclusive, Idle
  <2> QED BY <2>1, <2>2, <2>3
<1>7. CASE RunJob(w)
  <2>1. TypeOK'
    BY <1>7 DEF RunJob, TypeOK, Pc, Work
  <2>2. OwnRow' /\ OwnManual'
    BY <1>7 DEF RunJob, TypeOK, OwnRow, OwnManual
  <2>3. Pairing'
    BY <1>7 DEF RunJob, TypeOK, Pairing, Exclusive
  <2> QED BY <2>1, <2>2, <2>3
<1>8. CASE FinishJob(w)
  <2> DEFINE j == cr[w].job
  <2>1. j \in CronJob /\ rowLock[j] = w
    BY <1>8 DEF FinishJob, OwnRow
  <2>2. \A v \in Worker \ {w}: /\ cr'[v].pc = cr[v].pc
                               /\ cr'[v].job = cr[v].job
                               /\ cr'[v].want = cr[v].want
    BY <1>8, ChangedFields DEF FinishJob, Changed
  <2>3. cr'[w].pc = "closing" /\ cr' \in [Worker -> Work]
    <3>1. \A v \in Worker: cr[v].changed \union {j} \in SUBSET CronJob
      BY <2>1 DEF TypeOK, Work
    <3>2. cr[w] \in Work
      BY DEF TypeOK
    <3>3. [cr[w] EXCEPT !.pc = "closing"] \in Work /\ [cr[w] EXCEPT !.pc = "closing"].pc = "closing"
      BY <3>2 DEF Pc, Work
    <3> QED BY <1>8, <3>1, <3>3, ChangedFields DEF FinishJob, Changed, TypeOK
  <2>4. TypeOK'
    BY <1>8, <2>1, <2>3 DEF FinishJob, TypeOK
  <2>5. OwnRow' /\ OwnManual'
    BY <1>8, <2>1, <2>2, <2>3 DEF FinishJob, TypeOK, OwnRow, OwnManual
  <2>6. Pairing'
    BY <2>2, <2>3 DEF Pairing, Exclusive
  <2> QED BY <2>4, <2>5, <2>6
<1>9. CASE CloseLocks(w)
  <2> DEFINE t == [cr[w] EXCEPT !.pc = "loop", !.job = NoJob]
  <2>1. t \in Work /\ t.pc = "loop" /\ cr' = [cr EXCEPT ![w] = t]
    <3>1. cr[w] \in Work
      BY DEF TypeOK
    <3>2. t \in Work /\ t.pc = "loop"
      BY <3>1 DEF Work, Pc
    <3> QED BY <1>9, <3>2 DEF CloseLocks, TypeOK
  <2>2. TypeOK'
    BY <1>9, <2>1, WorkType DEF CloseLocks, TypeOK
  <2>3. OwnRow' /\ OwnManual'
    BY <1>9, <2>1 DEF CloseLocks, TypeOK, OwnRow, OwnManual
  <2>4. Pairing'
    BY <2>1 DEF TypeOK, Pairing, Exclusive
  <2> QED BY <2>2, <2>3, <2>4
<1> QED BY <1>1, <1>2, <1>3, <1>4, <1>5, <1>6, <1>7, <1>8, <1>9 DEF WorkerStep

\* What users and the clock do leaves the workers' jobs and rows alone.
LEMMA CronOtherStep ==
  ASSUME CronInd, \/ \E j \in CronJob: Tick(j) \/ ToggleActive(j)
                  \/ \E s \in Session: SessionStep(s)
  PROVE  CronInd'
<1> USE CronParameters DEF CronInd
<1>1. ASSUME NEW j \in CronJob, Tick(j) PROVE CronInd'
  BY <1>1 DEF Tick, TypeOK, OwnRow, OwnManual, Pairing
<1>2. ASSUME NEW j \in CronJob,
             cr' = [v \in Worker |-> IF cr[v].pc = "locking"
                                     THEN [cr[v] EXCEPT !.changed = @ \union {j}]
                                     ELSE cr[v]]
      PROVE  /\ \A v \in Worker: /\ cr'[v].pc = cr[v].pc
                                 /\ cr'[v].job = cr[v].job
                                 /\ cr'[v].want = cr[v].want
             /\ cr' \in [Worker -> Work]
             /\ Pairing'
  <2>1. \A v \in Worker: cr[v].changed \union {j} \in SUBSET CronJob
    BY DEF TypeOK, Work
  <2>2. /\ \A v \in Worker: /\ cr'[v].pc = cr[v].pc
                            /\ cr'[v].job = cr[v].job
                            /\ cr'[v].want = cr[v].want
        /\ cr' \in [Worker -> Work]
    BY <1>2, <2>1, ChangedFields DEF TypeOK
  <2> QED BY <2>2 DEF Pairing, Exclusive
<1>3. ASSUME NEW j \in CronJob, ToggleActive(j) PROVE CronInd'
  <2>1. /\ cr' \in [Worker -> Work] /\ Pairing'
        /\ \A v \in Worker: cr'[v].pc = cr[v].pc /\ cr'[v].job = cr[v].job
    BY <1>2, <1>3 DEF ToggleActive
  <2>2. TypeOK'
    BY <1>3, <2>1 DEF ToggleActive, TypeOK
  <2>3. OwnRow' /\ OwnManual'
    BY <1>3, <2>1 DEF ToggleActive, TypeOK, OwnRow, OwnManual
  <2> QED BY <2>1, <2>2, <2>3
<1>4. ASSUME NEW s \in Session, NEW j \in CronJob, method_direct_trigger(s, j)
      PROVE  CronInd'
  BY <1>4 DEF method_direct_trigger, TypeOK, OwnRow, OwnManual, Pairing
<1>5. ASSUME NEW s \in Session, EndManualRun(s) PROVE CronInd'
  <2>1. manual[s] \in CronJob /\ rowLock[manual[s]] = s
    BY <1>5 DEF EndManualRun, TypeOK, OwnManual
  <2>2. Pairing' /\ TypeOK'
    BY <1>2, <1>5, <2>1 DEF EndManualRun, TypeOK
  <2>3. OwnRow' /\ OwnManual'
    BY <1>2, <1>5, <2>1 DEF EndManualRun, TypeOK, OwnRow, OwnManual
  <2> QED BY <2>2, <2>3
<1> QED BY <1>1, <1>3, <1>4, <1>5 DEF SessionStep

LEMMA CronNext == CronInd /\ [Next]_vars => CronInd'
<1> SUFFICES ASSUME CronInd, [Next]_vars PROVE CronInd'
  OBVIOUS
<1>1. CASE UNCHANGED vars
  BY <1>1 DEF vars, CronInd, TypeOK, OwnRow, OwnManual, Pairing
<1>2. CASE Next
  BY <1>2, CronWorkerStep, CronOtherStep DEF Next
<1> QED BY <1>1, <1>2

\* The variables of base_cron_exclusion keep their types.
THEOREM CronTypeCorrect == Spec => []TypeOK
<1>1. CronInd => TypeOK
  BY DEF CronInd
<1> QED BY <1>1, CronInit, CronNext, PTL DEF Spec

\* Two workers never run exclusive jobs at the same time, for any relation
\* entered from either side and any activation of jobs meanwhile
\* (_lock_mutually_exclusive_cron around _process_job).
THEOREM CronMutualExclusion == Spec => []ExclusiveJobsApart
<1>1. CronInd => ExclusiveJobsApart
  <2> SUFFICES ASSUME CronInd, NEW v \in Worker, NEW w \in Worker, v # w,
                      NEW j \in CronJob, NEW k \in CronJob, Runs(v, j), Runs(w, k)
               PROVE  j # k /\ ~Exclusive(j, k)
    BY DEF ExclusiveJobsApart
  <2>1. j # k
    BY DEF CronInd, OwnRow, Runs
  <2>2. ~Exclusive(j, k)
    BY DEF CronInd, Pairing, Runs
  <2> QED BY <2>1, <2>2
<1> QED BY <1>1, CronInit, CronNext, PTL DEF Spec

-----------------------------------------------------------------------------
(* Locks that are left.                                                    *)

\* A worker between two jobs holds no row, one whose lock statement failed only
\* that of its job, and a user that of the job it runs.
Held ==
  \A j \in CronJob:
     /\ \A w \in Worker: rowLock[j] = w => /\ cr[w].pc \notin {"idle", "loop"}
                                           /\ cr[w].pc = "failed" => cr[w].job = j
     /\ \A s \in Session: rowLock[j] = s => manual[s] = j

LEMMA HeldNext == CronInd /\ Held /\ [Next]_vars => Held'
<1> SUFFICES ASSUME CronInd, Held, [Next]_vars PROVE Held'
  OBVIOUS
<1> USE CronParameters
<1>0. TypeOK
  BY DEF CronInd
<1>1. CASE UNCHANGED vars
  BY <1>1 DEF vars, Held
<1>2. ASSUME NEW w \in Worker, GetReadyJobs(w) \/ EndRound(w) \/ \E j \in CronJob: Skip(w, j)
      PROVE  Held'
  <2>1. \A j \in CronJob: rowLock[j] # w
    BY <1>2 DEF GetReadyJobs, EndRound, Skip, Held
  <2>2. rowLock' = rowLock /\ manual' = manual
    BY <1>2 DEF GetReadyJobs, EndRound, Skip
  <2>3. \A v \in Worker \ {w}: cr'[v] = cr[v]
    BY <1>2, <1>0 DEF GetReadyJobs, EndRound, Skip, TypeOK
  <2> QED BY <2>1, <2>2, <2>3 DEF Held
<1>3. ASSUME NEW w \in Worker, NEW k \in CronJob, Acquire(w, k) \/ LockRow(w, k)
      PROVE  Held'
  <2>1. /\ cr'[w].pc \in {"acquired", "locking"} /\ manual' = manual
        /\ \A j \in CronJob: rowLock'[j] = w \/ rowLock'[j] = rowLock[j]
        /\ \A v \in Worker \ {w}: cr'[v] = cr[v]
    BY <1>3, <1>0 DEF Acquire, LockRow, TypeOK, Work
  <2> QED BY <2>1 DEF Held
<1>4. ASSUME NEW w \in Worker, SelectExclusive(w) \/ RunJob(w) PROVE Held'
  <2>1. /\ cr'[w].pc \in {"locking", "running"} /\ manual' = manual /\ rowLock' = rowLock
        /\ \A v \in Worker \ {w}: cr'[v] = cr[v]
    BY <1>4, <1>0 DEF SelectExclusive, RunJob, TypeOK, Work
  <2> QED BY <2>1 DEF Held
<1>5. ASSUME NEW w \in Worker, NEW k \in CronJob, LockFails(w, k) PROVE Held'
  <2>1. /\ cr'[w].pc = "failed" /\ cr'[w].job = cr[w].job /\ manual' = manual
        /\ \A j \in CronJob: \/ rowLock'[j] = rowLock[j] /\ (rowLock[j] = w => j = cr[w].job)
                             \/ rowLock'[j] = NoOne
        /\ \A v \in Worker \ {w}: cr'[v] = cr[v]
    BY <1>5, <1>0 DEF LockFails, TypeOK, Work
  <2> QED BY <2>1 DEF Held
<1>6. ASSUME NEW w \in Worker, Abort(w) \/ Crash(w) \/ CloseLocks(w) PROVE Held'
  <2>1. /\ manual' = manual
        /\ \A j \in CronJob: \/ rowLock'[j] = rowLock[j] /\ rowLock[j] # w
                             \/ rowLock'[j] = NoOne
        /\ \A v \in Worker \ {w}: cr'[v] = cr[v]
    BY <1>6, <1>0 DEF Abort, Crash, CloseLocks, TypeOK, Held
  <2> QED BY <2>1 DEF Held
<1>7. ASSUME NEW w \in Worker, FinishJob(w) PROVE Held'
  <2>1. /\ cr'[w].pc = "closing" /\ manual' = manual
        /\ \A j \in CronJob: rowLock'[j] = rowLock[j] \/ rowLock'[j] = NoOne
    BY <1>7, <1>0 DEF FinishJob, Changed, TypeOK, Work
  <2>2. \A v \in Worker \ {w}: cr'[v].pc = cr[v].pc /\ cr'[v].job = cr[v].job
    BY <1>7, <1>0, ChangedFields DEF FinishJob, Changed
  <2> QED BY <2>1, <2>2 DEF Held
<1>8. ASSUME NEW k,
             cr' = [v \in Worker |-> IF cr[v].pc = "locking"
                                     THEN [cr[v] EXCEPT !.changed = @ \union {k}]
                                     ELSE cr[v]]
      PROVE  \A v \in Worker: cr'[v].pc = cr[v].pc /\ cr'[v].job = cr[v].job
  BY <1>8, <1>0, ChangedFields
<1>9. ASSUME NEW j \in CronJob, Tick(j) \/ ToggleActive(j) PROVE Held'
  <2>1. \A v \in Worker: cr'[v].pc = cr[v].pc /\ cr'[v].job = cr[v].job
    BY <1>8, <1>9 DEF Tick, ToggleActive
  <2> QED BY <1>9, <2>1 DEF Tick, ToggleActive, Held
<1>10. ASSUME NEW s \in Session, NEW k \in CronJob, method_direct_trigger(s, k) PROVE Held'
  <2>1. /\ cr' = cr /\ manual'[s] = k /\ manual[s] = NoJob
        /\ \A j \in CronJob: rowLock'[j] = rowLock[j] \/ (j = k /\ rowLock'[j] = s)
        /\ \A r \in Session \ {s}: manual'[r] = manual[r]
    BY <1>10, <1>0 DEF method_direct_trigger, TypeOK
  <2> QED BY <2>1 DEF Held
<1>11. ASSUME NEW s \in Session, EndManualRun(s) PROVE Held'
  <2>1. \A v \in Worker: cr'[v].pc = cr[v].pc /\ cr'[v].job = cr[v].job
    BY <1>8, <1>11 DEF EndManualRun
  <2>2. /\ \A j \in CronJob: \/ rowLock'[j] = rowLock[j] /\ j # manual[s]
                             \/ rowLock'[j] = NoOne
        /\ \A r \in Session \ {s}: manual'[r] = manual[r]
    BY <1>11, <1>0 DEF EndManualRun, TypeOK
  <2> QED BY <2>1, <2>2 DEF Held
<1> QED BY <1>1, <1>2, <1>3, <1>4, <1>5, <1>6, <1>7, <1>9, <1>10, <1>11
        DEF Next, WorkerStep, SessionStep

\* Whatever fails or dies, a worker that is not at a job and a user who runs
\* none hold no row of ir_cron (_process_job, finally).
THEOREM CronLocksReleased == Spec => []NothingLeftLocked
<1>1. Init => Held
  BY CronParameters DEF Init, Held
<1>2. ASSUME CronInd, Held PROVE NothingLeftLocked
  <2> SUFFICES ASSUME NEW j \in CronJob, rowLock[j] # NoOne
               PROVE  \/ rowLock[j] \in Worker /\ cr[rowLock[j]].pc \notin {"idle", "loop"}
                      \/ rowLock[j] \in Session /\ manual[rowLock[j]] = j
    BY DEF NothingLeftLocked
  <2>1. rowLock[j] \in Worker \/ rowLock[j] \in Session
    BY <1>2 DEF CronInd, TypeOK
  <2> QED BY <1>2, <2>1 DEF Held
<1> QED BY <1>1, <1>2, CronInit, CronNext, HeldNext, PTL DEF Spec
==============================================================================
