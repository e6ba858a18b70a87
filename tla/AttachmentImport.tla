--------------------------- MODULE AttachmentImport ---------------------------
(***************************************************************************)
(* The import tasks of attachment_synchronize: files of a remote folder    *)
(* become attachment.queue records, one database commit per file, and the  *)
(* file is then deleted, moved or renamed on the remote, which no rollback *)
(* undoes.  The scheduler and users' clicks may import at the same time.   *)
(*                                                                         *)
(* A version is one upload of a file: partners may put a new file under a  *)
(* name that was imported and removed.                                     *)
(***************************************************************************)
EXTENDS Naturals, FiniteSets

CONSTANTS Task, Name,
          Cron,        \* processes that run run_task_import_scheduler
          Session,     \* processes that run the button of a task
          Deployment,  \* the tasks, their configuration, and who runs them
          MaxUploads,  \* bound: versions of a file
          MaxRuns,     \* bound: imports that are started
          MaxFaults,   \* bound: crashes and errors of the remote
          None

Proc == Cron \union Session
Version == 1..MaxUploads

\* "none" when the field is empty.
AfterImport == {"none", "delete", "move", "rename", "move_rename"}

Config == [after_import: AfterImport, avoid_duplicated_files: BOOLEAN]

ASSUME ImportParameters ==
  /\ Cron \intersect Session = {}
  /\ None \notin Task \union Name
  /\ \A d \in Deployment: /\ d.procs \subseteq Proc
                          /\ d.uploads \in 0..MaxUploads
                          /\ DOMAIN d.config \subseteq Task
                          /\ \A t \in DOMAIN d.config: d.config[t] \in Config
  /\ MaxUploads \in Nat
  /\ MaxRuns \in Nat
  /\ MaxFaults \in Nat

VARIABLES deploy,  \* the deployment, never changed
          inbox,   \* the version in the folder of a task, 0 when there is none
          uploads, \* versions uploaded so far
          rows,    \* committed attachment.queue records, per task, name, version
          proc,    \* what each process is doing
          runs, faults,
          interrupted  \* history: the versions at hand when a failure came
                       \* after the change of the remote

Tasks == DOMAIN deploy.config

vars == <<deploy, inbox, uploads, rows, proc, runs, faults, interrupted>>

Idle == [pc |-> "idle", tasks |-> {}, task |-> None, snap |-> {}, todo |-> {},
         file |-> None, ver |-> 0]

Pc == {"idle", "task", "list", "files", "created", "commit", "raised"}

TypeOK ==
  /\ deploy \in Deployment
  /\ inbox \in [Task -> [Name -> 0..MaxUploads]]
  /\ uploads \in [Task -> [Name -> 0..MaxUploads]]
  /\ rows \in [Task -> [Name -> [Version -> Nat]]]
  /\ proc \in [Proc -> [pc: Pc, tasks: SUBSET Task, task: Task \union {None},
                        snap: SUBSET Name, todo: SUBSET Name,
                        file: Name \union {None}, ver: 0..MaxUploads]]
  /\ runs \in 0..MaxRuns
  /\ faults \in 0..MaxFaults
  /\ interrupted \subseteq Task \X Name \X Version

Init == /\ deploy \in Deployment
        /\ inbox = [t \in Task |-> [n \in Name |-> 0]]
        /\ uploads = [t \in Task |-> [n \in Name |-> 0]]
        /\ rows = [t \in Task |-> [n \in Name |-> [v \in Version |-> 0]]]
        /\ proc = [p \in Proc |-> Idle]
        /\ runs = 0
        /\ faults = 0
        /\ interrupted = {}

KnownNames == {n \in Name: \E t \in Task, v \in Version: rows[t][n][v] > 0}

\* A partner puts a file where none of that name is.
Upload(t, n) ==
  /\ inbox[t][n] = 0
  /\ uploads[t][n] < deploy.uploads
  /\ uploads' = [uploads EXCEPT ![t][n] = @ + 1]
  /\ inbox' = [inbox EXCEPT ![t][n] = uploads[t][n] + 1]
  /\ UNCHANGED <<deploy, rows, proc, runs, faults, interrupted>>

\* One transaction serves the whole run: its snapshot of the records is taken
\* here, whatever other cursors commit later.
Start(p, tasks) ==
  /\ p \in deploy.procs
  /\ proc[p].pc = "idle"
  /\ runs < MaxRuns
  /\ runs' = runs + 1
  /\ proc' = [proc EXCEPT ![p] = [Idle EXCEPT !.pc = "task", !.tasks = tasks,
                                             !.snap = KnownNames]]
  /\ UNCHANGED <<deploy, inbox, uploads, rows, faults, interrupted>>

run_task_import_scheduler(p) == p \in Cron /\ Start(p, Tasks)
run(p, t) == p \in Session /\ Start(p, {t})

NextTask(p) ==
  /\ proc[p].pc = "task"
  /\ \E t \in proc[p].tasks:
        proc' = [proc EXCEPT ![p].pc = "list", ![p].task = t, ![p].tasks = @ \ {t}]
  /\ UNCHANGED <<deploy, inbox, uploads, rows, runs, faults, interrupted>>

EndRun(p) ==
  /\ proc[p].pc = "task"
  /\ proc[p].tasks = {}
  /\ proc' = [proc EXCEPT ![p] = Idle]
  /\ UNCHANGED <<deploy, inbox, uploads, rows, runs, faults, interrupted>>

Present(t) == {n \in Name: inbox[t][n] # 0}

\* Mutant: avoid_duplicated_files is ignored.
filter_duplicates_Off(p, names) == names

\* Mutant: the folder itself is listed with its files.
filter_duplicates_Folder(p, names) == names \union {None}

filter_duplicates(p, names) ==
  IF deploy.config[proc[p].task].avoid_duplicated_files THEN names \ proc[p].snap ELSE names

get_files(p) ==
  /\ proc[p].pc = "list"
  /\ proc' = [proc EXCEPT ![p].pc = "files",
                ![p].todo = filter_duplicates(p, Present(proc[p].task))]
  /\ UNCHANGED <<deploy, inbox, uploads, rows, runs, faults, interrupted>>

\* Mutant: the file is taken from the remote as it is read.
CreateRecord_Takes(p) ==
  /\ proc[p].pc = "files"
  /\ \E n \in proc[p].todo \intersect Present(proc[p].task):
        /\ proc' = [proc EXCEPT ![p].pc = "created", ![p].file = n,
                                ![p].ver = inbox[proc[p].task][n]]
        /\ inbox' = [inbox EXCEPT ![proc[p].task][n] = 0]
  /\ UNCHANGED <<deploy, uploads, rows, runs, faults, interrupted>>

\* The file is read and its record created, in a cursor of its own.
CreateRecord(p) ==
  /\ proc[p].pc = "files"
  /\ \E n \in proc[p].todo \intersect Present(proc[p].task):
        proc' = [proc EXCEPT ![p].pc = "created", ![p].file = n,
                             ![p].ver = inbox[proc[p].task][n]]
  /\ UNCHANGED <<deploy, inbox, uploads, rows, runs, faults, interrupted>>

after_import(p) == deploy.config[proc[p].task].after_import

ToCommit(p) == proc' = [proc EXCEPT ![p].pc = "commit"]

\* Mutant: an error of the remote is ignored once the record exists.
manage_file_after_import_Lenient(p) ==
  /\ proc[p].pc = "created"
  /\ ToCommit(p)
  /\ inbox' = [inbox EXCEPT ![proc[p].task][proc[p].file] = 0]
  /\ UNCHANGED <<deploy, uploads, rows, runs, faults, interrupted>>

\* The file leaves the folder (delete, move) or the names the pattern selects
\* (rename).  A new name that cannot be rendered is empty: nothing is done.
manage_file_after_import(p) ==
  /\ proc[p].pc = "created"
  /\ ToCommit(p)
  /\ \/ /\ after_import(p) # "none"
        /\ proc[p].file \in Present(proc[p].task)
        /\ inbox' = [inbox EXCEPT ![proc[p].task][proc[p].file] = 0]
     \/ /\ after_import(p) \in {"none", "rename", "move_rename"}
        /\ UNCHANGED inbox
  /\ UNCHANGED <<deploy, uploads, rows, runs, faults, interrupted>>

\* The cursor of the file commits when its block ends.
CommitFile(p) ==
  /\ proc[p].pc = "commit"
  /\ rows' = [rows EXCEPT ![proc[p].task][proc[p].file][proc[p].ver] = @ + 1]
  /\ proc' = [proc EXCEPT ![p].pc = "files", ![p].todo = @ \ {proc[p].file},
                          ![p].file = None, ![p].ver = 0]
  /\ UNCHANGED <<deploy, inbox, uploads, runs, faults, interrupted>>

EndTask(p) ==
  /\ proc[p].pc = "files"
  /\ proc[p].todo = {}
  /\ proc' = [proc EXCEPT ![p].pc = "task", ![p].task = None]
  /\ UNCHANGED <<deploy, inbox, uploads, rows, runs, faults, interrupted>>

\* An exception leaves run_import.
Raise(p) ==
  /\ proc' = [proc EXCEPT ![p].pc = "raised"]
  /\ UNCHANGED <<deploy, uploads, rows, runs>>

\* The file another process removed is missing: cat_file, move or rm raises.
FileMissing(p) ==
  /\ \/ /\ proc[p].pc = "files"
        /\ \E n \in proc[p].todo: n \notin Present(proc[p].task)
     \/ /\ proc[p].pc = "created"
        /\ after_import(p) # "none"
        /\ proc[p].file \notin Present(proc[p].task)
  /\ Raise(p)
  /\ UNCHANGED <<inbox, faults, interrupted>>

\* The remote refuses, or is not reached: exists, glob, cat_file, move or rm
\* raises and nothing is changed.
RemoteError(p) ==
  /\ proc[p].pc \in {"list", "files", "created"}
  /\ proc[p].pc = "created" => after_import(p) # "none"
  /\ faults < MaxFaults
  /\ faults' = faults + 1
  /\ Raise(p)
  /\ UNCHANGED <<inbox, interrupted>>

AtHand(p) == <<proc[p].task, proc[p].file, proc[p].ver>>

\* The remote moves or removes the file, but its answer is lost and the call
\* raises: the cursor rolls the record back, and the remote does not.
AnswerLost(p) ==
  /\ proc[p].pc = "created"
  /\ after_import(p) # "none"
  /\ proc[p].file \in Present(proc[p].task)
  /\ faults < MaxFaults
  /\ faults' = faults + 1
  /\ Raise(p)
  /\ inbox' = [inbox EXCEPT ![proc[p].task][proc[p].file] = 0]
  /\ interrupted' = interrupted \union {AtHand(p)}

\* The scheduler catches the exception to go on with the other tasks, but its
\* _logger.warning(..., name=..., err=...) is a TypeError, which leaves the
\* loop.  A user sees the exception.
HandleException(p) ==
  /\ proc[p].pc = "raised"
  /\ proc' = [proc EXCEPT ![p] = Idle]
  /\ UNCHANGED <<deploy, inbox, uploads, rows, runs, faults, interrupted>>

\* The file at hand has left its folder and its record is not committed.
Removed(p) == /\ proc[p].pc = "commit"
              /\ inbox[proc[p].task][proc[p].file] # proc[p].ver

Crash(p) ==
  /\ proc[p].pc \notin {"idle", "raised"}
  /\ faults < MaxFaults
  /\ faults' = faults + 1
  /\ interrupted' = IF Removed(p) THEN interrupted \union {AtHand(p)} ELSE interrupted
  /\ proc' = [proc EXCEPT ![p] = Idle]
  /\ UNCHANGED <<deploy, inbox, uploads, rows, runs>>

Step(p) == \/ NextTask(p) \/ EndRun(p) \/ get_files(p) \/ CreateRecord(p)
           \/ manage_file_after_import(p) \/ CommitFile(p) \/ EndTask(p)
           \/ FileMissing(p) \/ HandleException(p)

Next == \/ \E t \in Tasks, n \in Name: Upload(t, n)
        \/ \E p \in Proc: \/ run_task_import_scheduler(p)
                          \/ \E t \in Tasks: run(p, t)
                          \/ Step(p)
                          \/ RemoteError(p)
                          \/ AnswerLost(p)
                          \/ Crash(p)

Spec == Init /\ [][Next]_vars

-----------------------------------------------------------------------------
\* A version is in its folder, in a committed record, or in the hands of a
\* process that goes from the one to the other.
Kept(t, n, v) ==
  \/ inbox[t][n] = v
  \/ rows[t][n][v] > 0
  \/ \E p \in Proc: proc[p].pc = "commit" /\ AtHand(p) = <<t, n, v>>

\* "we need to commit after each file because it may be renamed, deleted moved
\* on remote and if it fails later, we would could lose the file forever"
\* (run_import): every version is kept, whatever fails.
NoFileLost ==
  \A t \in Task, n \in Name: \A v \in 1..uploads[t][n]: Kept(t, n, v)

\* What the commit of each file buys (run_import): a failure loses at most the
\* file at hand, and only when it comes after the remote was changed (a lost
\* answer, a process that dies before the commit).  The files imported before
\* in the run, the ones still to import, and those of other processes are kept.
OnlyInterruptedLost ==
  \A t \in Task, n \in Name: \A v \in 1..uploads[t][n]:
     Kept(t, n, v) \/ <<t, n, v>> \in interrupted

\* When importing removes the file, it is imported once, even by processes
\* that listed and read it together: the loser finds no file to remove.
ImportedOnce ==
  \A t \in Tasks: deploy.config[t].after_import \in {"delete", "move"} =>
     \A n \in Name, v \in Version: rows[t][n][v] <= 1

\* "a file will not be imported if an Attachment Queue with the same name
\* already exists" (help of avoid_duplicated_files).
NoDuplicateName ==
  [][\A t \in Tasks, n \in Name, v \in Version:
       deploy.config[t].avoid_duplicated_files /\ rows'[t][n][v] > rows[t][n][v]
         => n \notin KnownNames]_vars

\* "log exception and continue in order to no block all task from all remote
\* servers one is unavailable" (run_task_import_scheduler): a task that fails
\* does not end the scheduler while other tasks are left.
SchedulerContinues ==
  [][\A p \in Cron: proc[p].pc = "raised" /\ proc'[p].pc = "idle"
                      => proc[p].tasks = {}]_vars
==============================================================================
