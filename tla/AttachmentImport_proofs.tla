----------------------- MODULE AttachmentImport_proofs -----------------------
(***************************************************************************)
(* Proofs about AttachmentImport, for any tasks, files, processes and      *)
(* bounds, when a file is not replaced while several processes import.     *)
(* That no name is imported twice also assumes that one process imports    *)
(* for one task.                                                           *)
(*                                                                         *)
(* A file is then removed in the version that was read (ReadCurrent), so   *)
(* that each version is in one place at a time: its folder, the hands of   *)
(* one process, or the committed records.                                  *)
(***************************************************************************)
EXTENDS AttachmentImport, TLAPS

\* One process imports, or there is one version of each file.
OneReader == \A d \in Deployment: d.uploads <= 1 \/ \E p \in Proc: d.procs = {p}

Work == [pc: Pc, tasks: SUBSET Task, task: Task \union {None},
         snap: SUBSET Name, todo: SUBSET Name,
         file: Name \union {None}, ver: 0..MaxUploads]

OnlyDeployed == \A p \in Proc: p \notin deploy.procs => proc[p].pc = "idle"

Versions ==
  \A t \in Task, n \in Name: /\ inbox[t][n] <= uploads[t][n]
                             /\ uploads[t][n] <= deploy.uploads

\* What a process that imports a file knows of it.
Shape ==
  \A p \in Proc:
     /\ proc[p].tasks \subseteq Tasks
     /\ proc[p].pc \in {"list", "files", "created", "commit"} => proc[p].task \in Tasks
     /\ proc[p].pc \in {"created", "commit"} =>
           /\ proc[p].file \in Name
           /\ proc[p].ver \in 1..uploads[proc[p].task][proc[p].file]

\* The file that is about to be removed is the version that was read; it is
\* only missing when there is one version that another process removed.
ReadCurrent == OneReader =>
  \A p \in Proc: proc[p].pc = "created" =>
     \/ inbox[proc[p].task][proc[p].file] = proc[p].ver
     \/ inbox[proc[p].task][proc[p].file] = 0 /\ deploy.uploads <= 1

IInv == TypeOK /\ OnlyDeployed /\ Versions /\ Shape /\ ReadCurrent

-----------------------------------------------------------------------------
LEMMA DeployType == TypeOK => /\ deploy.procs \subseteq Proc
                              /\ deploy.uploads \in 0..MaxUploads
                              /\ Tasks \subseteq Task
                              /\ \A t \in Tasks: deploy.config[t] \in Config
BY ImportParameters DEF TypeOK, Tasks

LEMMA IdleType == Idle \in Work /\ Idle.pc = "idle" /\ Idle.tasks = {}
BY ImportParameters DEF Idle, Work, Pc

LEMMA InitInv == Init => IInv
<1> SUFFICES ASSUME Init PROVE IInv
  OBVIOUS
<1>1. TypeOK
  BY ImportParameters, IdleType DEF Init, TypeOK, Work
<1>2. \A p \in Proc: proc[p] = Idle
  BY DEF Init
<1>3. OnlyDeployed /\ Shape /\ ReadCurrent
  BY <1>2, IdleType DEF OnlyDeployed, Shape, ReadCurrent
<1>4. Versions
  BY <1>1, DeployType DEF Init, Versions
<1> QED BY <1>1, <1>3, <1>4 DEF IInv

\* A step of p that leaves the files alone.
LEMMA ProcStep ==
  ASSUME IInv, NEW p \in Proc, NEW t \in Work, proc' = [proc EXCEPT ![p] = t],
         UNCHANGED <<deploy, inbox, uploads>>,
         rows' \in [Task -> [Name -> [Version -> Nat]]],
         runs' \in 0..MaxRuns, faults' \in 0..MaxFaults,
         interrupted' \subseteq Task \X Name \X Version,
         p \notin deploy.procs => t.pc = "idle",
         t.tasks \subseteq Tasks,
         t.pc \in {"list", "files", "created", "commit"} => t.task \in Tasks,
         t.pc \in {"created", "commit"} => /\ t.file \in Name
                                           /\ t.ver \in 1..uploads[t.task][t.file],
         t.pc = "created" => inbox[t.task][t.file] = t.ver
  PROVE  IInv'
<1>1. TypeOK'
  BY DEF IInv, TypeOK, Work
<1>2. Tasks' = Tasks /\ \A q \in Proc: proc'[q] = IF q = p THEN t ELSE proc[q]
  BY DEF IInv, TypeOK, Tasks
<1>3. OnlyDeployed' /\ Versions'
  BY <1>2 DEF IInv, OnlyDeployed, Versions
<1>4. Shape' /\ ReadCurrent'
  BY <1>2 DEF IInv, Shape, ReadCurrent
<1> QED BY <1>1, <1>3, <1>4 DEF IInv

LEMMA AtHandType ==
  ASSUME IInv, NEW p \in Proc, proc[p].pc \in {"created", "commit"}
  PROVE  AtHand(p) \in Task \X Name \X Version
<1>1. proc[p].task \in Task /\ proc[p].file \in Name
  BY DeployType DEF IInv, Shape
<1>2. proc[p].ver \in 1..uploads[proc[p].task][proc[p].file]
  BY DEF IInv, Shape
<1>3. uploads[proc[p].task][proc[p].file] \in 0..MaxUploads
  BY <1>1 DEF IInv, TypeOK
<1>4. proc[p].ver \in Version
  BY <1>2, <1>3, ImportParameters DEF Version
<1> QED BY <1>1, <1>4 DEF AtHand

\* A step of p that removes the file it imports.
LEMMA RemovingStep ==
  ASSUME IInv, NEW p \in Proc, NEW t \in Work, proc' = [proc EXCEPT ![p] = t],
         proc[p].pc = "created", t.pc \in {"commit", "raised"},
         t.task = proc[p].task, t.file = proc[p].file, t.ver = proc[p].ver,
         t.tasks = proc[p].tasks,
         UNCHANGED <<deploy, uploads, rows, runs>>, faults' \in 0..MaxFaults,
         interrupted' \subseteq Task \X Name \X Version,
         inbox' = [inbox EXCEPT ![proc[p].task][proc[p].file] = 0]
  PROVE  IInv'
<1> USE ImportParameters
<1>0. /\ TypeOK /\ Tasks \subseteq Task
      /\ deploy.uploads \in 0..MaxUploads
      /\ \A q \in Proc: proc[q] \in Work
  BY DeployType DEF IInv, TypeOK, Work
<1>1. /\ proc[p].task \in Tasks /\ proc[p].file \in Name /\ p \in deploy.procs
      /\ proc[p].ver \in 1..uploads[proc[p].task][proc[p].file]
      /\ proc[p].tasks \subseteq Tasks
  BY DEF IInv, Shape, OnlyDeployed
<1>2. /\ inbox' \in [Task -> [Name -> 0..MaxUploads]]
      /\ \A k \in Task, n \in Name: inbox'[k][n] \in {0, inbox[k][n]}
  BY <1>0, <1>1 DEF TypeOK
<1>3. \A q \in Proc: proc'[q] = IF q = p THEN t ELSE proc[q]
  BY <1>0 DEF TypeOK
<1>4. TypeOK' /\ Tasks' = Tasks
  BY <1>0, <1>2 DEF TypeOK, Tasks, Work
<1>5. OnlyDeployed'
  BY <1>1, <1>3 DEF IInv, OnlyDeployed
<1>6. Versions'
  <2> SUFFICES ASSUME NEW k \in Task, NEW n \in Name PROVE inbox'[k][n] <= uploads[k][n]
    BY DEF IInv, Versions
  <2>1. inbox[k][n] <= uploads[k][n] /\ uploads[k][n] \in Nat
    BY <1>0 DEF IInv, Versions, TypeOK
  <2> QED BY <1>2, <2>1
<1>7. Shape'
  BY <1>1, <1>3, <1>4 DEF IInv, Shape
<1>8. ReadCurrent'
  <2> SUFFICES ASSUME OneReader, NEW q \in Proc \ {p}, proc[q].pc = "created"
               PROVE  \/ inbox'[proc[q].task][proc[q].file] = proc[q].ver
                      \/ inbox'[proc[q].task][proc[q].file] = 0 /\ deploy.uploads <= 1
    BY <1>3 DEF ReadCurrent
  <2>1. deploy.uploads <= 1
    <3>1. p \in deploy.procs /\ q \in deploy.procs
      BY <1>1 DEF IInv, OnlyDeployed
    <3>2. deploy.uploads <= 1 \/ \E r \in Proc: deploy.procs = {r}
      BY <1>0 DEF OneReader, TypeOK
    <3> QED BY <3>1, <3>2
  <2>2. proc[q].task \in Task /\ proc[q].file \in Name
    BY <1>0 DEF IInv, Shape
  <2> QED BY <1>2, <2>1, <2>2 DEF IInv, ReadCurrent
<1> QED BY <1>4, <1>5, <1>6, <1>7, <1>8 DEF IInv

LEMMA NextInv == IInv /\ [Next]_vars => IInv'
<1> SUFFICES ASSUME IInv, [Next]_vars PROVE IInv'
  OBVIOUS
<1> USE ImportParameters
<1>0. /\ TypeOK /\ Tasks \subseteq Task /\ deploy.procs \subseteq Proc
      /\ deploy.uploads \in 0..MaxUploads
      /\ \A p \in Proc: proc[p] \in Work
  BY DeployType DEF IInv, TypeOK, Work
<1>1. CASE UNCHANGED vars
  BY <1>1 DEF vars, IInv, TypeOK, Tasks, OnlyDeployed, Versions, Shape, ReadCurrent
<1>2. ASSUME NEW t \in Tasks, NEW n \in Name, Upload(t, n) PROVE IInv'
  <2>1. TypeOK'
    BY <1>0, <1>2 DEF Upload, TypeOK
  <2>2. Tasks' = Tasks /\ OnlyDeployed'
    BY <1>2 DEF Upload, Tasks, IInv, OnlyDeployed
  <2>3. Versions'
    BY <1>0, <1>2 DEF Upload, IInv, Versions, TypeOK
  <2>4. Shape'
    BY <1>0, <1>2, <2>2 DEF Upload, IInv, Shape, TypeOK
  <2>5. ReadCurrent'
    <3> SUFFICES ASSUME OneReader, NEW p \in Proc, proc[p].pc = "created",
                        proc[p].task = t, proc[p].file = n
                 PROVE  inbox'[t][n] = proc[p].ver
      BY <1>0, <1>2 DEF Upload, IInv, Shape, ReadCurrent, TypeOK
    <3>1. deploy.uploads <= 1
      BY <1>0, <1>2 DEF Upload, IInv, Shape, ReadCurrent, TypeOK
    <3>2. proc[p].ver = 1 /\ uploads[t][n] >= 1
      <4>1. proc[p].ver \in 1..uploads[t][n]
        BY DEF IInv, Shape
      <4>2. uploads[t][n] \in Nat /\ uploads[t][n] <= deploy.uploads
        BY <1>0 DEF IInv, Versions, TypeOK
      <4> QED BY <1>0, <3>1, <4>1, <4>2
    <3> QED BY <1>0, <1>2, <3>1, <3>2 DEF Upload, TypeOK
  <2> QED BY <2>1, <2>2, <2>3, <2>4, <2>5 DEF IInv
<1>3. ASSUME NEW p \in Proc, NEW tasks \in SUBSET Tasks, Start(p, tasks) PROVE IInv'
  <2> DEFINE t == [Idle EXCEPT !.pc = "task", !.tasks = tasks, !.snap = KnownNames]
  <2>1. t \in Work /\ t.pc = "task" /\ t.tasks = tasks
    <3>1. KnownNames \in SUBSET Name /\ tasks \in SUBSET Task
      BY <1>0 DEF KnownNames
    <3> QED BY <3>1, IdleType DEF Work, Pc
  <2>2. /\ proc' = [proc EXCEPT ![p] = t] /\ p \in deploy.procs
        /\ UNCHANGED <<deploy, inbox, uploads, rows, faults, interrupted>> /\ runs' \in 0..MaxRuns
    BY <1>0, <1>3 DEF Start, TypeOK
  <2> HIDE DEF t
  <2> QED BY <1>0, <2>1, <2>2, ProcStep DEF TypeOK
<1>4. ASSUME NEW p \in Proc, NextTask(p) PROVE IInv'
  <2>1. PICK k \in proc[p].tasks:
           proc' = [proc EXCEPT ![p].pc = "list", ![p].task = k, ![p].tasks = @ \ {k}]
    BY <1>4 DEF NextTask
  <2> DEFINE t == [proc[p] EXCEPT !.pc = "list", !.task = k, !.tasks = @ \ {k}]
  <2>2. t \in Work /\ t.pc = "list" /\ t.task = k /\ t.tasks = proc[p].tasks \ {k}
    BY <1>0 DEF Work, Pc
  <2>3. /\ proc' = [proc EXCEPT ![p] = t] /\ proc[p].pc = "task"
        /\ UNCHANGED <<deploy, inbox, uploads, rows, runs, faults, interrupted>>
    BY <1>0, <1>4, <2>1 DEF NextTask, TypeOK
  <2>4. p \in deploy.procs /\ proc[p].tasks \subseteq Tasks
    BY <2>3 DEF IInv, OnlyDeployed, Shape
  <2> HIDE DEF t
  <2> QED BY <1>0, <2>2, <2>3, <2>4, ProcStep DEF TypeOK
<1>5. ASSUME NEW p \in Proc, EndRun(p) \/ HandleException(p) PROVE IInv'
  <2>1. proc' = [proc EXCEPT ![p] = Idle]
        /\ UNCHANGED <<deploy, inbox, uploads, rows, runs, faults, interrupted>>
    BY <1>5 DEF EndRun, HandleException
  <2> QED BY <1>0, <2>1, IdleType, ProcStep DEF TypeOK
<1>6. ASSUME NEW p \in Proc, get_files(p) PROVE IInv'
  <2> DEFINE t == [proc[p] EXCEPT !.pc = "files",
                                  !.todo = filter_duplicates(p, Present(proc[p].task))]
  <2>1. filter_duplicates(p, Present(proc[p].task)) \in SUBSET Name
    BY <1>0 DEF filter_duplicates, Present, Work
  <2>2. t \in Work /\ t.pc = "files" /\ t.task = proc[p].task /\ t.tasks = proc[p].tasks
    BY <1>0, <2>1 DEF Work, Pc
  <2>3. /\ proc' = [proc EXCEPT ![p] = t] /\ proc[p].pc = "list"
        /\ UNCHANGED <<deploy, inbox, uploads, rows, runs, faults, interrupted>>
    BY <1>0, <1>6 DEF get_files, TypeOK
  <2>4. p \in deploy.procs /\ proc[p].task \in Tasks /\ proc[p].tasks \subseteq Tasks
    BY <2>3 DEF IInv, OnlyDeployed, Shape
  <2> HIDE DEF t
  <2> QED BY <1>0, <2>2, <2>3, <2>4, ProcStep DEF TypeOK
<1>7. ASSUME NEW p \in Proc, CreateRecord(p) PROVE IInv'
  <2>1. PICK n \in proc[p].todo \intersect Present(proc[p].task):
           proc' = [proc EXCEPT ![p].pc = "created", ![p].file = n,
                                ![p].ver = inbox[proc[p].task][n]]
    BY <1>7 DEF CreateRecord
  <2> DEFINE t == [proc[p] EXCEPT !.pc = "created", !.file = n,
                                  !.ver = inbox[proc[p].task][n]]
  <2>2. /\ proc[p].pc = "files" /\ p \in deploy.procs /\ proc[p].task \in Tasks
        /\ proc[p].tasks \subseteq Tasks
        /\ UNCHANGED <<deploy, inbox, uploads, rows, runs, faults, interrupted>>
    BY <1>7 DEF CreateRecord, IInv, OnlyDeployed, Shape
  <2>3. n \in Name /\ inbox[proc[p].task][n] \in 1..uploads[proc[p].task][n]
        /\ inbox[proc[p].task][n] \in 0..MaxUploads
    BY <1>0, <2>2 DEF Present, IInv, Versions, TypeOK
  <2>4. /\ t \in Work /\ t.pc = "created" /\ t.task = proc[p].task /\ t.file = n
        /\ t.ver = inbox[proc[p].task][n] /\ t.tasks = proc[p].tasks
    BY <1>0, <2>3 DEF Work, Pc
  <2>5. proc' = [proc EXCEPT ![p] = t]
    BY <1>0, <2>1 DEF TypeOK
  <2> HIDE DEF t
  <2> QED BY <1>0, <2>2, <2>3, <2>4, <2>5, ProcStep DEF TypeOK
<1>8. ASSUME NEW p \in Proc, manage_file_after_import(p) PROVE IInv'
  <2> DEFINE t == [proc[p] EXCEPT !.pc = "commit"]
  <2>1. /\ t \in Work /\ t.pc = "commit" /\ t.task = proc[p].task /\ t.file = proc[p].file
        /\ t.ver = proc[p].ver /\ t.tasks = proc[p].tasks
    BY <1>0 DEF Work, Pc
  <2>2. /\ proc' = [proc EXCEPT ![p] = t] /\ proc[p].pc = "created"
        /\ UNCHANGED <<deploy, uploads, rows, runs, faults, interrupted>>
    BY <1>0, <1>8 DEF manage_file_after_import, ToCommit, TypeOK
  <2>3. /\ proc[p].task \in Tasks /\ proc[p].file \in Name /\ p \in deploy.procs
        /\ proc[p].ver \in 1..uploads[proc[p].task][proc[p].file]
        /\ proc[p].tasks \subseteq Tasks
    BY <2>2 DEF IInv, Shape, OnlyDeployed
  <2>4. CASE UNCHANGED inbox
    <3> HIDE DEF t
    <3> QED BY <1>0, <2>1, <2>2, <2>3, <2>4, ProcStep DEF TypeOK
  <2>5. CASE inbox' = [inbox EXCEPT ![proc[p].task][proc[p].file] = 0]
    <3> HIDE DEF t
    <3> QED BY <1>0, <2>1, <2>2, <2>5, RemovingStep DEF TypeOK
  <2> QED BY <1>8, <2>4, <2>5 DEF manage_file_after_import
<1>9. ASSUME NEW p \in Proc, CommitFile(p) PROVE IInv'
  <2> DEFINE t == [proc[p] EXCEPT !.pc = "files", !.todo = @ \ {proc[p].file},
                                  !.file = None, !.ver = 0]
  <2>1. t \in Work /\ t.pc = "files" /\ t.task = proc[p].task /\ t.tasks = proc[p].tasks
    <3>1. proc[p] \in Work /\ proc[p].todo \ {proc[p].file} \in SUBSET Name
      BY <1>0 DEF Work
    <3>2. 0 \in 0..MaxUploads /\ None \in Name \union {None}
      OBVIOUS
    <3> QED BY <3>1, <3>2 DEF Work, Pc
  <2>2. /\ proc' = [proc EXCEPT ![p] = t] /\ proc[p].pc = "commit"
        /\ rows' \in [Task -> [Name -> [Version -> Nat]]]
        /\ UNCHANGED <<deploy, inbox, uploads, runs, faults, interrupted>>
    <3>1. /\ proc[p].pc = "commit"
          /\ rows' = [rows EXCEPT ![proc[p].task][proc[p].file][proc[p].ver] = @ + 1]
          /\ UNCHANGED <<deploy, inbox, uploads, runs, faults, interrupted>>
      BY <1>9 DEF CommitFile
    <3>2. rows' \in [Task -> [Name -> [Version -> Nat]]]
      <4>1. /\ proc[p].task \in Task /\ proc[p].file \in Name
            /\ rows \in [Task -> [Name -> [Version -> Nat]]]
        BY <1>0, <3>1 DEF IInv, Shape, TypeOK
      <4> DEFINE f == [rows[proc[p].task][proc[p].file] EXCEPT ![proc[p].ver] = @ + 1]
      <4>2. f \in [Version -> Nat]
        <5>1. \A g \in [Version -> Nat]: \A k \in Version: [g EXCEPT ![k] = @ + 1] \in [Version -> Nat]
          OBVIOUS
        <5>2. rows[proc[p].task][proc[p].file] \in [Version -> Nat]
          BY <4>1
        <5>3. proc[p].ver \in Version
          BY <1>0, <3>1, <4>1 DEF IInv, Shape, Versions, TypeOK, Version
        <5> QED BY <5>1, <5>2, <5>3
      <4>3. rows' = [rows EXCEPT ![proc[p].task][proc[p].file] = f]
        BY <3>1
      <4> HIDE DEF f
      <4> QED BY <4>1, <4>2, <4>3
    <3>3. proc' = [proc EXCEPT ![p] = t]
      BY <1>0, <1>9 DEF CommitFile, TypeOK
    <3> QED BY <3>1, <3>2, <3>3
  <2>3. p \in deploy.procs /\ proc[p].task \in Tasks /\ proc[p].tasks \subseteq Tasks
    BY <2>2 DEF IInv, OnlyDeployed, Shape
  <2> HIDE DEF t
  <2> QED BY <1>0, <2>1, <2>2, <2>3, ProcStep DEF TypeOK
<1>10. ASSUME NEW p \in Proc, EndTask(p) PROVE IInv'
  <2> DEFINE t == [proc[p] EXCEPT !.pc = "task", !.task = None]
  <2>1. t \in Work /\ t.pc = "task" /\ t.tasks = proc[p].tasks
    BY <1>0 DEF Work, Pc
  <2>2. /\ proc' = [proc EXCEPT ![p] = t] /\ proc[p].pc = "files"
        /\ UNCHANGED <<deploy, inbox, uploads, rows, runs, faults, interrupted>>
    BY <1>0, <1>10 DEF EndTask, TypeOK
  <2>3. p \in deploy.procs /\ proc[p].tasks \subseteq Tasks
    BY <2>2 DEF IInv, OnlyDeployed, Shape
  <2> HIDE DEF t
  <2> QED BY <1>0, <2>1, <2>2, <2>3, ProcStep DEF TypeOK
<1>11. ASSUME NEW p \in Proc, FileMissing(p) \/ RemoteError(p) PROVE IInv'
  <2> DEFINE t == [proc[p] EXCEPT !.pc = "raised"]
  <2>1. t \in Work /\ t.pc = "raised" /\ t.tasks = proc[p].tasks
    BY <1>0 DEF Work, Pc
  <2>2. /\ proc' = [proc EXCEPT ![p] = t] /\ proc[p].pc # "idle"
        /\ faults' \in 0..MaxFaults
        /\ UNCHANGED <<deploy, inbox, uploads, rows, runs, interrupted>>
    BY <1>0, <1>11 DEF FileMissing, RemoteError, Raise, TypeOK
  <2>3. p \in deploy.procs /\ proc[p].tasks \subseteq Tasks
    BY <2>2 DEF IInv, OnlyDeployed, Shape
  <2> HIDE DEF t
  <2> QED BY <1>0, <2>1, <2>2, <2>3, ProcStep DEF TypeOK
<1>12. ASSUME NEW p \in Proc, Crash(p) PROVE IInv'
  <2>1. /\ proc' = [proc EXCEPT ![p] = Idle] /\ faults' \in 0..MaxFaults
        /\ UNCHANGED <<deploy, inbox, uploads, rows, runs>>
    BY <1>0, <1>12 DEF Crash, TypeOK
  <2>2. interrupted' \subseteq Task \X Name \X Version
    <3>1. Removed(p) => AtHand(p) \in Task \X Name \X Version
      BY AtHandType DEF Removed
    <3> QED BY <1>0, <1>12, <3>1 DEF Crash, TypeOK
  <2> QED BY <1>0, <2>1, <2>2, IdleType, ProcStep DEF TypeOK
<1>13. ASSUME NEW p \in Proc, AnswerLost(p) PROVE IInv'
  <2> DEFINE t == [proc[p] EXCEPT !.pc = "raised"]
  <2>1. /\ t \in Work /\ t.pc = "raised" /\ t.task = proc[p].task /\ t.file = proc[p].file
        /\ t.ver = proc[p].ver /\ t.tasks = proc[p].tasks
    BY <1>0 DEF Work, Pc
  <2>2. /\ proc' = [proc EXCEPT ![p] = t] /\ proc[p].pc = "created"
        /\ inbox' = [inbox EXCEPT ![proc[p].task][proc[p].file] = 0]
        /\ UNCHANGED <<deploy, uploads, rows, runs>> /\ faults' \in 0..MaxFaults
    BY <1>0, <1>13 DEF AnswerLost, Raise, TypeOK
  <2>3. interrupted' \subseteq Task \X Name \X Version
    BY <1>0, <1>13, AtHandType DEF AnswerLost, TypeOK
  <2> HIDE DEF t
  <2> QED BY <2>1, <2>2, <2>3, RemovingStep
<1> QED BY <1>1, <1>2, <1>3, <1>4, <1>5, <1>6, <1>7, <1>8, <1>9, <1>10, <1>11, <1>12, <1>13
        DEF Next, Step, run_task_import_scheduler, run

\* The variables keep their types (run_import and what surrounds it).
THEOREM ImportTypeCorrect == Spec => []TypeOK
<1>1. IInv => TypeOK
  BY DEF IInv
<1> QED BY <1>1, InitInv, NextInv, PTL DEF Spec

-----------------------------------------------------------------------------
(* Where a version is.                                                     *)

Committing(p, t, n, v) == /\ proc[p].pc = "commit" /\ proc[p].task = t
                          /\ proc[p].file = n /\ proc[p].ver = v

\* Only an upload, the removal of a file and its commit move a version.
LEMMA Moves ==
  ASSUME IInv, [Next]_vars
  PROVE  \/ \E t \in Tasks, n \in Name: Upload(t, n)
         \/ \E p \in Proc: manage_file_after_import(p) \/ AnswerLost(p) \/ CommitFile(p)
         \/ /\ UNCHANGED <<deploy, inbox, uploads, rows>>
            /\ interrupted \subseteq interrupted'
            /\ \A q \in Proc:
                  /\ proc'[q].pc = "commit" => proc'[q] = proc[q]
                  /\ proc[q].pc = "commit" => \/ proc'[q] = proc[q]
                                             \/ (Removed(q) => AtHand(q) \in interrupted')
<1> DEFINE Still(p) == /\ UNCHANGED <<deploy, inbox, uploads, rows>>
                       /\ interrupted \subseteq interrupted'
                       /\ Removed(p) => AtHand(p) \in interrupted'
                       /\ \A q \in Proc \ {p}: proc'[q] = proc[q]
                       /\ proc'[p].pc # "commit"
<1>0. TypeOK /\ \A p \in Proc: proc[p] \in Work /\ (Removed(p) => proc[p].pc = "commit")
  BY DEF IInv, TypeOK, Work, Removed
<1>1. CASE UNCHANGED vars
  BY <1>1 DEF vars
<1>2. ASSUME NEW p \in Proc, Still(p)
      PROVE  /\ UNCHANGED <<deploy, inbox, uploads, rows>>
             /\ interrupted \subseteq interrupted'
             /\ \A q \in Proc:
                  /\ proc'[q].pc = "commit" => proc'[q] = proc[q]
                  /\ proc[q].pc = "commit" => \/ proc'[q] = proc[q]
                                             \/ (Removed(q) => AtHand(q) \in interrupted')
  BY <1>2
<1>3. ASSUME NEW p \in Proc, NEW tasks \in SUBSET Tasks, Start(p, tasks) PROVE Still(p)
  BY <1>0, <1>3 DEF Start, TypeOK, Idle
<1>4. ASSUME NEW p \in Proc, NextTask(p) PROVE Still(p)
  BY <1>0, <1>4 DEF NextTask, TypeOK
<1>5. ASSUME NEW p \in Proc, EndRun(p) \/ HandleException(p) PROVE Still(p)
  BY <1>0, <1>5 DEF EndRun, HandleException, TypeOK, Idle
<1>6. ASSUME NEW p \in Proc, get_files(p) PROVE Still(p)
  BY <1>0, <1>6 DEF get_files, TypeOK
<1>7. ASSUME NEW p \in Proc, CreateRecord(p) PROVE Still(p)
  BY <1>0, <1>7 DEF CreateRecord, TypeOK
<1>8. ASSUME NEW p \in Proc, EndTask(p) PROVE Still(p)
  BY <1>0, <1>8 DEF EndTask, TypeOK
<1>9. ASSUME NEW p \in Proc, FileMissing(p) \/ RemoteError(p) PROVE Still(p)
  BY <1>0, <1>9 DEF FileMissing, RemoteError, Raise, TypeOK
<1>10. ASSUME NEW p \in Proc, Crash(p) PROVE Still(p)
  BY <1>0, <1>10 DEF Crash, TypeOK, Idle
<1> HIDE DEF Still
<1> QED BY <1>1, <1>2, <1>3, <1>4, <1>5, <1>6, <1>7, <1>8, <1>9, <1>10
        DEF Next, Step, run_task_import_scheduler, run

\* What a removal and a commit do.
LEMMA Removal ==
  ASSUME IInv, NEW p \in Proc, manage_file_after_import(p)
  PROVE  /\ UNCHANGED <<deploy, uploads, rows, interrupted>>
         /\ \A q \in Proc \ {p}: proc'[q] = proc[q]
         /\ Committing(p, proc[p].task, proc[p].file, proc[p].ver)'
         /\ proc[p].pc = "created" /\ proc[p].task \in Tasks /\ proc[p].file \in Name
         /\ proc'[p].task = proc[p].task /\ proc'[p].file = proc[p].file /\ proc'[p].ver = proc[p].ver
         /\ \A t \in Task, n \in Name:
               <<t, n>> # <<proc[p].task, proc[p].file>> => inbox'[t][n] = inbox[t][n]
         /\ LET i == inbox[proc[p].task][proc[p].file]
            IN  /\ inbox'[proc[p].task][proc[p].file] \in {0, i}
                /\ after_import(p) \in {"delete", "move"} =>
                      i # 0 /\ inbox'[proc[p].task][proc[p].file] = 0
<1>1. TypeOK /\ Tasks \subseteq Task /\ proc[p] \in Work
  BY DeployType DEF IInv, TypeOK, Work
<1>2. proc[p].pc = "created" /\ proc[p].task \in Tasks /\ proc[p].file \in Name
  BY DEF manage_file_after_import, IInv, Shape
<1>3. /\ UNCHANGED <<deploy, uploads, rows, interrupted>>
      /\ \A q \in Proc \ {p}: proc'[q] = proc[q]
      /\ Committing(p, proc[p].task, proc[p].file, proc[p].ver)'
      /\ proc'[p].task = proc[p].task /\ proc'[p].file = proc[p].file /\ proc'[p].ver = proc[p].ver
  BY <1>1 DEF manage_file_after_import, ToCommit, Committing, TypeOK, Work
<1>4. CASE inbox' = inbox /\ after_import(p) \notin {"delete", "move"}
  BY <1>2, <1>3, <1>4
<1>5. CASE /\ proc[p].file \in Present(proc[p].task)
           /\ inbox' = [inbox EXCEPT ![proc[p].task][proc[p].file] = 0]
  BY <1>1, <1>2, <1>3, <1>5 DEF TypeOK, Present
<1> QED BY <1>4, <1>5 DEF manage_file_after_import

\* What a removal whose answer is lost does.
LEMMA LostRemoval ==
  ASSUME IInv, NEW p \in Proc, AnswerLost(p)
  PROVE  /\ UNCHANGED <<deploy, uploads, rows>>
         /\ \A q \in Proc \ {p}: proc'[q] = proc[q]
         /\ proc[p].pc = "created" /\ proc[p].task \in Tasks /\ proc[p].file \in Name
         /\ proc'[p].pc = "raised"
         /\ interrupted' = interrupted \union {AtHand(p)}
         /\ \A t \in Task, n \in Name:
               inbox'[t][n] = IF <<t, n>> = <<proc[p].task, proc[p].file>> THEN 0 ELSE inbox[t][n]
         /\ inbox[proc[p].task][proc[p].file] # 0
<1>1. TypeOK /\ Tasks \subseteq Task /\ proc[p] \in Work
  BY DeployType DEF IInv, TypeOK, Work
<1>2. proc[p].pc = "created" /\ proc[p].task \in Tasks /\ proc[p].file \in Name
  BY DEF AnswerLost, IInv, Shape
<1>3. /\ UNCHANGED <<deploy, uploads, rows>>
      /\ \A q \in Proc \ {p}: proc'[q] = proc[q]
      /\ proc'[p].pc = "raised" /\ interrupted' = interrupted \union {AtHand(p)}
  BY <1>1 DEF AnswerLost, Raise, TypeOK, Work
<1>4. \A t \in Task, n \in Name:
         inbox'[t][n] = IF <<t, n>> = <<proc[p].task, proc[p].file>> THEN 0 ELSE inbox[t][n]
  BY <1>1, <1>2 DEF AnswerLost, TypeOK
<1>5. inbox[proc[p].task][proc[p].file] # 0
  BY DEF AnswerLost, Present
<1> QED BY <1>2, <1>3, <1>4, <1>5

LEMMA Commit ==
  ASSUME IInv, NEW p \in Proc, CommitFile(p)
  PROVE  /\ UNCHANGED <<deploy, inbox, uploads, interrupted>>
         /\ \A q \in Proc \ {p}: proc'[q] = proc[q]
         /\ proc'[p].pc = "files" /\ proc[p].pc = "commit"
         /\ proc[p].task \in Tasks /\ proc[p].file \in Name /\ proc[p].ver \in Version
         /\ \A t \in Task, n \in Name, v \in Version:
               rows'[t][n][v] = IF Committing(p, t, n, v) THEN rows[t][n][v] + 1 ELSE rows[t][n][v]
<1>1. TypeOK /\ Tasks \subseteq Task /\ proc[p] \in Work
  BY DeployType DEF IInv, TypeOK, Work
<1>2. /\ proc[p].pc = "commit" /\ proc[p].task \in Tasks /\ proc[p].file \in Name
      /\ proc[p].ver \in 1..uploads[proc[p].task][proc[p].file]
  BY DEF CommitFile, IInv, Shape
<1>3. proc[p].ver \in Version
  BY <1>1, <1>2 DEF TypeOK, Version
<1>4. UNCHANGED <<deploy, inbox, uploads, interrupted>> /\ proc'[p].pc = "files"
      /\ \A q \in Proc \ {p}: proc'[q] = proc[q]
  BY <1>1 DEF CommitFile, TypeOK, Work
<1>5. rows' = [rows EXCEPT ![proc[p].task][proc[p].file][proc[p].ver] = @ + 1]
  BY DEF CommitFile
<1>6. ASSUME NEW t \in Task, NEW n \in Name, NEW v \in Version
      PROVE  rows'[t][n][v] = IF Committing(p, t, n, v) THEN rows[t][n][v] + 1 ELSE rows[t][n][v]
  BY <1>1, <1>2, <1>3, <1>5 DEF TypeOK, Committing
<1> QED BY <1>2, <1>3, <1>4, <1>6

\* Where a version is, or why it is lost.
Accounted(t, n, v) == Kept(t, n, v) \/ <<t, n, v>> \in interrupted

LEMMA KeptWhere ==
  ASSUME NEW t, NEW n, NEW v
  PROVE  /\ Kept(t, n, v) <=> \/ inbox[t][n] = v
                              \/ rows[t][n][v] > 0
                              \/ \E p \in Proc: Committing(p, t, n, v)
         /\ Kept(t, n, v)' <=> \/ inbox'[t][n] = v
                               \/ rows'[t][n][v] > 0
                               \/ \E p \in Proc: Committing(p, t, n, v)'
  BY DEF Kept, AtHand, Committing

LEMMA OnlyInterruptedLostStep ==
  ASSUME OneReader, IInv, OnlyInterruptedLost, [Next]_vars
  PROVE  OnlyInterruptedLost'
<1>0. TypeOK /\ Tasks \subseteq Task
  BY DeployType DEF IInv
<1> SUFFICES ASSUME NEW t \in Task, NEW n \in Name, NEW v \in 1..uploads'[t][n]
             PROVE  Accounted(t, n, v)'
  BY DEF OnlyInterruptedLost, Accounted
<1>1. v <= uploads[t][n] => Accounted(t, n, v)
  BY <1>0 DEF OnlyInterruptedLost, Accounted, TypeOK
<1>2. ASSUME NEW u \in Tasks, NEW m \in Name, Upload(u, m) PROVE Accounted(t, n, v)'
  <2>1. rows' = rows /\ proc' = proc /\ interrupted' = interrupted
    BY <1>2 DEF Upload
  <2>2. CASE u = t /\ m = n
    <3>1. /\ inbox[t][n] = 0 /\ inbox'[t][n] = uploads[t][n] + 1
          /\ uploads'[t][n] = uploads[t][n] + 1 /\ uploads[t][n] \in Nat
      BY <1>0, <1>2, <2>2 DEF Upload, TypeOK
    <3> QED BY <1>1, <2>1, <3>1, KeptWhere DEF Accounted, Committing
  <2>3. CASE ~(u = t /\ m = n)
    <3>1. inbox'[t][n] = inbox[t][n] /\ uploads'[t][n] = uploads[t][n] /\ uploads[t][n] \in Nat
      BY <1>0, <1>2, <2>3 DEF Upload, TypeOK
    <3> QED BY <1>1, <2>1, <3>1, KeptWhere DEF Accounted, Committing
  <2> QED BY <2>2, <2>3
<1>3. ASSUME UNCHANGED <<uploads, rows>>, interrupted \subseteq interrupted',
             \A q \in Proc: Committing(q, t, n, v) => Accounted(t, n, v)',
             inbox[t][n] = v => Accounted(t, n, v)'
      PROVE  Accounted(t, n, v)'
  <2>1. v <= uploads[t][n]
    BY <1>0, <1>3 DEF TypeOK
  <2> QED BY <1>1, <1>3, <2>1, KeptWhere DEF Accounted
<1>4. ASSUME NEW p \in Proc, manage_file_after_import(p) PROVE Accounted(t, n, v)'
  <2>1. ASSUME inbox[t][n] = v, inbox'[t][n] # v
        PROVE  Committing(p, t, n, v)'
    <3>1. proc[p].task = t /\ proc[p].file = n /\ proc[p].pc = "created"
      BY <1>4, <2>1, Removal
    <3>2. proc[p].ver = v
      BY <2>1, <3>1 DEF IInv, ReadCurrent
    <3> QED BY <1>4, <3>1, <3>2, Removal
  <2>2. /\ UNCHANGED <<uploads, rows, interrupted>>
        /\ \A q \in Proc: proc[q].pc = "commit" => proc'[q] = proc[q]
    BY <1>4, Removal
  <2>3. inbox[t][n] = v => Accounted(t, n, v)'
    BY <2>1, KeptWhere DEF Accounted
  <2>4. ASSUME NEW q \in Proc, Committing(q, t, n, v) PROVE Accounted(t, n, v)'
    <3>1. Committing(q, t, n, v)'
      BY <2>2, <2>4 DEF Committing
    <3> QED BY <3>1, KeptWhere DEF Accounted
  <2> QED BY <1>3, <2>2, <2>3, <2>4
<1>5. ASSUME NEW p \in Proc, AnswerLost(p) PROVE Accounted(t, n, v)'
  <2>1. /\ UNCHANGED <<uploads, rows>> /\ interrupted' = interrupted \union {AtHand(p)}
        /\ \A q \in Proc: proc[q].pc = "commit" => proc'[q] = proc[q]
    BY <1>5, LostRemoval
  <2>2. ASSUME inbox[t][n] = v PROVE Accounted(t, n, v)'
    <3>1. CASE inbox'[t][n] = v
      BY <3>1, KeptWhere DEF Accounted
    <3>2. CASE inbox'[t][n] # v
      <4>1. proc[p].task = t /\ proc[p].file = n /\ proc[p].pc = "created" /\ v # 0
        BY <1>5, <2>2, <3>2, LostRemoval
      <4>2. proc[p].ver = v
        BY <2>2, <4>1 DEF IInv, ReadCurrent
      <4> QED BY <2>1, <4>1, <4>2 DEF Accounted, AtHand
    <3> QED BY <3>1, <3>2
  <2>3. ASSUME NEW q \in Proc, Committing(q, t, n, v) PROVE Accounted(t, n, v)'
    <3>1. Committing(q, t, n, v)'
      BY <2>1, <2>3 DEF Committing
    <3> QED BY <3>1, KeptWhere DEF Accounted
  <2> QED BY <1>3, <2>1, <2>2, <2>3
<1>6. ASSUME NEW p \in Proc, CommitFile(p) PROVE Accounted(t, n, v)'
  <2>1. v <= uploads[t][n] /\ v \in Version /\ rows[t][n][v] \in Nat
    <3>1. uploads[t][n] \in 0..MaxUploads /\ uploads'[t][n] = uploads[t][n]
      BY <1>0, <1>6, Commit DEF TypeOK
    <3>2. v \in Version
      BY <3>1, ImportParameters DEF Version
    <3> QED BY <1>0, <3>1, <3>2 DEF TypeOK
  <2>2. rows'[t][n][v] \in {rows[t][n][v], rows[t][n][v] + 1} /\ inbox' = inbox
        /\ (Committing(p, t, n, v) => rows'[t][n][v] > 0) /\ interrupted' = interrupted
    BY <1>6, <2>1, Commit
  <2>3. ASSUME NEW q \in Proc, Committing(q, t, n, v) PROVE Accounted(t, n, v)'
    <3>1. CASE q = p
      BY <2>2, <2>3, <3>1, KeptWhere DEF Accounted
    <3>2. CASE q # p
      <4>1. Committing(q, t, n, v)'
        BY <1>6, <2>3, <3>2, Commit DEF Committing
      <4> QED BY <4>1, KeptWhere DEF Accounted
    <3> QED BY <3>1, <3>2
  <2>4. rows[t][n][v] > 0 => rows'[t][n][v] > 0
    BY <2>1, <2>2
  <2> QED BY <1>1, <2>1, <2>2, <2>3, <2>4, KeptWhere DEF Accounted
<1>7. CASE /\ UNCHANGED <<deploy, inbox, uploads, rows>>
           /\ interrupted \subseteq interrupted'
           /\ \A q \in Proc: proc[q].pc = "commit" =>
                 proc'[q] = proc[q] \/ (Removed(q) => AtHand(q) \in interrupted')
  <2>1. inbox[t][n] = v => Accounted(t, n, v)'
    BY <1>7, KeptWhere DEF Accounted
  <2>2. ASSUME NEW q \in Proc, Committing(q, t, n, v) PROVE Accounted(t, n, v)'
    <3>1. CASE proc'[q] = proc[q]
      <4>1. Committing(q, t, n, v)'
        BY <2>2, <3>1 DEF Committing
      <4> QED BY <4>1, KeptWhere DEF Accounted
    <3>2. CASE ~Removed(q)
      BY <2>1, <2>2, <3>2 DEF Removed, Committing
    <3>3. CASE AtHand(q) \in interrupted'
      BY <2>2, <3>3 DEF Accounted, AtHand, Committing
    <3> QED BY <1>7, <2>2, <3>1, <3>2, <3>3 DEF Committing
  <2> QED BY <1>3, <1>7, <2>1, <2>2
<1> QED BY <1>2, <1>4, <1>5, <1>6, <1>7, Moves

\* A failure loses at most the file at hand, and only when it comes after the
\* remote was changed and before the commit (run_import): whatever else fails,
\* every version is in its folder, in the records or on its way between them.
THEOREM NothingElseLost == ASSUME OneReader PROVE Spec => []OnlyInterruptedLost
<1>1. Init => OnlyInterruptedLost
  <2> SUFFICES ASSUME Init, NEW t \in Task, NEW n \in Name PROVE uploads[t][n] = 0
    BY DEF OnlyInterruptedLost
  <2> QED BY DEF Init
<1>2. IInv /\ OnlyInterruptedLost /\ [Next]_vars => OnlyInterruptedLost'
  BY OnlyInterruptedLostStep
<1> QED BY <1>1, <1>2, InitInv, NextInv, PTL DEF Spec

-----------------------------------------------------------------------------
(* The tasks that remove what they import.                                 *)

Removing == {t \in Tasks: deploy.config[t].after_import \in {"delete", "move"}}

\* A version that left its folder is in one place, with one process or in the
\* records.
InOnePlace(t, n, v) ==
  /\ rows[t][n][v] <= 1
  /\ rows[t][n][v] > 0 => inbox[t][n] # v /\ v <= uploads[t][n]
  /\ \A p \in Proc: Committing(p, t, n, v) =>
        /\ inbox[t][n] # v /\ rows[t][n][v] = 0
        /\ \A q \in Proc: Committing(q, t, n, v) => q = p

Once == \A t \in Removing, n \in Name, v \in Version: InOnePlace(t, n, v)

LEMMA OnceStep == ASSUME OneReader, IInv, Once, [Next]_vars PROVE Once'
<1>0. TypeOK /\ Tasks \subseteq Task
  BY DeployType DEF IInv
<1>1. deploy' = deploy
  BY Moves, Removal, LostRemoval, Commit DEF Upload
<1>2. Removing' = Removing /\ Removing \subseteq Tasks
  BY <1>1 DEF Removing, Tasks
<1> SUFFICES ASSUME NEW t \in Removing, NEW n \in Name, NEW v \in Version
             PROVE  InOnePlace(t, n, v)'
  BY <1>2 DEF Once
<1>3. /\ InOnePlace(t, n, v) /\ t \in Tasks /\ t \in Task
      /\ rows[t][n][v] \in Nat /\ uploads[t][n] \in Nat /\ v \in Nat \ {0}
  <2>1. InOnePlace(t, n, v) /\ t \in Tasks /\ t \in Task
    BY <1>0, <1>2 DEF Once
  <2>2. rows[t][n][v] \in Nat /\ uploads[t][n] \in 0..MaxUploads
    BY <1>0, <2>1 DEF TypeOK
  <2>3. v \in Nat \ {0}
    BY ImportParameters DEF Version
  <2> QED BY <2>1, <2>2, <2>3, ImportParameters
<1>4. \A p \in Proc: Committing(p, t, n, v) => v <= uploads[t][n]
  BY <1>3 DEF IInv, Shape, Committing
<1>5. ASSUME NEW u \in Tasks, NEW m \in Name, Upload(u, m) PROVE InOnePlace(t, n, v)'
  <2>1. rows' = rows /\ \A p \in Proc: Committing(p, t, n, v)' <=> Committing(p, t, n, v)
    BY <1>5 DEF Upload, Committing
  <2>2. CASE u = t /\ m = n
    <3>1. inbox'[t][n] = uploads[t][n] + 1 /\ uploads'[t][n] = uploads[t][n] + 1
      BY <1>0, <1>3, <1>5, <2>2 DEF Upload, TypeOK
    <3> QED BY <1>3, <1>4, <2>1, <3>1 DEF InOnePlace
  <2>3. CASE ~(u = t /\ m = n)
    <3>1. inbox'[t][n] = inbox[t][n] /\ uploads'[t][n] = uploads[t][n]
      BY <1>0, <1>3, <1>5, <2>3 DEF Upload, TypeOK
    <3> QED BY <1>3, <2>1, <3>1 DEF InOnePlace
  <2> QED BY <2>2, <2>3
<1>6. ASSUME NEW p \in Proc, manage_file_after_import(p) PROVE InOnePlace(t, n, v)'
  <2>1. /\ UNCHANGED <<uploads, rows>>
        /\ \A q \in Proc \ {p}: Committing(q, t, n, v)' <=> Committing(q, t, n, v)
        /\ ~Committing(p, t, n, v)
        /\ inbox'[t][n] \in {0, inbox[t][n]}
    BY <1>3, <1>6, Removal DEF Committing
  <2>2. CASE Committing(p, t, n, v)'
    <3>1. /\ proc[p].task = t /\ proc[p].file = n /\ proc[p].ver = v /\ proc[p].pc = "created"
      BY <1>6, <2>2, Removal DEF Committing
    <3>2. inbox[t][n] # 0 /\ inbox'[t][n] = 0
      BY <1>6, <3>1, Removal DEF after_import, Removing
    <3>3. inbox[t][n] = v
      BY <3>1, <3>2 DEF IInv, ReadCurrent
    <3> QED BY <1>3, <2>1, <3>2, <3>3 DEF InOnePlace
  <2>3. CASE ~Committing(p, t, n, v)'
    BY <1>3, <2>1, <2>3 DEF InOnePlace
  <2> QED BY <2>2, <2>3
<1>7. ASSUME NEW p \in Proc, CommitFile(p) PROVE InOnePlace(t, n, v)'
  <2>1. /\ UNCHANGED <<inbox, uploads>>
        /\ \A q \in Proc \ {p}: Committing(q, t, n, v)' <=> Committing(q, t, n, v)
        /\ ~Committing(p, t, n, v)'
        /\ rows'[t][n][v] = IF Committing(p, t, n, v) THEN rows[t][n][v] + 1 ELSE rows[t][n][v]
    BY <1>3, <1>7, Commit DEF Committing
  <2>2. CASE Committing(p, t, n, v)
    BY <1>3, <1>4, <2>1, <2>2 DEF InOnePlace
  <2>3. CASE ~Committing(p, t, n, v)
    BY <1>3, <2>1, <2>3 DEF InOnePlace
  <2> QED BY <2>2, <2>3
<1>8. CASE /\ UNCHANGED <<deploy, inbox, uploads, rows>>
           /\ \A q \in Proc: proc'[q].pc = "commit" => proc'[q] = proc[q]
  <2>1. \A q \in Proc: Committing(q, t, n, v)' => Committing(q, t, n, v)
    BY <1>8 DEF Committing
  <2> QED BY <1>3, <1>8, <2>1 DEF InOnePlace
<1>9. ASSUME NEW p \in Proc, AnswerLost(p) PROVE InOnePlace(t, n, v)'
  <2>1. /\ UNCHANGED <<uploads, rows>>
        /\ \A q \in Proc: Committing(q, t, n, v)' <=> Committing(q, t, n, v)
        /\ inbox'[t][n] \in {0, inbox[t][n]}
    BY <1>3, <1>9, LostRemoval DEF Committing
  <2> QED BY <1>3, <2>1 DEF InOnePlace
<1> QED BY <1>5, <1>6, <1>7, <1>8, <1>9, Moves

\* A file that importing deletes or moves is imported once, whatever fails and
\* whoever dies (run_import).
THEOREM RemovedImportedOnce == ASSUME OneReader PROVE Spec => []ImportedOnce
<1>1. Init => Once
  <2> SUFFICES ASSUME Init, NEW t \in Removing, NEW n \in Name, NEW v \in Version
               PROVE  InOnePlace(t, n, v)
    BY DEF Once
  <2>1. t \in Task
    BY InitInv, DeployType DEF IInv, Removing
  <2> QED BY <2>1, IdleType DEF Init, InOnePlace, Committing
<1>2. IInv /\ Once /\ [Next]_vars => Once'
  BY OnceStep
<1>3. IInv /\ Once => ImportedOnce
  BY DEF Once, ImportedOnce, InOnePlace, Removing
<1> QED BY <1>1, <1>2, <1>3, InitInv, NextInv, PTL DEF Spec

-----------------------------------------------------------------------------
(* The tasks that avoid duplicates, when one process imports for one task. *)

Avoiding(d) == \E t \in DOMAIN d.config: d.config[t].avoid_duplicated_files

OneImport ==
  \A d \in Deployment: Avoiding(d) => /\ \E p \in Proc: d.procs = {p}
                                      /\ \E t \in Task: DOMAIN d.config = {t}

\* The snapshot of the run misses no record until the task is listed, and what
\* is left to do then has no record.
Fresh(p) ==
  /\ proc[p].pc \in {"list", "files", "created", "commit"} => proc[p].tasks = {}
  /\ proc[p].pc = "list" \/ (proc[p].pc = "task" /\ proc[p].tasks # {}) => proc[p].snap = KnownNames
  /\ proc[p].pc \in {"files", "created", "commit"} => proc[p].todo \intersect KnownNames = {}
  /\ proc[p].pc \in {"created", "commit"} => proc[p].file \in proc[p].todo

AllFresh == Avoiding(deploy) => \A p \in Proc: Fresh(p)

LEMMA FreshStep == ASSUME OneImport, IInv, AllFresh, [Next]_vars PROVE AllFresh'
<1>0. TypeOK /\ Tasks \subseteq Task /\ \A p \in Proc: proc[p] \in Work
  BY DeployType DEF IInv, TypeOK, Work
<1>1. deploy' = deploy
  BY Moves, Removal, LostRemoval, Commit DEF Upload
<1> SUFFICES ASSUME Avoiding(deploy), NEW q \in Proc PROVE Fresh(q)'
  BY <1>1 DEF AllFresh, Avoiding
<1>2. PICK p \in Proc, t \in Task: deploy.procs = {p} /\ Tasks = {t}
  BY <1>0 DEF OneImport, TypeOK, Tasks
<1>3. \A r \in Proc: Fresh(r)
  BY DEF AllFresh
<1>4. CASE q # p
  <2>1. proc'[q].pc = "idle"
    BY <1>1, <1>2, <1>4, NextInv DEF IInv, OnlyDeployed
  <2> QED BY <2>1 DEF Fresh
<1>5. \A r \in Proc: proc[r].pc # "idle" => r = p
  BY <1>2 DEF IInv, OnlyDeployed
<1>6. rows' = rows => KnownNames' = KnownNames
  BY DEF KnownNames
<1>7. CASE UNCHANGED <<proc, rows>>
  BY <1>3, <1>6, <1>7 DEF Fresh
<1>8. ASSUME NEW tasks \in SUBSET Tasks, Start(q, tasks) PROVE Fresh(q)'
  BY <1>0, <1>6, <1>8 DEF Start, Fresh, TypeOK, Idle
<1>9. ASSUME NextTask(q) PROVE Fresh(q)'
  <2>1. PICK k \in proc[q].tasks:
           proc' = [proc EXCEPT ![q].pc = "list", ![q].task = k, ![q].tasks = @ \ {k}]
    BY <1>9 DEF NextTask
  <2>2. proc[q].tasks \ {k} = {}
    BY <1>2, <2>1 DEF IInv, Shape
  <2>3. proc'[q].pc = "list" /\ proc'[q].tasks = {} /\ proc'[q].snap = proc[q].snap
    BY <1>0, <2>1, <2>2 DEF TypeOK
  <2>4. proc[q].snap = KnownNames /\ rows' = rows
    BY <1>3, <1>9, <2>1 DEF NextTask, Fresh
  <2> QED BY <1>6, <2>3, <2>4 DEF Fresh
<1>10. ASSUME EndRun(q) \/ HandleException(q) \/ Crash(q) \/ FileMissing(q) \/ RemoteError(q) \/ AnswerLost(q)
       PROVE  Fresh(q)'
  <2>1. proc'[q].pc \in {"idle", "raised"}
    BY <1>0, <1>10 DEF EndRun, HandleException, Crash, FileMissing, RemoteError, AnswerLost, Raise, TypeOK, Idle
  <2> QED BY <2>1 DEF Fresh
<1>11. ASSUME get_files(q) PROVE Fresh(q)'
  <2>1. /\ proc'[q].pc = "files" /\ proc'[q].tasks = proc[q].tasks
        /\ proc'[q].todo = filter_duplicates(q, Present(proc[q].task))
    BY <1>0, <1>11 DEF get_files, TypeOK
  <2>2. proc[q].task = t /\ deploy.config[t].avoid_duplicated_files
    BY <1>2, <1>11 DEF get_files, IInv, Shape, Avoiding, Tasks
  <2>3. proc[q].tasks = {} /\ proc[q].snap = KnownNames /\ rows' = rows
    BY <1>3, <1>11 DEF get_files, Fresh
  <2>4. proc'[q].todo \intersect KnownNames = {}
    BY <2>1, <2>2, <2>3 DEF filter_duplicates
  <2> QED BY <1>6, <2>1, <2>3, <2>4 DEF Fresh
<1>12. ASSUME CreateRecord(q) PROVE Fresh(q)'
  <2>1. /\ proc[q].pc = "files" /\ proc'[q].pc = "created" /\ rows' = rows
        /\ proc'[q].tasks = proc[q].tasks /\ proc'[q].todo = proc[q].todo
        /\ proc'[q].file \in proc[q].todo
    BY <1>0, <1>12 DEF CreateRecord, TypeOK, Work
  <2> QED BY <1>3, <1>6, <2>1 DEF Fresh
<1>13. ASSUME manage_file_after_import(q) PROVE Fresh(q)'
  <2>1. /\ proc[q].pc = "created" /\ proc'[q].pc = "commit" /\ rows' = rows
        /\ proc'[q].tasks = proc[q].tasks /\ proc'[q].todo = proc[q].todo
        /\ proc'[q].file = proc[q].file
    BY <1>0, <1>13 DEF manage_file_after_import, ToCommit, TypeOK, Work
  <2> QED BY <1>3, <1>6, <2>1 DEF Fresh
<1>14. ASSUME CommitFile(q) PROVE Fresh(q)'
  <2>1. /\ proc[q].pc = "commit" /\ proc'[q].pc = "files"
        /\ proc'[q].tasks = proc[q].tasks /\ proc'[q].todo = proc[q].todo \ {proc[q].file}
    BY <1>0, <1>14 DEF CommitFile, TypeOK, Work
  <2>2. KnownNames' \subseteq KnownNames \union {proc[q].file}
    <3> SUFFICES ASSUME NEW n \in Name \ {proc[q].file}, NEW k \in Task, NEW v \in Version,
                        rows'[k][n][v] > 0
                 PROVE  rows[k][n][v] > 0
      BY DEF KnownNames
    <3> QED BY <1>14, Commit DEF Committing
  <2> QED BY <1>3, <2>1, <2>2 DEF Fresh
<1>15. ASSUME EndTask(q) PROVE Fresh(q)'
  <2>1. proc'[q].pc = "task" /\ proc'[q].tasks = proc[q].tasks /\ proc[q].pc = "files"
    BY <1>0, <1>15 DEF EndTask, TypeOK, Work
  <2> QED BY <1>3, <2>1 DEF Fresh
<1>16. CASE \E k \in Tasks, n \in Name: Upload(k, n)
  BY <1>7, <1>16 DEF Upload
<1>17. ASSUME NEW r \in Proc,
              \/ \E tasks \in SUBSET Tasks: Start(r, tasks)
              \/ Step(r) \/ RemoteError(r) \/ AnswerLost(r) \/ Crash(r)
       PROVE  r = p
  <2>1. CASE \E tasks \in SUBSET Tasks: Start(r, tasks)
    BY <1>2, <2>1 DEF Start
  <2>2. CASE Step(r) \/ RemoteError(r) \/ AnswerLost(r) \/ Crash(r)
    <3>1. NextTask(r) \/ EndRun(r) \/ get_files(r) \/ CreateRecord(r) => proc[r].pc # "idle"
      BY DEF NextTask, EndRun, get_files, CreateRecord
    <3>2. manage_file_after_import(r) \/ CommitFile(r) \/ EndTask(r) => proc[r].pc # "idle"
      BY DEF manage_file_after_import, CommitFile, EndTask
    <3>3. FileMissing(r) \/ HandleException(r) => proc[r].pc # "idle"
      BY DEF FileMissing, HandleException
    <3>4. RemoteError(r) \/ AnswerLost(r) \/ Crash(r) => proc[r].pc # "idle"
      BY DEF RemoteError, AnswerLost, Crash
    <3> QED BY <1>5, <2>2, <3>1, <3>2, <3>3, <3>4 DEF Step
  <2> QED BY <1>17, <2>1, <2>2
<1>18. CASE q = p
  <2>1. CASE UNCHANGED vars
    BY <1>7, <2>1 DEF vars
  <2>2. CASE \E tasks \in SUBSET Tasks: Start(q, tasks)
    BY <1>8, <2>2
  <2>3. CASE Step(q) \/ RemoteError(q) \/ AnswerLost(q) \/ Crash(q)
    BY <1>9, <1>10, <1>11, <1>12, <1>13, <1>14, <1>15, <2>3 DEF Step
  <2>4. \/ UNCHANGED vars
        \/ \E k \in Tasks, n \in Name: Upload(k, n)
        \/ \E r \in Proc: \/ \E tasks \in SUBSET Tasks: Start(r, tasks)
                         \/ Step(r) \/ RemoteError(r) \/ AnswerLost(r) \/ Crash(r)
    BY DEF Next, run_task_import_scheduler, run
  <2> QED BY <1>16, <1>17, <1>18, <2>1, <2>2, <2>3, <2>4
<1> QED BY <1>4, <1>18

\* A file whose name was imported before is left in its folder, when duplicates
\* are to be avoided and one process imports for one task (run_import).
THEOREM NameImportedOnce == ASSUME OneImport PROVE Spec => NoDuplicateName
<1>1. Init => AllFresh
  BY IdleType DEF Init, AllFresh, Fresh
<1>2. IInv /\ AllFresh /\ [Next]_vars => AllFresh'
  BY FreshStep
<1>3. ASSUME IInv, AllFresh, [Next]_vars
      PROVE  [\A t \in Tasks, n \in Name, v \in Version:
                 deploy.config[t].avoid_duplicated_files /\ rows'[t][n][v] > rows[t][n][v]
                   => n \notin KnownNames]_vars
  <2> SUFFICES ASSUME NEW t \in Tasks, NEW n \in Name, NEW v \in Version,
                      deploy.config[t].avoid_duplicated_files, rows'[t][n][v] > rows[t][n][v]
               PROVE  n \notin KnownNames
    OBVIOUS
  <2>1. TypeOK /\ t \in Task /\ rows[t][n][v] \in Nat
    BY <1>3, DeployType DEF IInv, TypeOK
  <2>2. rows' # rows
    BY <2>1
  <2>3. PICK p \in Proc: CommitFile(p)
    BY <1>3, <2>2, Moves, Removal, LostRemoval DEF Upload
  <2>4. Committing(p, t, n, v)
    BY <1>3, <2>1, <2>3, Commit
  <2>5. Fresh(p)
    BY <1>3 DEF AllFresh, Avoiding, Tasks
  <2> QED BY <2>4, <2>5 DEF Fresh, Committing
<1> QED BY <1>1, <1>2, <1>3, InitInv, NextInv, PTL DEF Spec, NoDuplicateName
==============================================================================
