----------------------------- MODULE DatabaseBackup -----------------------------
(***************************************************************************)
(* auto_backup: a scheduled action writes a backup for each configuration, *)
(* the local ones first, and then removes the old files of those that      *)
(* succeeded.  Anything that is done to files may fail, and the process    *)
(* may die.                                                                *)
(***************************************************************************)
EXTENDS Naturals, FiniteSets

CONSTANTS Backup,       \* configurations, each with a folder of its own
          Local,        \* those with the method "local"
          Format,       \* the format of each, which is the extension of files
          days_to_keep, \* of each; 0 keeps all
          MaxTime,      \* bound: days
          MaxFaults     \* bound: failures

BackupParameters ==
  /\ Local \subseteq Backup
  /\ Format \in [Backup -> {"zip", "dump"}]
  /\ days_to_keep \in [Backup -> Nat]
  /\ MaxTime \in Nat /\ MaxFaults \in Nat

VARIABLES now,
          files,  \* per folder: time and extension, which are the name, and
                  \* whether all of the database is in it
          run,    \* the run of action_backup
          posted, \* messages of the run, not committed
          told,   \* messages in the chatter of the configurations
          faults

vars == <<now, files, run, posted, told, faults>>

Idle == [pc |-> "idle", todo |-> {}, rec |-> {}, cached |-> FALSE, successful |-> {}]

Init == /\ now = 0
        /\ files = [b \in Backup |-> {}]
        /\ run = Idle
        /\ posted = {} /\ told = {}
        /\ faults = 0

File == [time: 1..MaxTime, ext: {Format[b]: b \in Backup}, whole: BOOLEAN]
Message == [rec: Backup, time: 1..MaxTime, success: BOOLEAN]

TypeOK == /\ now \in 0..MaxTime
          /\ files \in [Backup -> SUBSET File]
          /\ \A b \in Backup: \A f, g \in files[b]: f.time = g.time /\ f.ext = g.ext => f = g
          /\ run \in [pc: {"idle", "backup", "write", "cleanup"}, todo: SUBSET Backup,
                      rec: {{}} \union {{b}: b \in Backup}, cached: BOOLEAN,
                      successful: SUBSET Backup]
          /\ posted \subseteq Message /\ told \subseteq Message
          /\ faults \in 0..MaxFaults

Fault == faults < MaxFaults /\ faults' = faults + 1

-----------------------------------------------------------------------------
\* What opening a file with "wb" leaves of the folder.
Opened(b, whole) ==
  {f \in files[b]: ~(f.time = now /\ f.ext = Format[b])}
    \union {[time |-> now, ext |-> Format[b], whole |-> whole]}

\* All configurations, from the scheduled action, or the one of a form; runs of
\* one folder are a day apart or more.
action_backup(S) ==
  /\ run.pc = "idle"
  /\ now' \in now + 1 .. MaxTime
  /\ run' = [Idle EXCEPT !.pc = "backup", !.todo = S]
  /\ UNCHANGED <<files, posted, told, faults>>

\* Local ones come first.
Turn(b) == /\ run.pc = "backup" /\ b \in run.todo
           /\ b \in Local \/ run.todo \intersect Local = {}

\* The file is created; a remote one once the dump is made and sent for.
open(b) ==
  /\ Turn(b)
  /\ files' = [files EXCEPT ![b] = Opened(b, FALSE)]
  /\ run' = [run EXCEPT !.pc = "write", !.todo = @ \ {b}, !.rec = {b}]
  /\ UNCHANGED <<now, posted, told, faults>>

Post(b, success) == posted' = posted \union {[rec |-> b, time |-> now, success |-> success]}

\* backup_log: the failure of one configuration is logged and told in its
\* chatter, and the next one follows.
BackupFails(b) ==
  /\ \/ Turn(b) /\ Fault
     \/ run.pc = "write" /\ b \in run.rec /\ Fault
     \* The copy of the cached backup reads text, to write it as bytes.
     \/ run.pc = "write" /\ b \in run.rec \intersect Local /\ run.cached /\ UNCHANGED faults
  /\ Post(b, FALSE)
  /\ run' = [run EXCEPT !.pc = "backup", !.todo = @ \ {b}, !.rec = {}]
  /\ UNCHANGED <<now, files, told>>

\* The dump is complete.  The first local one is the cached one from now on.
write(b) ==
  /\ run.pc = "write" /\ b \in run.rec
  /\ ~(b \in Local /\ run.cached)
  /\ files' = [files EXCEPT ![b] = Opened(b, TRUE)]
  /\ Post(b, TRUE)
  /\ run' = [run EXCEPT !.pc = "backup", !.rec = {}, !.cached = @ \/ b \in Local,
                        !.successful = @ \union {b}]
  /\ UNCHANGED <<now, told, faults>>

\* Mutant: all configurations are cleaned up.
ToCleanUp_All == Backup
ToCleanUp == run.successful

StartCleanup ==
  /\ run.pc = "backup" /\ run.todo = {}
  /\ run' = [run EXCEPT !.pc = "cleanup", !.todo = {b \in ToCleanUp: days_to_keep[b] # 0}]
  /\ UNCHANGED <<now, files, posted, told, faults>>

\* Mutant: the last day that is kept goes too.
Old_Today(b) == {f \in files[b]: f.ext = Format[b] /\ f.time + days_to_keep[b] <= now}

\* Names of the extension that are less than the one a backup of that time has.
Old(b) == {f \in files[b]: f.ext = Format[b] /\ f.time + days_to_keep[b] < now}

cleanup(b) ==
  /\ run.pc = "cleanup" /\ b \in run.todo
  /\ files' = [files EXCEPT ![b] = @ \ Old(b)]
  /\ run' = [run EXCEPT !.todo = @ \ {b}]
  /\ UNCHANGED <<now, posted, told, faults>>

\* cleanup_log asks for a message subtype that the module does not have: the
\* error leaves action_backup and its messages are rolled back.
CleanupFails(b) ==
  /\ run.pc = "cleanup" /\ b \in run.todo /\ Fault
  /\ \E some \in SUBSET Old(b): files' = [files EXCEPT ![b] = @ \ some]
  /\ run' = Idle
  /\ posted' = {}
  /\ UNCHANGED <<now, told>>

Commit ==
  /\ run.pc = "cleanup" /\ run.todo = {}
  /\ told' = told \union posted
  /\ posted' = {}
  /\ run' = Idle
  /\ UNCHANGED <<now, files, faults>>

Crash ==
  /\ run.pc # "idle" /\ Fault
  /\ run' = Idle
  /\ posted' = {}
  /\ UNCHANGED <<now, files, told>>

Next == \/ StartCleanup \/ Commit \/ Crash
        \/ \E S \in {Backup} \union {{b}: b \in Backup}: action_backup(S)
        \/ \E b \in Backup: \/ open(b) \/ BackupFails(b) \/ write(b)
                            \/ cleanup(b) \/ CleanupFails(b)

Spec == Init /\ [][Next]_vars

-----------------------------------------------------------------------------
Whole(b) == {f \in files[b]: f.whole}

\* A folder with a complete backup always has one: the cleaning up takes old
\* ones only after a new one succeeded (action_backup, cleanup), however runs
\* fail and on whatever days.
KeepsBackup == \A b \in Backup: Whole(b) # {} => Whole(b)' # {}

\* A backup that the chatter calls successful is complete and there for the
\* days that are kept.
SuccessIsWhole ==
  \A m \in told: m.success =>
    \/ \E f \in Whole(m.rec): f.time = m.time /\ f.ext = Format[m.rec]
    \/ days_to_keep[m.rec] # 0 /\ m.time + days_to_keep[m.rec] < now
=================================================================================
