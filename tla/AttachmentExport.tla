--------------------------- MODULE AttachmentExport ---------------------------
(***************************************************************************)
(* The exports of attachment_synchronize: processing a record writes its   *)
(* file on the remote, which no rollback undoes.  A record is processed by *)
(* a job, by its button, or by the button of its task, which processes all *)
(* pending records in one transaction.                                     *)
(*                                                                         *)
(* Transactions as in AttachmentQueue: each works on a snapshot, and fails *)
(* to lock a row that changed since.                                       *)
(***************************************************************************)
EXTENDS Naturals

CONSTANTS Attachment, Worker,
          FileName, \* the file of each record in the folder of the task
          None,
          MaxAsks,  \* bound: what users ask for
          MaxFaults \* bound: errors of the remote and dead workers

ExportParameters == DOMAIN FileName = Attachment /\ None \notin Attachment

VARIABLES state,  \* committed state of each record
          job,    \* how many jobs wait for each record
          remote, \* the file under each name: of which record, whole or not
          tx,     \* the transaction of each worker
          closed, \* ghost: records that a user set to done
          count

vars == <<state, job, remote, tx, closed, count>>

States == {"absent", "pending", "done", "failed"}
Names == {FileName[a]: a \in Attachment}

Idle == [op |-> "none", pc |-> "idle", todo |-> {}, att |-> None, locked |-> {},
         snap |-> [a \in Attachment |-> "absent"], stale |-> {}, new |-> [a \in {} |-> "done"]]

TypeOK ==
  /\ state \in [Attachment -> States]
  /\ job \in [Attachment -> Nat]
  /\ \A n \in Names: remote[n].of \in Attachment \union {None} /\ remote[n].whole \in BOOLEAN
  /\ \A w \in Worker:
       /\ tx[w].op \in {"none", "job", "manual", "export"}
       /\ tx[w].pc \in {"idle", "next", "locked", "open", "written"}
       /\ DOMAIN tx[w].new \subseteq tx[w].locked
  /\ closed \subseteq Attachment

Init == /\ state = [a \in Attachment |-> "absent"]
        /\ job = [a \in Attachment |-> 0]
        /\ remote = [n \in Names |-> [of |-> None, whole |-> FALSE]]
        /\ tx = [w \in Worker |-> Idle]
        /\ closed = {}
        /\ count = [asks |-> 0, faults |-> 0]

Ask == count.asks < MaxAsks /\ count' = [count EXCEPT !.asks = @ + 1]
Fault == count.faults < MaxFaults /\ count' = [count EXCEPT !.faults = @ + 1]

Free(a) == \A w \in Worker: a \notin tx[w].locked
Stale(S) == [w \in Worker |-> IF tx[w].pc = "idle" THEN Idle ELSE [tx[w] EXCEPT !.stale = @ \union S]]

-----------------------------------------------------------------------------
(* attachment_queue.                                                       *)

create(a) ==
  /\ state[a] = "absent"
  /\ state' = [state EXCEPT ![a] = "pending"]
  /\ job' = [job EXCEPT ![a] = 1]
  /\ UNCHANGED <<remote, tx, closed, count>>

\* A write of a user waits for the lock, and is done again when it conflicts.
UserWrites(a, st) ==
  /\ Ask
  /\ state[a] # "absent" /\ Free(a)
  /\ state' = [state EXCEPT ![a] = st]
  /\ tx' = Stale({a})
  /\ UNCHANGED remote

button_reschedule(a) ==
  /\ UserWrites(a, "pending")
  /\ job' = [job EXCEPT ![a] = @ + 1] /\ closed' = closed \ {a}
set_done(a) == UserWrites(a, "done") /\ closed' = closed \union {a} /\ UNCHANGED job

Begin(w, op, S) ==
  /\ tx[w].pc = "idle"
  /\ tx' = [tx EXCEPT ![w] = [Idle EXCEPT !.op = op, !.pc = "next", !.todo = S, !.snap = state]]
  /\ UNCHANGED <<state, remote, closed>>

StartJob(w, a) ==
  job[a] > 0 /\ Begin(w, "job", {a}) /\ job' = [job EXCEPT ![a] = @ - 1] /\ UNCHANGED count
button_manual_run(w, a) ==
  Ask /\ state[a] # "absent" /\ Begin(w, "manual", {a}) /\ UNCHANGED job

\* The button of the task.
run_export(w) ==
  Ask /\ Begin(w, "export", {a \in Attachment: state[a] = "pending"}) /\ UNCHANGED job

\* Mutant: the record is read without a lock.
CanLock_Always(w, a) == TRUE
CanLock(w, a) == Free(a) /\ a \notin tx[w].stale

Lock(w, a) ==
  /\ tx[w].pc = "next" /\ a \in tx[w].todo
  /\ CanLock(w, a)
  /\ tx' = [tx EXCEPT ![w].locked = @ \union {a}, ![w].todo = @ \ {a}, ![w].att = a,
                      ![w].pc = IF tx[w].snap[a] = "done" THEN "next" ELSE "locked"]
  /\ UNCHANGED <<state, job, remote, closed, count>>

\* Everything since the transaction began is undone, but for the remote; the
\* job of a worker goes back to the queue.
Rollback(w) ==
  /\ tx' = [tx EXCEPT ![w] = Idle]
  /\ job' = IF tx[w].op = "job"
            THEN [a \in Attachment |-> IF a \in tx[w].todo \union tx[w].locked THEN job[a] + 1 ELSE job[a]]
            ELSE job
  /\ UNCHANGED <<state, remote, closed>>

\* The button of a task stops at the first record that another one processes.
Busy(w, a) ==
  /\ tx[w].pc = "next" /\ a \in tx[w].todo
  /\ ~CanLock(w, a)
  /\ Rollback(w) /\ UNCHANGED count

\* What w wrote becomes visible, with written states of its records.
Publish(w, new) ==
  /\ state' = [a \in Attachment |-> IF a \in DOMAIN new THEN new[a] ELSE state[a]]
  /\ closed' = closed \ DOMAIN new
  /\ tx' = [Stale(DOMAIN new) EXCEPT ![w] = Idle]

Commit(w) ==
  /\ tx[w].pc = "next" /\ tx[w].todo = {}
  /\ Publish(w, tx[w].new)
  /\ UNCHANGED <<job, remote, count>>

-----------------------------------------------------------------------------
(* _run of attachment_synchronize, inside run_as_job or run.               *)

Writes(w, st) == [a \in DOMAIN tx[w].new \union {tx[w].att} |->
                    IF a = tx[w].att THEN st ELSE tx[w].new[a]]

\* Opening the file truncates it.
OpenRemote(w) ==
  /\ tx[w].pc = "locked"
  /\ remote' = [remote EXCEPT ![FileName[tx[w].att]] = [of |-> tx[w].att, whole |-> FALSE]]
  /\ tx' = [tx EXCEPT ![w].pc = "open"]
  /\ UNCHANGED <<state, job, closed, count>>

write_file_to_remote(w) ==
  /\ tx[w].pc = "open"
  /\ remote' = [remote EXCEPT ![FileName[tx[w].att]] = [of |-> tx[w].att, whole |-> TRUE]]
  /\ tx' = [tx EXCEPT ![w].pc = "written"]
  /\ UNCHANGED <<state, job, closed, count>>

RunOk(w) ==
  /\ tx[w].pc = "written"
  /\ tx' = [tx EXCEPT ![w].pc = "next", ![w].new = Writes(w, "done")]
  /\ UNCHANGED <<state, job, remote, closed, count>>

\* Mutant: a time-out is logged, and the record done.
TimeoutState_Ignored == "done"
TimeoutState == "failed"

\* TimeoutError: a job commits the failure and is tried again, up to a limit;
\* the button of the task commits what it did and gives up.
Timeout(w) ==
  /\ tx[w].pc \in {"locked", "open"} /\ tx[w].op # "manual"
  /\ Fault
  /\ Publish(w, Writes(w, TimeoutState))
  /\ \/ UNCHANGED job
     \/ tx[w].op = "job" /\ job' = [job EXCEPT ![tx[w].att] = @ + 1]
  /\ UNCHANGED remote

\* Any other error: the failure is written, and the next record follows.
RunFails(w) ==
  /\ tx[w].pc \in {"locked", "open", "written"} /\ tx[w].op # "manual"
  /\ Fault
  /\ tx' = [tx EXCEPT ![w].pc = "next", ![w].new = Writes(w, "failed")]
  /\ UNCHANGED <<state, job, remote, closed>>

\* An error of the button of a record, a time-out or another.
ManualRunFails(w) ==
  tx[w].op = "manual" /\ tx[w].pc \in {"locked", "open", "written"} /\ Fault /\ Rollback(w)
\* A worker dies, or PostgreSQL reports a conflict of what _run does.
Crash(w) == tx[w].pc # "idle" /\ Fault /\ Rollback(w)

Next == \/ \E a \in Attachment: create(a) \/ button_reschedule(a) \/ set_done(a)
        \/ \E w \in Worker:
             \/ \E a \in Attachment: StartJob(w, a) \/ button_manual_run(w, a) \/ Lock(w, a) \/ Busy(w, a)
             \/ run_export(w) \/ Commit(w)
             \/ OpenRemote(w) \/ write_file_to_remote(w) \/ RunOk(w)
             \/ Timeout(w) \/ RunFails(w) \/ ManualRunFails(w) \/ Crash(w)

Spec == Init /\ [][Next]_vars

-----------------------------------------------------------------------------
\* The file of a record that was processed is on the remote, whole, unless
\* another record of that name wrote its own over it: no worker that began
\* before, fails or dies leaves a file in pieces behind a record that is done
\* (run_as_job, run_export, _run).
DoneIsExported ==
  \A a \in Attachment: (state[a] = "done" /\ a \notin closed) =>
    LET file == remote[FileName[a]] IN
    /\ file.of # None
    /\ file.of = a => file.whole

=============================================================================
