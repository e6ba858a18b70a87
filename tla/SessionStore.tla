----------------------------- MODULE SessionStore -----------------------------
(***************************************************************************)
(* session_db: HTTP sessions in a table of PostgreSQL, in autocommit, over *)
(* one connection per process.  Every operation is tried again, up to five *)
(* times, when the connection fails, which may be before or after the      *)
(* server has done it.  In the server with threads a lock serialises the   *)
(* operations; worker processes have a connection each and no lock.        *)
(***************************************************************************)
EXTENDS Naturals

CONSTANTS Thread, Sid, Payload, None,
          MaxFaults, \* bound: failures of a connection
          MaxCalls   \* bound: operations

SessionStoreParameters == None \notin Payload /\ None \notin Sid /\ None \notin Thread

VARIABLES mode,   \* "threads" or "workers", never changed
          rows,   \* http_sessions: payload by sid
          old,    \* sids whose write_date is beyond the lifetime
          call,   \* what each thread is doing
          owner,  \* the thread that has the lock
          last,   \* ghost: what the operation that returned last left of a sid
          count   \* faults and calls so far

vars == <<mode, rows, old, call, owner, last, count>>

Idle == [op |-> "none", sid |-> None, payload |-> None, tries |-> 0, pc |-> "idle", then |-> None]

Init == /\ mode \in {"threads", "workers"}
        /\ rows = [s \in Sid |-> None]
        /\ old = {}
        /\ call = [t \in Thread |-> Idle]
        /\ owner = None
        /\ last = rows
        /\ count = [faults |-> 0, calls |-> 0]

\* An operation on a sid; vacuum is on all that are old, delete_from_identifiers on all.  rotate deletes a session
\* and saves it under another sid, which is then.
Call(t, op, sid, payload, then) ==
  /\ call[t].pc = "idle"
  /\ count.calls < MaxCalls
  /\ count' = [count EXCEPT !.calls = @ + 1]
  /\ call' = [call EXCEPT ![t] =
       [op |-> op, sid |-> sid, payload |-> payload, tries |-> 1, pc |-> "call", then |-> then]]
  /\ UNCHANGED <<mode, rows, old, owner, last>>

save(t) == \E s \in Sid, p \in Payload: Call(t, "save", s, p, None)
delete(t) == \E s \in Sid: Call(t, "delete", s, None, None)
get(t) == \E s \in Sid: Call(t, "get", s, None, None)
vacuum(t) == \E s \in Sid: Call(t, "vacuum", s, None, None)
delete_from_identifiers(t) == \E s \in Sid: Call(t, "identifiers", s, None, None)
rotate(t) == \E s, u \in Sid: s # u /\ rows[s] # None /\ Call(t, "delete", s, rows[s], u)

\* Mutant: the lock is not held while an operation runs.
with_lock_Not(t) == mode = "threads" /\ owner = None /\ UNCHANGED owner
\* The lock is kept over all tries of an operation.
with_lock(t) == mode = "threads" /\ owner = None /\ owner' = t

Begin(t) ==
  /\ call[t].pc = "call"
  /\ with_lock(t) \/ (mode = "workers" /\ UNCHANGED owner)
  /\ call' = [call EXCEPT ![t].pc = "run"]
  /\ UNCHANGED <<mode, rows, old, last, count>>

\* What the statement of an operation does to the table.
Effect(c) ==
  CASE c.op = "save" -> [rows EXCEPT ![c.sid] = c.payload]
    [] c.op = "delete" -> [rows EXCEPT ![c.sid] = None]
    [] c.op = "get" -> rows
    [] c.op = "vacuum" -> [s \in Sid |-> IF s \in old THEN None ELSE rows[s]]
    [] c.op = "identifiers" -> [s \in Sid |-> None]

Execute(c) ==
  /\ rows' = Effect(c)
  /\ old' = {s \in old: rows'[s] # None /\ (c.op = "save" => s # c.sid)}

\* A statement that succeeds; get keeps the payload, None being a new session.
Statement(t) ==
  /\ call[t].pc = "run"
  /\ Execute(call[t])
  /\ call' = [call EXCEPT ![t].pc = "done",
                          ![t].payload = IF call[t].op = "get" THEN rows[call[t].sid] ELSE @]
  /\ UNCHANGED <<mode, owner, last, count>>

\* The connection fails before the server has the statement, or after; a new
\* one is opened and the operation tried again, five times in all, unless the
\* pool of connections is full: that error (PoolError) is not caught.  Of the
\* deletions of delete_from_identifiers, some may have been done (the first).
with_cursor(t) ==
  /\ call[t].pc = "run"
  /\ count.faults < MaxFaults
  /\ count' = [count EXCEPT !.faults = @ + 1]
  /\ \/ Execute(call[t])
     \/ UNCHANGED <<rows, old>>
     \/ call[t].op = "identifiers" /\ Execute([call[t] EXCEPT !.op = "delete"])
  /\ \/ /\ call' = [call EXCEPT ![t] = Idle]
        /\ owner' = IF owner = t THEN None ELSE owner
        /\ last' = rows'
     \/ /\ call[t].tries <= 4
        /\ call' = [call EXCEPT ![t].tries = @ + 1]
        /\ UNCHANGED <<owner, last>>
  /\ UNCHANGED mode

\* The operation returns; rotate goes on with the session under its new sid.
Return(t) ==
  LET c == call[t] IN
  /\ c.pc = "done"
  /\ owner' = IF owner = t THEN None ELSE owner
  /\ last' = CASE c.op = "save" -> [last EXCEPT ![c.sid] = c.payload]
               [] c.op = "delete" -> [last EXCEPT ![c.sid] = None]
               [] c.op = "get" -> last
               [] c.op \in {"vacuum", "identifiers"} -> rows
  /\ call' = [call EXCEPT ![t] =
       IF c.then = None THEN Idle
       ELSE [Idle EXCEPT !.op = "save", !.sid = c.then, !.payload = c.payload, !.tries = 1, !.pc = "call"]]
  /\ UNCHANGED <<mode, rows, old, count>>

\* Time: a session passes its lifetime.
Expire(s) ==
  /\ rows[s] # None /\ s \notin old
  /\ old' = old \union {s}
  /\ UNCHANGED <<mode, rows, call, owner, last, count>>

Step(t) == Begin(t) \/ Statement(t) \/ Return(t)

Next == \/ \E t \in Thread: \/ save(t) \/ delete(t) \/ get(t) \/ vacuum(t) \/ rotate(t)
                            \/ delete_from_identifiers(t)
                            \/ Step(t) \/ with_cursor(t)
        \/ \E s \in Sid: Expire(s)

Spec == Init /\ [][Next]_vars

-----------------------------------------------------------------------------
TypeOK ==
  /\ mode \in {"threads", "workers"}
  /\ rows \in [Sid -> Payload \union {None}]
  /\ old \subseteq {s \in Sid: rows[s] # None}
  /\ \A t \in Thread: call[t].tries \in 0 .. 5 /\ call[t].pc \in {"idle", "call", "run", "done"}
  /\ owner \in Thread \union {None}

\* With threads, a request reads what the save, the deletion or the cleaning
\* that returned last has left of its session: an operation that is tried again
\* after the server has already done it does not undo one that came after it,
\* because the lock is held from the first try to the last.
LastReturnedIsRead ==
  mode = "threads" =>
    \A t \in Thread: call[t].pc = "done" /\ call[t].op = "get" => call[t].payload = last[call[t].sid]

=============================================================================
