------------------------------- MODULE AuditLog -------------------------------
(***************************************************************************)
(* What auditlog writes once the methods of a model are patched: a log per *)
(* record and operation, a line per field, and the HTTP request and        *)
(* session that made it.  One web client works on the audited model, its   *)
(* transactions are tried again after a concurrency error, and a scheduled *)
(* action removes old logs.                                                *)
(***************************************************************************)
EXTENDS Naturals, FiniteSets, FiniteSetsExt

CONSTANTS Record, Input,  \* records, and the fields users write
          Main, Computed, \* a stored field computed from the field Main
          Hidden,         \* fields that are excluded, on the blacklist or have
                          \* no ir.model.fields
          Value, False,   \* values of the fields; False is the empty one
          LogType, Capture, \* log types and values of capture_record to try
          MaxOps,         \* bound: operations of the client
          NoRecord

Field == Input \union {Computed}

AuditLogParameters ==
  /\ Main \in Input
  /\ Computed \notin Input
  /\ Hidden \subseteq Field
  /\ False \in Value
  /\ NoRecord \notin [Field -> Value]
  /\ LogType \subseteq {"full", "fast"}
  /\ Capture \subseteq BOOLEAN
  /\ MaxOps \in Nat

VARIABLES rule, \* log type and capture_record of the rule
          db,   \* committed data, logs, requests and sessions
          tx,   \* the same as the open transaction sees it, with the records it
                \* created whose Computed is not in the database yet, or NoRecord
          http, \* auditlog_http_request_id of the web request, 0 when unset
          ops   \* operations so far, which also number rows and transactions

vars == <<rule, db, tx, http, ops>>

Stored == [Field -> Value]

Init == /\ rule \in [type: LogType, capture: Capture]
        /\ db = [data |-> [r \in Record |-> NoRecord], silent |-> {}, logs |-> {},
                 requests |-> {}, sessions |-> {}, purged |-> 0, cleaned |-> 0]
        /\ tx = NoRecord
        /\ http = 0
        /\ ops = 0

Line == [old: Value, new: Value]
Lines == UNION {[F -> Line]: F \in SUBSET Field}
Entry == [id: 1..MaxOps, time: 1..MaxOps, rec: Record, lines: Lines,
          method: {"create", "read", "write", "unlink", "export_data"},
          request: 0..MaxOps, session: 0..MaxOps]
Request == [id: 1..MaxOps, time: 1..MaxOps, session: 0..MaxOps]
Session == [id: 1..MaxOps, time: 1..MaxOps]
Database == [data: [Record -> Stored \union {NoRecord}], silent: SUBSET Record,
             logs: SUBSET Entry, requests: SUBSET Request, sessions: SUBSET Session,
             purged: 0..MaxOps, cleaned: 0..MaxOps]

TypeOK == /\ rule \in [type: LogType, capture: Capture]
          /\ db \in Database
          /\ tx \in [db: Database, start: 1..MaxOps, pending: SUBSET Record] \union {NoRecord}
          /\ http \in 0..MaxOps
          /\ ops \in 0..MaxOps

-----------------------------------------------------------------------------
(* The lines of a log.                                                     *)

\* DictDiffer, on what was read before and after.
added(current, past) == DOMAIN current \ DOMAIN past
changed(current, past) == {f \in DOMAIN current \intersect DOMAIN past: past[f] # current[f]}

EMPTY_DICT == [f \in {} |-> False]

\* Only fields the rule does not exclude and that have a row in
\* ir.model.fields make a line.
LoggedFields(fields) == fields \ Hidden

create_log_line_on_read(values) ==
  [f \in LoggedFields(DOMAIN values) |-> [old |-> values[f], new |-> False]]

create_log_line_on_create(old, new) ==
  [f \in LoggedFields(added(new, old)) |-> [old |-> False, new |-> new[f]]]

\* Mutant: the record is read before what was computed is flushed.
create_log_line_on_write_NoFlush(old, new) ==
  [f \in LoggedFields(changed(new, old)) \ {Computed} |-> [old |-> old[f], new |-> new[f]]]

create_log_line_on_write(old, new) ==
  [f \in LoggedFields(changed(new, old)) |-> [old |-> old[f], new |-> new[f]]]

LinesOf(method, old, new) ==
  CASE method = "create" -> create_log_line_on_create(old, new)
    [] method = "read" -> create_log_line_on_read(old)
    [] method = "write" -> create_log_line_on_write(old, new)
    [] method = "unlink" /\ rule.capture -> create_log_line_on_read(old)
    [] OTHER -> EMPTY_DICT

-----------------------------------------------------------------------------
(* The HTTP request and session a log belongs to.                          *)

\* The latest session of the client, or a new one.
current_http_session(d) ==
  IF d.sessions = {} THEN ops + 1
  ELSE (CHOOSE s \in d.sessions: \A o \in d.sessions: o.id <= s.id).id

\* Mutant: the id that the web request remembers is not verified.
current_http_request_Trusted(d) == IF http # 0 THEN http ELSE ops + 1

\* The row the web request remembers, unless a rollback took it back.
current_http_request(d) ==
  IF \E q \in d.requests: q.id = http THEN http ELSE ops + 1

\* The rows of the request and the session exist, whether a log follows or not.
WithHttp(d) ==
  LET s == current_http_session(d)
      q == current_http_request(d)
  IN  [d EXCEPT
        !.sessions = IF s = ops + 1 THEN @ \union {[id |-> s, time |-> tx.start]} ELSE @,
        !.requests = IF q = ops + 1
                     THEN @ \union {[id |-> q, time |-> tx.start, session |-> s]} ELSE @]

\* create_logs: one log per record that has lines, and for each removed one.
create_logs(d, method, records, old, new) ==
  LET lines == [r \in records |-> LinesOf(method, old[r], new[r])]
      kept == {r \in records: method \in {"unlink", "export_data"} \/ lines[r] # EMPTY_DICT}
  IN  [WithHttp(d) EXCEPT !.logs = @ \union
         {[id |-> ops + 1, time |-> tx.start, rec |-> r, method |-> method,
           lines |-> lines[r], request |-> current_http_request(d),
           session |-> current_http_session(d)]: r \in kept}]

-----------------------------------------------------------------------------
(* The operations on the audited model, inside a transaction.              *)

\* The values after users wrote vals: Computed follows Main.
Recompute(values) == [f \in Field |-> IF f = Computed THEN values[Main] ELSE values[f]]

Empty(records) == [r \in records |-> EMPTY_DICT]

\* An operation of a user whom the rule excludes changes the data only.
Perform(excluded, records, data, pending, logged) ==
  /\ tx # NoRecord
  /\ ops < MaxOps
  /\ ops' = ops + 1
  /\ tx' = [tx EXCEPT
       !.db = IF excluded THEN [tx.db EXCEPT !.data = data, !.silent = @ \union records]
              ELSE [logged EXCEPT !.data = data],
       !.pending = pending]
  /\ http' = IF excluded THEN http ELSE current_http_request(tx.db)
  /\ UNCHANGED <<rule, db>>

Existing == {r \in Record: tx.db.data[r] # NoRecord}

\* What a read finds in a ThrowAwayCache, which recomputes and flushes nothing:
\* Computed is empty until the ORM has flushed it.
InDatabase(values, pending) == IF pending THEN [values EXCEPT ![Computed] = False] ELSE values

\* create_full logs what the database contains, create_fast what was given.
\* The ORM may have computed and flushed Computed by then, or not.
create(r, vals, flushed, excluded) ==
  /\ tx # NoRecord /\ r \notin Existing
  /\ \A e \in tx.db.logs: e.rec # r     \* ids are not used again
  /\ LET values == Recompute([f \in Field |-> IF f \in DOMAIN vals THEN vals[f] ELSE False])
         new == IF rule.type = "full" THEN InDatabase(values, ~flushed) ELSE vals
     IN  Perform(excluded, {r}, [tx.db.data EXCEPT ![r] = values],
                 IF flushed THEN tx.pending \ {r} ELSE tx.pending \union {r},
                 create_logs(tx.db, "create", {r}, Empty({r}), [x \in {r} |-> new]))

read(records) ==
  /\ tx # NoRecord /\ records # {} /\ records \subseteq Existing
  /\ Perform(FALSE, records, tx.db.data, tx.pending,
             create_logs(tx.db, "read", records, tx.db.data, Empty(records)))

\* write_full logs the difference between two reads, with a flush before the
\* second one; write_fast logs the values that were given, when not empty.
write(records, vals, excluded) ==
  /\ tx # NoRecord /\ records # {} /\ records \subseteq Existing
  /\ LET data == [r \in Record |-> IF r \notin records THEN tx.db.data[r]
                   ELSE Recompute([f \in Field |-> IF f \in DOMAIN vals THEN vals[f]
                                                   ELSE tx.db.data[r][f]])]
         fast == rule.type = "fast"
         old == [r \in records |-> IF fast THEN [f \in DOMAIN vals |-> False]
                                   ELSE InDatabase(tx.db.data[r], r \in tx.pending)]
         new == [r \in records |-> IF fast THEN vals ELSE data[r]]
     IN  Perform(excluded, records, data, IF fast THEN tx.pending ELSE tx.pending \ records,
                 create_logs(tx.db, "write", records, old, new))

\* unlink_full reads the records for capture_record, unlink_fast does not.
unlink(records, excluded) ==
  /\ tx # NoRecord /\ records # {} /\ records \subseteq Existing
  /\ LET old == IF rule.type = "full" THEN tx.db.data ELSE Empty(records)
     IN  Perform(excluded, records,
                 [r \in Record |-> IF r \in records THEN NoRecord ELSE tx.db.data[r]],
                 tx.pending \ records,
                 create_logs(tx.db, "unlink", records, old, Empty(records)))

\* One log stands for all records that are exported.
export_data(r) ==
  /\ tx # NoRecord /\ r \in Existing
  /\ Perform(FALSE, {r}, tx.db.data, tx.pending,
             create_logs(tx.db, "export_data", {r}, Empty({r}), Empty({r})))

-----------------------------------------------------------------------------
(* Transactions of the client, and the clean-up.                           *)

Begin == /\ tx = NoRecord
         /\ ops < MaxOps
         /\ tx' = [db |-> db, start |-> ops + 1, pending |-> {}]
         /\ http' = 0
         /\ UNCHANGED <<rule, db, ops>>

Commit == /\ tx # NoRecord
          /\ db' = tx.db
          /\ tx' = NoRecord
          /\ UNCHANGED <<rule, http, ops>>

\* A concurrency error: the server runs the same web request again.
Retry == /\ tx # NoRecord
         /\ ops < MaxOps
         /\ tx' = [db |-> db, start |-> ops + 1, pending |-> {}]
         /\ UNCHANGED <<rule, db, http, ops>>

\* Whatever else the web request does may make the ORM flush.
Flush == /\ tx # NoRecord /\ tx.pending # {}
         /\ tx' = [tx EXCEPT !.pending = {}]
         /\ UNCHANGED <<rule, db, http, ops>>

\* At most chunk of the oldest rows among those made until the deadline.
Oldest(rows, deadline, chunk) ==
  LET old == {x \in rows: x.time <= deadline}
  IN  {K \in SUBSET old: /\ Cardinality(K) = IF Cardinality(old) < chunk
                                             THEN Cardinality(old) ELSE chunk
                         /\ \A x \in K, y \in old \ K: x.time <= y.time}

\* What refers to a row that is removed loses the reference.
Ref(id, gone) == IF \E g \in gone: g.id = id THEN 0 ELSE id
Unlinked(e, Q, S) == [e EXCEPT !.request = Ref(e.request, Q), !.session = Ref(e.session, S)]

\* Logs first, then requests, then sessions.
autovacuum(deadline, chunk) ==
  /\ tx = NoRecord
  /\ \E L \in Oldest(db.logs, deadline, chunk), Q \in Oldest(db.requests, deadline, chunk),
        S \in Oldest(db.sessions, deadline, chunk):
       db' = [db EXCEPT
         !.logs = {Unlinked(e, Q, S): e \in @ \ L},
         !.requests = {[q EXCEPT !.session = Ref(q.session, S)]: q \in @ \ Q},
         !.sessions = @ \ S,
         !.purged = Max({@} \union {e.time: e \in L}),
         !.cleaned = Max({@} \union {q.time: q \in Q})]
  /\ UNCHANGED <<rule, tx, http, ops>>

Vals == UNION {[F -> Value]: F \in SUBSET Input \ {{}}}

Next == \/ \E excluded \in BOOLEAN, vals \in Vals:
             \/ \E r \in Record, flushed \in BOOLEAN: create(r, vals, flushed, excluded)
             \/ \E records \in SUBSET Record: write(records, vals, excluded)
        \/ \E excluded \in BOOLEAN, records \in SUBSET Record: unlink(records, excluded)
        \/ \E records \in SUBSET Record: read(records)
        \/ \E r \in Record: export_data(r)
        \/ Begin \/ Commit \/ Retry \/ Flush
        \/ \E deadline, chunk \in 1..MaxOps: autovacuum(deadline, chunk)

Spec == Init /\ [][Next]_vars

-----------------------------------------------------------------------------
\* The lines about a field of a record, made by changes to it and not removed.
History(r, f) == {e \in db.logs: /\ e.rec = r /\ e.method \in {"create", "write"}
                                 /\ f \in DOMAIN e.lines}

\* A full log of a creation read Computed before the ORM had flushed it.
EmptyAtCreate(e, f) == rule.type = "full" /\ f = Computed /\ e.method = "create" /\ e.lines[f].new = False

\* The log tells the data (_make_create, _make_write): the last line about a
\* field has the value the record has, every value but an empty one has a line
\* until the clean-up removes it, and in a full log each line begins where the
\* one before ended.  A fast log knows what users write, and does not notice
\* that a field was emptied; the full log of a creation may have the computed
\* field as empty; what excluded users do is not known.
LogTellsValues ==
  \A r \in {x \in Record: db.data[x] # NoRecord /\ x \notin db.silent}:
    \A f \in LoggedFields(IF rule.type = "full" THEN Field ELSE Input):
      LET value == db.data[r][f]
          kept == {e \in History(r, f): e.time > db.purged}
          Last(S) == CHOOSE e \in S: \A o \in S: o.id <= e.id
      IN  /\ kept # {} => \/ Last(kept).lines[f].new = value
                          \/ rule.type = "fast" /\ value = False
                          \/ EmptyAtCreate(Last(kept), f)
          /\ db.purged = 0 /\ value # False => kept # {}
          /\ rule.type = "full" => \A e \in kept:
                LET before == {o \in kept: o.id < e.id}
                IN  before # {} => \/ Last(before).lines[f].new = e.lines[f].old
                                   \/ EmptyAtCreate(Last(before), f)

\* A log, and the session of a request, name rows that exist; a log that the
\* clean-up did not reach has a request, although a rollback took back the row
\* that the web request remembers (current_http_request).
LogsHaveRequests ==
  /\ \A e \in db.logs:
       /\ e.request # 0 => \E q \in db.requests: q.id = e.request
       /\ e.session # 0 => \E s \in db.sessions: s.id = e.session
       /\ e.request = 0 => e.time <= db.cleaned
  /\ \A q \in db.requests: q.session # 0 => \E s \in db.sessions: s.id = q.session
==============================================================================
