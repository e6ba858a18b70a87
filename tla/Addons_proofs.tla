------------------------------ MODULE Addons_proofs ------------------------------
(***************************************************************************)
(* The theorems about the components of Addons, for any values of the      *)
(* constants.  First, as in AddonsRecords_proofs, the parts whose steps span *)
(* transactions, a server or files; then the specification of them all.    *)
(***************************************************************************)
EXTENDS AddonsRecords_proofs

-----------------------------------------------------------------------------
(***************************************************************************)
(* auditlog: ids order logs in time, every log is true of the values at    *)
(* its time, and the rows of a transaction are those of the database or    *)
(* its own.                                                                *)
(***************************************************************************)
DatabaseFields == {"data", "silent", "logs", "requests", "sessions", "purged", "cleaned"}
EntryFields == {"id", "time", "rec", "lines", "method", "request", "session"}

\* The lines about a field of a record that the clean-up did not reach.
Kept(d, r, f) ==
  {e \in d.logs: /\ e.rec = r /\ e.method \in {"create", "write"}
                 /\ f \in DOMAIN e.lines /\ e.time > d.purged}

\* A full log of a creation that has the computed field f as empty.
Unread(type, e, f) ==
  type = "full" /\ f = Computed /\ e.method = "create" /\ e.lines[f].new = False

\* LogTellsValues of one field of one record of d, without Last.
TellsValue(type, d, r, f) ==
  /\ \A e \in Kept(d, r, f):
       (\A o \in Kept(d, r, f): o.id <= e.id) =>
         \/ e.lines[f].new = d.data[r][f]
         \/ type = "fast" /\ d.data[r][f] = False
         \/ Unread(type, e, f)
  /\ (d.purged = 0 /\ d.data[r][f] # False) => Kept(d, r, f) # {}
  /\ type = "full" =>
       \A e, b \in Kept(d, r, f):
         (b.id < e.id /\ \A o \in Kept(d, r, f): o.id < e.id => o.id <= b.id) =>
           b.lines[f].new = e.lines[f].old \/ Unread(type, b, f)

LoggedOf(type) == Audit!LoggedFields(IF type = "full" THEN Audit!Field ELSE Input)

\* The rows of d have ids up to n.  Of two logs, the one with the smaller id is
\* no later than the other, and neither is a log than its request.
RowsOK(d, n) ==
  /\ DOMAIN d = DatabaseFields
  /\ d.purged \in 0..n /\ d.cleaned \in 0..n
  /\ \A e \in d.logs: /\ DOMAIN e = EntryFields
                      /\ e.id \in 1..n /\ e.time \in 1..e.id /\ e.request \in Nat /\ e.session \in Nat
  /\ \A e, o \in d.logs: e.id < o.id => e.time <= o.time
  /\ \A q \in d.requests: /\ DOMAIN q = {"id", "time", "session"}
                          /\ q.id \in 1..n /\ q.time \in 1..q.id /\ q.session \in Nat
  /\ \A s \in d.sessions: DOMAIN s = {"id", "time"} /\ s.id \in 1..n /\ s.time \in 1..s.id

HaveRequests(d) ==
  /\ \A e \in d.logs:
       /\ e.request # 0 => \E q \in d.requests: q.id = e.request
       /\ e.session # 0 => \E s \in d.sessions: s.id = e.session
       /\ e.request = 0 => e.time <= d.cleaned
       /\ \A q \in d.requests: q.id = e.request => e.time <= q.time
  /\ \A q \in d.requests: q.session # 0 => \E s \in d.sessions: s.id = q.session

\* Records, with their values of all fields, and what is logged of them.
TellsData(type, d) ==
  /\ DOMAIN d.data = Logged
  /\ \A r \in Logged:
       d.data[r] # None =>
         /\ d.data[r] \in Audit!Stored
         /\ r \notin d.silent => \A f \in LoggedOf(type): TellsValue(type, d, r, f)

\* Of the records P that the database has without their Computed, no log knows it.
PendingOK(type, d, P) ==
  type = "full" => \A r \in P: \A e \in Kept(d, r, Computed): Unread(type, e, Computed)

\* In a transaction every row is made at its start, after the rows that were
\* there before, and the web request remembers no row but one that it made.
AuditInd ==
  /\ rule.type \in {"full", "fast"}
  /\ ops \in Nat /\ http \in 0..ops
  /\ RowsOK(db, ops) /\ HaveRequests(db) /\ TellsData(rule.type, db)
  /\ tx # None =>
       /\ DOMAIN tx = {"db", "start", "pending"}
       /\ tx.start \in 1..(ops + 1)
       /\ PendingOK(rule.type, tx.db, tx.pending)
       /\ RowsOK(tx.db, ops) /\ HaveRequests(tx.db) /\ TellsData(rule.type, tx.db)
       /\ tx.db.purged < tx.start
       /\ \A e \in tx.db.logs: e.time <= tx.start
       /\ \A q \in db.requests: q.id # http
       /\ \A q \in tx.db.requests: q.id = http => q.time = tx.start

\* The last of some logs.
LEMMA LastLog ==
  ASSUME NEW d, NEW n \in Nat, RowsOK(d, n), NEW S \in SUBSET d.logs, S # {}
  PROVE  \E e \in S: \A o \in S: o.id <= e.id
<1> DEFINE I == {e.id: e \in S}
<1>1. I \in SUBSET Nat /\ I # {} /\ \A i \in I: i <= n
  BY DEF RowsOK
<1>2. PICK i \in I: \A j \in I: j <= i
  BY <1>1, LargestOfBounded
<1> QED
  BY <1>2

LEMMA AuditIndMeans ==
  ASSUME AuditInd PROVE Audit!LogTellsValues /\ Audit!LogsHaveRequests
<1>1. Audit!LogsHaveRequests
  BY DEF AuditInd, HaveRequests, Audit!LogsHaveRequests
<1>2. Audit!LogTellsValues
  <2> DEFINE Last(S) == CHOOSE e \in S: \A o \in S: o.id <= e.id
             keptOf(r, f) == {e \in Audit!History(r, f): e.time > db.purged}
             TellsOf(r, f) ==
               /\ keptOf(r, f) # {} => \/ Last(keptOf(r, f)).lines[f].new = db.data[r][f]
                                       \/ rule.type = "fast" /\ db.data[r][f] = False
                                       \/ Audit!EmptyAtCreate(Last(keptOf(r, f)), f)
               /\ db.purged = 0 /\ db.data[r][f] # False => keptOf(r, f) # {}
               /\ rule.type = "full" => \A e \in keptOf(r, f):
                     {o \in keptOf(r, f): o.id < e.id} # {} =>
                       \/ Last({o \in keptOf(r, f): o.id < e.id}).lines[f].new = e.lines[f].old
                       \/ Audit!EmptyAtCreate(Last({o \in keptOf(r, f): o.id < e.id}), f)
  <2>1. ASSUME NEW r \in Logged, db.data[r] # None, r \notin db.silent, NEW f \in LoggedOf(rule.type)
        PROVE TellsOf(r, f)
    <3>1. keptOf(r, f) = Kept(db, r, f)
      BY DEF Kept, Audit!History
    <3>2. TellsValue(rule.type, db, r, f)
      BY <2>1 DEF AuditInd, TellsData
    <3>3. ASSUME NEW S \in SUBSET db.logs, S # {} PROVE Last(S) \in S /\ \A o \in S: o.id <= Last(S).id
      BY <3>3, LastLog DEF AuditInd
    <3>4. Kept(db, r, f) \in SUBSET db.logs
      BY DEF Kept
    <3> DEFINE K == Kept(db, r, f)
    <3>5. keptOf(r, f) = K
      BY <3>1
    <3> HIDE DEF Last, keptOf, K
    <3>6. K # {} => \/ Last(K).lines[f].new = db.data[r][f]
                    \/ rule.type = "fast" /\ db.data[r][f] = False
                    \/ Audit!EmptyAtCreate(Last(K), f)
      BY <3>2, <3>3, <3>4 DEF TellsValue, Unread, Audit!EmptyAtCreate, K
    <3>7. ASSUME rule.type = "full", NEW e \in K, {o \in K: o.id < e.id} # {}
          PROVE  \/ Last({o \in K: o.id < e.id}).lines[f].new = e.lines[f].old
                 \/ Audit!EmptyAtCreate(Last({o \in K: o.id < e.id}), f)
      <4> DEFINE B == {o \in K: o.id < e.id}
      <4>1. B \in SUBSET db.logs /\ B # {}
        BY <3>4, <3>7 DEF K
      <4>2. Last(B) \in B /\ \A o \in B: o.id <= Last(B).id
        BY <3>3, <4>1
      <4>3. Last(B) \in K /\ Last(B).id < e.id /\ \A o \in K: o.id < e.id => o.id <= Last(B).id
        BY <4>2
      <4> QED
        BY <3>2, <3>7, <4>3 DEF TellsValue, Unread, Audit!EmptyAtCreate, K
    <3>8. db.purged = 0 /\ db.data[r][f] # False => K # {}
      BY <3>2 DEF TellsValue, K
    <3> QED
      BY <3>5, <3>6, <3>7, <3>8
  <2> HIDE DEF TellsOf
  <2>2. \A r \in {x \in Logged: db.data[x] # None /\ x \notin db.silent}:
          \A f \in Audit!LoggedFields(IF rule.type = "full" THEN Audit!Field ELSE Input): TellsOf(r, f)
    BY <2>1 DEF LoggedOf
  <2> QED
    BY <2>2 DEF Audit!LogTellsValues, TellsOf
<1> QED
  BY <1>1, <1>2

LEMMA SessionOfLog ==
  ASSUME AuditInd, tx # None
  PROVE  \/ tx.db.sessions = {} /\ Audit!current_http_session(tx.db) = ops + 1
         \/ \E s \in tx.db.sessions: s.id = Audit!current_http_session(tx.db)
<1> DEFINE S == tx.db.sessions
           Newest == CHOOSE s \in S: \A o \in S: o.id <= s.id
<1>1. RowsOK(tx.db, ops) /\ ops \in Nat
  BY DEF AuditInd
<1>2. CASE S # {}
  <2> DEFINE I == {s.id: s \in S}
  <2>1. I \in SUBSET Nat /\ I # {} /\ \A i \in I: i <= ops
    BY <1>1, <1>2 DEF RowsOK
  <2>2. PICK i \in I: \A j \in I: j <= i
    BY <1>1, <2>1, LargestOfBounded
  <2>3. \E s \in S: \A o \in S: o.id <= s.id
    BY <2>2
  <2>4. Newest \in S
    BY <2>3
  <2>5. Audit!current_http_session(tx.db) = Newest.id
    BY <1>2 DEF Audit!current_http_session
  <2> HIDE DEF Newest
  <2> QED
    BY <2>4, <2>5
<1>3. CASE S = {}
  BY <1>3 DEF Audit!current_http_session
<1> QED
  BY <1>2, <1>3

\* The rows of the request and the session of a log.
LEMMA RequestOfLog ==
  ASSUME AuditInd, tx # None
  PROVE  LET h == Audit!WithHttp(tx.db)
             q == Audit!current_http_request(tx.db)
             s == Audit!current_http_session(tx.db)
         IN /\ RowsOK(h, ops + 1) /\ HaveRequests(h)
            /\ h.data = tx.db.data /\ h.silent = tx.db.silent /\ h.logs = tx.db.logs
            /\ h.purged = tx.db.purged /\ h.cleaned = tx.db.cleaned
            /\ q \in 1..(ops + 1) /\ s \in 1..(ops + 1)
            /\ q = http \/ q = ops + 1
            /\ \E x \in h.requests: x.id = q
            /\ \A x \in h.requests: x.id = q => x.time = tx.start
            /\ \E x \in h.sessions: x.id = s
<1> DEFINE d == tx.db
           h == Audit!WithHttp(d)
           q == Audit!current_http_request(d)
           s == Audit!current_http_session(d)
           S == [id |-> s, time |-> tx.start]
           Q == [id |-> q, time |-> tx.start, session |-> s]
<1>1. /\ RowsOK(d, ops) /\ HaveRequests(d) /\ ops \in Nat /\ tx.start \in 1..(ops + 1)
      /\ \A x \in d.requests: x.id = http => x.time = tx.start
  BY DEF AuditInd
<1>2. \/ d.sessions = {} /\ s = ops + 1
      \/ \E x \in d.sessions: x.id = s
  BY SessionOfLog
<1>3. \/ q = http /\ \E x \in d.requests: x.id = q
      \/ q = ops + 1
  BY DEF Audit!current_http_request
<1>4. h = [d EXCEPT !.sessions = IF s = ops + 1 THEN d.sessions \union {S} ELSE d.sessions,
                    !.requests = IF q = ops + 1 THEN d.requests \union {Q} ELSE d.requests]
  BY DEF Audit!WithHttp
<1>5. /\ DOMAIN S = {"id", "time"} /\ S.id = s /\ S.time = tx.start
      /\ DOMAIN Q = {"id", "time", "session"} /\ Q.id = q /\ Q.time = tx.start /\ Q.session = s
  OBVIOUS
<1> HIDE DEF h, q, s, S, Q
<1>6. /\ DOMAIN h = DatabaseFields
      /\ h.data = d.data /\ h.silent = d.silent /\ h.logs = d.logs
      /\ h.purged = d.purged /\ h.cleaned = d.cleaned
      /\ h.sessions = IF s = ops + 1 THEN d.sessions \union {S} ELSE d.sessions
      /\ h.requests = IF q = ops + 1 THEN d.requests \union {Q} ELSE d.requests
  BY <1>1, <1>4 DEF RowsOK, DatabaseFields
<1> HIDE DEF d
<1>7. s \in 1..(ops + 1) /\ \E x \in h.sessions: x.id = s
  BY <1>1, <1>2, <1>5, <1>6 DEF RowsOK
<1>8. q \in 1..(ops + 1) /\ \E x \in h.requests: x.id = q
  BY <1>1, <1>3, <1>5, <1>6 DEF RowsOK
<1>9. \A x \in h.requests: x.id = q => x.time = tx.start
  BY <1>1, <1>3, <1>5, <1>6 DEF RowsOK
<1>10. RowsOK(h, ops + 1)
  <2>1. \A x \in h.requests: /\ DOMAIN x = {"id", "time", "session"}
                             /\ x.id \in 1..(ops + 1) /\ x.time \in 1..x.id /\ x.session \in Nat
    BY <1>1, <1>5, <1>6, <1>7 DEF RowsOK
  <2>2. \A x \in h.sessions: DOMAIN x = {"id", "time"} /\ x.id \in 1..(ops + 1) /\ x.time \in 1..x.id
    BY <1>1, <1>5, <1>6 DEF RowsOK
  <2> QED
    BY <1>1, <1>6, <2>1, <2>2 DEF RowsOK
<1>11. HaveRequests(h)
  <2>1. \A x \in h.requests: x \in d.requests \/ (x = Q /\ q = ops + 1)
    BY <1>6
  <2>2. \A e \in d.logs: e.request # ops + 1
    BY <1>1 DEF RowsOK, HaveRequests
  <2>3. d.requests \subseteq h.requests /\ d.sessions \subseteq h.sessions
    BY <1>6
  <2>4. \A e \in h.logs: \A x \in h.requests: x.id = e.request => e.time <= x.time
    BY <1>1, <1>5, <1>6, <2>1, <2>2 DEF HaveRequests
  <2>5. \A x \in h.requests: x.session # 0 => \E y \in h.sessions: y.id = x.session
    BY <1>1, <1>5, <1>7, <2>1, <2>3 DEF HaveRequests
  <2> QED
    BY <1>1, <1>6, <2>3, <2>4, <2>5 DEF HaveRequests
<1>12. q = http \/ q = ops + 1
  BY <1>3
<1> QED
  BY <1>6, <1>7, <1>8, <1>9, <1>10, <1>11, <1>12 DEF d, h, q, s

\* N are the logs that one operation makes.
Made(N, method, records, before, after) ==
  /\ \A x \in N: /\ DOMAIN x = EntryFields
                 /\ x.id = ops + 1 /\ x.time = tx.start /\ x.rec \in records /\ x.method = method
                 /\ x.lines = Audit!LinesOf(method, before[x.rec], after[x.rec])
                 /\ x.request = Audit!current_http_request(tx.db)
                 /\ x.session = Audit!current_http_session(tx.db)
  /\ \A r \in records: Audit!LinesOf(method, before[r], after[r]) # Audit!EMPTY_DICT => \E x \in N: x.rec = r

WithData(c, data) == [c EXCEPT !.data = data]

LEMMA LogsCreated ==
  ASSUME AuditInd, tx # None, NEW method, NEW records, NEW before, NEW after, NEW data, NEW e,
         e = WithData(Audit!create_logs(tx.db, method, records, before, after), data)
  PROVE  \E N:
           /\ RowsOK(e, ops + 1) /\ HaveRequests(e)
           /\ e.data = data /\ e.silent = tx.db.silent /\ e.purged = tx.db.purged
           /\ e.logs = tx.db.logs \union N /\ Made(N, method, records, before, after)
           /\ \A q \in e.requests: q.id = Audit!current_http_request(tx.db) => q.time = tx.start
<1> DEFINE h == Audit!WithHttp(tx.db)
           linesOf == [r \in records |-> Audit!LinesOf(method, before[r], after[r])]
           chosen == {r \in records: method \in {"unlink", "export_data"} \/ linesOf[r] # Audit!EMPTY_DICT}
           Entry(r) == [id |-> ops + 1, time |-> tx.start, rec |-> r, method |-> method,
                        lines |-> linesOf[r], request |-> Audit!current_http_request(tx.db),
                        session |-> Audit!current_http_session(tx.db)]
           N == {Entry(r): r \in chosen}
           c == Audit!create_logs(tx.db, method, records, before, after)
<1>0. e = [c EXCEPT !.data = data]
  BY DEF WithData
<1>1. c = [h EXCEPT !.logs = h.logs \union N]
  BY DEF Audit!create_logs
<1>2. \A r \in chosen: /\ DOMAIN Entry(r) = EntryFields
                     /\ Entry(r).id = ops + 1 /\ Entry(r).time = tx.start /\ Entry(r).rec = r /\ Entry(r).method = method
                     /\ Entry(r).lines = Audit!LinesOf(method, before[r], after[r])
                     /\ Entry(r).request = Audit!current_http_request(tx.db)
                     /\ Entry(r).session = Audit!current_http_session(tx.db)
  BY DEF EntryFields
<1>3. \A r \in records: Audit!LinesOf(method, before[r], after[r]) # Audit!EMPTY_DICT => r \in chosen
  OBVIOUS
<1>4. chosen \subseteq records
  OBVIOUS
<1> HIDE DEF c, Entry, chosen, linesOf
<1>5. Made(N, method, records, before, after)
  BY <1>2, <1>3, <1>4 DEF Made
<1> HIDE DEF N, h
<1>6. /\ RowsOK(h, ops + 1) /\ HaveRequests(h)
      /\ h.data = tx.db.data /\ h.silent = tx.db.silent /\ h.logs = tx.db.logs
      /\ h.purged = tx.db.purged /\ h.cleaned = tx.db.cleaned
      /\ Audit!current_http_request(tx.db) \in 1..(ops + 1) /\ Audit!current_http_session(tx.db) \in 1..(ops + 1)
      /\ \E x \in h.requests: x.id = Audit!current_http_request(tx.db)
      /\ \A x \in h.requests: x.id = Audit!current_http_request(tx.db) => x.time = tx.start
      /\ \E x \in h.sessions: x.id = Audit!current_http_session(tx.db)
  BY RequestOfLog DEF h
<1>7. /\ DOMAIN e = DatabaseFields
      /\ e.data = data /\ e.silent = h.silent /\ e.logs = h.logs \union N
      /\ e.purged = h.purged /\ e.cleaned = h.cleaned
      /\ e.requests = h.requests /\ e.sessions = h.sessions
  BY <1>0, <1>1, <1>6 DEF RowsOK, DatabaseFields
<1>8. /\ RowsOK(tx.db, ops) /\ ops \in Nat /\ tx.start \in 1..(ops + 1)
      /\ \A x \in tx.db.logs: x.time <= tx.start
  BY DEF AuditInd
<1>9. RowsOK(e, ops + 1)
  <2>1. \A x \in e.logs: /\ DOMAIN x = EntryFields
                         /\ x.id \in 1..(ops + 1) /\ x.time \in 1..x.id /\ x.request \in Nat /\ x.session \in Nat
    BY <1>5, <1>6, <1>7, <1>8 DEF RowsOK, Made
  <2>2. ASSUME NEW x \in e.logs, NEW y \in e.logs, x.id < y.id PROVE x.time <= y.time
    <3>1. CASE y \in N
      <4>1. x \in tx.db.logs \/ x \in N
        BY <1>6, <1>7
      <4>2. y.time = tx.start /\ y.id = ops + 1
        BY <3>1, <1>5 DEF Made
      <4>3. CASE x \in N
        BY <4>3, <4>2, <2>2, <1>5, <1>8 DEF Made
      <4>4. CASE x \in tx.db.logs
        BY <4>2, <4>4, <1>8
      <4> QED
        BY <4>1, <4>3, <4>4
    <3>2. CASE y \notin N
      <4>1. y \in tx.db.logs
        BY <1>6, <1>7, <3>2
      <4>2. y.id <= ops /\ y.id \in Nat
        BY <1>8, <4>1 DEF RowsOK
      <4>3. x \notin N
        BY <1>5, <1>8, <2>2, <4>2 DEF Made
      <4>4. x \in tx.db.logs
        BY <1>6, <1>7, <4>3
      <4> QED
        BY <1>8, <2>2, <4>1, <4>4 DEF RowsOK
    <3> QED
      BY <3>1, <3>2
  <2> QED
    BY <1>6, <1>7, <2>1, <2>2 DEF RowsOK
<1>10. HaveRequests(e)
  <2>1. ASSUME NEW x \in e.logs
        PROVE /\ x.request # 0 => \E q \in e.requests: q.id = x.request
              /\ x.session # 0 => \E s \in e.sessions: s.id = x.session
              /\ x.request = 0 => x.time <= e.cleaned
              /\ \A q \in e.requests: q.id = x.request => x.time <= q.time
    <3>1. CASE x \in N
      <4>1. /\ x.request = Audit!current_http_request(tx.db) /\ x.session = Audit!current_http_session(tx.db)
            /\ x.time = tx.start
        BY <1>5, <3>1 DEF Made
      <4> QED
        BY <4>1, <1>6, <1>7, <1>8
    <3>2. CASE x \in h.logs
      BY <1>6, <1>7, <3>2 DEF HaveRequests
    <3> QED
      BY <1>7, <3>1, <3>2
  <2> QED
    BY <2>1, <1>6, <1>7 DEF HaveRequests
<1>11. /\ RowsOK(e, ops + 1) /\ HaveRequests(e)
       /\ e.data = data /\ e.silent = tx.db.silent /\ e.purged = tx.db.purged
       /\ e.logs = tx.db.logs \union N /\ Made(N, method, records, before, after)
       /\ \A q \in e.requests: q.id = Audit!current_http_request(tx.db) => q.time = tx.start
  BY <1>5, <1>6, <1>7, <1>9, <1>10
<1> QED
  BY <1>11

Lined(N, r, f) == {x \in N: x.rec = r /\ x.method \in {"create", "write"} /\ f \in DOMAIN x.lines}

\* The rows of d follow those of the open transaction.
Follows(d, N) ==
  /\ d.logs = tx.db.logs \union N /\ d.purged = tx.db.purged
  /\ \A x \in N: x.id = ops + 1 /\ x.time = tx.start

\* All that is kept of the field is a creation that did not read it.
AllUnread(type, r, f) == type = "full" /\ \A e \in Kept(tx.db, r, f): Unread(type, e, f)

LEMMA UntouchedIsTold ==
  ASSUME NEW type, NEW d, NEW N, Follows(d, N), NEW r, NEW f, Lined(N, r, f) = {},
         TellsValue(type, tx.db, r, f),
         d.data[r][f] = tx.db.data[r][f] \/ (AllUnread(type, r, f) /\ d.data[r][f] = False)
  PROVE  TellsValue(type, d, r, f)
<1>1. Kept(d, r, f) = Kept(tx.db, r, f) /\ d.purged = tx.db.purged
  BY DEF Follows, Kept, Lined
<1>2. CASE d.data[r][f] = tx.db.data[r][f]
  BY <1>1, <1>2 DEF TellsValue
<1>3. CASE AllUnread(type, r, f) /\ d.data[r][f] = False
  BY <1>1, <1>3 DEF TellsValue, AllUnread
<1> QED
  BY <1>2, <1>3

LEMMA EmptiedIsTold ==
  ASSUME NEW d, NEW r, NEW f, d.data[r][f] = False
  PROVE  TellsValue("fast", d, r, f)
  BY DEF TellsValue

LEMMA LinedIsTold ==
  ASSUME AuditInd, tx # None, NEW type, NEW d, NEW N, Follows(d, N), NEW r, NEW f, Lined(N, r, f) # {},
         \A x \in Lined(N, r, f): x.lines[f].new = d.data[r][f] \/ Unread(type, x, f),
         type = "full" => \/ Kept(tx.db, r, f) = {}
                          \/ /\ TellsValue(type, tx.db, r, f)
                             /\ \/ AllUnread(type, r, f)
                                \/ \A x \in Lined(N, r, f): x.lines[f].old = tx.db.data[r][f]
  PROVE  TellsValue(type, d, r, f)
<1> DEFINE K == Kept(tx.db, r, f)
           L == Lined(N, r, f)
<1>1. /\ tx.db.purged \in Nat /\ tx.start \in Nat /\ tx.db.purged < tx.start /\ ops \in Nat
      /\ \A e \in K: e.id \in 1..ops
  BY DEF AuditInd, RowsOK, Kept
<1>2. Kept(d, r, f) = K \union L
  BY <1>1 DEF Follows, Kept, Lined
<1>3. \A x \in L: x.id = ops + 1
  BY DEF Follows, Lined
<1> HIDE DEF K, L
<1>4. L # {} /\ \A x \in L: x.lines[f].new = d.data[r][f] \/ Unread(type, x, f)
  BY DEF L
<1>5. \A e \in K \union L: (\A o \in K \union L: o.id <= e.id) =>
        e.lines[f].new = d.data[r][f] \/ Unread(type, e, f)
  BY <1>1, <1>3, <1>4
<1>6. ASSUME type = "full", NEW e \in K \union L, NEW b \in K \union L,
             b.id < e.id, \A o \in K \union L: o.id < e.id => o.id <= b.id
      PROVE  b.lines[f].new = e.lines[f].old \/ Unread(type, b, f)
  <2>1. b \in K
    BY <1>1, <1>3, <1>6
  <2>2. /\ TellsValue(type, tx.db, r, f)
        /\ AllUnread(type, r, f) \/ \A x \in L: x.lines[f].old = tx.db.data[r][f]
    BY <1>6, <2>1 DEF K, L
  <2>3. CASE e \in K
    BY <1>6, <2>1, <2>2, <2>3 DEF TellsValue, K
  <2>4. CASE e \in L
    <3>1. \A o \in K: o.id <= b.id
      BY <1>1, <1>3, <1>6, <2>4
    <3>2. b.lines[f].new = tx.db.data[r][f] \/ Unread(type, b, f)
      BY <1>6, <2>1, <2>2, <3>1 DEF TellsValue, K
    <3>3. AllUnread(type, r, f) => Unread(type, b, f)
      BY <2>1 DEF AllUnread, K
    <3> QED
      BY <2>2, <2>4, <3>2, <3>3
  <2> QED
    BY <2>3, <2>4
<1> QED
  BY <1>2, <1>4, <1>5, <1>6 DEF TellsValue

\* An operation that is logged.
LEMMA OperationLogged ==
  ASSUME AuditInd, tx # None, NEW d, NEW N, NEW P, PendingOK(rule.type, d, P), RowsOK(d, ops + 1), HaveRequests(d), TellsData(rule.type, d),
         Follows(d, N),
         \A q \in d.requests: q.id = Audit!current_http_request(tx.db) => q.time = tx.start,
         tx' = [tx EXCEPT !.db = d, !.pending = P], http' = Audit!current_http_request(tx.db), ops' = ops + 1,
         rule' = rule, db' = db
  PROVE  AuditInd'
<1> DEFINE q == Audit!current_http_request(tx.db)
<1>1. q \in 1..(ops + 1) /\ (q = http \/ q = ops + 1)
  BY RequestOfLog
<1> HIDE DEF q
<1>2. http' = q /\ \A x \in d.requests: x.id = q => x.time = tx.start
  BY DEF q
<1>3. /\ ops \in Nat /\ RowsOK(db, ops) /\ HaveRequests(db) /\ TellsData(rule.type, db)
      /\ rule.type \in {"full", "fast"}
      /\ DOMAIN tx = {"db", "start", "pending"} /\ tx.start \in 1..(ops + 1)
      /\ tx.db.purged < tx.start /\ \A e \in tx.db.logs: e.time <= tx.start
      /\ \A x \in db.requests: x.id # http /\ x.id \in 1..ops
  BY DEF AuditInd, RowsOK
<1>4. RowsOK(db, ops + 1)
  BY <1>3 DEF RowsOK
<1>5. DOMAIN tx' = {"db", "start", "pending"} /\ tx'.db = d /\ tx'.start = tx.start /\ tx'.pending = P
  BY <1>3
<1>6. \A x \in db.requests: x.id # q
  BY <1>1, <1>3
<1>7. d.purged < tx.start /\ \A e \in d.logs: e.time <= tx.start
  BY <1>3 DEF Follows
<1>8. /\ RowsOK(db', ops') /\ HaveRequests(db') /\ TellsData(rule'.type, db')
      /\ RowsOK(tx'.db, ops') /\ HaveRequests(tx'.db) /\ TellsData(rule'.type, tx'.db)
      /\ PendingOK(rule'.type, tx'.db, tx'.pending)
  BY <1>3, <1>4, <1>5
<1> QED
  BY <1>1, <1>2, <1>3, <1>5, <1>6, <1>7, <1>8 DEF AuditInd

\* An operation changes the data of its records alone.
Changes(records, data) ==
  /\ DOMAIN data = Logged
  /\ \A r \in Logged: IF r \in records THEN data[r] # None => data[r] \in Audit!Stored
                                       ELSE data[r] = tx.db.data[r]

\* An operation of a user whom the rule excludes.
LEMMA OperationSilent ==
  ASSUME AuditInd, tx # None, NEW records, NEW data, Changes(records, data),
         NEW P, PendingOK(rule.type, tx.db, P),
         tx' = [tx EXCEPT !.db = [tx.db EXCEPT !.data = data, !.silent = tx.db.silent \union records],
                          !.pending = P],
         http' = http, ops' = ops + 1, rule' = rule, db' = db
  PROVE  AuditInd'
<1> DEFINE d == [tx.db EXCEPT !.data = data, !.silent = tx.db.silent \union records]
<1>1. /\ ops \in Nat /\ http \in 0..ops /\ RowsOK(db, ops) /\ HaveRequests(db) /\ TellsData(rule.type, db)
      /\ rule.type \in {"full", "fast"}
      /\ DOMAIN tx = {"db", "start", "pending"} /\ tx.start \in 1..(ops + 1)
      /\ RowsOK(tx.db, ops) /\ HaveRequests(tx.db) /\ TellsData(rule.type, tx.db)
      /\ tx.db.purged < tx.start /\ \A e \in tx.db.logs: e.time <= tx.start
      /\ \A x \in db.requests: x.id # http
      /\ \A x \in tx.db.requests: x.id = http => x.time = tx.start
  BY DEF AuditInd
<1>2. /\ DOMAIN d = DatabaseFields /\ d.data = data /\ d.silent = tx.db.silent \union records
      /\ d.logs = tx.db.logs /\ d.requests = tx.db.requests /\ d.sessions = tx.db.sessions
      /\ d.purged = tx.db.purged /\ d.cleaned = tx.db.cleaned
  BY <1>1 DEF RowsOK, DatabaseFields
<1> HIDE DEF d
<1>3. tx' = [tx EXCEPT !.db = d, !.pending = P]
  BY DEF d
<1>4. RowsOK(d, ops + 1) /\ RowsOK(db, ops + 1)
  BY <1>1, <1>2 DEF RowsOK
<1>5. HaveRequests(d)
  BY <1>1, <1>2 DEF HaveRequests
<1>6. ASSUME NEW r \in Logged, data[r] # None
      PROVE  /\ data[r] \in Audit!Stored
             /\ r \notin d.silent => \A f \in LoggedOf(rule.type): TellsValue(rule.type, d, r, f)
  <2>1. CASE r \in records
    BY <1>2, <1>6, <2>1 DEF Changes
  <2>2. CASE r \notin records
    <3>1. data[r] = tx.db.data[r]
      BY <2>2 DEF Changes
    <3>2. /\ tx.db.data[r] \in Audit!Stored
          /\ r \notin tx.db.silent => \A f \in LoggedOf(rule.type): TellsValue(rule.type, tx.db, r, f)
      BY <1>1, <1>6, <3>1 DEF TellsData
    <3>3. \A f: Kept(d, r, f) = Kept(tx.db, r, f)
      BY <1>2 DEF Kept
    <3>4. \A f: TellsValue(rule.type, tx.db, r, f) => TellsValue(rule.type, d, r, f)
      BY <1>2, <3>1, <3>3 DEF TellsValue
    <3> QED
      BY <1>2, <3>1, <3>2, <3>4
  <2> QED
    BY <2>1, <2>2
<1>7. TellsData(rule.type, d)
  BY <1>2, <1>6 DEF TellsData, Changes
<1>8. DOMAIN tx' = {"db", "start", "pending"} /\ tx'.db = d /\ tx'.start = tx.start /\ tx'.pending = P
  BY <1>1, <1>3
<1>10. PendingOK(rule.type, d, P)
  <2>1. \A r: Kept(d, r, Computed) = Kept(tx.db, r, Computed)
    BY <1>2 DEF Kept
  <2> QED
    BY <2>1 DEF PendingOK
<1>9. /\ RowsOK(db', ops') /\ HaveRequests(db') /\ TellsData(rule'.type, db')
      /\ RowsOK(tx'.db, ops') /\ HaveRequests(tx'.db) /\ TellsData(rule'.type, tx'.db)
      /\ PendingOK(rule'.type, tx'.db, tx'.pending)
  BY <1>1, <1>4, <1>5, <1>7, <1>8, <1>10
<1> QED
  BY <1>1, <1>2, <1>8, <1>9 DEF AuditInd

\* What an operation has to tell of its records.
TellsNew(method, records, before, after, data) ==
  \A N, d: (/\ Made(N, method, records, before, after) /\ Follows(d, N)
            /\ d.data = data /\ d.silent = tx.db.silent) =>
    \A r \in records: (data[r] # None /\ r \notin tx.db.silent) =>
      \A f \in LoggedOf(rule.type): TellsValue(rule.type, d, r, f)

\* What it logs of the records whose Computed the database does not have.
UnreadNew(method, records, before, after, P) ==
  rule.type = "full" =>
    \A N: Made(N, method, records, before, after) =>
      \A r \in P: \A x \in Lined(N, r, Computed): Unread(rule.type, x, Computed)

LEMMA OperationPerformed ==
  ASSUME AuditInd, NEW excluded \in BOOLEAN, NEW method, NEW records, NEW before, NEW after, NEW data, NEW P,
         Audit!Perform(excluded, records, data, P, Audit!create_logs(tx.db, method, records, before, after)),
         Changes(records, data), PendingOK(rule.type, tx.db, P),
         UnreadNew(method, records, before, after, P),
         ~excluded => TellsNew(method, records, before, after, data)
  PROVE  AuditInd'
<1> DEFINE c == Audit!create_logs(tx.db, method, records, before, after)
<1>0. Audit!Perform(excluded, records, data, P, c)
  OBVIOUS
<1> HIDE DEF c
<1>1. /\ tx # None /\ ops' = ops + 1 /\ rule' = rule /\ db' = db
      /\ http' = IF excluded THEN http ELSE Audit!current_http_request(tx.db)
  BY ONLY <1>0 DEF Audit!Perform
<1>4. tx' = [tx EXCEPT !.db = IF excluded THEN [tx.db EXCEPT !.data = data, !.silent = tx.db.silent \union records]
                                             ELSE [c EXCEPT !.data = data],
                       !.pending = P]
  BY ONLY <1>0 DEF Audit!Perform
<1>2. CASE excluded
  <2>1. /\ tx' = [tx EXCEPT !.db = [tx.db EXCEPT !.data = data, !.silent = tx.db.silent \union records],
                             !.pending = P]
        /\ http' = http
    BY <1>1, <1>2, <1>4
  <2> QED
    BY <1>1, <2>1, OperationSilent
<1>3. CASE ~excluded
  <2> DEFINE d == [c EXCEPT !.data = data]
  <2>1. tx' = [tx EXCEPT !.db = d, !.pending = P] /\ http' = Audit!current_http_request(tx.db)
    BY <1>1, <1>3, <1>4
  <2>2. PICK N: /\ RowsOK(d, ops + 1) /\ HaveRequests(d)
                /\ d.data = data /\ d.silent = tx.db.silent /\ d.purged = tx.db.purged
                /\ d.logs = tx.db.logs \union N /\ Made(N, method, records, before, after)
                /\ \A q \in d.requests: q.id = Audit!current_http_request(tx.db) => q.time = tx.start
    <3> HIDE DEF d
    <3>1. d = WithData(Audit!create_logs(tx.db, method, records, before, after), data)
      BY DEF c, d, WithData
    <3>2. AuditInd /\ tx # None
      BY <1>1
    <3> QED
      BY ONLY <3>1, <3>2, LogsCreated
  <2> HIDE DEF d
  <2>3. Follows(d, N)
    BY <2>2 DEF Follows, Made
  <2>4. \A r \in records: (data[r] # None /\ r \notin tx.db.silent) =>
          \A f \in LoggedOf(rule.type): TellsValue(rule.type, d, r, f)
    BY <1>3, <2>2, <2>3 DEF TellsNew
  <2>5. TellsData(rule.type, tx.db)
    BY <1>1 DEF AuditInd
  <2>6. ASSUME NEW r \in Logged, data[r] # None, r \notin records
        PROVE  /\ data[r] \in Audit!Stored
               /\ r \notin d.silent => \A f \in LoggedOf(rule.type): TellsValue(rule.type, d, r, f)
    <3>1. data[r] = tx.db.data[r]
      BY <2>6 DEF Changes
    <3>2. /\ tx.db.data[r] \in Audit!Stored
          /\ r \notin tx.db.silent => \A f \in LoggedOf(rule.type): TellsValue(rule.type, tx.db, r, f)
      BY <2>5, <2>6, <3>1 DEF TellsData
    <3>3. \A f: Lined(N, r, f) = {}
      BY <2>2, <2>6 DEF Made, Lined
    <3>4. \A f: TellsValue(rule.type, tx.db, r, f) => TellsValue(rule.type, d, r, f)
      BY <2>2, <2>3, <3>1, <3>3, UntouchedIsTold
    <3> QED
      BY <2>2, <3>1, <3>2, <3>4
  <2>7. TellsData(rule.type, d)
    BY <2>2, <2>4, <2>6 DEF TellsData, Changes
  <2>8. PendingOK(rule.type, d, P)
    <3>1. \A r: Kept(d, r, Computed) \subseteq Kept(tx.db, r, Computed) \union Lined(N, r, Computed)
      BY <2>2 DEF Kept, Lined
    <3> QED
      BY <2>2, <3>1 DEF PendingOK, UnreadNew
  <2> QED
    BY <1>1, <2>1, <2>2, <2>3, <2>7, <2>8, OperationLogged
<1> QED
  BY <1>2, <1>3

\* An operation that changes no value.
LEMMA NothingToTell ==
  ASSUME AuditInd, tx # None, NEW method \in {"read", "unlink", "export_data"}, NEW records \in SUBSET Logged,
         NEW before, NEW after, NEW data, \A r \in records: data[r] = None \/ data[r] = tx.db.data[r]
  PROVE  TellsNew(method, records, before, after, data)
<1> SUFFICES ASSUME NEW N, NEW d, Made(N, method, records, before, after), Follows(d, N), d.data = data,
                    NEW r \in records, data[r] # None, r \notin tx.db.silent, NEW f \in LoggedOf(rule.type)
             PROVE  TellsValue(rule.type, d, r, f)
  BY DEF TellsNew
<1>1. Lined(N, r, f) = {}
  BY DEF Made, Lined
<1>2. TellsValue(rule.type, tx.db, r, f)
  BY DEF AuditInd, TellsData
<1> QED
  BY <1>1, <1>2, UntouchedIsTold

\* Fewer records are pending, and no value of theirs is logged.
LEMMA NothingUnread ==
  ASSUME AuditInd, tx # None, NEW method, NEW records, NEW before, NEW after, NEW P, P \subseteq tx.pending,
         method \notin {"create", "write"} \/ rule.type # "full" \/ P \intersect records = {}
  PROVE  PendingOK(rule.type, tx.db, P) /\ UnreadNew(method, records, before, after, P)
<1>1. PendingOK(rule.type, tx.db, P)
  BY DEF AuditInd, PendingOK
<1>2. ASSUME NEW N, rule.type = "full", Made(N, method, records, before, after), NEW r \in P
      PROVE  Lined(N, r, Computed) = {}
  BY <1>2 DEF Made, Lined
<1> QED
  BY <1>1, <1>2 DEF UnreadNew

LEMMA InDatabaseIsStored ==
  ASSUME Audit!AuditLogParameters, NEW v \in Audit!Stored, NEW pending
  PROVE  /\ Audit!InDatabase(v, pending) \in Audit!Stored
         /\ \A f \in Audit!Field:
              Audit!InDatabase(v, pending)[f] = IF pending /\ f = Computed THEN False ELSE v[f]
<1>1. False \in Datum
  BY DEF Audit!AuditLogParameters
<1> QED
  BY <1>1 DEF Audit!InDatabase, Audit!Stored

LEMMA RecomputedIsStored ==
  ASSUME Audit!AuditLogParameters, NEW v, DOMAIN v = Audit!Field, \A f \in Audit!Field: v[f] \in Datum \/ f = Computed
  PROVE  /\ Audit!Recompute(v) \in Audit!Stored
         /\ \A f \in Input: Audit!Recompute(v)[f] = v[f]
<1>1. Main \in Input /\ Computed \notin Input /\ Input \subseteq Audit!Field
  BY DEF Audit!AuditLogParameters, Audit!Field
<1>2. v[Main] \in Datum
  BY <1>1
<1> QED
  BY <1>1, <1>2 DEF Audit!Recompute, Audit!Stored

LEMMA AuditCreate ==
  ASSUME Audit!AuditLogParameters, AuditInd, NEW r \in Logged, NEW vals \in Audit!Vals, NEW flushed \in BOOLEAN,
         NEW excluded \in BOOLEAN, Audit!create(r, vals, flushed, excluded)
  PROVE  AuditInd'
<1> DEFINE given == [f \in Audit!Field |-> IF f \in DOMAIN vals THEN vals[f] ELSE False]
           values == Audit!Recompute(given)
           fields == IF rule.type = "full" THEN Audit!InDatabase(values, ~flushed) ELSE vals
           before == Audit!Empty({r})
           after == [x \in {r} |-> fields]
           data == [tx.db.data EXCEPT ![r] = values]
           P == IF flushed THEN tx.pending \ {r} ELSE tx.pending \union {r}
<1>1. /\ tx # None /\ r \notin Audit!Existing
      /\ \A e \in tx.db.logs: e.rec # r
      /\ Audit!Perform(excluded, {r}, data, P, Audit!create_logs(tx.db, "create", {r}, before, after))
  BY DEF Audit!create
<1>2. /\ DOMAIN vals \subseteq Input /\ \A f \in DOMAIN vals: vals[f] \in Datum
      /\ False \in Datum /\ rule.type \in {"full", "fast"} /\ DOMAIN tx.db.data = Logged
  BY <1>1 DEF Audit!Vals, Audit!AuditLogParameters, AuditInd, TellsData
<1>3. DOMAIN given = Audit!Field /\ \A f \in Audit!Field: given[f] \in Datum
  BY <1>2
<1>4. values \in Audit!Stored /\ \A f \in Input: values[f] = given[f]
  BY <1>3, RecomputedIsStored
<1> HIDE DEF values
<1>5. DOMAIN data = Logged /\ data[r] = values /\ \A x \in Logged \ {r}: data[x] = tx.db.data[x]
  BY <1>2
<1>6. before[r] = Audit!EMPTY_DICT /\ after[r] = fields
  BY DEF Audit!Empty
<1>7. /\ DOMAIN fields = IF rule.type = "full" THEN Audit!Field ELSE DOMAIN vals
      /\ rule.type = "full" => \A f \in Audit!Field:
            fields[f] = IF ~flushed /\ f = Computed THEN False ELSE values[f]
  <2> DEFINE read == Audit!InDatabase(values, ~flushed)
  <2>1. /\ read \in Audit!Stored
        /\ \A f \in Audit!Field: read[f] = IF ~flushed /\ f = Computed THEN False ELSE values[f]
    BY <1>4, InDatabaseIsStored
  <2>2. fields = IF rule.type = "full" THEN read ELSE vals
    OBVIOUS
  <2> HIDE DEF read, fields
  <2> QED
    BY <2>1, <2>2 DEF Audit!Stored
<1> DEFINE L == Audit!LinesOf("create", before[r], after[r])
<1>8. /\ DOMAIN L = DOMAIN fields \ Secret
      /\ \A f \in DOMAIN L: L[f].new = fields[f]
  BY <1>6 DEF Audit!LinesOf, Audit!create_log_line_on_create, Audit!added, Audit!EMPTY_DICT, Audit!LoggedFields
<1> HIDE DEF before, after, fields, data, L, P
<1>9. Changes({r}, data)
  BY <1>4, <1>5 DEF Changes
<1>10. TellsNew("create", {r}, before, after, data)
  <2> SUFFICES ASSUME NEW N, NEW d, Made(N, "create", {r}, before, after), Follows(d, N), d.data = data,
                      NEW f \in LoggedOf(rule.type)
               PROVE  TellsValue(rule.type, d, r, f)
    BY DEF TellsNew
  <2>1. d.data[r] = values
    BY <1>5
  <2>2. Kept(tx.db, r, f) = {} /\ Computed \notin Input
    BY <1>1 DEF Kept, Audit!AuditLogParameters
  <2>3. f \notin Secret /\ f \in (IF rule.type = "full" THEN Audit!Field ELSE Input)
    BY DEF LoggedOf, Audit!LoggedFields
  <2>4. CASE f \in DOMAIN fields
    <3>1. f \in DOMAIN L
      BY <1>8, <2>3, <2>4
    <3>2. L # Audit!EMPTY_DICT
      BY <3>1 DEF Audit!EMPTY_DICT
    <3>3. PICK x \in N: x.rec = r
      BY <3>2 DEF Made, L
    <3>4. \A y \in N: y.rec = r /\ y.lines = L /\ y.method = "create"
      BY DEF Made, L
    <3>5. Lined(N, r, f) # {} /\ \A y \in Lined(N, r, f): y.lines[f].new = fields[f]
      BY <1>8, <3>1, <3>3, <3>4 DEF Lined
    <3>6. fields[f] = values[f] \/ (rule.type = "full" /\ f = Computed /\ fields[f] = False)
      BY <1>2, <1>4, <1>7, <2>3, <2>4 DEF fields, Audit!Field
    <3>7. \A y \in Lined(N, r, f): y.lines[f].new = values[f] \/ Unread(rule.type, y, f)
      BY <3>4, <3>5, <3>6 DEF Unread, Lined
    <3> QED
      BY <1>1, <2>1, <2>2, <3>5, <3>7, LinedIsTold
  <2>5. CASE f \notin DOMAIN fields
    <3>1. rule.type = "fast" /\ f \in Input /\ f \notin DOMAIN vals
      BY <1>2, <1>7, <2>3, <2>5
    <3>2. values[f] = False
      BY <1>4, <3>1 DEF Audit!Field
    <3> QED
      BY <2>1, <3>1, <3>2, EmptiedIsTold
  <2> QED
    BY <2>4, <2>5
<1>11. PendingOK(rule.type, tx.db, P)
  <2>1. Kept(tx.db, r, Computed) = {}
    BY <1>1 DEF Kept
  <2> QED
    BY <1>1, <2>1 DEF PendingOK, AuditInd, P
<1>12. UnreadNew("create", {r}, before, after, P)
  <2> SUFFICES ASSUME NEW N, rule.type = "full", Made(N, "create", {r}, before, after),
                      NEW x \in Lined(N, r, Computed), r \in P
               PROVE  Unread(rule.type, x, Computed)
    BY DEF UnreadNew, Made, Lined
  <2>1. ~flushed
    BY DEF P
  <2>2. x.lines = L /\ x.method = "create" /\ Computed \in DOMAIN L
    BY DEF Made, Lined, L
  <2>3. Computed \in Audit!Field
    BY DEF Audit!Field
  <2> QED
    BY <1>7, <1>8, <2>1, <2>2, <2>3 DEF Unread
<1> QED
  BY <1>1, <1>9, <1>10, <1>11, <1>12, OperationPerformed

LEMMA AuditWrite ==
  ASSUME Audit!AuditLogParameters, AuditInd, NEW records \in SUBSET Logged, NEW vals \in Audit!Vals,
         NEW excluded \in BOOLEAN, Audit!write(records, vals, excluded)
  PROVE  AuditInd'
<1> DEFINE written(r) == [f \in Audit!Field |-> IF f \in DOMAIN vals THEN vals[f] ELSE tx.db.data[r][f]]
           data == [r \in Logged |-> IF r \notin records THEN tx.db.data[r] ELSE Audit!Recompute(written(r))]
           fast == rule.type = "fast"
           before == [r \in records |-> IF fast THEN [f \in DOMAIN vals |-> False] ELSE Audit!InDatabase(tx.db.data[r], r \in tx.pending)]
           after == [r \in records |-> IF fast THEN vals ELSE data[r]]
           P == IF fast THEN tx.pending ELSE tx.pending \ records
<1>1. /\ tx # None /\ records \subseteq Audit!Existing
      /\ Audit!Perform(excluded, records, data, P, Audit!create_logs(tx.db, "write", records, before, after))
  BY DEF Audit!write
<1>2. /\ DOMAIN vals \subseteq Input /\ \A f \in DOMAIN vals: vals[f] \in Datum
      /\ rule.type \in {"full", "fast"} /\ TellsData(rule.type, tx.db)
      /\ Input \subseteq Audit!Field
  BY <1>1 DEF Audit!Vals, AuditInd, Audit!Field
<1>3. ASSUME NEW r \in records
      PROVE  /\ tx.db.data[r] \in Audit!Stored /\ data[r] \in Audit!Stored
             /\ \A f \in Input: data[r][f] = IF f \in DOMAIN vals THEN vals[f] ELSE tx.db.data[r][f]
  <2>1. tx.db.data[r] \in Audit!Stored
    BY <1>1, <1>2 DEF Audit!Existing, TellsData
  <2>2. DOMAIN written(r) = Audit!Field /\ \A f \in Audit!Field: written(r)[f] \in Datum
    BY <1>2, <2>1 DEF Audit!Stored
  <2>3. /\ \A f \in Input: written(r)[f] = IF f \in DOMAIN vals THEN vals[f] ELSE tx.db.data[r][f]
        /\ data[r] = Audit!Recompute(written(r))
    BY <1>2
  <2> HIDE DEF written, data
  <2>4. Audit!Recompute(written(r)) \in Audit!Stored /\ \A f \in Input: Audit!Recompute(written(r))[f] = written(r)[f]
    BY <2>2, RecomputedIsStored
  <2> QED
    BY <2>1, <2>3, <2>4
<1>4. DOMAIN data = Logged /\ \A r \in Logged \ records: data[r] = tx.db.data[r]
  OBVIOUS
<1> HIDE DEF data
<1>5. Changes(records, data)
  BY <1>3, <1>4 DEF Changes
<1>6. ASSUME NEW r \in records, NEW f \in LoggedOf(rule.type),
             NEW L, L = Audit!LinesOf("write", before[r], after[r])
      PROVE  /\ f \in DOMAIN L => /\ L[f].new = data[r][f]
                                  /\ rule.type = "full" => L[f].old = tx.db.data[r][f] \/ AllUnread("full", r, f)
             /\ f \notin DOMAIN L => \/ data[r][f] = tx.db.data[r][f]
                                     \/ rule.type = "fast" /\ data[r][f] = False
                                     \/ AllUnread(rule.type, r, f) /\ data[r][f] = False
  <2>1. L = [g \in {h \in DOMAIN after[r] \intersect DOMAIN before[r]: before[r][h] # after[r][h]} \ Secret |->
               [old |-> before[r][g], new |-> after[r][g]]]
    BY <1>6 DEF Audit!LinesOf, Audit!create_log_line_on_write, Audit!changed, Audit!LoggedFields
  <2>2. f \notin Secret /\ f \in (IF rule.type = "full" THEN Audit!Field ELSE Input)
    BY DEF LoggedOf, Audit!LoggedFields
  <2>3. CASE rule.type = "full"
    <3> DEFINE unread == r \in tx.pending
               was == Audit!InDatabase(tx.db.data[r], unread)
    <3>1. before[r] = was /\ after[r] = data[r]
      BY <2>3
    <3>0. tx.db.data[r] \in Audit!Stored /\ data[r] \in Audit!Stored
      BY <1>3
    <3>2. /\ was \in Audit!Stored
          /\ \A g \in Audit!Field: was[g] = IF unread /\ g = Computed THEN False ELSE tx.db.data[r][g]
      <4> DEFINE v == tx.db.data[r]
      <4>1. v \in Audit!Stored
        BY <3>0
      <4> HIDE DEF unread, v
      <4>2. /\ Audit!InDatabase(v, unread) \in Audit!Stored
            /\ \A g \in Audit!Field: Audit!InDatabase(v, unread)[g] = IF unread /\ g = Computed THEN False ELSE v[g]
        BY <4>1, InDatabaseIsStored
      <4> QED
        BY <4>2 DEF v
    <3>3. DOMAIN was = Audit!Field /\ DOMAIN data[r] = Audit!Field
      BY <3>0, <3>2 DEF Audit!Stored
    <3>4. unread /\ f = Computed => AllUnread("full", r, f)
      BY <1>1, <2>3 DEF AuditInd, PendingOK, AllUnread
    <3>5. f \in Audit!Field
      BY <2>2, <2>3
    <3> HIDE DEF was, unread, before, after
    <3>6. f \in DOMAIN L <=> was[f] # data[r][f]
      BY <2>1, <2>2, <3>1, <3>2, <3>3, <3>5
    <3>7. f \in DOMAIN L => L[f].new = data[r][f] /\ L[f].old = was[f]
      BY <2>1, <3>1
    <3>8. was[f] = tx.db.data[r][f] \/ (AllUnread("full", r, f) /\ was[f] = False)
      BY <3>2, <3>4, <3>5
    <3> QED
      BY <2>3, <3>6, <3>7, <3>8
  <2>4. CASE rule.type = "fast"
    <3>1. before[r] = [g \in DOMAIN vals |-> False] /\ after[r] = vals
      BY <2>4
    <3>2. data[r][f] = IF f \in DOMAIN vals THEN vals[f] ELSE tx.db.data[r][f]
      BY <1>3, <2>2, <2>4
    <3>3. f \in DOMAIN L <=> f \in DOMAIN vals /\ vals[f] # False
      BY <2>1, <2>2, <3>1
    <3>4. f \in DOMAIN L => L[f].new = vals[f]
      BY <2>1, <3>1
    <3> QED
      BY <2>4, <3>2, <3>3, <3>4
  <2> QED
    BY <1>2, <2>3, <2>4
<1>8. PendingOK(rule.type, tx.db, P) /\ UnreadNew("write", records, before, after, P)
  <2> HIDE DEF before, after
  <2>1. P \subseteq tx.pending /\ (rule.type # "full" \/ P \intersect records = {})
    BY <1>2
  <2> QED
    BY <1>1, <2>1, NothingUnread
<1> HIDE DEF before, after, fast, P
<1>7. TellsNew("write", records, before, after, data)
  <2> SUFFICES ASSUME NEW N, NEW d, Made(N, "write", records, before, after), Follows(d, N), d.data = data,
                      NEW r \in records, r \notin tx.db.silent, NEW f \in LoggedOf(rule.type)
               PROVE  TellsValue(rule.type, d, r, f)
    BY DEF TellsNew
  <2> DEFINE L == Audit!LinesOf("write", before[r], after[r])
  <2>1. TellsValue(rule.type, tx.db, r, f)
    BY <1>1, <1>2 DEF TellsData, Audit!Existing
  <2>2. \A x \in N: x.rec = r => x.lines = L /\ x.method = "write"
    BY DEF Made
  <2>3. L # Audit!EMPTY_DICT => \E x \in N: x.rec = r
    BY DEF Made
  <2>4. /\ f \in DOMAIN L => /\ L[f].new = data[r][f]
                             /\ rule.type = "full" => L[f].old = tx.db.data[r][f] \/ AllUnread("full", r, f)
        /\ f \notin DOMAIN L => \/ data[r][f] = tx.db.data[r][f]
                                \/ rule.type = "fast" /\ data[r][f] = False
                                \/ AllUnread(rule.type, r, f) /\ data[r][f] = False
    BY <1>6
  <2> HIDE DEF L
  <2>5. CASE f \in DOMAIN L
    <3>1. L # Audit!EMPTY_DICT
      BY <2>5 DEF Audit!EMPTY_DICT
    <3>2. /\ Lined(N, r, f) # {}
          /\ \A x \in Lined(N, r, f): x.lines = L
      BY <2>2, <2>3, <2>5, <3>1 DEF Lined
    <3> QED
      BY <1>1, <2>1, <2>4, <2>5, <3>2, LinedIsTold
  <2>6. CASE f \notin DOMAIN L
    <3>1. Lined(N, r, f) = {}
      BY <2>2, <2>6 DEF Lined
    <3> QED
      BY <2>1, <2>4, <2>6, <3>1, UntouchedIsTold, EmptiedIsTold
  <2> QED
    BY <2>5, <2>6
<1> QED
  BY <1>1, <1>5, <1>7, <1>8, OperationPerformed

LEMMA AuditOthers ==
  ASSUME AuditInd, NEW records \in SUBSET Logged, NEW excluded \in BOOLEAN,
         \/ Audit!read(records) \/ Audit!unlink(records, excluded)
         \/ \E r \in Logged: records = {r} /\ Audit!export_data(r)
  PROVE  AuditInd'
<1>1. tx # None
  BY DEF Audit!read, Audit!unlink, Audit!export_data
<1>2. TellsData(rule.type, tx.db)
  BY <1>1 DEF AuditInd
<1>3. CASE Audit!unlink(records, excluded)
  <2> DEFINE data == [r \in Logged |-> IF r \in records THEN None ELSE tx.db.data[r]]
             before == IF rule.type = "full" THEN tx.db.data ELSE Audit!Empty(records)
             P == tx.pending \ records
  <2>1. Audit!Perform(excluded, records, data, P, Audit!create_logs(tx.db, "unlink", records, before, Audit!Empty(records)))
    BY <1>3 DEF Audit!unlink
  <2>2. Changes(records, data) /\ \A r \in records: data[r] = None
    BY DEF Changes
  <2>4. P \subseteq tx.pending
    OBVIOUS
  <2> HIDE DEF data, before, P
  <2>5. PendingOK(rule.type, tx.db, P) /\ UnreadNew("unlink", records, before, Audit!Empty(records), P)
    BY <1>1, <2>4, NothingUnread
  <2>3. TellsNew("unlink", records, before, Audit!Empty(records), data)
    BY <1>1, <2>2, NothingToTell
  <2> QED
    BY <2>1, <2>2, <2>3, <2>5, OperationPerformed
<1>4. CASE ~Audit!unlink(records, excluded)
  <2> DEFINE data == tx.db.data
  <2>1. \E method \in {"read", "export_data"}: \E before, after:
          Audit!Perform(FALSE, records, data, tx.pending, Audit!create_logs(tx.db, method, records, before, after))
    BY <1>4 DEF Audit!read, Audit!export_data
  <2>2. PICK method \in {"read", "export_data"}:
          \E before, after:
            Audit!Perform(FALSE, records, data, tx.pending, Audit!create_logs(tx.db, method, records, before, after))
    BY <2>1
  <2>3. Changes(records, data)
    BY <1>2 DEF Changes, TellsData
  <2>4. ASSUME NEW before, NEW after,
               Audit!Perform(FALSE, records, data, tx.pending, Audit!create_logs(tx.db, method, records, before, after))
        PROVE  AuditInd'
    <3>1. TellsNew(method, records, before, after, data)
      BY <1>1, NothingToTell
    <3>2. PendingOK(rule.type, tx.db, tx.pending) /\ UnreadNew(method, records, before, after, tx.pending)
      BY <1>1, NothingUnread
    <3> QED
      BY <2>3, <2>4, <3>1, <3>2, OperationPerformed
  <2> QED
    BY <2>2, <2>4
<1> QED
  BY <1>3, <1>4

LEMMA AuditTransactions ==
  ASSUME AuditInd, Audit!Begin \/ Audit!Commit \/ Audit!Retry \/ Audit!Flush \/ UNCHANGED Audit!vars
  PROVE  AuditInd'
<1>1. /\ ops \in Nat /\ http \in 0..ops /\ RowsOK(db, ops) /\ HaveRequests(db) /\ TellsData(rule.type, db)
      /\ rule.type \in {"full", "fast"}
  BY DEF AuditInd
<1>2. \A q \in db.requests: q.id \in 1..ops
  BY <1>1 DEF RowsOK
<1>3. CASE Audit!Begin \/ Audit!Retry
  <2>1. /\ tx' = [db |-> db, start |-> ops + 1, pending |-> {}] /\ rule' = rule /\ db' = db /\ ops' = ops
        /\ http' \in 0..ops /\ \A q \in db.requests: q.id # http'
    BY <1>1, <1>2, <1>3 DEF Audit!Begin, Audit!Retry, AuditInd
  <2>2. DOMAIN tx' = {"db", "start", "pending"} /\ tx'.db = db /\ tx'.start = ops + 1 /\ tx'.pending = {}
    BY <2>1
  <2>3. /\ RowsOK(db', ops') /\ HaveRequests(db') /\ TellsData(rule'.type, db')
        /\ RowsOK(tx'.db, ops') /\ HaveRequests(tx'.db) /\ TellsData(rule'.type, tx'.db)
    BY <1>1, <2>1, <2>2
  <2>4. db.purged < ops + 1 /\ \A e \in db.logs: e.time <= ops + 1
    BY <1>1 DEF RowsOK
  <2>5. PendingOK(rule'.type, tx'.db, tx'.pending)
    BY <2>2 DEF PendingOK
  <2> QED
    BY <1>1, <2>1, <2>2, <2>3, <2>4, <2>5 DEF AuditInd
<1>4. CASE Audit!Commit
  <2>1. db' = tx.db /\ tx' = None /\ rule' = rule /\ http' = http /\ ops' = ops /\ tx # None
    BY <1>4 DEF Audit!Commit
  <2>2. RowsOK(db', ops') /\ HaveRequests(db') /\ TellsData(rule'.type, db')
    BY <2>1 DEF AuditInd
  <2> QED
    BY <1>1, <2>1, <2>2 DEF AuditInd
<1>5. CASE UNCHANGED Audit!vars
  <2>1. db' = db /\ tx' = tx /\ rule' = rule /\ http' = http /\ ops' = ops
    BY <1>5 DEF Audit!vars
  <2>2. /\ RowsOK(db', ops') /\ HaveRequests(db') /\ TellsData(rule'.type, db')
        /\ tx # None => /\ RowsOK(tx'.db, ops') /\ HaveRequests(tx'.db) /\ TellsData(rule'.type, tx'.db)
                        /\ PendingOK(rule'.type, tx'.db, tx'.pending)
    BY <2>1 DEF AuditInd
  <2> QED
    BY <2>1, <2>2 DEF AuditInd
<1>6. CASE Audit!Flush
  <2>1. /\ db' = db /\ tx' = [tx EXCEPT !.pending = {}] /\ tx # None
        /\ rule' = rule /\ http' = http /\ ops' = ops
    BY <1>6 DEF Audit!Flush
  <2>2. /\ DOMAIN tx = {"db", "start", "pending"}
        /\ DOMAIN tx' = {"db", "start", "pending"} /\ tx'.db = tx.db /\ tx'.start = tx.start /\ tx'.pending = {}
    BY <2>1 DEF AuditInd
  <2>3. /\ RowsOK(db', ops') /\ HaveRequests(db') /\ TellsData(rule'.type, db')
        /\ RowsOK(tx'.db, ops') /\ HaveRequests(tx'.db) /\ TellsData(rule'.type, tx'.db)
        /\ PendingOK(rule'.type, tx'.db, tx'.pending)
    BY <1>1, <2>1, <2>2 DEF AuditInd, PendingOK
  <2> QED
    BY <1>1, <2>1, <2>2, <2>3 DEF AuditInd
<1> QED
  BY <1>3, <1>4, <1>5, <1>6

LEMMA LargestTime ==
  ASSUME NEW n \in Nat, NEW t \in 0..n, NEW T \in SUBSET (0..n)
  PROVE  LET m == Audit!Max({t} \union T) IN m \in {t} \union T /\ m \in 0..n /\ t <= m /\ \A x \in T: x <= m
<1> DEFINE U == {t} \union T
<1>1. U \in SUBSET Nat /\ U # {} /\ \A x \in U: x <= n
  OBVIOUS
<1>2. \E m \in U: \A x \in U: x <= m
  BY <1>1, LargestOfBounded
<1>3. \E m \in U: \A x \in U: m >= x
  BY <1>1, <1>2
<1>4. Audit!Max(U) \in U /\ \A x \in U: Audit!Max(U) >= x
  BY <1>3 DEF Audit!Max
<1> QED
  BY <1>1, <1>4

\* What remains when a clean-up takes the logs L, the requests Q and the sessions S.
Vacuumed(L, Q, S) ==
  [db EXCEPT !.logs = {Audit!Unlinked(e, Q, S): e \in db.logs \ L},
             !.requests = {[q EXCEPT !.session = Audit!Ref(q.session, S)]: q \in db.requests \ Q},
             !.sessions = db.sessions \ S,
             !.purged = Audit!Max({db.purged} \union {e.time: e \in L}),
             !.cleaned = Audit!Max({db.cleaned} \union {q.time: q \in Q})]

LEMMA RowsVacuumed ==
  ASSUME NEW deadline, NEW chunk, Audit!autovacuum(deadline, chunk)
  PROVE  \E L \in SUBSET db.logs, Q \in SUBSET db.requests, S \in SUBSET db.sessions: db' = Vacuumed(L, Q, S)
<1>1. ASSUME NEW T, NEW K \in Audit!Oldest(T, deadline, chunk) PROVE K \in SUBSET T
  BY Zenon DEF Audit!Oldest
<1>2. PICK L \in Audit!Oldest(db.logs, deadline, chunk), Q \in Audit!Oldest(db.requests, deadline, chunk),
          S \in Audit!Oldest(db.sessions, deadline, chunk): db' = Vacuumed(L, Q, S)
  BY DEF Audit!autovacuum, Vacuumed
<1> QED
  BY <1>1, <1>2

LEMMA AuditVacuum ==
  ASSUME AuditInd, NEW deadline, NEW chunk, Audit!autovacuum(deadline, chunk)
  PROVE  AuditInd'
<1>1. /\ tx = None /\ tx' = None /\ rule' = rule /\ http' = http /\ ops' = ops
      /\ ops \in Nat /\ http \in 0..ops /\ RowsOK(db, ops) /\ HaveRequests(db) /\ TellsData(rule.type, db)
      /\ rule.type \in {"full", "fast"}
  BY DEF Audit!autovacuum, AuditInd
<1>2. PICK L \in SUBSET db.logs, Q \in SUBSET db.requests, S \in SUBSET db.sessions: db' = Vacuumed(L, Q, S)
  BY RowsVacuumed
<1> DEFINE Cut(e) == Audit!Unlinked(e, Q, S)
           Short(q) == [q EXCEPT !.session = Audit!Ref(q.session, S)]
           p == Audit!Max({db.purged} \union {e.time: e \in L})
           c == Audit!Max({db.cleaned} \union {q.time: q \in Q})
           d == [db EXCEPT !.logs = {Cut(e): e \in db.logs \ L}, !.requests = {Short(q): q \in db.requests \ Q},
                           !.sessions = db.sessions \ S, !.purged = p, !.cleaned = c]
<1>3. db' = d
  BY <1>2 DEF Vacuumed
<1>4. \A e \in db.logs: /\ DOMAIN Cut(e) = EntryFields
                        /\ Cut(e).id = e.id /\ Cut(e).time = e.time /\ Cut(e).rec = e.rec
                        /\ Cut(e).method = e.method /\ Cut(e).lines = e.lines
                        /\ Cut(e).request = Audit!Ref(e.request, Q) /\ Cut(e).session = Audit!Ref(e.session, S)
  BY <1>1 DEF RowsOK, Audit!Unlinked, EntryFields
<1>5. \A q \in db.requests: /\ DOMAIN Short(q) = {"id", "time", "session"}
                            /\ Short(q).id = q.id /\ Short(q).time = q.time
                            /\ Short(q).session = Audit!Ref(q.session, S)
  BY <1>1 DEF RowsOK
<1>6. /\ p \in 0..ops /\ db.purged <= p /\ \A e \in L: e.time <= p
      /\ p \in {db.purged} \union {e.time: e \in L}
  <2> DEFINE T == {e.time: e \in L}
  <2>1. db.purged \in 0..ops /\ T \in SUBSET (0..ops)
    BY <1>1 DEF RowsOK
  <2>2. \A e \in L: e.time \in T
    OBVIOUS
  <2> HIDE DEF T
  <2>3. LET m == Audit!Max({db.purged} \union T)
        IN m \in {db.purged} \union T /\ m \in 0..ops /\ db.purged <= m /\ \A x \in T: x <= m
    BY <1>1, <2>1, LargestTime
  <2> QED
    BY <2>2, <2>3 DEF T
<1>7. c \in 0..ops /\ db.cleaned <= c /\ \A q \in Q: q.time <= c
  <2> DEFINE T == {q.time: q \in Q}
  <2>1. db.cleaned \in 0..ops /\ T \in SUBSET (0..ops)
    BY <1>1 DEF RowsOK
  <2>2. \A q \in Q: q.time \in T
    OBVIOUS
  <2> HIDE DEF T
  <2>3. LET m == Audit!Max({db.cleaned} \union T)
        IN m \in {db.cleaned} \union T /\ m \in 0..ops /\ db.cleaned <= m /\ \A x \in T: x <= m
    BY <1>1, <2>1, LargestTime
  <2> QED
    BY <2>2, <2>3 DEF T
<1> HIDE DEF Cut, Short, p, c
<1>8. /\ DOMAIN d = DatabaseFields /\ d.data = db.data /\ d.silent = db.silent
      /\ d.logs = {Cut(e): e \in db.logs \ L} /\ d.requests = {Short(q): q \in db.requests \ Q}
      /\ d.sessions = db.sessions \ S /\ d.purged = p /\ d.cleaned = c
  BY <1>1 DEF RowsOK, DatabaseFields
<1> HIDE DEF d
<1>9. \A id \in Nat: \A gone: Audit!Ref(id, gone) \in Nat
  BY DEF Audit!Ref
<1>10. RowsOK(d, ops)
  <2>1. ASSUME NEW x \in d.logs
        PROVE  /\ DOMAIN x = EntryFields
               /\ x.id \in 1..ops /\ x.time \in 1..x.id /\ x.request \in Nat /\ x.session \in Nat
    <3>1. PICK e \in db.logs: x = Cut(e)
      BY <1>8
    <3> QED
      BY <1>1, <1>4, <1>9, <3>1 DEF RowsOK
  <2>2. ASSUME NEW x \in d.logs, NEW y \in d.logs, x.id < y.id PROVE x.time <= y.time
    <3>1. PICK e \in db.logs, o \in db.logs: x = Cut(e) /\ y = Cut(o)
      BY <1>8
    <3> QED
      BY <1>1, <1>4, <2>2, <3>1 DEF RowsOK
  <2>3. ASSUME NEW x \in d.requests
        PROVE  DOMAIN x = {"id", "time", "session"} /\ x.id \in 1..ops /\ x.time \in 1..x.id /\ x.session \in Nat
    <3>1. PICK q \in db.requests: x = Short(q)
      BY <1>8
    <3> QED
      BY <1>1, <1>5, <1>9, <3>1 DEF RowsOK
  <2>4. \A s \in d.sessions: DOMAIN s = {"id", "time"} /\ s.id \in 1..ops /\ s.time \in 1..s.id
    BY <1>1, <1>8 DEF RowsOK
  <2> QED
    BY <1>6, <1>7, <1>8, <2>1, <2>2, <2>3, <2>4 DEF RowsOK
<1>11. HaveRequests(d)
  <2>1. ASSUME NEW x \in d.logs
        PROVE  /\ x.request # 0 => \E q \in d.requests: q.id = x.request
               /\ x.session # 0 => \E s \in d.sessions: s.id = x.session
               /\ x.request = 0 => x.time <= d.cleaned
               /\ \A q \in d.requests: q.id = x.request => x.time <= q.time
    <3>1. PICK e \in db.logs: x = Cut(e)
      BY <1>8
    <3>2. x.time = e.time /\ x.request = Audit!Ref(e.request, Q) /\ x.session = Audit!Ref(e.session, S)
      BY <1>4, <3>1
    <3>3. /\ e.request # 0 => \E q \in db.requests: q.id = e.request
          /\ e.session # 0 => \E s \in db.sessions: s.id = e.session
          /\ e.request = 0 => e.time <= db.cleaned
          /\ \A q \in db.requests: q.id = e.request => e.time <= q.time
      BY <1>1 DEF HaveRequests
    <3>4. x.session # 0 => \E s \in d.sessions: s.id = x.session
      BY <1>8, <3>2, <3>3 DEF Audit!Ref
    <3>5. CASE \E g \in Q: g.id = e.request
      <4>1. PICK g \in Q: g.id = e.request
        BY <3>5
      <4>2. x.request = 0
        BY <3>2, <3>5 DEF Audit!Ref
      <4>3. e.time <= g.time /\ g.time <= c
        BY <1>7, <3>3, <4>1
      <4>4. e.time \in Nat /\ g.time \in Nat /\ c \in Nat
        BY <1>1, <1>7, <4>1 DEF RowsOK
      <4>5. \A q \in d.requests: q.id # 0
        BY <1>10 DEF RowsOK
      <4> QED
        BY <1>8, <3>2, <3>4, <4>2, <4>3, <4>4, <4>5
    <3>6. CASE ~\E g \in Q: g.id = e.request
      <4>1. x.request = e.request
        BY <3>2, <3>6 DEF Audit!Ref
      <4>2. x.request # 0 => \E q \in d.requests: q.id = x.request
        BY <1>5, <1>8, <3>3, <3>6, <4>1
      <4>3. x.request = 0 => x.time <= c
        <5>1. e.time \in Nat /\ db.cleaned \in Nat /\ c \in Nat
          BY <1>1, <1>7 DEF RowsOK
        <5> QED
          BY <1>7, <3>2, <3>3, <4>1, <5>1
      <4>4. \A q \in d.requests: q.id = x.request => x.time <= q.time
        BY <1>5, <1>8, <3>2, <3>3, <4>1
      <4> QED
        BY <1>8, <3>4, <4>2, <4>3, <4>4
    <3> QED
      BY <3>5, <3>6
  <2>2. ASSUME NEW x \in d.requests, x.session # 0 PROVE \E s \in d.sessions: s.id = x.session
    <3>1. PICK q \in db.requests: x = Short(q)
      BY <1>8
    <3>2. x.session = Audit!Ref(q.session, S)
      BY <1>5, <3>1
    <3> QED
      BY <1>1, <1>8, <2>2, <3>2 DEF Audit!Ref, HaveRequests
  <2> QED
    BY <2>1, <2>2 DEF HaveRequests
<1>12. ASSUME NEW r, NEW f, TellsValue(rule.type, db, r, f) PROVE TellsValue(rule.type, d, r, f)
  <2> DEFINE K == Kept(db, r, f)
  <2>1. \A e \in K: /\ e \in db.logs /\ e.id \in Nat /\ e.time \in Nat
                    /\ e.time > p => Cut(e) \in Kept(d, r, f)
    <3>1. ASSUME NEW e \in K, e.time > p PROVE Cut(e) \in Kept(d, r, f)
      <4>1. e \in db.logs \ L
        BY <1>1, <1>6, <3>1 DEF Kept, RowsOK
      <4>2. Cut(e) \in d.logs
        BY <1>8, <4>1
      <4> QED
        BY <1>4, <1>8, <3>1, <4>1, <4>2 DEF Kept
    <3> QED
      BY <1>1, <3>1 DEF Kept, RowsOK
  <2>2. ASSUME NEW x \in Kept(d, r, f)
        PROVE  \E e \in K: x = Cut(e) /\ x.id = e.id /\ x.method = e.method /\ x.lines = e.lines /\ e.time > p
    <3>1. PICK e \in db.logs: x = Cut(e)
      BY <1>8 DEF Kept
    <3>2. x.time > p /\ e.time > p
      BY <1>4, <1>8, <3>1 DEF Kept
    <3>3. e.time > db.purged
      BY <1>1, <1>6, <3>2 DEF RowsOK
    <3> QED
      BY <1>4, <3>1, <3>2, <3>3 DEF Kept
  <2>3. \A e, o \in K: e.id < o.id => e.time <= o.time
    BY <1>1 DEF RowsOK, Kept
  <2> HIDE DEF K
  <2>4. \A e \in K: Cut(e).id = e.id
    BY <1>4, <2>1
  <2>5. ASSUME NEW x \in Kept(d, r, f), \A o \in Kept(d, r, f): o.id <= x.id
        PROVE  \/ x.lines[f].new = d.data[r][f]
               \/ rule.type = "fast" /\ d.data[r][f] = False
               \/ Unread(rule.type, x, f)
    <3>1. PICK e \in K: x.id = e.id /\ x.method = e.method /\ x.lines = e.lines /\ e.time > p
      BY <2>2
    <3>2. ASSUME NEW o \in K PROVE o.id <= e.id
      <4>1. SUFFICES ASSUME o.id > e.id PROVE FALSE
        BY <2>1, <3>1
      <4>2. o.time > p
        BY <1>6, <2>1, <2>3, <3>1, <4>1
      <4>3. Cut(o) \in Kept(d, r, f)
        BY <2>1, <4>2
      <4> QED
        BY <2>1, <2>4, <2>5, <3>1, <4>1, <4>3
    <3> QED
      BY <1>8, <1>12, <3>1, <3>2 DEF TellsValue, Unread, K
  <2>6. ASSUME d.purged = 0, d.data[r][f] # False PROVE Kept(d, r, f) # {}
    <3>1. p = 0 /\ db.purged = 0
      BY <1>1, <1>6, <1>8, <2>6 DEF RowsOK
    <3>2. PICK e \in K: TRUE
      BY <1>8, <1>12, <2>6, <3>1 DEF TellsValue, K
    <3>3. e.time > p
      BY <1>1, <2>1, <3>1, <3>2 DEF RowsOK
    <3> QED
      BY <2>1, <3>2, <3>3
  <2>7. ASSUME rule.type = "full", NEW x \in Kept(d, r, f), NEW y \in Kept(d, r, f),
               y.id < x.id, \A o \in Kept(d, r, f): o.id < x.id => o.id <= y.id
        PROVE  y.lines[f].new = x.lines[f].old \/ Unread(rule.type, y, f)
    <3>1. PICK e \in K, b \in K: /\ x.id = e.id /\ x.lines = e.lines
                                 /\ y.id = b.id /\ y.method = b.method /\ y.lines = b.lines /\ b.time > p
      BY <2>2
    <3>2. ASSUME NEW o \in K, o.id < e.id PROVE o.id <= b.id
      <4>1. SUFFICES ASSUME o.id > b.id PROVE FALSE
        BY <2>1, <3>1
      <4>2. o.time > p
        BY <1>6, <2>1, <2>3, <3>1, <4>1
      <4>3. Cut(o) \in Kept(d, r, f)
        BY <2>1, <4>2
      <4> QED
        BY <2>1, <2>4, <2>7, <3>1, <3>2, <4>1, <4>3
    <3> QED
      BY <1>12, <2>7, <3>1, <3>2 DEF TellsValue, Unread, K
  <2> QED
    BY <2>5, <2>6, <2>7 DEF TellsValue
<1>13. TellsData(rule.type, d)
  BY <1>1, <1>8, <1>12 DEF TellsData
<1>14. RowsOK(db', ops') /\ HaveRequests(db') /\ TellsData(rule'.type, db')
  BY <1>1, <1>3, <1>10, <1>11, <1>13
<1> QED
  BY <1>1, <1>14 DEF AuditInd

LEMMA AuditInit == ASSUME Audit!AuditLogParameters, Audit!Init PROVE AuditInd
<1>1. /\ rule.type \in {"full", "fast"} /\ tx = None /\ http = 0 /\ ops = 0
  BY DEF Audit!Init, Audit!AuditLogParameters
<1>2. /\ DOMAIN db = DatabaseFields /\ db.logs = {} /\ db.requests = {} /\ db.sessions = {}
      /\ db.purged = 0 /\ db.cleaned = 0 /\ db.data = [r \in Logged |-> None]
  BY DEF Audit!Init, DatabaseFields
<1>3. RowsOK(db, ops) /\ HaveRequests(db) /\ TellsData(rule.type, db)
  BY <1>1, <1>2 DEF RowsOK, HaveRequests, TellsData
<1> QED
  BY <1>1, <1>3 DEF AuditInd

LEMMA AuditStep ==
  ASSUME Audit!AuditLogParameters, AuditInd, Audit!Next \/ UNCHANGED Audit!vars
  PROVE  AuditInd'
<1>1. ASSUME NEW excluded \in BOOLEAN, NEW vals \in Audit!Vals,
             \/ \E r \in Logged, flushed \in BOOLEAN: Audit!create(r, vals, flushed, excluded)
             \/ \E records \in SUBSET Logged: Audit!write(records, vals, excluded)
      PROVE  AuditInd'
  BY <1>1, AuditCreate, AuditWrite
<1>2. ASSUME NEW excluded \in BOOLEAN, NEW records \in SUBSET Logged,
             Audit!unlink(records, excluded) \/ Audit!read(records)
      PROVE  AuditInd'
  BY <1>2, AuditOthers
<1>3. ASSUME NEW r \in Logged, Audit!export_data(r) PROVE AuditInd'
  BY <1>3, AuditOthers
<1>4. ASSUME NEW deadline, NEW chunk, Audit!autovacuum(deadline, chunk) PROVE AuditInd'
  BY <1>4, AuditVacuum
<1>5. CASE Audit!Begin \/ Audit!Commit \/ Audit!Retry \/ Audit!Flush \/ UNCHANGED Audit!vars
  BY <1>5, AuditTransactions
<1> QED
  BY <1>1, <1>2, <1>3, <1>4, <1>5 DEF Audit!Next

\* Some fields with their values.
Valued == UNION {[F -> Datum]: F \in SUBSET Audit!Field}

LEMMA LinesTyped ==
  ASSUME Audit!AuditLogParameters, NEW method, NEW before, NEW after,
         method \in {"create", "write"} => before \in Valued /\ after \in Valued,
         method = "read" \/ (method = "unlink" /\ rule.capture) => before \in Valued
  PROVE  Audit!LinesOf(method, before, after) \in Audit!Lines
<1>1. False \in Datum
  BY DEF Audit!AuditLogParameters
<1>2. \A v \in Valued: DOMAIN v \in SUBSET Audit!Field /\ \A f \in DOMAIN v: v[f] \in Datum
  BY DEF Valued
<1>3. ASSUME NEW F \in SUBSET Audit!Field, NEW g \in [F -> Audit!Line] PROVE g \in Audit!Lines
  BY <1>3 DEF Audit!Lines
<1>4. Audit!EMPTY_DICT \in Audit!Lines
  <2>1. Audit!EMPTY_DICT \in [{} -> Audit!Line]
    BY DEF Audit!EMPTY_DICT
  <2> QED BY <1>3, <2>1
<1>5. ASSUME NEW v \in Valued PROVE Audit!create_log_line_on_read(v) \in Audit!Lines
  <2> DEFINE F == DOMAIN v \ Secret
  <2>1. F \in SUBSET Audit!Field /\ \A f \in F: [old |-> v[f], new |-> False] \in Audit!Line
    BY <1>1, <1>2 DEF Audit!Line
  <2>2. Audit!create_log_line_on_read(v) = [f \in F |-> [old |-> v[f], new |-> False]]
    BY DEF Audit!create_log_line_on_read, Audit!LoggedFields
  <2> HIDE DEF F
  <2>3. Audit!create_log_line_on_read(v) \in [F -> Audit!Line]
    BY <2>1, <2>2
  <2> QED BY <1>3, <2>1, <2>3
<1>6. CASE method = "create"
  <2> DEFINE F == (DOMAIN after \ DOMAIN before) \ Secret
  <2>1. F \in SUBSET Audit!Field /\ \A f \in F: [old |-> False, new |-> after[f]] \in Audit!Line
    BY <1>1, <1>2, <1>6 DEF Audit!Line
  <2>2. Audit!LinesOf(method, before, after) = [f \in F |-> [old |-> False, new |-> after[f]]]
    BY <1>6 DEF Audit!LinesOf, Audit!create_log_line_on_create, Audit!LoggedFields, Audit!added
  <2> HIDE DEF F
  <2>3. Audit!LinesOf(method, before, after) \in [F -> Audit!Line]
    BY <2>1, <2>2
  <2> QED BY <1>3, <2>1, <2>3
<1>7. CASE method = "write"
  <2> DEFINE F == Audit!changed(after, before) \ Secret
  <2>1. F \in SUBSET Audit!Field /\ \A f \in F: [old |-> before[f], new |-> after[f]] \in Audit!Line
    BY <1>2, <1>7 DEF Audit!Line, Audit!changed
  <2>2. Audit!LinesOf(method, before, after) = [f \in F |-> [old |-> before[f], new |-> after[f]]]
    BY <1>7 DEF Audit!LinesOf, Audit!create_log_line_on_write, Audit!LoggedFields
  <2> HIDE DEF F
  <2>3. Audit!LinesOf(method, before, after) \in [F -> Audit!Line]
    BY <2>1, <2>2
  <2> QED BY <1>3, <2>1, <2>3
<1>8. CASE method = "read"
  BY <1>5, <1>8 DEF Audit!LinesOf
<1>9. CASE method \notin {"create", "write", "read"}
  BY <1>4, <1>5, <1>9 DEF Audit!LinesOf
<1> QED BY <1>6, <1>7, <1>8, <1>9

\* The rows that an operation adds.
LEMMA OperationTyped ==
  ASSUME Audit!AuditLogParameters, AuditInd, AuditInd', Audit!TypeOK,
         NEW excluded \in BOOLEAN, NEW method \in {"create", "read", "write", "unlink", "export_data"},
         NEW records \in SUBSET Logged, NEW before, NEW after,
         NEW data \in [Logged -> Audit!Stored \union {None}], NEW P \in SUBSET Logged,
         Audit!Perform(excluded, records, data, P, Audit!create_logs(tx.db, method, records, before, after)),
         \A r \in records: Audit!LinesOf(method, before[r], after[r]) \in Audit!Lines
  PROVE  Audit!TypeOK'
<1> DEFINE d == tx.db
           h == Audit!WithHttp(d)
           q == Audit!current_http_request(d)
           s == Audit!current_http_session(d)
           c == Audit!create_logs(d, method, records, before, after)
           n == IF excluded THEN [d EXCEPT !.data = data, !.silent = d.silent \union records]
                ELSE [c EXCEPT !.data = data]
           Ids == 1..MaxSteps["audit"]
<1>1. /\ tx # None /\ ops < MaxSteps["audit"] /\ ops' = ops + 1 /\ rule' = rule /\ db' = db
      /\ tx' = [tx EXCEPT !.db = n, !.pending = P]
  BY DEF Audit!Perform
<1>2. /\ d \in Audit!Database /\ tx \in [db: Audit!Database, start: Ids, pending: SUBSET Logged] /\ ops \in Nat
      /\ MaxSteps["audit"] \in Nat /\ tx.start \in Ids
  BY <1>1 DEF Audit!TypeOK, Audit!AuditLogParameters
<1>3. q \in Ids /\ s \in Ids /\ ops + 1 \in Ids
  BY <1>1, <1>2, RequestOfLog
<1> DEFINE S == [id |-> s, time |-> tx.start]
           Q == [id |-> q, time |-> tx.start, session |-> s]
<1>4. S \in Audit!Session /\ Q \in Audit!Request
  BY <1>2, <1>3 DEF Audit!Session, Audit!Request
<1>5. h = [d EXCEPT !.sessions = IF s = ops + 1 THEN d.sessions \union {S} ELSE d.sessions,
                    !.requests = IF q = ops + 1 THEN d.requests \union {Q} ELSE d.requests]
  BY DEF Audit!WithHttp
<1> DEFINE e(r) == [id |-> ops + 1, time |-> tx.start, rec |-> r, method |-> method,
                    lines |-> Audit!LinesOf(method, before[r], after[r]), request |-> q, session |-> s]
<1>6. \A r \in records: e(r) \in Audit!Entry
  BY <1>2, <1>3 DEF Audit!Entry
<1>7. PICK N \in SUBSET Audit!Entry: c = [h EXCEPT !.logs = h.logs \union N]
  <2> DEFINE linesOf == [r \in records |-> Audit!LinesOf(method, before[r], after[r])]
             chosen == {r \in records: method \in {"unlink", "export_data"} \/ linesOf[r] # Audit!EMPTY_DICT}
             N == {[id |-> ops + 1, time |-> tx.start, rec |-> r, method |-> method,
                    lines |-> linesOf[r], request |-> q, session |-> s]: r \in chosen}
  <2>1. c = [h EXCEPT !.logs = h.logs \union N]
    BY DEF Audit!create_logs
  <2>2. N = {e(r): r \in chosen} /\ chosen \subseteq records
    OBVIOUS
  <2> HIDE DEF N, c, h, e, chosen
  <2>3. N \in SUBSET Audit!Entry
    BY <1>6, <2>2
  <2> QED BY <2>1, <2>3
<1> HIDE DEF d, h, q, s, c, S, Q, e
<1>8. h \in Audit!Database
  <2>1. /\ (IF s = ops + 1 THEN d.sessions \union {S} ELSE d.sessions) \in SUBSET Audit!Session
        /\ (IF q = ops + 1 THEN d.requests \union {Q} ELSE d.requests) \in SUBSET Audit!Request
    BY <1>2, <1>4 DEF Audit!Database
  <2> QED BY <1>2, <1>5, <2>1 DEF Audit!Database
<1>9. c \in Audit!Database
  <2>1. h.logs \union N \in SUBSET Audit!Entry
    BY <1>8 DEF Audit!Database
  <2> QED BY <1>7, <1>8, <2>1 DEF Audit!Database
<1>10. n \in Audit!Database
  <2>1. d.silent \union records \in SUBSET Logged
    BY <1>2 DEF Audit!Database
  <2>2. CASE excluded
    BY <1>2, <2>1, <2>2 DEF Audit!Database
  <2>3. CASE ~excluded
    BY <1>9, <2>3 DEF Audit!Database
  <2> QED BY <2>2, <2>3
<1> HIDE DEF n
<1>11. tx' \in [db: Audit!Database, start: Ids, pending: SUBSET Logged]
  BY <1>1, <1>2, <1>10
<1>12. http' \in 0..ops'
  BY DEF AuditInd
<1> QED BY <1>1, <1>2, <1>3, <1>11, <1>12 DEF Audit!TypeOK

LEMMA CreateTyped ==
  ASSUME Audit!AuditLogParameters, AuditInd, AuditInd', Audit!TypeOK,
         NEW r \in Logged, NEW vals \in Audit!Vals, NEW flushed \in BOOLEAN,
         NEW excluded \in BOOLEAN, Audit!create(r, vals, flushed, excluded)
  PROVE  Audit!TypeOK'
<1> DEFINE given == [f \in Audit!Field |-> IF f \in DOMAIN vals THEN vals[f] ELSE False]
           values == Audit!Recompute(given)
           fields == IF rule.type = "full" THEN Audit!InDatabase(values, ~flushed) ELSE vals
           before == Audit!Empty({r})
           after == [x \in {r} |-> fields]
           data == [tx.db.data EXCEPT ![r] = values]
           P == IF flushed THEN tx.pending \ {r} ELSE tx.pending \union {r}
<1>1. Audit!Perform(excluded, {r}, data, P, Audit!create_logs(tx.db, "create", {r}, before, after)) /\ tx # None
  BY DEF Audit!create
<1>2. /\ DOMAIN vals \in SUBSET Audit!Field /\ vals \in [DOMAIN vals -> Datum] /\ False \in Datum
      /\ tx.db.data \in [Logged -> Audit!Stored \union {None}]
  BY <1>1 DEF Audit!Vals, Audit!Field, Audit!AuditLogParameters, Audit!TypeOK, Audit!Database
<1>3. DOMAIN given = Audit!Field /\ \A f \in Audit!Field: given[f] \in Datum
  BY <1>2
<1>4. values \in Audit!Stored
  BY <1>3, RecomputedIsStored
<1> HIDE DEF values
<1>5. data \in [Logged -> Audit!Stored \union {None}]
  BY <1>2, <1>4
<1>10. Audit!InDatabase(values, ~flushed) \in Audit!Stored /\ P \in SUBSET Logged
  BY <1>1, <1>4, InDatabaseIsStored DEF Audit!TypeOK
<1>6. Audit!InDatabase(values, ~flushed) \in Valued /\ vals \in Valued
  BY <1>2, <1>10 DEF Valued, Audit!Stored
<1>7. before[r] = Audit!EMPTY_DICT /\ after[r] \in Valued
  BY <1>6 DEF Audit!Empty
<1>8. Audit!EMPTY_DICT \in Valued
  <2>1. Audit!EMPTY_DICT \in [{} -> Datum]
    BY DEF Audit!EMPTY_DICT
  <2> QED
    BY <2>1 DEF Valued
<1> HIDE DEF before, after, data, P
<1>9. \A x \in {r}: Audit!LinesOf("create", before[x], after[x]) \in Audit!Lines
  BY <1>7, <1>8, LinesTyped
<1> QED
  BY <1>1, <1>5, <1>9, <1>10, OperationTyped

LEMMA WriteTyped ==
  ASSUME Audit!AuditLogParameters, AuditInd, AuditInd', Audit!TypeOK, NEW records \in SUBSET Logged,
         NEW vals \in Audit!Vals, NEW excluded \in BOOLEAN, Audit!write(records, vals, excluded)
  PROVE  Audit!TypeOK'
<1> DEFINE written(r) == [f \in Audit!Field |-> IF f \in DOMAIN vals THEN vals[f] ELSE tx.db.data[r][f]]
           data == [r \in Logged |-> IF r \notin records THEN tx.db.data[r] ELSE Audit!Recompute(written(r))]
           fast == rule.type = "fast"
           before == [r \in records |-> IF fast THEN [f \in DOMAIN vals |-> False] ELSE Audit!InDatabase(tx.db.data[r], r \in tx.pending)]
           after == [r \in records |-> IF fast THEN vals ELSE data[r]]
           P == IF fast THEN tx.pending ELSE tx.pending \ records
<1>1. /\ tx # None /\ records \subseteq Audit!Existing
      /\ Audit!Perform(excluded, records, data, P, Audit!create_logs(tx.db, "write", records, before, after))
  BY DEF Audit!write
<1>2. /\ DOMAIN vals \in SUBSET Audit!Field /\ vals \in [DOMAIN vals -> Datum] /\ False \in Datum
      /\ tx.db.data \in [Logged -> Audit!Stored \union {None}]
  BY <1>1 DEF Audit!Vals, Audit!Field, Audit!AuditLogParameters, Audit!TypeOK, Audit!Database
<1>3. ASSUME NEW r \in records PROVE tx.db.data[r] \in Audit!Stored /\ data[r] \in Audit!Stored
  <2>1. tx.db.data[r] \in Audit!Stored
    BY <1>1, <1>2 DEF Audit!Existing
  <2>2. DOMAIN written(r) = Audit!Field /\ \A f \in Audit!Field: written(r)[f] \in Datum
    BY <1>2, <2>1 DEF Audit!Stored
  <2> HIDE DEF written
  <2>3. Audit!Recompute(written(r)) \in Audit!Stored
    BY <2>2, RecomputedIsStored
  <2> QED
    BY <2>1, <2>3
<1>4. data \in [Logged -> Audit!Stored \union {None}]
  <2>1. DOMAIN data = Logged /\ \A r \in Logged \ records: data[r] = tx.db.data[r]
    OBVIOUS
  <2>2. data = [r \in Logged |-> data[r]]
    OBVIOUS
  <2> HIDE DEF data
  <2>3. \A r \in Logged: data[r] \in Audit!Stored \union {None}
    BY <1>2, <1>3, <2>1
  <2> QED
    BY <2>2, <2>3
<1>5. vals \in Valued /\ [f \in DOMAIN vals |-> False] \in Valued /\ Audit!Stored \subseteq Valued
  <2>1. [f \in DOMAIN vals |-> False] \in [DOMAIN vals -> Datum]
    BY <1>2
  <2> QED
    BY <1>2, <2>1 DEF Valued, Audit!Stored
<1> HIDE DEF data
<1>6. ASSUME NEW r \in records PROVE before[r] \in Valued /\ after[r] \in Valued
  <2> DEFINE was == Audit!InDatabase(tx.db.data[r], r \in tx.pending)
  <2>1. /\ before[r] = IF fast THEN [f \in DOMAIN vals |-> False] ELSE was
        /\ after[r] = IF fast THEN vals ELSE data[r]
    OBVIOUS
  <2>2. was \in Audit!Stored
    BY <1>3, InDatabaseIsStored
  <2> HIDE DEF was
  <2> QED
    BY <1>3, <1>5, <2>1, <2>2
<1>8. P \in SUBSET Logged
  BY <1>1 DEF Audit!TypeOK
<1> HIDE DEF before, after, P
<1>7. \A r \in records: Audit!LinesOf("write", before[r], after[r]) \in Audit!Lines
  BY <1>6, LinesTyped
<1> QED
  BY <1>1, <1>4, <1>7, <1>8, OperationTyped

LEMMA OthersTyped ==
  ASSUME Audit!AuditLogParameters, AuditInd, AuditInd', Audit!TypeOK,
         NEW records \in SUBSET Logged, NEW excluded \in BOOLEAN,
         \/ Audit!read(records) \/ Audit!unlink(records, excluded)
         \/ \E r \in Logged: records = {r} /\ Audit!export_data(r)
  PROVE  Audit!TypeOK'
<1>1. tx # None
  BY DEF Audit!read, Audit!unlink, Audit!export_data
<1>2. tx.db.data \in [Logged -> Audit!Stored \union {None}] /\ tx.pending \in SUBSET Logged
  BY <1>1 DEF Audit!TypeOK, Audit!Database
<1>3. Audit!Stored \subseteq Valued
  BY DEF Valued, Audit!Stored
<1>4. ASSUME NEW r \in Audit!Existing PROVE tx.db.data[r] \in Valued
  BY <1>2, <1>3 DEF Audit!Existing
<1>5. Audit!EMPTY_DICT \in Valued
  <2>1. Audit!EMPTY_DICT \in [{} -> Datum]
    BY DEF Audit!EMPTY_DICT
  <2> QED
    BY <2>1 DEF Valued
<1>6. \A r \in records: Audit!Empty(records)[r] = Audit!EMPTY_DICT
  BY DEF Audit!Empty
<1>7. CASE Audit!read(records)
  <2>1. records \subseteq Audit!Existing
    BY <1>7 DEF Audit!read
  <2>2. \A r \in records: Audit!LinesOf("read", tx.db.data[r], Audit!Empty(records)[r]) \in Audit!Lines
    BY <1>4, <2>1, LinesTyped
  <2> DEFINE data == tx.db.data
             after == Audit!Empty(records)
  <2>3. Audit!Perform(FALSE, records, data, tx.pending, Audit!create_logs(tx.db, "read", records, data, after))
    BY <1>7 DEF Audit!read
  <2>4. data \in [Logged -> Audit!Stored \union {None}] /\ FALSE \in BOOLEAN
    BY <1>2
  <2> HIDE DEF data, after
  <2>5. \A r \in records: Audit!LinesOf("read", data[r], after[r]) \in Audit!Lines
    BY <2>2 DEF data, after
  <2> QED
    BY <1>2, <2>3, <2>4, <2>5, OperationTyped
<1>8. CASE Audit!unlink(records, excluded)
  <2> DEFINE data == [r \in Logged |-> IF r \in records THEN None ELSE tx.db.data[r]]
             before == IF rule.type = "full" THEN tx.db.data ELSE Audit!Empty(records)
             P == tx.pending \ records
  <2>1. /\ records \subseteq Audit!Existing
        /\ Audit!Perform(excluded, records, data, P,
                         Audit!create_logs(tx.db, "unlink", records, before, Audit!Empty(records)))
    BY <1>8 DEF Audit!unlink
  <2>2. data \in [Logged -> Audit!Stored \union {None}] /\ P \in SUBSET Logged
    BY <1>2
  <2>3. \A r \in records: before[r] \in Valued
    BY <1>4, <1>5, <1>6, <2>1
  <2> HIDE DEF data, before, P
  <2>4. \A r \in records: Audit!LinesOf("unlink", before[r], Audit!Empty(records)[r]) \in Audit!Lines
    BY <2>3, LinesTyped
  <2> QED
    BY <2>1, <2>2, <2>4, OperationTyped
<1>9. ASSUME NEW r \in Logged, records = {r}, Audit!export_data(r) PROVE Audit!TypeOK'
  <2> DEFINE data == tx.db.data
             empty == Audit!Empty({r})
  <2>1. Audit!Perform(FALSE, {r}, data, tx.pending, Audit!create_logs(tx.db, "export_data", {r}, empty, empty))
    BY <1>9 DEF Audit!export_data
  <2>2. \A x \in {r}: Audit!LinesOf("export_data", empty[x], empty[x]) \in Audit!Lines
    BY LinesTyped
  <2>3. data \in [Logged -> Audit!Stored \union {None}] /\ FALSE \in BOOLEAN /\ {r} \in SUBSET Logged
    BY <1>2
  <2> HIDE DEF data, empty
  <2> QED
    BY <1>2, <2>1, <2>2, <2>3, OperationTyped
<1> QED
  BY <1>7, <1>8, <1>9

LEMMA TransactionsTyped ==
  ASSUME Audit!AuditLogParameters, AuditInd, AuditInd', Audit!TypeOK,
         Audit!Begin \/ Audit!Commit \/ Audit!Retry \/ Audit!Flush \/ UNCHANGED Audit!vars
  PROVE  Audit!TypeOK'
<1>1. http' \in 0..ops' /\ MaxSteps["audit"] \in Nat
  BY DEF AuditInd, Audit!AuditLogParameters
<1>2. CASE Audit!Begin \/ Audit!Retry
  <2>1. /\ rule' = rule /\ db' = db /\ ops' = ops /\ ops + 1 \in 1..MaxSteps["audit"]
        /\ tx' = [db |-> db, start |-> ops + 1, pending |-> {}]
    BY <1>1, <1>2 DEF Audit!Begin, Audit!Retry, Audit!TypeOK
  <2>2. tx' \in [db: Audit!Database, start: 1..MaxSteps["audit"], pending: SUBSET Logged]
    BY <2>1 DEF Audit!TypeOK
  <2> QED
    BY <1>1, <2>1, <2>2 DEF Audit!TypeOK
<1>3. CASE Audit!Commit
  BY <1>3 DEF Audit!Commit, Audit!TypeOK
<1>4. CASE UNCHANGED Audit!vars
  BY <1>4 DEF Audit!vars, Audit!TypeOK
<1>5. CASE Audit!Flush
  BY <1>5 DEF Audit!Flush, Audit!TypeOK
<1> QED
  BY <1>2, <1>3, <1>4, <1>5

LEMMA VacuumTyped ==
  ASSUME Audit!AuditLogParameters, AuditInd, AuditInd', Audit!TypeOK,
         NEW deadline, NEW chunk, Audit!autovacuum(deadline, chunk)
  PROVE  Audit!TypeOK'
<1> DEFINE M == MaxSteps["audit"]
<1>1. /\ M \in Nat /\ tx' = tx /\ rule' = rule /\ ops' = ops /\ http' = http /\ db \in Audit!Database
      /\ ops \in 0..M
  BY DEF Audit!autovacuum, Audit!TypeOK, Audit!AuditLogParameters
<1>2. PICK L \in SUBSET db.logs, Q \in SUBSET db.requests, S \in SUBSET db.sessions: db' = Vacuumed(L, Q, S)
  BY RowsVacuumed
<1>3. \A id \in 0..M: \A gone: Audit!Ref(id, gone) \in 0..M
  BY <1>1 DEF Audit!Ref
<1>4. {Audit!Unlinked(e, Q, S): e \in db.logs \ L} \in SUBSET Audit!Entry
  <2>1. ASSUME NEW e \in Audit!Entry PROVE Audit!Unlinked(e, Q, S) \in Audit!Entry
    <3>1. Audit!Ref(e.request, Q) \in 0..M /\ Audit!Ref(e.session, S) \in 0..M
      BY <1>3 DEF Audit!Entry
    <3> QED
      BY <3>1 DEF Audit!Unlinked, Audit!Entry
  <2> QED
    BY <1>1, <2>1 DEF Audit!Database
<1>5. {[q EXCEPT !.session = Audit!Ref(q.session, S)]: q \in db.requests \ Q} \in SUBSET Audit!Request
  <2>1. ASSUME NEW q \in Audit!Request PROVE [q EXCEPT !.session = Audit!Ref(q.session, S)] \in Audit!Request
    <3>1. Audit!Ref(q.session, S) \in 0..M
      BY <1>3 DEF Audit!Request
    <3> QED
      BY <3>1 DEF Audit!Request
  <2> QED
    BY <1>1, <2>1 DEF Audit!Database
<1>6. db'.purged \in 0..M /\ db'.cleaned \in 0..M
  BY <1>1 DEF AuditInd, RowsOK
<1> DEFINE logs == {Audit!Unlinked(e, Q, S): e \in db.logs \ L}
           requests == {[q EXCEPT !.session = Audit!Ref(q.session, S)]: q \in db.requests \ Q}
           p == Audit!Max({db.purged} \union {e.time: e \in L})
           c == Audit!Max({db.cleaned} \union {q.time: q \in Q})
<1> HIDE DEF logs, requests, p, c
<1>7. db' = [db EXCEPT !.logs = logs, !.requests = requests, !.sessions = db.sessions \ S,
                       !.purged = p, !.cleaned = c]
  BY <1>2 DEF Vacuumed, logs, requests, p, c
<1>8. db'.purged = p /\ db'.cleaned = c
  BY <1>1, <1>7 DEF Audit!Database
<1>9. logs \in SUBSET Audit!Entry /\ requests \in SUBSET Audit!Request /\ p \in 0..M /\ c \in 0..M
  BY <1>4, <1>5, <1>6, <1>8 DEF logs, requests
<1>10. db' \in Audit!Database
  BY <1>1, <1>7, <1>9 DEF Audit!Database
<1> QED
  BY <1>1, <1>10 DEF Audit!TypeOK, AuditInd

LEMMA AuditTypes ==
  ASSUME Audit!AuditLogParameters, AuditInd, AuditInd', Audit!TypeOK, Audit!Next \/ UNCHANGED Audit!vars
  PROVE  Audit!TypeOK'
<1>1. ASSUME NEW excluded \in BOOLEAN, NEW vals \in Audit!Vals,
             \/ \E r \in Logged, flushed \in BOOLEAN: Audit!create(r, vals, flushed, excluded)
             \/ \E records \in SUBSET Logged: Audit!write(records, vals, excluded)
      PROVE  Audit!TypeOK'
  BY <1>1, CreateTyped, WriteTyped
<1>2. ASSUME NEW excluded \in BOOLEAN, NEW records \in SUBSET Logged,
             Audit!unlink(records, excluded) \/ Audit!read(records)
      PROVE  Audit!TypeOK'
  BY <1>2, OthersTyped
<1>3. ASSUME NEW r \in Logged, Audit!export_data(r) PROVE Audit!TypeOK'
  BY <1>3, OthersTyped
<1>4. ASSUME NEW deadline, NEW chunk, Audit!autovacuum(deadline, chunk) PROVE Audit!TypeOK'
  BY <1>4, VacuumTyped
<1>5. CASE Audit!Begin \/ Audit!Commit \/ Audit!Retry \/ Audit!Flush \/ UNCHANGED Audit!vars
  BY <1>5, TransactionsTyped
<1> QED
  BY <1>1, <1>2, <1>3, <1>4, <1>5 DEF Audit!Next

-----------------------------------------------------------------------------
(***************************************************************************)
(* attachment_synchronize: what a transaction wrote as done has its file   *)
(* on the remote, and its records are locked until it commits.             *)
(***************************************************************************)
\* The remote R has a file of the name, and it is whole if it is that of a.
OnRemote(R, a) == R[FileName[a]].of # None /\ (R[FileName[a]].of = a => R[FileName[a]].whole)

AtRecord == {"locked", "open", "written"}

\* The transaction of a worker: what it wrote and the record it is at are
\* locked, and the record it is at is not written yet.
TransferOK(t) ==
  /\ DOMAIN t = {"op", "pc", "todo", "att", "locked", "snap", "stale", "new"}
  /\ t.op \in {"none", "job", "manual", "export"} /\ t.pc \in {"idle", "next"} \union AtRecord
  /\ t.todo \subseteq Attachment /\ t.locked \subseteq Attachment
  /\ DOMAIN t.new \subseteq t.locked
  /\ \A a \in DOMAIN t.new: t.new[a] \in {"done", "failed"}
  /\ t.pc \in AtRecord => t.att \in t.locked /\ t.att \notin DOMAIN t.new

\* What it wrote is true of the remote R, the record it is at is not done in S,
\* and its snapshot tells which records are.
TransferTrue(t, S, R) ==
  /\ \A a \in DOMAIN t.new: t.new[a] = "done" => OnRemote(R, a)
  /\ t.pc \in AtRecord => S[t.att] # "done"
  /\ t.pc = "written" => OnRemote(R, t.att)
  /\ t.pc # "idle" => \A a \in Attachment \ t.stale: S[a] = "done" => t.snap[a] = "done"

Exported(S, R, C) == \A a \in Attachment: (S[a] = "done" /\ a \notin C) => OnRemote(R, a)

RemoteInd ==
  /\ state \in [Attachment -> Remote!States] /\ job \in [Attachment -> Nat] /\ closed \subseteq Attachment
  /\ DOMAIN remote = Remote!Names
  /\ \A n \in Remote!Names: remote[n].of \in Attachment \union {None} /\ remote[n].whole \in BOOLEAN
  /\ DOMAIN tx = Worker
  /\ \A w \in Worker: TransferOK(tx[w]) /\ TransferTrue(tx[w], state, remote)
  /\ \A w, x \in Worker: w # x => tx[w].locked \intersect tx[x].locked = {}
  /\ Exported(state, remote, closed)

LEMMA RemoteIndMeans == ASSUME RemoteInd PROVE Remote!TypeOK /\ Remote!DoneIsExported
<1>1. Remote!TypeOK
  BY DEF RemoteInd, TransferOK, AtRecord, Remote!TypeOK
<1>2. Remote!DoneIsExported
  BY DEF RemoteInd, Exported, OnRemote, Remote!DoneIsExported
<1> QED BY <1>1, <1>2

LEMMA IdleTransfer == ASSUME NEW S, NEW R PROVE TransferOK(Remote!Idle) /\ TransferTrue(Remote!Idle, S, R)
<1> DEFINE none == [a \in {} |-> "done"]
           t == Remote!Idle
<1>1. DOMAIN none = {}
  OBVIOUS
<1>2. /\ DOMAIN t = {"op", "pc", "todo", "att", "locked", "snap", "stale", "new"}
      /\ t.op = "none" /\ t.pc = "idle" /\ t.todo = {} /\ t.locked = {} /\ t.new = none
  BY DEF Remote!Idle
<1> HIDE DEF none, t
<1>3. TransferOK(t) /\ TransferTrue(t, S, R)
  BY <1>1, <1>2 DEF TransferOK, TransferTrue, AtRecord
<1> QED BY <1>3 DEF t

LEMMA RemoteInit == ASSUME Remote!ExportParameters, Remote!Init PROVE RemoteInd
<1>1. \A w \in Worker: tx[w] = Remote!Idle
  BY DEF Remote!Init
<1>2. \A w \in Worker: tx[w].locked = {}
  BY <1>1 DEF Remote!Idle
<1>3. \A w \in Worker: TransferOK(tx[w]) /\ TransferTrue(tx[w], state, remote)
  BY <1>1, IdleTransfer
<1>4. \A a \in Attachment: state[a] = "absent"
  BY DEF Remote!Init
<1>5. state \in [Attachment -> Remote!States] /\ DOMAIN tx = Worker
  BY DEF Remote!Init, Remote!States
<1>6. /\ DOMAIN remote = Remote!Names
      /\ \A n \in Remote!Names: remote[n].of \in Attachment \union {None} /\ remote[n].whole \in BOOLEAN
      /\ job \in [Attachment -> Nat] /\ closed \subseteq Attachment
  BY DEF Remote!Init
<1> QED BY <1>2, <1>3, <1>4, <1>5, <1>6 DEF RemoteInd, Exported

\* Records C that others wrote are out of the snapshot of t.
LEMMA StaleTransfer ==
  ASSUME NEW t, NEW S, NEW R, NEW C \in SUBSET Attachment, NEW S2,
         TransferOK(t), TransferTrue(t, S, R), t.locked \intersect C = {},
         \A a \in Attachment \ C: S2[a] = S[a]
  PROVE  /\ TransferOK([t EXCEPT !.stale = @ \union C])
         /\ TransferTrue([t EXCEPT !.stale = @ \union C], S2, R)
         /\ [t EXCEPT !.stale = @ \union C].locked = t.locked
<1> DEFINE u == [t EXCEPT !.stale = @ \union C]
<1>1. /\ DOMAIN u = {"op", "pc", "todo", "att", "locked", "snap", "stale", "new"}
      /\ u.op = t.op /\ u.pc = t.pc /\ u.todo = t.todo /\ u.att = t.att /\ u.locked = t.locked
      /\ u.snap = t.snap /\ u.new = t.new /\ u.stale = t.stale \union C
  BY DEF TransferOK
<1> HIDE DEF u
<1>2. TransferOK(u)
  BY <1>1 DEF TransferOK
<1>3. t.pc \in AtRecord => t.att \in Attachment \ C
  BY DEF TransferOK
<1>4. TransferTrue(u, S2, R)
  BY <1>1, <1>3 DEF TransferTrue
<1>5. TransferOK(u) /\ TransferTrue(u, S2, R) /\ u.locked = t.locked
  BY <1>1, <1>2, <1>4
<1> QED BY <1>5 DEF u

LEMMA StaleTransfers ==
  ASSUME RemoteInd, NEW C \in SUBSET Attachment, NEW S2, \A a \in Attachment \ C: S2[a] = state[a],
         NEW w \in Worker, tx[w].locked \intersect C = {}
  PROVE  /\ TransferOK(Remote!Stale(C)[w]) /\ TransferTrue(Remote!Stale(C)[w], S2, remote)
         /\ Remote!Stale(C)[w].locked \subseteq tx[w].locked
<1>1. CASE tx[w].pc = "idle"
  <2>1. Remote!Stale(C)[w] = Remote!Idle
    BY <1>1 DEF Remote!Stale
  <2>2. Remote!Idle.locked = {}
    BY DEF Remote!Idle
  <2> QED BY <2>1, <2>2, IdleTransfer
<1>2. CASE tx[w].pc # "idle"
  <2> DEFINE t == tx[w]
             u == [t EXCEPT !.stale = @ \union C]
  <2>1. Remote!Stale(C)[w] = u
    BY <1>2 DEF Remote!Stale
  <2>2. TransferOK(t) /\ TransferTrue(t, state, remote) /\ t.locked \intersect C = {}
    BY DEF RemoteInd
  <2> HIDE DEF t
  <2>3. TransferOK(u) /\ TransferTrue(u, S2, remote) /\ u.locked = t.locked
    BY <2>2, StaleTransfer, ZenonT(60)
  <2> HIDE DEF u
  <2> QED BY <2>1, <2>3 DEF t
<1> QED BY <1>1, <1>2

\* One worker changes its own transaction, and nothing else but the jobs.
LEMMA TransferChanges ==
  ASSUME RemoteInd, NEW w \in Worker, NEW t, tx' = [tx EXCEPT ![w] = t],
         job' \in [Attachment -> Nat], UNCHANGED <<state, remote, closed>>,
         TransferOK(t), TransferTrue(t, state, remote),
         \A x \in Worker: x # w => t.locked \intersect tx[x].locked = {}
  PROVE  RemoteInd'
<1>1. DOMAIN tx' = Worker /\ tx'[w] = t /\ \A x \in Worker: x # w => tx'[x] = tx[x]
  BY DEF RemoteInd
<1>2. \A x \in Worker: TransferOK(tx'[x]) /\ TransferTrue(tx'[x], state, remote)
  BY <1>1 DEF RemoteInd
<1>3. \A x, y \in Worker: x # y => tx'[x].locked \intersect tx'[y].locked = {}
  BY <1>1 DEF RemoteInd
<1>4. (\A x \in Worker: TransferOK(tx[x]) /\ TransferTrue(tx[x], state, remote))'
  BY <1>2 DEF TransferOK, TransferTrue, OnRemote
<1> QED BY <1>1, <1>3, <1>4 DEF RemoteInd, Exported, OnRemote

LEMMA RemoteCreate ==
  ASSUME RemoteInd, NEW a \in Attachment, Remote!create(a) PROVE RemoteInd'
<1>1. /\ state[a] = "absent" /\ state' = [state EXCEPT ![a] = "pending"]
      /\ job' = [job EXCEPT ![a] = 1] /\ UNCHANGED <<remote, tx, closed>>
  BY DEF Remote!create
<1>2. /\ state' \in [Attachment -> Remote!States] /\ job' \in [Attachment -> Nat]
      /\ \A c \in Attachment: state'[c] = "done" => state[c] = "done"
      /\ \A c: c # a => state'[c] = state[c]
  BY <1>1 DEF RemoteInd, Remote!States
<1>3. state'[a] # "done"
  BY <1>1 DEF RemoteInd
<1>4. (\A w \in Worker: TransferOK(tx[w]) /\ TransferTrue(tx[w], state, remote))'
  BY <1>1, <1>2, <1>3 DEF RemoteInd, TransferOK, TransferTrue, OnRemote
<1>5. Exported(state, remote, closed)'
  BY <1>1, <1>2 DEF RemoteInd, Exported, OnRemote
<1> QED BY <1>1, <1>2, <1>4, <1>5 DEF RemoteInd

LEMMA RemoteUserWrites ==
  ASSUME RemoteInd, NEW a \in Attachment, NEW st \in Remote!States, Remote!UserWrites(a, st),
         job' \in [Attachment -> Nat],
         IF st = "done" THEN closed' = closed \union {a} ELSE closed' = closed \ {a}
  PROVE  RemoteInd'
<1>1. /\ \A w \in Worker: a \notin tx[w].locked
      /\ state' = [state EXCEPT ![a] = st] /\ tx' = Remote!Stale({a}) /\ UNCHANGED remote
  BY DEF Remote!UserWrites, Remote!Free
<1>2. /\ state' \in [Attachment -> Remote!States] /\ state'[a] = st
      /\ \A c \in Attachment \ {a}: state'[c] = state[c]
  BY <1>1 DEF RemoteInd
<1>3. \A w \in Worker: /\ TransferOK(tx'[w]) /\ TransferTrue(tx'[w], state', remote)
                       /\ tx'[w].locked \subseteq tx[w].locked
  <2> SUFFICES ASSUME NEW w \in Worker
               PROVE  /\ TransferOK(tx'[w]) /\ TransferTrue(tx'[w], state', remote)
                      /\ tx'[w].locked \subseteq tx[w].locked
    OBVIOUS
  <2>1. tx[w].locked \intersect {a} = {}
    BY <1>1
  <2>2. /\ TransferOK(Remote!Stale({a})[w]) /\ TransferTrue(Remote!Stale({a})[w], state', remote)
        /\ Remote!Stale({a})[w].locked \subseteq tx[w].locked
    BY <1>2, <2>1, StaleTransfers
  <2> QED BY <1>1, <2>2
<1>4. \A w, x \in Worker: w # x => tx'[w].locked \intersect tx'[x].locked = {}
  BY <1>3 DEF RemoteInd
<1>5. DOMAIN tx' = Worker
  BY <1>1 DEF Remote!Stale
<1>6. (\A w \in Worker: TransferOK(tx[w]) /\ TransferTrue(tx[w], state, remote))'
  <2>1. remote' = remote
    BY <1>1
  <2> QED BY <1>3, <2>1 DEF TransferOK, TransferTrue, OnRemote
<1>7. Exported(state, remote, closed)'
  BY <1>1, <1>2 DEF RemoteInd, Exported, OnRemote
<1>8. closed' \subseteq Attachment
  BY DEF RemoteInd
<1> QED BY <1>1, <1>2, <1>4, <1>5, <1>6, <1>7, <1>8 DEF RemoteInd

LEMMA RemoteBegin ==
  ASSUME RemoteInd, NEW w \in Worker, NEW op \in {"job", "manual", "export"},
         NEW S \in SUBSET Attachment, Remote!Begin(w, op, S), job' \in [Attachment -> Nat]
  PROVE  RemoteInd'
<1> DEFINE t == [Remote!Idle EXCEPT !.op = op, !.pc = "next", !.todo = S, !.snap = state]
           none == [a \in {} |-> "done"]
<1>1. tx' = [tx EXCEPT ![w] = t] /\ UNCHANGED <<state, remote, closed>>
  BY DEF Remote!Begin
<1>2. DOMAIN none = {}
  OBVIOUS
<1>3. /\ DOMAIN t = {"op", "pc", "todo", "att", "locked", "snap", "stale", "new"}
      /\ t.op = op /\ t.pc = "next" /\ t.todo = S /\ t.locked = {} /\ t.new = none /\ t.snap = state
  BY DEF Remote!Idle
<1> HIDE DEF t, none
<1>4. TransferOK(t) /\ TransferTrue(t, state, remote)
  BY <1>2, <1>3 DEF TransferOK, TransferTrue, AtRecord
<1>5. \A x \in Worker: x # w => t.locked \intersect tx[x].locked = {}
  BY <1>3
<1> QED BY <1>1, <1>4, <1>5, TransferChanges

LEMMA RemoteLock ==
  ASSUME RemoteInd, NEW w \in Worker, NEW a \in Attachment, Remote!Lock(w, a) PROVE RemoteInd'
<1> DEFINE s == tx[w]
           t == [s EXCEPT !.locked = @ \union {a}, !.todo = @ \ {a}, !.att = a,
                          !.pc = IF s.snap[a] = "done" THEN "next" ELSE "locked"]
<1>1. /\ s.pc = "next" /\ \A x \in Worker: a \notin tx[x].locked
      /\ a \notin s.stale /\ UNCHANGED <<state, job, remote, closed>>
  BY DEF Remote!Lock, Remote!CanLock, Remote!Free
<1>2. tx' = [tx EXCEPT ![w] = t]
  BY DEF Remote!Lock, RemoteInd
<1>3. TransferOK(s) /\ TransferTrue(s, state, remote)
  BY DEF RemoteInd
<1>4. /\ DOMAIN t = {"op", "pc", "todo", "att", "locked", "snap", "stale", "new"}
      /\ t.op = s.op /\ t.pc = (IF s.snap[a] = "done" THEN "next" ELSE "locked")
      /\ t.todo = s.todo \ {a} /\ t.att = a /\ t.locked = s.locked \union {a}
      /\ t.snap = s.snap /\ t.stale = s.stale /\ t.new = s.new
  BY <1>3 DEF TransferOK
<1>5. a \notin s.locked
  BY <1>1
<1>6. \A x \in Worker: x # w => t.locked \intersect tx[x].locked = {}
  BY <1>1, <1>4 DEF RemoteInd
<1> HIDE DEF s, t
<1>7. TransferOK(t)
  BY <1>3, <1>4, <1>5 DEF TransferOK, AtRecord
<1>8. TransferTrue(t, state, remote)
  BY <1>1, <1>3, <1>4 DEF TransferTrue, AtRecord
<1>9. job' \in [Attachment -> Nat]
  BY <1>1 DEF RemoteInd
<1> QED BY <1>1, <1>2, <1>6, <1>7, <1>8, <1>9, TransferChanges

LEMMA RemoteRollback ==
  ASSUME RemoteInd, NEW w \in Worker, Remote!Rollback(w) PROVE RemoteInd'
<1>1. tx' = [tx EXCEPT ![w] = Remote!Idle] /\ UNCHANGED <<state, remote, closed>>
  BY DEF Remote!Rollback
<1>2. job' \in [Attachment -> Nat]
  BY DEF Remote!Rollback, RemoteInd
<1>3. \A x \in Worker: x # w => Remote!Idle.locked \intersect tx[x].locked = {}
  BY DEF Remote!Idle
<1> QED BY <1>1, <1>2, <1>3, IdleTransfer, TransferChanges

\* What w wrote becomes visible.
LEMMA RemotePublish ==
  ASSUME RemoteInd, NEW w \in Worker, NEW out, Remote!Publish(w, out), remote' = remote,
         job' \in [Attachment -> Nat], DOMAIN out \subseteq tx[w].locked,
         \A a \in DOMAIN out: out[a] \in {"done", "failed"} /\ (out[a] = "done" => OnRemote(remote, a))
  PROVE  RemoteInd'
<1> DEFINE C == DOMAIN out
<1>1. C \subseteq tx[w].locked /\ C \in SUBSET Attachment
  BY DEF RemoteInd, TransferOK
<1>2. /\ state' = [a \in Attachment |-> IF a \in C THEN out[a] ELSE state[a]]
      /\ closed' = closed \ C
      /\ tx' = [Remote!Stale(C) EXCEPT ![w] = Remote!Idle]
  BY DEF Remote!Publish
<1> HIDE DEF C
<1>3. /\ \A a \in Attachment \ C: state'[a] = state[a]
      /\ \A a \in C: state'[a] = out[a]
      /\ state' \in [Attachment -> Remote!States]
  <2>1. \A a \in C: out[a] \in {"done", "failed"}
    BY DEF C
  <2> QED BY <1>1, <1>2, <2>1 DEF RemoteInd, Remote!States
<1>4. /\ DOMAIN tx' = Worker /\ tx'[w] = Remote!Idle
      /\ \A x \in Worker: x # w => tx'[x] = Remote!Stale(C)[x]
  <2>1. DOMAIN Remote!Stale(C) = Worker
    BY DEF Remote!Stale
  <2> QED BY <1>2, <2>1
<1>5. Remote!Idle.locked = {}
  BY DEF Remote!Idle
<1>6. ASSUME NEW x \in Worker
      PROVE  /\ TransferOK(tx'[x]) /\ TransferTrue(tx'[x], state', remote)
             /\ tx'[x].locked \subseteq tx[x].locked
  <2>1. CASE x = w
    BY <1>4, <1>5, <2>1, IdleTransfer
  <2>2. CASE x # w
    <3>1. tx[x].locked \intersect C = {}
      BY <1>1, <2>2 DEF RemoteInd
    <3>2. /\ TransferOK(Remote!Stale(C)[x]) /\ TransferTrue(Remote!Stale(C)[x], state', remote)
          /\ Remote!Stale(C)[x].locked \subseteq tx[x].locked
      BY <1>1, <1>3, <3>1, StaleTransfers
    <3> QED BY <1>4, <2>2, <3>2
  <2> QED BY <2>1, <2>2
<1>7. \A x, y \in Worker: x # y => tx'[x].locked \intersect tx'[y].locked = {}
  BY <1>6 DEF RemoteInd
<1>8. (\A x \in Worker: TransferOK(tx[x]) /\ TransferTrue(tx[x], state, remote))'
  BY <1>6 DEF TransferOK, TransferTrue, OnRemote
<1>9. Exported(state, remote, closed)'
  <2>1. \A a \in C: out[a] = "done" => OnRemote(remote, a)
    BY DEF C
  <2>2. \A a \in Attachment: state'[a] = "done" /\ a \notin closed' => OnRemote(remote, a)
    BY <1>1, <1>2, <1>3, <2>1 DEF RemoteInd, Exported
  <2> QED BY <2>2 DEF Exported, OnRemote
<1>10. closed' \subseteq Attachment
  BY <1>2 DEF RemoteInd
<1> QED BY <1>3, <1>4, <1>7, <1>8, <1>9, <1>10 DEF RemoteInd

LEMMA RemoteCommit ==
  ASSUME RemoteInd, NEW w \in Worker, Remote!Commit(w) PROVE RemoteInd'
<1>1. Remote!Publish(w, tx[w].new) /\ UNCHANGED <<job, remote>>
  BY DEF Remote!Commit
<1>2. TransferOK(tx[w]) /\ TransferTrue(tx[w], state, remote) /\ job' \in [Attachment -> Nat]
  BY <1>1 DEF RemoteInd
<1>3. /\ DOMAIN tx[w].new \subseteq tx[w].locked
      /\ \A a \in DOMAIN tx[w].new: tx[w].new[a] \in {"done", "failed"}
                                   /\ (tx[w].new[a] = "done" => OnRemote(remote, a))
  BY <1>2 DEF TransferOK, TransferTrue
<1> HIDE DEF RemoteInd
<1> QED BY <1>1, <1>2, <1>3, RemotePublish

\* What w has written with the record it is at.
LEMMA WrittenWith ==
  ASSUME RemoteInd, NEW w \in Worker, tx[w].pc \in AtRecord, NEW st \in {"done", "failed"},
         st = "done" => tx[w].pc = "written"
  PROVE  /\ DOMAIN Remote!Writes(w, st) = DOMAIN tx[w].new \union {tx[w].att}
         /\ DOMAIN Remote!Writes(w, st) \subseteq tx[w].locked
         /\ tx[w].att \in Attachment /\ tx[w].locked \subseteq Attachment
         /\ \A a \in DOMAIN Remote!Writes(w, st):
              /\ Remote!Writes(w, st)[a] \in {"done", "failed"}
              /\ Remote!Writes(w, st)[a] = "done" => OnRemote(remote, a)
<1> DEFINE t == tx[w]
<1>1. TransferOK(t) /\ TransferTrue(t, state, remote) /\ t.pc \in AtRecord
  BY DEF RemoteInd
<1>2. /\ DOMAIN Remote!Writes(w, st) = DOMAIN t.new \union {t.att}
      /\ \A a \in DOMAIN t.new \union {t.att}:
           Remote!Writes(w, st)[a] = IF a = t.att THEN st ELSE t.new[a]
  BY DEF Remote!Writes
<1>3. st = "done" => t.pc = "written"
  OBVIOUS
<1> HIDE DEF t
<1>4. /\ DOMAIN Remote!Writes(w, st) = DOMAIN t.new \union {t.att}
      /\ DOMAIN Remote!Writes(w, st) \subseteq t.locked /\ t.att \in Attachment /\ t.locked \subseteq Attachment
      /\ \A a \in DOMAIN Remote!Writes(w, st):
           /\ Remote!Writes(w, st)[a] \in {"done", "failed"}
           /\ Remote!Writes(w, st)[a] = "done" => OnRemote(remote, a)
  BY <1>1, <1>2, <1>3 DEF TransferOK, TransferTrue
<1> QED BY <1>4 DEF t

LEMMA RemoteTimeout ==
  ASSUME RemoteInd, NEW w \in Worker, Remote!Timeout(w) PROVE RemoteInd'
<1>1. /\ tx[w].pc \in AtRecord /\ Remote!Publish(w, Remote!Writes(w, "failed")) /\ remote' = remote
      /\ job' = job \/ job' = [job EXCEPT ![tx[w].att] = @ + 1]
  BY DEF Remote!Timeout, Remote!TimeoutState, AtRecord
<1>2. job' \in [Attachment -> Nat]
  BY <1>1 DEF RemoteInd
<1>3. /\ DOMAIN Remote!Writes(w, "failed") \subseteq tx[w].locked
      /\ \A a \in DOMAIN Remote!Writes(w, "failed"):
           /\ Remote!Writes(w, "failed")[a] \in {"done", "failed"}
           /\ Remote!Writes(w, "failed")[a] = "done" => OnRemote(remote, a)
  BY <1>1, WrittenWith
<1> QED BY <1>1, <1>2, <1>3, RemotePublish

\* The record that w was at is among those it wrote: _run ended or failed.
LEMMA RemoteWrites ==
  ASSUME RemoteInd, NEW w \in Worker, tx[w].pc \in AtRecord, NEW st \in {"done", "failed"},
         st = "done" => tx[w].pc = "written",
         tx' = [tx EXCEPT ![w].pc = "next", ![w].new = Remote!Writes(w, st)],
         UNCHANGED <<state, job, remote, closed>>
  PROVE  RemoteInd'
<1> DEFINE s == tx[w]
           out == Remote!Writes(w, st)
           t == [s EXCEPT !.pc = "next", !.new = out]
<1>1. tx' = [tx EXCEPT ![w] = t]
  BY DEF RemoteInd
<1>2. TransferOK(s) /\ TransferTrue(s, state, remote)
  BY DEF RemoteInd
<1>3. /\ DOMAIN out \subseteq s.locked
      /\ \A a \in DOMAIN out: out[a] \in {"done", "failed"} /\ (out[a] = "done" => OnRemote(remote, a))
  BY WrittenWith
<1> HIDE DEF out
<1>4. /\ DOMAIN t = {"op", "pc", "todo", "att", "locked", "snap", "stale", "new"}
      /\ t.op = s.op /\ t.pc = "next" /\ t.todo = s.todo /\ t.att = s.att /\ t.locked = s.locked
      /\ t.snap = s.snap /\ t.stale = s.stale /\ t.new = out
  BY <1>2 DEF TransferOK
<1>5. \A x \in Worker: x # w => t.locked \intersect tx[x].locked = {}
  BY <1>4 DEF RemoteInd
<1>6. job' \in [Attachment -> Nat]
  BY DEF RemoteInd
<1>7. s.pc \in AtRecord
  OBVIOUS
<1> HIDE DEF s, t
<1>8. TransferOK(t) /\ TransferTrue(t, state, remote)
  BY <1>2, <1>3, <1>4, <1>7 DEF TransferOK, TransferTrue, AtRecord
<1> QED BY <1>1, <1>5, <1>6, <1>8, TransferChanges

\* The file of the record that w is at is written, whole or not yet.
LEMMA RemoteFile ==
  ASSUME Remote!ExportParameters, RemoteInd, NEW w \in Worker, tx[w].pc \in {"locked", "open"},
         NEW whole \in BOOLEAN, NEW pc, pc = IF whole THEN "written" ELSE "open",
         remote' = [remote EXCEPT ![FileName[tx[w].att]] = [of |-> tx[w].att, whole |-> whole]],
         tx' = [tx EXCEPT ![w].pc = pc], UNCHANGED <<state, job, closed>>
  PROVE  RemoteInd'
<1> DEFINE s == tx[w]
           a == tx[w].att
           t == [s EXCEPT !.pc = pc]
<1>1. tx' = [tx EXCEPT ![w] = t]
  BY DEF RemoteInd
<1>2. TransferOK(s) /\ TransferTrue(s, state, remote) /\ s.pc \in AtRecord
  BY DEF RemoteInd, AtRecord
<1>3. /\ a = s.att /\ a \in Attachment /\ a \in s.locked /\ a \notin DOMAIN s.new /\ state[a] # "done"
      /\ FileName[a] \in Remote!Names
  BY <1>2 DEF TransferOK, TransferTrue, Remote!Names
<1>4. /\ DOMAIN t = {"op", "pc", "todo", "att", "locked", "snap", "stale", "new"}
      /\ t.op = s.op /\ t.pc = pc /\ t.todo = s.todo /\ t.att = s.att /\ t.locked = s.locked
      /\ t.snap = s.snap /\ t.stale = s.stale /\ t.new = s.new
  BY <1>2 DEF TransferOK
<1>5. /\ DOMAIN tx' = Worker /\ tx'[w] = t /\ \A x \in Worker: x # w => tx'[x] = tx[x]
  BY <1>1 DEF RemoteInd
<1>6. remote' = [remote EXCEPT ![FileName[a]] = [of |-> a, whole |-> whole]]
  OBVIOUS
<1>7. \A x \in Worker: x # w => a \notin tx[x].locked
  BY <1>3 DEF RemoteInd
<1> HIDE DEF s, t, a
<1>8. /\ DOMAIN remote' = Remote!Names
      /\ remote'[FileName[a]].of = a /\ remote'[FileName[a]].whole = whole
      /\ \A n \in Remote!Names: n # FileName[a] => remote'[n] = remote[n]
  BY <1>3, <1>6 DEF RemoteInd
<1>9. \A n \in Remote!Names: remote'[n].of \in Attachment \union {None} /\ remote'[n].whole \in BOOLEAN
  BY <1>3, <1>8 DEF RemoteInd
<1>10. \A c \in Attachment: c # a /\ OnRemote(remote, c) => OnRemote(remote', c)
  BY <1>3, <1>8 DEF OnRemote, Remote!Names, Remote!ExportParameters
<1>11. whole => OnRemote(remote', a)
  <2>1. a # None
    BY <1>3 DEF Remote!ExportParameters
  <2>2. remote'[FileName[a]].of = a /\ remote'[FileName[a]].whole = whole
    BY <1>8
  <2> QED BY <2>1, <2>2 DEF OnRemote
<1>12. ASSUME NEW x \in Worker
       PROVE  TransferOK(tx'[x]) /\ TransferTrue(tx'[x], state, remote') /\ tx'[x].locked = tx[x].locked
  <2>1. CASE x = w
    <3>1. TransferOK(t)
      BY <1>2, <1>3, <1>4 DEF TransferOK, AtRecord
    <3>2. TransferTrue(t, state, remote')
      BY <1>2, <1>3, <1>4, <1>10, <1>11 DEF TransferTrue, TransferOK, AtRecord
    <3> QED BY <1>4, <1>5, <2>1, <3>1, <3>2 DEF s
  <2>2. CASE x # w
    <3>1. TransferOK(tx[x]) /\ TransferTrue(tx[x], state, remote) /\ a \notin tx[x].locked
      BY <1>7, <2>2 DEF RemoteInd
    <3>2. TransferTrue(tx[x], state, remote')
      BY <1>10, <3>1 DEF TransferTrue, TransferOK, AtRecord
    <3> QED BY <1>5, <2>2, <3>1, <3>2
  <2> QED BY <2>1, <2>2
<1>13. \A x, y \in Worker: x # y => tx'[x].locked \intersect tx'[y].locked = {}
  BY <1>12 DEF RemoteInd
<1>14. (\A x \in Worker: TransferOK(tx[x]) /\ TransferTrue(tx[x], state, remote))'
  BY <1>12 DEF TransferOK, TransferTrue, OnRemote
<1>15. Exported(state, remote, closed)'
  <2>1. \A c \in Attachment: state[c] = "done" /\ c \notin closed => OnRemote(remote', c)
    BY <1>3, <1>10 DEF RemoteInd, Exported
  <2> QED BY <2>1 DEF Exported, OnRemote
<1> QED BY <1>5, <1>8, <1>9, <1>13, <1>14, <1>15 DEF RemoteInd

LEMMA RemoteStep ==
  ASSUME Remote!ExportParameters, RemoteInd, Remote!Next \/ UNCHANGED Remote!vars PROVE RemoteInd'
<1>1. CASE UNCHANGED Remote!vars
  BY <1>1 DEF Remote!vars, RemoteInd, TransferOK, TransferTrue, OnRemote, Exported
<1>2. ASSUME NEW a \in Attachment, Remote!button_reschedule(a) PROVE RemoteInd'
  <2>1. /\ Remote!UserWrites(a, "pending") /\ job' = [job EXCEPT ![a] = @ + 1] /\ closed' = closed \ {a}
    BY <1>2 DEF Remote!button_reschedule
  <2>2. job' \in [Attachment -> Nat]
    BY <2>1 DEF RemoteInd
  <2>3. "pending" \in Remote!States /\ "pending" # "done"
    BY DEF Remote!States
  <2> QED BY <2>1, <2>2, <2>3, RemoteUserWrites
<1>3. ASSUME NEW a \in Attachment, Remote!set_done(a) PROVE RemoteInd'
  <2>1. /\ Remote!UserWrites(a, "done") /\ closed' = closed \union {a} /\ UNCHANGED job
    BY <1>3 DEF Remote!set_done
  <2>2. job' \in [Attachment -> Nat]
    BY <2>1 DEF RemoteInd
  <2>3. "done" \in Remote!States
    BY DEF Remote!States
  <2> QED BY <2>1, <2>2, <2>3, RemoteUserWrites
<1>4. ASSUME NEW w \in Worker, NEW a \in Attachment, Remote!StartJob(w, a) PROVE RemoteInd'
  <2>1. job[a] > 0 /\ Remote!Begin(w, "job", {a}) /\ job' = [job EXCEPT ![a] = @ - 1]
    BY <1>4 DEF Remote!StartJob
  <2>2. job' \in [Attachment -> Nat]
    <3>1. job[a] \in Nat /\ job[a] - 1 \in Nat
      BY <2>1 DEF RemoteInd
    <3> QED BY <2>1, <3>1 DEF RemoteInd
  <2> QED BY <2>1, <2>2, RemoteBegin
<1>5. ASSUME NEW w \in Worker, NEW a \in Attachment, Remote!button_manual_run(w, a) PROVE RemoteInd'
  <2>1. Remote!Begin(w, "manual", {a}) /\ job' \in [Attachment -> Nat]
    BY <1>5 DEF Remote!button_manual_run, RemoteInd
  <2> QED BY <2>1, RemoteBegin
<1>6. ASSUME NEW w \in Worker, Remote!run_export(w) PROVE RemoteInd'
  <2>1. /\ Remote!Begin(w, "export", {a \in Attachment: state[a] = "pending"})
        /\ job' \in [Attachment -> Nat]
    BY <1>6 DEF Remote!run_export, RemoteInd
  <2> QED BY <2>1, RemoteBegin
<1>7. ASSUME NEW w \in Worker, Remote!OpenRemote(w) PROVE RemoteInd'
  <2>1. /\ tx[w].pc = "locked" /\ tx' = [tx EXCEPT ![w].pc = "open"] /\ UNCHANGED <<state, job, closed>>
        /\ remote' = [remote EXCEPT ![FileName[tx[w].att]] = [of |-> tx[w].att, whole |-> FALSE]]
    BY <1>7 DEF Remote!OpenRemote
  <2> QED BY <2>1, RemoteFile
<1>8. ASSUME NEW w \in Worker, Remote!write_file_to_remote(w) PROVE RemoteInd'
  <2>1. /\ tx[w].pc = "open" /\ tx' = [tx EXCEPT ![w].pc = "written"] /\ UNCHANGED <<state, job, closed>>
        /\ remote' = [remote EXCEPT ![FileName[tx[w].att]] = [of |-> tx[w].att, whole |-> TRUE]]
    BY <1>8 DEF Remote!write_file_to_remote
  <2> QED BY <2>1, RemoteFile
<1>9. ASSUME NEW w \in Worker, Remote!RunOk(w) PROVE RemoteInd'
  <2>1. /\ tx[w].pc = "written" /\ tx' = [tx EXCEPT ![w].pc = "next", ![w].new = Remote!Writes(w, "done")]
        /\ UNCHANGED <<state, job, remote, closed>>
    BY <1>9 DEF Remote!RunOk
  <2> QED BY <2>1, RemoteWrites DEF AtRecord
<1>10. ASSUME NEW w \in Worker, Remote!RunFails(w) PROVE RemoteInd'
  <2>1. /\ tx[w].pc \in AtRecord /\ tx' = [tx EXCEPT ![w].pc = "next", ![w].new = Remote!Writes(w, "failed")]
        /\ UNCHANGED <<state, job, remote, closed>>
    BY <1>10 DEF Remote!RunFails, AtRecord
  <2> QED BY <2>1, RemoteWrites
<1>11. ASSUME NEW w \in Worker, Remote!Rollback(w) PROVE RemoteInd'
  BY <1>11, RemoteRollback
<1>12. CASE Remote!Next
  <2>1. \A w \in Worker: Remote!ManualRunFails(w) \/ Remote!Crash(w)
                         \/ (\E a \in Attachment: Remote!Busy(w, a)) => Remote!Rollback(w)
    BY DEF Remote!ManualRunFails, Remote!Crash, Remote!Busy
  <2> QED BY <1>2, <1>3, <1>4, <1>5, <1>6, <1>7, <1>8, <1>9, <1>10, <1>11, <1>12, <2>1,
             RemoteCreate, RemoteLock, RemoteCommit, RemoteTimeout DEF Remote!Next
<1> QED BY <1>1, <1>12

-----------------------------------------------------------------------------
(***************************************************************************)
(* fetchmail_attach_from_folder and mail_cleanup: a message that is in     *)
(* the folder no more, or is to go, was attached, kept or written down;    *)
(* what is attached is known to every fetch that is open, or written down. *)
(***************************************************************************)
FetchSet == [pc: {"idle", "select", "next", "fetched", "attached", "archive", "commit"},
             todo: SUBSET Letters, uid: SUBSET Letters, matched: BOOLEAN,
             done: SUBSET Letters, known: SUBSET Letters]
FolderOK(b) == DOMAIN b \subseteq Letters /\ \A m \in DOMAIN b: b[m] \in Mail!Flags

\* What a fetch has finished: the message it is at may still be rolled back.
Finished(r) == r.done \ r.uid

\* Where a message is when it is not in the folder, or will not be.
Safe(m) == \/ m \in kept \union purged \union risked \/ attached[m] > 0
           \/ \E f \in Fetcher: m \in Finished(fetch[f])

\* A fetch: at most one message at a time, which has been matched when it is
\* among those that are done; it does what it does not know.
FetchOK(r) ==
  /\ r \in FetchSet
  /\ r.todo \intersect (r.uid \union r.done) = {} /\ \A m, n \in r.uid: m = n
  /\ r.done \intersect r.known = {}
  /\ r.pc \in {"idle", "select", "next", "commit"} => r.uid = {}
  /\ r.pc \in {"idle", "select"} => r.done = {}
  /\ r.matched => r.pc \in {"attached", "archive"} /\ r.uid \subseteq r.done

\* What is marked as deleted is safe elsewhere.
MailLocated ==
  /\ \A m \in Letters \ new: m \in DOMAIN box \/ Safe(m)
  /\ \A m \in DOMAIN box: box[m].deleted => Safe(m)

MailCounted ==
  \A m \in Letters \ raced:
    /\ attached[m] <= 1
    /\ \A f \in Fetcher: fetch[f].pc # "idle" /\ attached[m] > 0 => m \in fetch[f].known

MailInd ==
  /\ conf \in Config /\ new \subseteq Letters
  /\ FolderOK(box) /\ DOMAIN box \intersect new = {}
  /\ kept \subseteq Letters /\ purged \subseteq Letters
  /\ risked \subseteq Letters /\ raced \subseteq Letters
  /\ attached \in [Letters -> Nat]
  /\ fetch \in [Fetcher -> FetchSet] /\ \A f \in Fetcher: FetchOK(fetch[f])
  /\ MailLocated
  /\ MailCounted

LEMMA MailIndMeans == ASSUME MailInd PROVE Mail!NoMailLost /\ Mail!AttachedOnce
BY DEF MailInd, MailLocated, MailCounted, Safe, Finished, Mail!NoMailLost, Mail!AttachedOnce

LEMMA IdleFetch ==
  /\ FetchOK(Mail!Idle) /\ Mail!Idle.pc = "idle" /\ Mail!Idle.done = {} /\ Mail!Idle.uid = {}
BY DEF Mail!Idle, FetchOK, FetchSet

LEMMA MailInit == ASSUME Mail!FetchmailParameters, Mail!Init PROVE MailInd
<1>1. /\ fetch = [f \in Fetcher |-> Mail!Idle] /\ conf \in Config /\ new = Letters
      /\ kept = {} /\ purged = {} /\ risked = {} /\ raced = {}
      /\ DOMAIN box = {} /\ attached = [m \in Letters |-> 0]
  BY DEF Mail!Init
<1>2. /\ fetch \in [Fetcher -> FetchSet] /\ attached \in [Letters -> Nat]
      /\ \A f \in Fetcher: FetchOK(fetch[f]) /\ fetch[f].pc = "idle"
  BY <1>1, IdleFetch DEF FetchOK
<1>3. MailLocated
  BY <1>1 DEF MailLocated
<1>4. MailCounted
  BY <1>1 DEF MailCounted
<1> QED BY <1>1, <1>2, <1>3, <1>4 DEF MailInd, FolderOK

\* The flags of messages change.
LEMMA MarkedFolder ==
  ASSUME FolderOK(box), NEW S, NEW changes,
         \A m \in S \intersect DOMAIN box: changes[m] \in Mail!Flags
  PROVE  /\ FolderOK(Mail!Mark(S, changes)) /\ DOMAIN Mail!Mark(S, changes) = DOMAIN box
         /\ \A m \in DOMAIN box: Mail!Mark(S, changes)[m] = IF m \in S THEN changes[m] ELSE box[m]
BY DEF FolderOK, Mail!Mark

LEMMA ExpungedFolder ==
  ASSUME NEW b, FolderOK(b)
  PROVE  /\ FolderOK(Mail!Expunged(b))
         /\ DOMAIN Mail!Expunged(b) = {x \in DOMAIN b: ~b[x].deleted}
         /\ \A x \in DOMAIN Mail!Expunged(b): Mail!Expunged(b)[x] = b[x]
<1> DEFINE e == Mail!Expunged(b)
<1>1. DOMAIN e = {x \in DOMAIN b: ~b[x].deleted} /\ \A x \in DOMAIN e: e[x] = b[x]
  BY DEF Mail!Expunged
<1> HIDE DEF e
<1>2. FolderOK(e)
  BY <1>1 DEF FolderOK
<1> QED BY <1>1, <1>2 DEF e

LEMMA MailArrive ==
  ASSUME MailInd, NEW m \in Letters, Mail!Arrive(m) PROVE MailInd'
<1> DEFINE f == [seen |-> FALSE, flagged |-> FALSE, deleted |-> FALSE, age |-> 0]
<1>1. /\ m \in new /\ new' = new \ {m}
      /\ box' = [x \in DOMAIN box \union {m} |-> IF x = m THEN f ELSE box[x]]
      /\ UNCHANGED <<conf, kept, purged, attached, fetch, risked, raced>>
  BY DEF Mail!Arrive
<1>2. f \in Mail!Flags /\ ~f.deleted
  BY DEF Mail!Flags, Mail!Age
<1> HIDE DEF f
<1>3. /\ DOMAIN box' = DOMAIN box \union {m} /\ box'[m] = f /\ m \notin DOMAIN box
      /\ \A x \in DOMAIN box: box'[x] = box[x]
  BY <1>1 DEF MailInd
<1>4. FolderOK(box')
  BY <1>2, <1>3 DEF MailInd, FolderOK
<1>5. FolderOK(box)'
  BY <1>4 DEF FolderOK, Mail!Flags, Mail!Age
<1>6. \A x: Safe(x)' <=> Safe(x)
  BY <1>1 DEF Safe, Finished
<1>7. MailLocated'
  BY <1>1, <1>2, <1>3, <1>6 DEF MailInd, MailLocated
<1>8. MailCounted'
  BY <1>1 DEF MailInd, MailCounted
<1> QED BY <1>1, <1>3, <1>5, <1>7, <1>8 DEF MailInd, FetchOK, FetchSet

LEMMA MailGrowOld ==
  ASSUME MailInd, NEW m \in Letters, Mail!GrowOld(m) PROVE MailInd'
<1>1. /\ m \in DOMAIN box /\ box' = [box EXCEPT ![m].age = @ + 1] /\ box[m].age < 2
      /\ UNCHANGED <<conf, new, kept, purged, attached, fetch, risked, raced>>
  BY DEF Mail!GrowOld
<1>2. /\ DOMAIN box' = DOMAIN box /\ box'[m] \in Mail!Flags /\ box'[m].deleted = box[m].deleted
      /\ \A x \in DOMAIN box: x # m => box'[x] = box[x]
  BY <1>1 DEF MailInd, FolderOK, Mail!Flags, Mail!Age
<1>3. FolderOK(box')
  BY <1>2 DEF MailInd, FolderOK
<1>4. FolderOK(box)'
  BY <1>3 DEF FolderOK, Mail!Flags, Mail!Age
<1>5. \A x: Safe(x)' <=> Safe(x)
  BY <1>1 DEF Safe, Finished
<1>6. MailLocated'
  BY <1>1, <1>2, <1>5 DEF MailInd, MailLocated
<1>7. MailCounted'
  BY <1>1 DEF MailInd, MailCounted
<1> QED BY <1>1, <1>2, <1>4, <1>6, <1>7 DEF MailInd, FetchOK, FetchSet

\* What is to show for a step of the fetch of f, which goes on as r.
LEMMA MailStepKeeps ==
  ASSUME MailInd, UNCHANGED <<conf, new>>, NEW f \in Fetcher, NEW r, Mail!Goes(f, r), FetchOK(r),
         FolderOK(box'), DOMAIN box' \subseteq DOMAIN box,
         kept \subseteq kept', purged \subseteq purged', risked \subseteq risked', raced \subseteq raced',
         kept' \subseteq Letters, purged' \subseteq Letters, risked' \subseteq Letters, raced' \subseteq Letters,
         attached' \in [Letters -> Nat], \A m \in Letters: attached[m] > 0 => attached'[m] > 0,
         \A m \in Finished(fetch[f]): m \in Finished(r) \union risked' \/ attached'[m] > 0,
         \A m \in DOMAIN box: \/ m \in DOMAIN box' /\ (box'[m].deleted => box[m].deleted)
                              \/ m \in kept' \union purged' \union risked' \union Finished(r)
                              \/ box[m].deleted,
         MailCounted'
  PROVE  MailInd'
<1>1. /\ fetch' \in [Fetcher -> FetchSet] /\ fetch'[f] = r
      /\ \A g \in Fetcher: g # f => fetch'[g] = fetch[g]
  BY DEF Mail!Goes, MailInd, FetchOK
<1>2. \A g \in Fetcher: FetchOK(fetch'[g])
  BY <1>1 DEF MailInd
<1>3. \A m \in Letters: Safe(m) => Safe(m)'
  BY <1>1 DEF Safe, Finished
<1>4. \A m \in Letters: m \in kept' \union purged' \union risked' \union Finished(r) => Safe(m)'
  BY <1>1 DEF Safe, Finished
<1>5. ASSUME NEW m \in DOMAIN box
      PROVE  (m \in DOMAIN box' /\ (box'[m].deleted => Safe(m)')) \/ Safe(m)'
  <2>1. m \in Letters /\ (box[m].deleted => Safe(m))
    BY DEF MailInd, FolderOK, MailLocated
  <2> QED BY <1>3, <1>4, <2>1
<1>6. MailLocated'
  BY <1>3, <1>5 DEF MailInd, MailLocated
<1>7. FolderOK(box)' /\ (\A g \in Fetcher: FetchOK(fetch[g]))'
  BY <1>2 DEF FolderOK, FetchOK, FetchSet, Mail!Flags, Mail!Age
<1> QED BY <1>1, <1>6, <1>7 DEF MailInd, FetchSet

\* A fetch begins: it knows what is attached, and has done nothing.
LEMMA StartedFetch ==
  ASSUME MailInd
  PROVE  /\ FetchOK(Mail!Started) /\ Finished(Mail!Started) = {} /\ Mail!Started.pc = "select"
         /\ Mail!Started.known = {m \in Letters: attached[m] > 0}
<1> DEFINE K == {m \in Letters: attached[m] > 0}
<1>1. K \subseteq Letters
  OBVIOUS
<1> HIDE DEF K
<1> DEFINE s == [Mail!Idle EXCEPT !.pc = "select", !.known = K]
<1>2. /\ s.pc = "select" /\ s.todo = {} /\ s.uid = {} /\ s.matched = FALSE
      /\ s.done = {} /\ s.known = K /\ s \in FetchSet
  BY <1>1 DEF Mail!Idle, FetchSet
<1> HIDE DEF s
<1>4. Mail!Started = s
  BY DEF Mail!Started, s, K
<1>3. FetchOK(Mail!Started) /\ Finished(Mail!Started) = {} /\ Mail!Started.pc = "select"
  BY <1>2, <1>4 DEF FetchOK, Finished
<1> QED BY <1>2, <1>3, <1>4 DEF K

LEMMA StartCounts ==
  ASSUME MailInd, NEW f \in Fetcher, Mail!Goes(f, Mail!Started), UNCHANGED <<attached, raced>>
  PROVE  MailCounted'
<1>1. /\ fetch'[f] = Mail!Started
      /\ \A g \in Fetcher: g # f => fetch'[g] = fetch[g]
  BY DEF Mail!Goes, MailInd
<1>2. \A m \in Letters: attached[m] > 0 => m \in fetch'[f].known
  BY <1>1, StartedFetch
<1> QED BY <1>1, <1>2 DEF MailInd, MailCounted

\* A fetch that is open, or ends, with nothing committed.
LEMMA CountsKeep ==
  ASSUME MailInd, NEW f \in Fetcher, NEW r, Mail!Goes(f, r), UNCHANGED <<attached, raced>>,
         r.pc # "idle" => fetch[f].pc # "idle" /\ r.known = fetch[f].known
  PROVE  MailCounted'
<1>1. /\ fetch'[f] = r
      /\ \A g \in Fetcher: g # f => fetch'[g] = fetch[g]
  BY DEF Mail!Goes, MailInd
<1> QED BY <1>1 DEF MailInd, MailCounted

\* What a clean-up marks as deleted or moves is safe when it is.
LEMMA MailFetch ==
  ASSUME MailInd, NEW f \in Fetcher, Mail!fetch_mail(f) PROVE MailInd'
<1> DEFINE read == IF conf.cleanup = "none" THEN {} ELSE Mail!Expired
           due == IF conf.purge THEN {m \in DOMAIN box: box[m].age = 2} ELSE {}
           move == IF conf.cleanup = "move" THEN read ELSE {}
<1>1. /\ fetch[f].pc = "idle" /\ Mail!Goes(f, Mail!Started)
      /\ UNCHANGED <<conf, new, attached, risked, raced>>
  BY DEF Mail!fetch_mail
<1>2. PICK moved \in SUBSET move:
        /\ box' = Mail!Expunged(Mail!Mark(read \union due, [m \in DOMAIN box |->
                       [box[m] EXCEPT !.seen = @ \/ m \in read,
                                      !.deleted = @ \/ m \in moved \union due]]))
        /\ kept' = kept \union moved
        /\ purged' = purged \union due
  BY DEF Mail!fetch_mail
<1>3. moved \subseteq DOMAIN box /\ due \subseteq DOMAIN box
  BY DEF Mail!Expired
<1> HIDE DEF read, due, move
<1> DEFINE c == [m \in DOMAIN box |-> [box[m] EXCEPT !.seen = @ \/ m \in read,
                                                     !.deleted = @ \/ m \in moved \union due]]
           b == Mail!Mark(read \union due, c)
<1>4. ASSUME NEW m \in DOMAIN box
      PROVE c[m] \in Mail!Flags /\ (c[m].deleted => box[m].deleted \/ m \in moved \union due)
  <2> DEFINE seen == box[m].seen \/ m \in read
             gone == box[m].deleted \/ m \in moved \union due
  <2>1. seen \in BOOLEAN /\ gone \in BOOLEAN /\ (gone => box[m].deleted \/ m \in moved \union due)
    BY Zenon
  <2>2. c[m] = [box[m] EXCEPT !.seen = seen, !.deleted = gone]
    BY Zenon
  <2> HIDE DEF seen, gone
  <2>3. box[m] \in Mail!Flags
    BY DEF MailInd, FolderOK
  <2>4. c[m] \in Mail!Flags /\ c[m].deleted = gone
    BY <2>1, <2>2, <2>3 DEF Mail!Flags
  <2> QED BY <2>1, <2>4
<1>5. box' = Mail!Expunged(b)
  BY <1>2
<1> HIDE DEF c
<1>6. /\ FolderOK(b) /\ DOMAIN b = DOMAIN box
      /\ \A m \in DOMAIN box: b[m] = IF m \in read \union due THEN c[m] ELSE box[m]
  BY <1>4, MarkedFolder DEF MailInd
<1> HIDE DEF b
<1>7. /\ FolderOK(box') /\ DOMAIN box' = {x \in DOMAIN box: ~b[x].deleted}
      /\ \A x \in DOMAIN box': ~box'[x].deleted
  <2> DEFINE e == Mail!Expunged(b)
  <2>1. /\ FolderOK(e) /\ DOMAIN e = {x \in DOMAIN b: ~b[x].deleted}
        /\ \A x \in DOMAIN e: e[x] = b[x]
    BY <1>6, ExpungedFolder
  <2> HIDE DEF e
  <2> QED BY <1>5, <1>6, <2>1 DEF e
<1>8. Finished(fetch[f]) = {}
  BY <1>1 DEF MailInd, FetchOK, Finished
<1>9. \A m \in DOMAIN box: m \in DOMAIN box' \/ m \in kept' \union purged' \/ box[m].deleted
  BY <1>2, <1>4, <1>6, <1>7
<1>10. /\ kept' \subseteq Letters /\ purged' \subseteq Letters
       /\ kept \subseteq kept' /\ purged \subseteq purged'
  BY <1>2, <1>3 DEF MailInd, FolderOK
<1>11. MailCounted'
  BY <1>1, StartCounts
<1> QED BY <1>1, <1>7, <1>8, <1>9, <1>10, <1>11, MailStepKeeps, StartedFetch DEF MailInd

\* Steps that change the fetch only.
LEMMA MailOnlyFetch ==
  ASSUME MailInd, UNCHANGED <<conf, new, box, kept, purged, attached, raced>>,
         NEW f \in Fetcher, NEW r, Mail!Goes(f, r), FetchOK(r),
         risked' \subseteq Letters, risked \subseteq risked',
         Finished(fetch[f]) \subseteq Finished(r) \union risked', MailCounted'
  PROVE  MailInd'
<1>1. \A m \in DOMAIN box: m \in DOMAIN box' /\ (box'[m].deleted => box[m].deleted)
  OBVIOUS
<1>2. FolderOK(box')
  BY DEF MailInd
<1> QED BY <1>1, <1>2, MailStepKeeps DEF MailInd

LEMMA MailByHand ==
  ASSUME MailInd, NEW f \in Fetcher, Mail!fetch_folder(f) PROVE MailInd'
<1>1. /\ fetch[f].pc = "idle" /\ Mail!Goes(f, Mail!Started)
      /\ UNCHANGED <<conf, new, box, kept, purged, attached, risked, raced>>
  BY DEF Mail!fetch_folder
<1>2. Finished(fetch[f]) = {}
  BY <1>1 DEF MailInd, FetchOK, Finished
<1>3. MailCounted'
  BY <1>1, StartCounts
<1> QED BY <1>1, <1>2, <1>3, StartedFetch, MailOnlyFetch DEF MailInd

LEMMA MailSearch ==
  ASSUME MailInd, NEW f \in Fetcher, Mail!get_message_uids(f) PROVE MailInd'
<1> DEFINE S == {m \in DOMAIN box: Mail!get_criteria(m)}
           r == [fetch[f] EXCEPT !.pc = "next", !.todo = S]
<1>1. /\ fetch[f].pc = "select" /\ Mail!Goes(f, r)
      /\ UNCHANGED <<conf, new, box, kept, purged, attached, risked, raced>>
  BY DEF Mail!get_message_uids
<1>2. S \subseteq Letters
  BY DEF MailInd, FolderOK
<1> HIDE DEF S
<1>3. FetchOK(fetch[f])
  BY DEF MailInd
<1>4. FetchOK(r) /\ Finished(r) = Finished(fetch[f]) /\ r.known = fetch[f].known
  BY <1>1, <1>2, <1>3 DEF FetchOK, FetchSet, Finished
<1> HIDE DEF r
<1>5. MailCounted'
  BY <1>1, <1>4, CountsKeep
<1> QED BY <1>1, <1>4, <1>5, MailOnlyFetch DEF MailInd

LEMMA MailGeneralFailure ==
  ASSUME MailInd, NEW f \in Fetcher, Mail!GeneralFailure(f) PROVE MailInd'
<1> DEFINE r == [fetch[f] EXCEPT !.pc = "commit", !.todo = {}]
<1>1. /\ fetch[f].pc \in {"select", "next"} /\ Mail!Goes(f, r)
      /\ UNCHANGED <<conf, new, box, kept, purged, attached, risked, raced>>
  BY DEF Mail!GeneralFailure
<1>2. FetchOK(fetch[f])
  BY DEF MailInd
<1>3. FetchOK(r) /\ Finished(r) = Finished(fetch[f]) /\ r.known = fetch[f].known
  BY <1>1, <1>2 DEF FetchOK, FetchSet, Finished
<1> HIDE DEF r
<1>4. MailCounted'
  BY <1>1, <1>3, CountsKeep
<1> QED BY <1>1, <1>3, <1>4, MailOnlyFetch DEF MailInd

LEMMA MailFetchFails ==
  ASSUME MailInd, NEW f \in Fetcher, NEW m \in Letters, Mail!FetchFails(f, m) PROVE MailInd'
<1> DEFINE r == [fetch[f] EXCEPT !.todo = @ \ {m}]
<1>1. /\ fetch[f].pc = "next" /\ Mail!Goes(f, r)
      /\ UNCHANGED <<conf, new, box, kept, purged, attached, risked, raced>>
  BY DEF Mail!FetchFails
<1>2. FetchOK(fetch[f])
  BY DEF MailInd
<1>3. FetchOK(r) /\ Finished(r) = Finished(fetch[f]) /\ r.known = fetch[f].known
  BY <1>1, <1>2 DEF FetchOK, FetchSet, Finished
<1> HIDE DEF r
<1>4. MailCounted'
  BY <1>1, <1>3, CountsKeep
<1> QED BY <1>1, <1>3, <1>4, MailOnlyFetch DEF MailInd

LEMMA MailMatching ==
  ASSUME MailInd, NEW f \in Fetcher, NEW m \in Letters, Mail!apply_matching(f, m) PROVE MailInd'
<1> DEFINE matched == ~Mail!check_message_already_present(f, m) /\ Mail!find_match(m)
           done == IF matched THEN fetch[f].done \union {m} ELSE fetch[f].done
           r == [fetch[f] EXCEPT !.pc = "attached", !.matched = matched, !.done = done]
<1>1. /\ fetch[f].pc = "fetched" /\ m \in fetch[f].uid /\ Mail!Goes(f, r)
      /\ UNCHANGED <<conf, new, box, kept, purged, attached, risked, raced>>
  BY Zenon DEF Mail!apply_matching
<1>2. matched => m \notin fetch[f].known
  BY DEF Mail!check_message_already_present
<1>3. matched \in BOOLEAN
  BY Zenon
<1>4. FetchOK(fetch[f])
  BY DEF MailInd
<1> HIDE DEF matched
<1>5. done = (IF matched THEN fetch[f].done \union {m} ELSE fetch[f].done)
  OBVIOUS
<1> HIDE DEF done
<1>6. FetchOK(r) /\ r.known = fetch[f].known
  <2>1. /\ done \subseteq Letters /\ fetch[f].todo \intersect (fetch[f].uid \union done) = {}
        /\ done \intersect fetch[f].known = {} /\ (matched => fetch[f].uid \subseteq done)
    BY <1>1, <1>2, <1>4, <1>5 DEF FetchOK, FetchSet
  <2>2. /\ r \in FetchSet /\ r.pc = "attached" /\ r.matched = matched /\ r.done = done
        /\ r.todo = fetch[f].todo /\ r.uid = fetch[f].uid /\ r.known = fetch[f].known
    BY <1>3, <1>4, <2>1 DEF FetchOK, FetchSet
  <2> HIDE DEF r
  <2> QED BY <1>4, <2>1, <2>2 DEF FetchOK
<1>7. Finished(fetch[f]) \subseteq Finished(r)
  BY <1>1, <1>4, <1>5 DEF FetchOK, FetchSet, Finished
<1> HIDE DEF r
<1>8. MailCounted'
  BY <1>1, <1>6, CountsKeep
<1> QED BY <1>1, <1>6, <1>7, <1>8, MailOnlyFetch DEF MailInd

LEMMA MailCrash == ASSUME MailInd, NEW f \in Fetcher, Mail!Crash(f) PROVE MailInd'
<1>1. /\ Mail!Goes(f, Mail!Idle) /\ risked' = risked \union fetch[f].done
      /\ UNCHANGED <<conf, new, box, kept, purged, attached, raced>>
  BY DEF Mail!Crash
<1>2. risked' \subseteq Letters
  BY <1>1 DEF MailInd, FetchOK, FetchSet
<1>3. MailCounted'
  BY <1>1, IdleFetch, CountsKeep
<1>4. Finished(fetch[f]) \subseteq risked'
  BY <1>1 DEF Finished
<1> QED BY <1>1, <1>2, <1>3, <1>4, IdleFetch, MailOnlyFetch

\* What is committed was not attached, unless it was so during the fetch; then it
\* is written down, and so is what other fetches do not see.
LEMMA MailCommit == ASSUME MailInd, NEW f \in Fetcher, Mail!Commit(f) PROVE MailInd'
<1> DEFINE D == fetch[f].done
<1>1. /\ fetch[f].pc = "commit" /\ Mail!Goes(f, Mail!Idle)
      /\ UNCHANGED <<conf, new, box, kept, purged, risked>>
      /\ attached' = [m \in Letters |-> attached[m] + IF m \in D THEN 1 ELSE 0]
      /\ raced' = IF \E g \in Fetcher \ {f}: fetch[g].pc # "idle" THEN raced \union D ELSE raced
  BY DEF Mail!Commit
<1>2. FetchOK(fetch[f]) /\ D \subseteq Letters
  BY DEF MailInd, FetchOK, FetchSet
<1>3. /\ fetch'[f] = Mail!Idle
      /\ \A g \in Fetcher: g # f => fetch'[g] = fetch[g]
  BY <1>1 DEF Mail!Goes, MailInd
<1>4. /\ attached' \in [Letters -> Nat]
      /\ \A m \in Letters: /\ attached[m] \in Nat
                           /\ attached'[m] = IF m \in D THEN attached[m] + 1 ELSE attached[m]
  BY <1>1 DEF MailInd
<1>5. raced \subseteq raced' /\ raced' \subseteq Letters
  BY <1>1, <1>2 DEF MailInd
<1>6. \A m \in D \ raced: attached[m] = 0
  BY <1>1, <1>2, <1>4 DEF MailInd, MailCounted, FetchOK
<1>7. MailCounted'
  <2> SUFFICES ASSUME NEW m \in Letters \ raced'
               PROVE  /\ attached'[m] <= 1
                      /\ \A g \in Fetcher: fetch'[g].pc # "idle" /\ attached'[m] > 0 => m \in fetch'[g].known
    BY DEF MailCounted
  <2>1. attached'[m] <= 1
    BY <1>4, <1>5, <1>6 DEF MailInd, MailCounted
  <2>2. ASSUME NEW g \in Fetcher, fetch'[g].pc # "idle", attached'[m] > 0 PROVE m \in fetch'[g].known
    <3>1. g # f /\ fetch'[g] = fetch[g] /\ fetch[g].pc # "idle"
      BY <1>3, <2>2, IdleFetch
    <3>2. m \notin D /\ attached[m] > 0
      BY <1>1, <1>4, <2>2, <3>1
    <3> QED BY <1>5, <3>1, <3>2 DEF MailInd, MailCounted
  <2> QED BY <2>1, <2>2
<1>8. \A m \in Finished(fetch[f]): attached'[m] > 0
  BY <1>2, <1>4 DEF Finished
<1>9. FolderOK(box') /\ \A m \in DOMAIN box: m \in DOMAIN box' /\ (box'[m].deleted => box[m].deleted)
  BY <1>1 DEF MailInd
<1>10. \A m \in Letters: attached[m] > 0 => attached'[m] > 0
  BY <1>4
<1>11. FetchOK(Mail!Idle)
  BY IdleFetch
<1> HIDE DEF D
<1> QED BY <1>1, <1>4, <1>5, <1>7, <1>8, <1>9, <1>10, <1>11, MailStepKeeps DEF MailInd

LEMMA MailClose == ASSUME MailInd, NEW f \in Fetcher, Mail!close(f) PROVE MailInd'
<1> DEFINE r == [fetch[f] EXCEPT !.pc = "commit"]
<1>1. /\ fetch[f].pc = "next" /\ box' = Mail!Expunged(box) /\ Mail!Goes(f, r)
      /\ UNCHANGED <<conf, new, kept, purged, attached, risked, raced>>
  BY DEF Mail!close
<1>2. FetchOK(fetch[f])
  BY DEF MailInd
<1>3. FetchOK(r) /\ Finished(r) = Finished(fetch[f]) /\ r.known = fetch[f].known
  BY <1>1, <1>2 DEF FetchOK, FetchSet, Finished
<1> HIDE DEF r
<1>4. /\ FolderOK(box') /\ DOMAIN box' = {x \in DOMAIN box: ~box[x].deleted}
      /\ \A x \in DOMAIN box': box'[x] = box[x]
  BY <1>1, ExpungedFolder DEF MailInd
<1>5. MailCounted'
  BY <1>1, <1>3, CountsKeep
<1> QED BY <1>1, <1>3, <1>4, <1>5, MailStepKeeps DEF MailInd

\* The fetch goes on with the next message; the one it was at may be taken back.
LEMMA NextFetch ==
  ASSUME MailInd, NEW f \in Fetcher, fetch[f].uid # {}, NEW D \in SUBSET Letters,
         fetch[f].done \ fetch[f].uid \subseteq D, D \subseteq fetch[f].done, NEW r,
         \/ r = [Mail!NextMessage(f) EXCEPT !.done = D]
         \/ r = Mail!NextMessage(f) /\ D = fetch[f].done
  PROVE  FetchOK(r) /\ r.known = fetch[f].known /\ Finished(r) = D /\ fetch[f].pc # "idle"
<1> DEFINE n == Mail!NextMessage(f)
<1>1. FetchOK(fetch[f])
  BY DEF MailInd
<1>2. /\ n \in FetchSet /\ n.pc = "next" /\ n.todo = fetch[f].todo /\ n.uid = {}
      /\ n.matched = FALSE /\ n.done = fetch[f].done /\ n.known = fetch[f].known
  BY <1>1 DEF Mail!NextMessage, FetchOK, FetchSet
<1> HIDE DEF n
<1>3. /\ r \in FetchSet /\ r.pc = "next" /\ r.todo = fetch[f].todo /\ r.uid = {}
      /\ r.matched = FALSE /\ r.done = D /\ r.known = fetch[f].known
  <2>1. CASE r = [n EXCEPT !.done = D]
    BY <1>2, <2>1 DEF FetchSet
  <2>2. CASE r = n /\ D = fetch[f].done
    BY <1>2, <2>2
  <2> QED BY <2>1, <2>2 DEF n
<1>4. FetchOK(r) /\ Finished(r) = D
  BY <1>1, <1>3 DEF FetchOK, Finished
<1>5. fetch[f].pc # "idle"
  BY <1>1 DEF FetchOK
<1> QED BY <1>3, <1>4, <1>5

LEMMA MailFetchMessage ==
  ASSUME MailInd, NEW f \in Fetcher, NEW m \in Letters, Mail!fetch_msg(f, m) PROVE MailInd'
<1> DEFINE c == [x \in Mail!Present(m) |-> [box[x] EXCEPT !.seen = @ \/ conf.seen = "on_fetch"]]
           r == IF m \in DOMAIN box
                THEN [fetch[f] EXCEPT !.pc = "fetched", !.uid = {m}, !.todo = @ \ {m}]
                ELSE [fetch[f] EXCEPT !.todo = @ \ {m}]
<1>1. /\ fetch[f].pc = "next" /\ m \in fetch[f].todo /\ Mail!Goes(f, r) /\ box' = Mail!Mark({m}, c)
      /\ UNCHANGED <<conf, new, kept, purged, attached, risked, raced>>
  BY DEF Mail!fetch_msg
<1>2. ASSUME m \in DOMAIN box PROVE c[m] \in Mail!Flags /\ c[m].deleted = box[m].deleted
  <2>1. m \in Mail!Present(m) /\ box[m] \in Mail!Flags
    BY <1>2 DEF Mail!Present, MailInd, FolderOK
  <2> QED BY <2>1 DEF Mail!Flags
<1> HIDE DEF c
<1>3. /\ FolderOK(box') /\ DOMAIN box' = DOMAIN box
      /\ m \in DOMAIN box => box'[m] = c[m]
      /\ \A x \in DOMAIN box: x # m => box'[x] = box[x]
  <2>1. /\ DOMAIN box' = DOMAIN box
        /\ \A x \in DOMAIN box: box'[x] = IF x = m THEN c[m] ELSE box[x]
    BY <1>1 DEF Mail!Mark
  <2>2. FolderOK(box')
    BY <1>2, <2>1 DEF MailInd, FolderOK
  <2> QED BY <2>1, <2>2
<1>4. FetchOK(fetch[f])
  BY DEF MailInd
<1>5. FetchOK(r) /\ Finished(r) = Finished(fetch[f]) /\ r.known = fetch[f].known
  <2>1. CASE m \in DOMAIN box
    <3> DEFINE q == [fetch[f] EXCEPT !.pc = "fetched", !.uid = {m}, !.todo = @ \ {m}]
    <3>1. /\ q \in FetchSet /\ q.pc = "fetched" /\ q.uid = {m} /\ q.todo = fetch[f].todo \ {m}
          /\ q.matched = fetch[f].matched /\ q.done = fetch[f].done /\ q.known = fetch[f].known
      BY <1>4 DEF FetchOK, FetchSet
    <3>2. r = q
      BY <2>1
    <3> HIDE DEF q, r
    <3> QED BY <1>1, <1>4, <3>1, <3>2 DEF FetchOK, Finished
  <2>2. CASE m \notin DOMAIN box
    BY <1>4, <2>2 DEF FetchOK, FetchSet, Finished
  <2> QED BY <2>1, <2>2
<1> HIDE DEF r
<1>6. MailCounted'
  BY <1>1, <1>5, CountsKeep
<1>7. \A x \in DOMAIN box: x \in DOMAIN box' /\ (box'[x].deleted => box[x].deleted)
  BY <1>2, <1>3
<1> QED BY <1>1, <1>3, <1>5, <1>6, <1>7, MailStepKeeps DEF MailInd

\* How a message is marked after the matching: as deleted if it is done.
LEMMA UpdatedMessage ==
  ASSUME MailInd, NEW f \in Fetcher, NEW m \in DOMAIN box, m \in fetch[f].uid
  PROVE  /\ Mail!Updated(f, m) \in Mail!Flags
         /\ Mail!Updated(f, m).deleted => box[m].deleted \/ (m \in fetch[f].done /\ conf.delete_matching)
<1> DEFINE seen == box[m].seen \/ conf.seen = "all" \/ (fetch[f].matched /\ conf.seen = "matching")
           gone == box[m].deleted \/ (fetch[f].matched /\ conf.delete_matching)
           flagged == box[m].flagged \/ (~fetch[f].matched /\ conf.flag_nonmatching)
<1>1. /\ seen \in BOOLEAN /\ gone \in BOOLEAN /\ flagged \in BOOLEAN
      /\ (gone => box[m].deleted \/ (fetch[f].matched /\ conf.delete_matching))
  BY Zenon
<1>2. Mail!Updated(f, m) = [box[m] EXCEPT !.seen = seen, !.deleted = gone, !.flagged = flagged]
  BY Zenon DEF Mail!Updated
<1> HIDE DEF seen, gone, flagged
<1>3. box[m] \in Mail!Flags
  BY DEF MailInd, FolderOK
<1>4. Mail!Updated(f, m) \in Mail!Flags /\ Mail!Updated(f, m).deleted = gone
  BY <1>1, <1>2, <1>3 DEF Mail!Flags
<1>5. fetch[f].matched => m \in fetch[f].done
  BY DEF MailInd, FetchOK
<1> QED BY <1>1, <1>4, <1>5

LEMMA MailUpdate ==
  ASSUME MailInd, NEW f \in Fetcher, NEW m \in Letters, Mail!update_msg(f, m) PROVE MailInd'
<1> DEFINE c == [x \in Mail!Present(m) |-> Mail!Updated(f, x)]
           q == [fetch[f] EXCEPT !.pc = "archive"]
           r == IF conf.archive_path /\ ~conf.delete_matching THEN q ELSE Mail!NextMessage(f)
<1>1. /\ fetch[f].pc = "attached" /\ m \in fetch[f].uid /\ box' = Mail!Mark({m}, c) /\ Mail!Goes(f, r)
      /\ UNCHANGED <<conf, new, kept, purged, attached, risked, raced>>
  BY DEF Mail!update_msg
<1>2. ASSUME m \in DOMAIN box
      PROVE  /\ c[m] \in Mail!Flags
             /\ c[m].deleted => box[m].deleted \/ (m \in fetch[f].done /\ conf.delete_matching)
  <2>1. c[m] = Mail!Updated(f, m)
    BY <1>2 DEF Mail!Present
  <2> QED BY <1>1, <1>2, <2>1, UpdatedMessage
<1> HIDE DEF c
<1>3. /\ FolderOK(box') /\ DOMAIN box' = DOMAIN box
      /\ m \in DOMAIN box => box'[m] = c[m]
      /\ \A x \in DOMAIN box: x # m => box'[x] = box[x]
  <2>1. /\ DOMAIN box' = DOMAIN box
        /\ \A x \in DOMAIN box: box'[x] = IF x = m THEN c[m] ELSE box[x]
    BY <1>1 DEF Mail!Mark
  <2>2. FolderOK(box')
    BY <1>2, <2>1 DEF MailInd, FolderOK
  <2> QED BY <2>1, <2>2
<1>4. FetchOK(fetch[f])
  BY DEF MailInd
<1>5. /\ FetchOK(r) /\ r.known = fetch[f].known /\ Finished(fetch[f]) \subseteq Finished(r)
      /\ conf.delete_matching => Finished(r) = fetch[f].done
  <2>1. CASE conf.archive_path /\ ~conf.delete_matching
    <3>1. FetchOK(q) /\ q.known = fetch[f].known /\ Finished(q) = Finished(fetch[f])
      BY <1>1, <1>4 DEF FetchOK, FetchSet, Finished
    <3>2. r = q
      BY <2>1
    <3> HIDE DEF q, r
    <3> QED BY <2>1, <3>1, <3>2
  <2>2. CASE ~(conf.archive_path /\ ~conf.delete_matching)
    <3>1. r = Mail!NextMessage(f) /\ fetch[f].done \in SUBSET Letters /\ fetch[f].uid # {}
      BY <1>1, <1>4, <2>2 DEF FetchOK, FetchSet
    <3> HIDE DEF r
    <3>2. FetchOK(r) /\ r.known = fetch[f].known /\ Finished(r) = fetch[f].done
      BY <3>1, NextFetch
    <3> QED BY <3>2 DEF Finished
  <2> QED BY <2>1, <2>2
<1> HIDE DEF r
<1>6. MailCounted'
  BY <1>1, <1>5, CountsKeep
<1>7. \A x \in DOMAIN box: \/ x \in DOMAIN box' /\ (box'[x].deleted => box[x].deleted)
                           \/ x \in Finished(r)
  BY <1>2, <1>3, <1>5
<1> QED BY <1>1, <1>3, <1>5, <1>6, <1>7, MailStepKeeps DEF MailInd

\* A message that is marked as deleted.
LEMMA DeletedMessage ==
  ASSUME MailInd, NEW m
  PROVE  /\ FolderOK(Mail!Deleted(m)) /\ DOMAIN Mail!Deleted(m) = DOMAIN box
         /\ m \in DOMAIN box => Mail!Deleted(m)[m].deleted
         /\ \A x \in DOMAIN box: x # m => Mail!Deleted(m)[x] = box[x]
<1> DEFINE c == [x \in Mail!Present(m) |-> [box[x] EXCEPT !.deleted = TRUE]]
<1>1. ASSUME m \in DOMAIN box PROVE c[m] \in Mail!Flags /\ c[m].deleted
  <2>1. m \in Mail!Present(m) /\ box[m] \in Mail!Flags
    BY <1>1 DEF Mail!Present, MailInd, FolderOK
  <2> QED BY <2>1 DEF Mail!Flags
<1>2. Mail!Deleted(m) = Mail!Mark({m}, c)
  BY DEF Mail!Deleted
<1> HIDE DEF c
<1> DEFINE b == Mail!Mark({m}, c)
<1>3. /\ FolderOK(b) /\ DOMAIN b = DOMAIN box /\ (m \in DOMAIN box => b[m] = c[m])
      /\ \A x \in DOMAIN box: x # m => b[x] = box[x]
  <2>1. /\ DOMAIN b = DOMAIN box
        /\ \A x \in DOMAIN box: b[x] = IF x = m THEN c[m] ELSE box[x]
    BY DEF Mail!Mark
  <2>2. FolderOK(b)
    BY <1>1, <2>1 DEF MailInd, FolderOK
  <2> QED BY <2>1, <2>2
<1> HIDE DEF b
<1>4. Mail!Deleted(m) = b
  BY <1>2 DEF b
<1> QED BY <1>1, <1>3, <1>4

LEMMA MailArchive ==
  ASSUME MailInd, NEW f \in Fetcher, NEW m \in Letters, Mail!archive_msg(f, m) PROVE MailInd'
<1> DEFINE b == Mail!Deleted(m)
           r == Mail!NextMessage(f)
<1>1. /\ m \in fetch[f].uid /\ box' = Mail!Expunged(b) /\ Mail!Goes(f, r)
      /\ UNCHANGED <<conf, new, purged, attached, raced>>
      /\ \/ kept' = kept \union Mail!Present(m) /\ risked' = risked
         \/ risked' = risked \union {m} /\ kept' = kept
  BY DEF Mail!archive_msg
<1>2. /\ FolderOK(b) /\ DOMAIN b = DOMAIN box
      /\ m \in DOMAIN box => b[m].deleted
      /\ \A x \in DOMAIN box: x # m => b[x] = box[x]
  BY DeletedMessage
<1> HIDE DEF b
<1>3. /\ FolderOK(box') /\ DOMAIN box' = {x \in DOMAIN box: ~b[x].deleted}
      /\ \A x \in DOMAIN box': box'[x] = b[x]
  <2> DEFINE e == Mail!Expunged(b)
  <2>1. /\ FolderOK(e) /\ DOMAIN e = {x \in DOMAIN b: ~b[x].deleted}
        /\ \A x \in DOMAIN e: e[x] = b[x]
    BY <1>2, ExpungedFolder
  <2> HIDE DEF e
  <2> QED BY <1>1, <1>2, <2>1 DEF e
<1>4. FetchOK(fetch[f])
  BY DEF MailInd
<1>5. /\ FetchOK(r) /\ r.known = fetch[f].known /\ Finished(r) = fetch[f].done /\ fetch[f].pc # "idle"
  <2>1. fetch[f].done \in SUBSET Letters /\ fetch[f].uid # {}
    BY <1>1, <1>4 DEF FetchOK, FetchSet
  <2> HIDE DEF r
  <2>2. r = Mail!NextMessage(f)
    BY DEF r
  <2> QED BY <2>1, <2>2, NextFetch
<1> HIDE DEF r
<1>6. MailCounted'
  BY <1>1, <1>5, CountsKeep
<1>7. Mail!Present(m) \subseteq Letters /\ (m \in DOMAIN box => m \in Mail!Present(m))
  BY DEF Mail!Present
<1>8. \A x \in DOMAIN box: \/ x \in DOMAIN box' /\ (box'[x].deleted => box[x].deleted)
                           \/ x \in kept' \union risked' \/ box[x].deleted
  BY <1>1, <1>2, <1>3, <1>7
<1>9. Finished(fetch[f]) \subseteq Finished(r)
  BY <1>5 DEF Finished
<1>10. /\ kept \subseteq kept' /\ risked \subseteq risked' /\ kept' \subseteq Letters /\ risked' \subseteq Letters
  BY <1>1, <1>7 DEF MailInd
<1> QED BY <1>1, <1>3, <1>5, <1>6, <1>8, <1>9, <1>10, MailStepKeeps DEF MailInd

LEMMA MailError ==
  ASSUME MailInd, NEW f \in Fetcher, NEW m \in Letters, Mail!MessageError(f, m) PROVE MailInd'
<1> DEFINE u == [x \in Mail!Present(m) |-> Mail!Updated(f, x)]
           D == fetch[f].done \ {m}
           r == [Mail!NextMessage(f) EXCEPT !.done = D]
<1>1. /\ m \in fetch[f].uid /\ Mail!Goes(f, r)
      /\ UNCHANGED <<conf, new, purged, attached, raced>>
      /\ \/ UNCHANGED <<box, kept, risked>>
         \/ kept' = kept \union Mail!Present(m) /\ UNCHANGED <<box, risked>>
         \/ kept' = kept \union Mail!Present(m) /\ box' = Mail!Deleted(m) /\ risked' = risked \union {m}
         \/ box' = Mail!Mark({m}, u) /\ risked' = risked \union {m} /\ UNCHANGED kept
  BY DEF Mail!MessageError, Mail!RollbackToSavepoint
<1>2. FetchOK(fetch[f])
  BY DEF MailInd
<1>3. /\ D \in SUBSET Letters /\ fetch[f].uid = {m}
      /\ fetch[f].done \ fetch[f].uid \subseteq D /\ D \subseteq fetch[f].done
  BY <1>1, <1>2 DEF FetchOK, FetchSet
<1> HIDE DEF D
<1>4. FetchOK(r) /\ r.known = fetch[f].known /\ Finished(r) = D /\ fetch[f].pc # "idle"
  <2>1. fetch[f].uid # {} /\ r = [Mail!NextMessage(f) EXCEPT !.done = D]
    BY <1>3
  <2> HIDE DEF r
  <2> QED BY <1>3, <2>1, NextFetch
<1> HIDE DEF r
<1>5. MailCounted'
  BY <1>1, <1>4, CountsKeep
<1>6. Finished(fetch[f]) \subseteq Finished(r)
  BY <1>3, <1>4 DEF Finished
<1>7. ASSUME m \in DOMAIN box PROVE u[m] \in Mail!Flags
  <2>1. u[m] = Mail!Updated(f, m)
    BY <1>7 DEF Mail!Present
  <2> QED BY <1>1, <1>7, <2>1, UpdatedMessage
<1> HIDE DEF u
<1>8. /\ FolderOK(box') /\ DOMAIN box' = DOMAIN box
      /\ \A x \in DOMAIN box: x # m => box'[x] = box[x]
      /\ box' = box \/ m \in risked'
  <2>1. CASE UNCHANGED box
    BY <2>1 DEF MailInd
  <2>2. CASE box' = Mail!Deleted(m) /\ risked' = risked \union {m}
    BY <2>2, DeletedMessage
  <2>3. CASE box' = Mail!Mark({m}, u) /\ risked' = risked \union {m}
    <3>1. /\ DOMAIN box' = DOMAIN box
          /\ \A x \in DOMAIN box: box'[x] = IF x = m THEN u[m] ELSE box[x]
      BY <2>3 DEF Mail!Mark
    <3>2. FolderOK(box')
      BY <1>7, <3>1 DEF MailInd, FolderOK
    <3> QED BY <2>3, <3>1, <3>2
  <2> QED BY <1>1, <2>1, <2>2, <2>3
<1>9. \A x \in DOMAIN box: \/ x \in DOMAIN box' /\ (box'[x].deleted => box[x].deleted)
                           \/ x \in risked'
  BY <1>8
<1>10. /\ kept \subseteq kept' /\ risked \subseteq risked' /\ kept' \subseteq Letters /\ risked' \subseteq Letters
  BY <1>1 DEF MailInd, Mail!Present
<1> QED BY <1>1, <1>4, <1>5, <1>6, <1>8, <1>9, <1>10, MailStepKeeps DEF MailInd

LEMMA MailStep == ASSUME MailInd, Mail!Next \/ UNCHANGED Mail!vars PROVE MailInd'
<1>1. CASE UNCHANGED Mail!vars
  BY <1>1 DEF Mail!vars, MailInd, MailLocated, MailCounted, FolderOK, FetchOK, FetchSet, Safe, Finished,
              Mail!Flags, Mail!Age
<1>2. CASE Mail!Next
  BY <1>2, MailFetch, MailByHand, MailSearch, MailClose, MailCommit, MailFetchMessage, MailMatching,
     MailUpdate, MailArchive, MailFetchFails, MailArrive, MailGrowOld, MailError, MailGeneralFailure,
     MailCrash DEF Mail!Next, Mail!GoOn
<1> QED BY <1>1, <1>2

\* All but the count of failures has its type in the invariant.
LEMMA MailTypes ==
  ASSUME Mail!FetchmailParameters, MailInd, MailInd', Mail!TypeOK, Mail!Next \/ UNCHANGED Mail!vars
  PROVE Mail!TypeOK'
<1>1. faults \in 0..MaxFaults["mail"] /\ MaxFaults["mail"] \in Nat
  BY DEF Mail!TypeOK, Mail!FetchmailParameters
<1>2. (Mail!Fault \/ faults' = faults) => faults' \in 0..MaxFaults["mail"]
  BY <1>1 DEF Mail!Fault
<1>3. UNCHANGED Mail!vars => faults' = faults
  BY DEF Mail!vars
<1>4. ASSUME NEW f \in Fetcher, NEW m \in Letters,
             \/ Mail!fetch_msg(f, m) \/ Mail!apply_matching(f, m) \/ Mail!update_msg(f, m)
             \/ Mail!archive_msg(f, m) \/ Mail!FetchFails(f, m) \/ Mail!MessageError(f, m)
      PROVE Mail!Fault \/ faults' = faults
  BY <1>4 DEF Mail!fetch_msg, Mail!apply_matching, Mail!update_msg, Mail!archive_msg, Mail!FetchFails,
              Mail!MessageError
<1>5. ASSUME NEW f \in Fetcher, \/ Mail!fetch_mail(f) \/ Mail!fetch_folder(f) \/ Mail!get_message_uids(f)
                                \/ Mail!close(f) \/ Mail!Commit(f) \/ Mail!GeneralFailure(f) \/ Mail!Crash(f)
      PROVE Mail!Fault \/ faults' = faults
  BY <1>5 DEF Mail!fetch_mail, Mail!fetch_folder, Mail!get_message_uids, Mail!close, Mail!Commit,
              Mail!GeneralFailure, Mail!Crash
<1>6. ASSUME NEW m \in Letters, Mail!Arrive(m) \/ Mail!GrowOld(m) PROVE faults' = faults
  BY <1>6 DEF Mail!Arrive, Mail!GrowOld
<1>7. Mail!Next => Mail!Fault \/ faults' = faults
  BY <1>4, <1>5, <1>6 DEF Mail!Next, Mail!GoOn
<1>8. faults' \in 0..MaxFaults["mail"]
  BY <1>2, <1>3, <1>7
<1> QED BY <1>8 DEF MailInd, FolderOK, FetchSet, Mail!Flags, Mail!Age, Mail!TypeOK

-----------------------------------------------------------------------------
(***************************************************************************)
(* auto_backup: what a run calls successful has its file, and a run        *)
(* deletes only what is older than the days that are kept.                 *)
(***************************************************************************)
\* A complete backup of today.
WholeToday(b) == \E f \in files[b]: f.whole /\ f.time = now /\ f.ext = Format[b]

\* The message tells of a complete backup, or of one that was not kept.
Tells(m) == m.success =>
  \/ \E f \in files[m.rec]: f.whole /\ f.time = m.time /\ f.ext = Format[m.rec]
  \/ days_to_keep[m.rec] # 0 /\ m.time + days_to_keep[m.rec] < now

RunOK(r) ==
  /\ DOMAIN r = {"pc", "todo", "rec", "cached", "successful"}
  /\ r.pc \in {"idle", "backup", "write", "cleanup"}
  /\ r.todo \subseteq Backup /\ r.rec \subseteq Backup /\ r.successful \subseteq Backup
  /\ r.pc # "write" => r.rec = {}
  /\ r.pc \in {"backup", "write"} => /\ r.successful \intersect (r.todo \union r.rec) = {}
                                     /\ r.todo \intersect r.rec = {}
  /\ r.pc = "cleanup" => \A b \in r.todo: b \in r.successful /\ days_to_keep[b] # 0
  /\ r.pc = "idle" => r.successful = {}

\* Configurations that are still to be backed up have no file of today, and
\* those that succeeded have a complete one, as the messages tell.
BackupInd ==
  /\ now \in Nat /\ DOMAIN files = Backup
  /\ \A b \in Backup: \A f \in files[b]: f.time \in Nat /\ f.time <= now
  /\ RunOK(run)
  /\ \A b \in run.successful: WholeToday(b)
  /\ run.pc \in {"backup", "write"} => \A b \in run.todo: \A f \in files[b]: f.time < now
  /\ run.pc = "idle" => posted = {}
  /\ \A m \in posted: m.rec \in Backup /\ m.time = now /\ (m.success => m.rec \in run.successful)
  /\ \A m \in told: /\ m.rec \in Backup /\ m.time \in Nat /\ m.time <= now
                    /\ run.pc # "idle" => m.time < now
                    /\ Tells(m)

LEMMA BackupIndMeans == ASSUME BackupInd PROVE Dump!SuccessIsWhole
BY DEF BackupInd, Tells, Dump!SuccessIsWhole, Dump!Whole

LEMMA IdleRun == RunOK(Dump!Idle) /\ Dump!Idle.pc = "idle" /\ Dump!Idle.successful = {}
BY DEF RunOK, Dump!Idle

LEMMA BackupInit == ASSUME Dump!BackupParameters, Dump!Init PROVE BackupInd
<1>1. /\ now = 0 /\ DOMAIN files = Backup /\ \A b \in Backup: files[b] = {}
      /\ run = Dump!Idle /\ posted = {} /\ told = {}
  BY DEF Dump!Init
<1> QED BY <1>1, IdleRun DEF BackupInd

\* A step of a run on one day: a complete backup of today or of a day that is
\* kept stays, and those that succeed have one.
LEMMA BackupStepKeeps ==
  ASSUME BackupInd, UNCHANGED <<now, told>>, run.pc # "idle", RunOK(run'), DOMAIN files' = Backup,
         \A b \in Backup: \A f \in files'[b]: f.time \in Nat /\ f.time <= now,
         \A b \in Backup: \A f \in files[b]:
           \/ f \in files'[b]
           \/ f.time = now /\ b \notin run.successful
           \/ days_to_keep[b] # 0 /\ f.time + days_to_keep[b] < now,
         \A b \in run'.successful: WholeToday(b)',
         run'.pc \in {"backup", "write"} => \A b \in run'.todo: \A f \in files'[b]: f.time < now,
         run'.pc = "idle" => posted' = {},
         \A m \in posted': m.rec \in Backup /\ m.time = now /\ (m.success => m.rec \in run'.successful)
  PROVE  BackupInd'
<1>1. ASSUME NEW m \in told PROVE Tells(m)'
  <2>1. m.time < now /\ m.rec \in Backup /\ Tells(m)
    BY DEF BackupInd
  <2>2. \A f \in files[m.rec]: f.time = m.time =>
          \/ f \in files'[m.rec]
          \/ days_to_keep[m.rec] # 0 /\ m.time + days_to_keep[m.rec] < now
    BY <2>1 DEF BackupInd
  <2> QED BY <2>1, <2>2 DEF Tells
<1>2. RunOK(run)'
  BY DEF RunOK
<1> QED BY <1>1, <1>2 DEF BackupInd

LEMMA BackupAction ==
  ASSUME BackupInd, NEW S \in SUBSET Backup, Dump!BackupParameters, Dump!action_backup(S)
  PROVE  BackupInd'
<1>1. /\ run.pc = "idle" /\ now' \in now + 1 .. MaxTime
      /\ run' = [Dump!Idle EXCEPT !.pc = "backup", !.todo = S]
      /\ UNCHANGED <<files, posted, told>>
  BY DEF Dump!action_backup
<1>2. now \in Nat /\ now' \in Nat /\ now < now'
  BY <1>1 DEF BackupInd, Dump!BackupParameters
<1>3. /\ DOMAIN run' = {"pc", "todo", "rec", "cached", "successful"}
      /\ run'.pc = "backup" /\ run'.todo = S /\ run'.rec = {} /\ run'.successful = {}
  BY <1>1 DEF Dump!Idle
<1>4. RunOK(run')
  BY <1>3 DEF RunOK
<1>5. RunOK(run)'
  BY <1>4 DEF RunOK
<1>6. \A b \in Backup: \A f \in files'[b]: f.time \in Nat /\ f.time < now'
  BY <1>1, <1>2 DEF BackupInd
<1>7. ASSUME NEW m \in told' PROVE m.rec \in Backup /\ m.time \in Nat /\ m.time < now' /\ Tells(m)'
  <2>1. m.rec \in Backup /\ m.time \in Nat /\ m.time <= now /\ Tells(m)
    BY <1>1 DEF BackupInd
  <2>2. days_to_keep[m.rec] \in Nat
    BY <2>1 DEF Dump!BackupParameters
  <2>3. m.time + days_to_keep[m.rec] < now => m.time + days_to_keep[m.rec] < now'
    BY <1>2, <2>1, <2>2
  <2>4. Tells(m)'
    BY <1>1, <2>1, <2>3 DEF Tells
  <2> QED BY <1>2, <2>1, <2>4
<1>8. posted' = {} /\ DOMAIN files' = Backup
  BY <1>1 DEF BackupInd
<1>9. S \subseteq Backup
  OBVIOUS
<1> QED BY <1>2, <1>3, <1>5, <1>6, <1>7, <1>8, <1>9 DEF BackupInd

\* The file of today is opened: the others stay.
LEMMA OpenedFiles ==
  ASSUME BackupInd, NEW b \in Backup, NEW whole, files' = [files EXCEPT ![b] = Dump!Opened(b, whole)]
  PROVE  /\ DOMAIN files' = Backup /\ \A c \in Backup: c # b => files'[c] = files[c]
         /\ \A f \in files[b]: f \in files'[b] \/ f.time = now
         /\ \A f \in files'[b]: f \in files[b] \/ f.time = now
         /\ whole = TRUE => \E f \in files'[b]: f.time = now /\ f.ext = Format[b] /\ f.whole
<1> DEFINE g == [time |-> now, ext |-> Format[b], whole |-> whole]
<1>1. /\ DOMAIN files' = Backup /\ \A c \in Backup: c # b => files'[c] = files[c]
      /\ files'[b] = {f \in files[b]: ~(f.time = now /\ f.ext = Format[b])} \union {g}
  BY DEF BackupInd, Dump!Opened
<1>2. g.time = now /\ g.ext = Format[b] /\ g.whole = whole
  OBVIOUS
<1> HIDE DEF g
<1> QED BY <1>1, <1>2

LEMMA BackupOpen == ASSUME BackupInd, NEW b \in Backup, Dump!open(b) PROVE BackupInd'
<1>1. /\ run.pc = "backup" /\ b \in run.todo /\ files' = [files EXCEPT ![b] = Dump!Opened(b, FALSE)]
      /\ run' = [run EXCEPT !.pc = "write", !.todo = @ \ {b}, !.rec = {b}]
      /\ UNCHANGED <<now, posted, told>>
  BY DEF Dump!open, Dump!Turn
<1>2. /\ DOMAIN files' = Backup /\ \A c \in Backup: c # b => files'[c] = files[c]
      /\ \A f \in files[b]: f \in files'[b] \/ f.time = now
      /\ \A f \in files'[b]: f \in files[b] \/ f.time = now
  BY <1>1, OpenedFiles
<1>3. RunOK(run)
  BY DEF BackupInd
<1>4. /\ DOMAIN run' = {"pc", "todo", "rec", "cached", "successful"}
      /\ run'.pc = "write" /\ run'.todo = run.todo \ {b} /\ run'.rec = {b}
      /\ run'.successful = run.successful
  BY <1>1, <1>3 DEF RunOK
<1>5. RunOK(run') /\ b \notin run.successful /\ run.successful \subseteq Backup
  BY <1>1, <1>3, <1>4 DEF RunOK
<1>6. \A c \in run'.successful: WholeToday(c)'
  <2> SUFFICES ASSUME NEW c \in run.successful PROVE WholeToday(c)'
    BY <1>4
  <2>1. files'[c] = files[c] /\ now' = now /\ WholeToday(c)
    BY <1>1, <1>2, <1>5 DEF BackupInd
  <2> QED BY <2>1 DEF WholeToday
<1>7. \A c \in run'.todo: \A f \in files'[c]: f.time < now
  BY <1>1, <1>2, <1>3, <1>4 DEF BackupInd, RunOK
<1>8. \A c \in Backup: \A f \in files'[c]: f.time \in Nat /\ f.time <= now
  BY <1>2 DEF BackupInd
<1>9. \A c \in Backup: \A f \in files[c]: f \in files'[c] \/ (f.time = now /\ c \notin run.successful)
  BY <1>2, <1>5
<1>10. \A m \in posted': m.rec \in Backup /\ m.time = now /\ (m.success => m.rec \in run'.successful)
  BY <1>1, <1>4 DEF BackupInd
<1> QED BY <1>1, <1>2, <1>4, <1>5, <1>6, <1>7, <1>8, <1>9, <1>10, BackupStepKeeps

\* A run goes on with nothing done to the files.
LEMMA BackupOnlyRun ==
  ASSUME BackupInd, UNCHANGED <<now, files, told>>, run.pc # "idle", RunOK(run'),
         run'.successful \subseteq run.successful,
         run'.pc \in {"backup", "write"} => run.pc \in {"backup", "write"} /\ run'.todo \subseteq run.todo,
         run'.pc = "idle" => posted' = {},
         \A m \in posted': m.rec \in Backup /\ m.time = now /\ (m.success => m.rec \in run'.successful)
  PROVE  BackupInd'
<1>1. \A b \in run'.successful: WholeToday(b)'
  BY DEF BackupInd, WholeToday
<1>2. /\ \A b \in Backup: \A f \in files'[b]: f.time \in Nat /\ f.time <= now
      /\ \A b \in Backup: \A f \in files[b]: f \in files'[b]
      /\ DOMAIN files' = Backup
  BY DEF BackupInd
<1>3. run'.pc \in {"backup", "write"} => \A b \in run'.todo: \A f \in files'[b]: f.time < now
  BY DEF BackupInd
<1> QED BY <1>1, <1>2, <1>3, BackupStepKeeps

LEMMA BackupFailsKeeps == ASSUME BackupInd, NEW b \in Backup, Dump!BackupFails(b) PROVE BackupInd'
<1> DEFINE msg == [rec |-> b, time |-> now, success |-> FALSE]
<1>1. /\ run.pc \in {"backup", "write"}
      /\ posted' = posted \union {msg}
      /\ run' = [run EXCEPT !.pc = "backup", !.todo = @ \ {b}, !.rec = {}]
      /\ UNCHANGED <<now, files, told>>
  BY DEF Dump!BackupFails, Dump!Turn, Dump!Post
<1>2. msg.rec = b /\ msg.time = now /\ ~msg.success
  OBVIOUS
<1> HIDE DEF msg
<1>3. RunOK(run)
  BY DEF BackupInd
<1>4. /\ DOMAIN run' = {"pc", "todo", "rec", "cached", "successful"}
      /\ run'.pc = "backup" /\ run'.todo = run.todo \ {b} /\ run'.rec = {}
      /\ run'.successful = run.successful
  BY <1>1, <1>3 DEF RunOK
<1>5. RunOK(run')
  BY <1>1, <1>3, <1>4 DEF RunOK
<1>6. \A m \in posted': m.rec \in Backup /\ m.time = now /\ (m.success => m.rec \in run'.successful)
  BY <1>1, <1>2, <1>4 DEF BackupInd
<1> QED BY <1>1, <1>4, <1>5, <1>6, BackupOnlyRun

LEMMA BackupWrite == ASSUME BackupInd, NEW b \in Backup, Dump!write(b) PROVE BackupInd'
<1> DEFINE msg == [rec |-> b, time |-> now, success |-> TRUE]
<1>1. /\ run.pc = "write" /\ b \in run.rec /\ files' = [files EXCEPT ![b] = Dump!Opened(b, TRUE)]
      /\ posted' = posted \union {msg}
      /\ run' = [run EXCEPT !.pc = "backup", !.rec = {}, !.cached = @ \/ b \in Disks,
                            !.successful = @ \union {b}]
      /\ UNCHANGED <<now, told>>
  BY DEF Dump!write, Dump!Post
<1>2. msg.rec = b /\ msg.time = now
  OBVIOUS
<1> HIDE DEF msg
<1>3. RunOK(run)
  BY DEF BackupInd
<1>4. /\ DOMAIN run' = {"pc", "todo", "rec", "cached", "successful"}
      /\ run'.pc = "backup" /\ run'.todo = run.todo /\ run'.rec = {}
      /\ run'.successful = run.successful \union {b}
  BY <1>1, <1>3 DEF RunOK
<1>5. RunOK(run') /\ b \notin run.successful /\ b \notin run.todo
  BY <1>1, <1>3, <1>4 DEF RunOK
<1>6. /\ DOMAIN files' = Backup /\ \A c \in Backup: c # b => files'[c] = files[c]
      /\ \A f \in files[b]: f \in files'[b] \/ f.time = now
      /\ \A f \in files'[b]: f \in files[b] \/ f.time = now
      /\ \E f \in files'[b]: f.time = now /\ f.ext = Format[b] /\ f.whole
  BY <1>1, OpenedFiles
<1>7. \A c \in run'.successful: WholeToday(c)'
  <2>1. WholeToday(b)'
    BY <1>1, <1>6 DEF WholeToday
  <2>2. ASSUME NEW c \in run.successful, c # b PROVE WholeToday(c)'
    <3>1. files'[c] = files[c] /\ now' = now /\ WholeToday(c)
      BY <1>1, <1>3, <1>6, <2>2 DEF BackupInd, RunOK
    <3> QED BY <3>1 DEF WholeToday
  <2> QED BY <1>4, <2>1, <2>2
<1>8. \A c \in run'.todo: \A f \in files'[c]: f.time < now
  <2>1. \A c \in run.todo: \A f \in files[c]: f.time < now
    BY <1>1 DEF BackupInd
  <2>2. run.todo \subseteq Backup
    BY <1>3 DEF RunOK
  <2> QED BY <1>4, <1>5, <1>6, <2>1, <2>2
<1>9. \A c \in Backup: \A f \in files'[c]: f.time \in Nat /\ f.time <= now
  BY <1>6 DEF BackupInd
<1>10. \A c \in Backup: \A f \in files[c]: f \in files'[c] \/ (f.time = now /\ c \notin run.successful)
  BY <1>5, <1>6
<1>11. \A m \in posted': m.rec \in Backup /\ m.time = now /\ (m.success => m.rec \in run'.successful)
  BY <1>1, <1>2, <1>4 DEF BackupInd
<1> QED BY <1>1, <1>4, <1>5, <1>6, <1>7, <1>8, <1>9, <1>10, <1>11, BackupStepKeeps

LEMMA BackupStartCleanup == ASSUME BackupInd, Dump!StartCleanup PROVE BackupInd'
<1> DEFINE S == {b \in run.successful: days_to_keep[b] # 0}
<1>1. /\ run.pc = "backup" /\ run' = [run EXCEPT !.pc = "cleanup", !.todo = S]
      /\ UNCHANGED <<now, files, posted, told>>
  BY DEF Dump!StartCleanup, Dump!ToCleanUp
<1>2. RunOK(run)
  BY DEF BackupInd
<1>3. S \subseteq run.successful /\ \A b \in S: days_to_keep[b] # 0
  OBVIOUS
<1> HIDE DEF S
<1>4. /\ DOMAIN run' = {"pc", "todo", "rec", "cached", "successful"}
      /\ run'.pc = "cleanup" /\ run'.todo = S /\ run'.rec = run.rec
      /\ run'.successful = run.successful
  BY <1>1, <1>2 DEF RunOK
<1>5. RunOK(run')
  BY <1>1, <1>2, <1>3, <1>4 DEF RunOK
<1>6. \A m \in posted': m.rec \in Backup /\ m.time = now /\ (m.success => m.rec \in run'.successful)
  BY <1>1, <1>4 DEF BackupInd
<1> QED BY <1>1, <1>4, <1>5, <1>6, BackupOnlyRun

\* Files that are too old are deleted, and not the one of today.
LEMMA CleanedFiles ==
  ASSUME Dump!BackupParameters, BackupInd, NEW b \in run.successful, days_to_keep[b] # 0,
         NEW some \in SUBSET Dump!Old(b), files' = [files EXCEPT ![b] = @ \ some], UNCHANGED now
  PROVE  /\ DOMAIN files' = Backup
         /\ \A c \in Backup: \A f \in files'[c]: f \in files[c]
         /\ \A c \in Backup: \A f \in files[c]:
              f \in files'[c] \/ (days_to_keep[c] # 0 /\ f.time + days_to_keep[c] < now)
         /\ \A c \in Backup: WholeToday(c) => WholeToday(c)'
<1>1. b \in Backup /\ days_to_keep[b] \in Nat /\ now \in Nat
  BY DEF BackupInd, RunOK, Dump!BackupParameters
<1>2. /\ DOMAIN files' = Backup /\ \A c \in Backup: c # b => files'[c] = files[c]
      /\ files'[b] = files[b] \ some
  BY <1>1 DEF BackupInd
<1>3. \A f \in some: f \in files[b] /\ f.time \in Nat /\ f.time + days_to_keep[b] < now
  BY <1>1 DEF Dump!Old, BackupInd
<1>4. \A c \in Backup: \A f \in files[c]:
        f \in files'[c] \/ (days_to_keep[c] # 0 /\ f.time + days_to_keep[c] < now)
  BY <1>2, <1>3
<1>5. \A f \in some: f.time # now
  BY <1>1, <1>3
<1>6. ASSUME NEW c \in Backup, WholeToday(c) PROVE WholeToday(c)'
  BY <1>2, <1>5, <1>6 DEF WholeToday
<1> QED BY <1>2, <1>4, <1>6

LEMMA BackupCleanup ==
  ASSUME Dump!BackupParameters, BackupInd, NEW b \in Backup, Dump!cleanup(b) PROVE BackupInd'
<1>1. /\ run.pc = "cleanup" /\ b \in run.todo /\ files' = [files EXCEPT ![b] = @ \ Dump!Old(b)]
      /\ run' = [run EXCEPT !.todo = @ \ {b}] /\ UNCHANGED <<now, posted, told>>
  BY DEF Dump!cleanup
<1>2. RunOK(run) /\ b \in run.successful /\ days_to_keep[b] # 0
  BY <1>1 DEF BackupInd, RunOK
<1>3. /\ DOMAIN run' = {"pc", "todo", "rec", "cached", "successful"}
      /\ run'.pc = "cleanup" /\ run'.todo = run.todo \ {b} /\ run'.rec = run.rec
      /\ run'.successful = run.successful
  BY <1>1, <1>2 DEF RunOK
<1>4. RunOK(run') /\ run.successful \subseteq Backup
  BY <1>1, <1>2, <1>3 DEF RunOK
<1>5. /\ DOMAIN files' = Backup
      /\ \A c \in Backup: \A f \in files'[c]: f \in files[c]
      /\ \A c \in Backup: \A f \in files[c]:
           f \in files'[c] \/ (days_to_keep[c] # 0 /\ f.time + days_to_keep[c] < now)
      /\ \A c \in Backup: WholeToday(c) => WholeToday(c)'
  BY <1>1, <1>2, CleanedFiles
<1>6. \A c \in run'.successful: WholeToday(c)'
  BY <1>3, <1>4, <1>5 DEF BackupInd
<1>7. \A c \in Backup: \A f \in files'[c]: f.time \in Nat /\ f.time <= now
  BY <1>5 DEF BackupInd
<1>8. \A m \in posted': m.rec \in Backup /\ m.time = now /\ (m.success => m.rec \in run'.successful)
  BY <1>1, <1>3 DEF BackupInd
<1> QED BY <1>1, <1>3, <1>4, <1>5, <1>6, <1>7, <1>8, BackupStepKeeps

LEMMA BackupCleanupFails ==
  ASSUME Dump!BackupParameters, BackupInd, NEW b \in Backup, Dump!CleanupFails(b) PROVE BackupInd'
<1>1. /\ run.pc = "cleanup" /\ b \in run.todo /\ run' = Dump!Idle /\ posted' = {}
      /\ UNCHANGED <<now, told>>
  BY DEF Dump!CleanupFails
<1>2. PICK some \in SUBSET Dump!Old(b): files' = [files EXCEPT ![b] = @ \ some]
  BY DEF Dump!CleanupFails
<1>3. b \in run.successful /\ days_to_keep[b] # 0
  BY <1>1 DEF BackupInd, RunOK
<1>4. /\ DOMAIN files' = Backup
      /\ \A c \in Backup: \A f \in files'[c]: f \in files[c]
      /\ \A c \in Backup: \A f \in files[c]:
           f \in files'[c] \/ (days_to_keep[c] # 0 /\ f.time + days_to_keep[c] < now)
  BY <1>1, <1>2, <1>3, CleanedFiles
<1>5. RunOK(run') /\ run'.pc = "idle" /\ run'.successful = {}
  BY <1>1, IdleRun
<1>6. \A c \in Backup: \A f \in files'[c]: f.time \in Nat /\ f.time <= now
  BY <1>4 DEF BackupInd
<1> QED BY <1>1, <1>4, <1>5, <1>6, BackupStepKeeps

LEMMA BackupCrash == ASSUME BackupInd, Dump!Crash PROVE BackupInd'
<1>1. run.pc # "idle" /\ run' = Dump!Idle /\ posted' = {} /\ UNCHANGED <<now, files, told>>
  BY DEF Dump!Crash
<1> QED BY <1>1, IdleRun, BackupOnlyRun

\* The messages become visible: those of success tell the truth.
LEMMA BackupCommit == ASSUME BackupInd, Dump!Commit PROVE BackupInd'
<1>1. /\ told' = told \union posted /\ posted' = {} /\ run' = Dump!Idle /\ UNCHANGED <<now, files>>
  BY DEF Dump!Commit
<1>2. \A m \in posted: m.success => WholeToday(m.rec)
  BY DEF BackupInd
<1>3. \A m \in posted: Tells(m)
  BY <1>2 DEF BackupInd, Tells, WholeToday
<1>4. \A m \in told': m.rec \in Backup /\ m.time \in Nat /\ m.time <= now /\ Tells(m)'
  BY <1>1, <1>3 DEF BackupInd, Tells
<1>5. RunOK(run') /\ run'.pc = "idle" /\ run'.successful = {}
  BY <1>1, IdleRun
<1>6. RunOK(run)'
  BY <1>5 DEF RunOK
<1> QED BY <1>1, <1>4, <1>5, <1>6 DEF BackupInd

LEMMA BackupStep ==
  ASSUME Dump!BackupParameters, BackupInd, Dump!Next \/ UNCHANGED Dump!vars PROVE BackupInd'
<1>1. CASE UNCHANGED Dump!vars
  BY <1>1 DEF Dump!vars, BackupInd, RunOK, WholeToday, Tells
<1>2. CASE Dump!Next
  BY <1>2, BackupAction, BackupOpen, BackupFailsKeeps, BackupWrite, BackupStartCleanup, BackupCleanup,
     BackupCleanupFails, BackupCommit, BackupCrash DEF Dump!Next
<1> QED BY <1>1, <1>2

\* A file that is not whole is replaced by one that is written over it, or by a
\* complete one; a whole one is replaced by a complete one of the same day.
LEMMA BackupKeepsBackup ==
  ASSUME Dump!BackupParameters, BackupInd, Dump!Next \/ UNCHANGED Dump!vars PROVE Dump!KeepsBackup
<1> SUFFICES ASSUME NEW b \in Backup, NEW f \in files[b], f.whole
             PROVE  \E g \in files'[b]: g.whole
  BY DEF Dump!KeepsBackup, Dump!Whole
<1>1. CASE UNCHANGED files
  BY <1>1
<1>2. ASSUME NEW c \in Backup, Dump!open(c) PROVE f \in files'[b]
  <2>1. /\ run.pc = "backup" /\ c \in run.todo /\ files' = [files EXCEPT ![c] = Dump!Opened(c, FALSE)]
    BY <1>2 DEF Dump!open, Dump!Turn
  <2>2. /\ \A d \in Backup: d # c => files'[d] = files[d]
        /\ \A g \in files[c]: g \in files'[c] \/ g.time = now
    BY <2>1, OpenedFiles
  <2>3. now \in Nat /\ \A g \in files[c]: g.time \in Nat /\ g.time < now
    BY <2>1 DEF BackupInd
  <2>4. \A g \in files[c]: g.time # now
    BY <2>3
  <2> QED BY <2>2, <2>4
<1>3. ASSUME NEW c \in Backup, Dump!write(c) PROVE \E g \in files'[b]: g.whole
  <2>1. files' = [files EXCEPT ![c] = Dump!Opened(c, TRUE)]
    BY <1>3 DEF Dump!write
  <2> QED BY <2>1, OpenedFiles
<1>4. ASSUME NEW c \in Backup, run.pc = "cleanup", c \in run.todo, UNCHANGED now,
             NEW some \in SUBSET Dump!Old(c), files' = [files EXCEPT ![c] = @ \ some]
      PROVE  \E g \in files'[b]: g.whole
  <2>1. c \in run.successful /\ days_to_keep[c] # 0 /\ WholeToday(c)
    BY <1>4 DEF BackupInd, RunOK
  <2>2. WholeToday(c)'
    BY <1>4, <2>1, CleanedFiles
  <2>3. \A d \in Backup: d # c => files'[d] = files[d]
    BY <1>4 DEF BackupInd
  <2> QED BY <2>2, <2>3 DEF WholeToday
<1>5. ASSUME NEW c \in Backup, Dump!cleanup(c) PROVE \E g \in files'[b]: g.whole
  <2>1. /\ run.pc = "cleanup" /\ c \in run.todo /\ UNCHANGED now
        /\ files' = [files EXCEPT ![c] = @ \ Dump!Old(c)]
    BY <1>5 DEF Dump!cleanup
  <2> QED BY <1>4, <2>1
<1>6. ASSUME NEW c \in Backup, Dump!CleanupFails(c) PROVE \E g \in files'[b]: g.whole
  <2>1. /\ run.pc = "cleanup" /\ c \in run.todo /\ UNCHANGED now
        /\ \E some \in SUBSET Dump!Old(c): files' = [files EXCEPT ![c] = @ \ some]
    BY <1>6 DEF Dump!CleanupFails
  <2> QED BY <1>4, <2>1
<1>7. CASE Dump!Next
  <2>1. (\/ Dump!StartCleanup \/ Dump!Commit \/ Dump!Crash
         \/ \E S: Dump!action_backup(S)
         \/ \E c \in Backup: Dump!BackupFails(c)) => UNCHANGED files
    BY DEF Dump!StartCleanup, Dump!Commit, Dump!Crash, Dump!action_backup, Dump!BackupFails
  <2> QED BY <1>1, <1>2, <1>3, <1>5, <1>6, <1>7, <2>1 DEF Dump!Next
<1>8. CASE UNCHANGED Dump!vars
  BY <1>1, <1>8 DEF Dump!vars
<1> QED BY <1>7, <1>8

\* The files of the folders and the messages; a run is on a day.
BackupTyped == Dump!TypeOK /\ (run.pc # "idle" => now >= 1)

LEMMA BackupTypesInit == ASSUME Dump!BackupParameters, Dump!Init PROVE BackupTyped
  BY DEF Dump!BackupParameters, Dump!Init, Dump!Idle, BackupTyped, Dump!TypeOK

LEMMA BackupTypes ==
  ASSUME Dump!BackupParameters, BackupTyped, Dump!Next \/ UNCHANGED Dump!vars PROVE BackupTyped'
<1> DEFINE Run == [pc: {"idle", "backup", "write", "cleanup"}, todo: SUBSET Backup,
                   rec: {{}} \union {{b}: b \in Backup}, cached: BOOLEAN, successful: SUBSET Backup]
           Told(b) == \A f, g \in b: f.time = g.time /\ f.ext = g.ext => f = g
           Folder(F) == F \in SUBSET Dump!File /\ Told(F)
<1>1. /\ now \in 0..MaxTime /\ MaxTime \in Nat /\ MaxFaults["backup"] \in Nat
      /\ files \in [Backup -> SUBSET Dump!File] /\ \A b \in Backup: Folder(files[b])
      /\ run \in Run /\ posted \subseteq Dump!Message /\ told \subseteq Dump!Message
      /\ faults \in 0..MaxFaults["backup"] /\ (run.pc # "idle" => now >= 1)
  BY DEF BackupTyped, Dump!TypeOK, Dump!BackupParameters
<1> DEFINE Typed == /\ now' \in 0..MaxTime /\ run' \in Run /\ (run'.pc # "idle" => now' >= 1)
                    /\ files' \in [Backup -> SUBSET Dump!File] /\ \A b \in Backup: Folder(files'[b])
                    /\ posted' \subseteq Dump!Message /\ told' \subseteq Dump!Message
                    /\ faults' \in 0..MaxFaults["backup"]
<1>2. SUFFICES Typed
  BY DEF BackupTyped, Dump!TypeOK
<1>3. Dump!Idle \in Run /\ Dump!Idle.pc = "idle"
  BY DEF Dump!Idle
<1>4. Dump!Fault => faults' \in 0..MaxFaults["backup"]
  BY <1>1 DEF Dump!Fault
<1>5. ASSUME NEW b \in Backup, NEW F, Folder(F), files' = [files EXCEPT ![b] = F]
      PROVE files' \in [Backup -> SUBSET Dump!File] /\ \A x \in Backup: Folder(files'[x])
  BY <1>1, <1>5
<1>6. ASSUME NEW b \in Backup, NEW whole \in BOOLEAN, run.pc # "idle" PROVE Folder(Dump!Opened(b, whole))
  <2> DEFINE f == [time |-> now, ext |-> Format[b], whole |-> whole]
             F == {g \in files[b]: ~(g.time = now /\ g.ext = Format[b])}
  <2>1. f \in Dump!File /\ f.time = now /\ f.ext = Format[b]
    BY <1>1, <1>6 DEF Dump!File
  <2>2. Folder(F) /\ \A g \in F: ~(g.time = f.time /\ g.ext = f.ext)
    BY <1>1, <2>1
  <2>3. Dump!Opened(b, whole) = F \union {f}
    BY DEF Dump!Opened
  <2> HIDE DEF f, F
  <2> QED BY <2>1, <2>2, <2>3
<1>7. ASSUME NEW b \in Backup, NEW success \in BOOLEAN, run.pc # "idle", Dump!Post(b, success)
      PROVE posted' \subseteq Dump!Message
  <2>1. [rec |-> b, time |-> now, success |-> success] \in Dump!Message
    BY <1>1, <1>7 DEF Dump!Message
  <2> QED BY <1>1, <1>7, <2>1 DEF Dump!Post
<1>8. CASE Dump!StartCleanup
  <2> DEFINE due == {b \in Dump!ToCleanUp: days_to_keep[b] # 0}
  <2>1. due \in SUBSET Backup
    BY <1>1 DEF Dump!ToCleanUp
  <2>2. run' = [run EXCEPT !.pc = "cleanup", !.todo = due] /\ run.pc = "backup"
    BY <1>8 DEF Dump!StartCleanup
  <2> HIDE DEF due
  <2>3. run' \in Run
    BY <1>1, <2>1, <2>2
  <2> QED BY <1>1, <1>8, <2>2, <2>3 DEF Dump!StartCleanup
<1>9. CASE Dump!Commit
  BY <1>1, <1>3, <1>9 DEF Dump!Commit
<1>10. CASE Dump!Crash
  BY <1>1, <1>3, <1>4, <1>10 DEF Dump!Crash
<1>11. ASSUME NEW S \in SUBSET Backup, Dump!action_backup(S) PROVE Typed
  <2>1. now' \in 1..MaxTime
    BY <1>1, <1>11 DEF Dump!action_backup
  <2>2. run' \in Run
    BY <1>3, <1>11 DEF Dump!action_backup, Dump!Idle
  <2> QED BY <1>1, <1>11, <2>1, <2>2 DEF Dump!action_backup
<1>12. ASSUME NEW b \in Backup, Dump!open(b) PROVE Typed
  <2>1. run.pc = "backup" /\ run' = [run EXCEPT !.pc = "write", !.todo = @ \ {b}, !.rec = {b}]
    BY <1>12 DEF Dump!open, Dump!Turn
  <2>2. run' \in Run
    BY <1>1, <2>1
  <2>3. files' \in [Backup -> SUBSET Dump!File] /\ \A x \in Backup: Folder(files'[x])
    BY <1>5, <1>6, <1>12, <2>1 DEF Dump!open
  <2> QED BY <1>1, <1>12, <2>1, <2>2, <2>3 DEF Dump!open
<1>13. ASSUME NEW b \in Backup, Dump!BackupFails(b) PROVE Typed
  <2>1. run.pc # "idle" /\ run' = [run EXCEPT !.pc = "backup", !.todo = @ \ {b}, !.rec = {}]
    BY <1>13 DEF Dump!BackupFails, Dump!Turn
  <2>2. run' \in Run
    BY <1>1, <2>1
  <2>3. posted' \subseteq Dump!Message
    BY <1>7, <1>13, <2>1 DEF Dump!BackupFails
  <2>4. faults' \in 0..MaxFaults["backup"]
    BY <1>1, <1>4, <1>13 DEF Dump!BackupFails
  <2> QED BY <1>1, <1>13, <2>1, <2>2, <2>3, <2>4 DEF Dump!BackupFails
<1>14. ASSUME NEW b \in Backup, Dump!write(b) PROVE Typed
  <2> DEFINE cached == run.cached \/ b \in Disks
  <2>1. run.pc = "write" /\ run' = [run EXCEPT !.pc = "backup", !.rec = {}, !.cached = cached,
                                               !.successful = @ \union {b}]
    BY <1>14 DEF Dump!write
  <2>2. cached \in BOOLEAN
    OBVIOUS
  <2> HIDE DEF cached
  <2>3. run' \in Run
    BY <1>1, <2>1, <2>2
  <2>4. files' \in [Backup -> SUBSET Dump!File] /\ \A x \in Backup: Folder(files'[x])
    BY <1>5, <1>6, <1>14, <2>1 DEF Dump!write
  <2>5. posted' \subseteq Dump!Message
    BY <1>7, <1>14, <2>1 DEF Dump!write
  <2> QED BY <1>1, <1>14, <2>1, <2>3, <2>4, <2>5 DEF Dump!write
<1>15. ASSUME NEW b \in Backup, NEW some \in SUBSET files[b] PROVE Folder(files[b] \ some)
  BY <1>1
<1>16. ASSUME NEW b \in Backup, Dump!cleanup(b) PROVE Typed
  <2>1. run.pc = "cleanup" /\ run' = [run EXCEPT !.todo = @ \ {b}]
    BY <1>16 DEF Dump!cleanup
  <2>2. run' \in Run
    BY <1>1, <2>1
  <2>3. files' = [files EXCEPT ![b] = files[b] \ Dump!Old(b)] /\ Dump!Old(b) \in SUBSET files[b]
    BY <1>16 DEF Dump!cleanup, Dump!Old
  <2>4. files' \in [Backup -> SUBSET Dump!File] /\ \A x \in Backup: Folder(files'[x])
    <3> DEFINE F == files[b] \ Dump!Old(b)
    <3>1. Folder(F)
      BY <1>15, <2>3
    <3> HIDE DEF F, Folder
    <3> QED BY <1>5, <2>3, <3>1 DEF F
  <2> QED BY <1>1, <1>16, <2>1, <2>2, <2>4 DEF Dump!cleanup
<1>17. ASSUME NEW b \in Backup, Dump!CleanupFails(b) PROVE Typed
  <2>1. PICK some \in SUBSET files[b]: files' = [files EXCEPT ![b] = files[b] \ some]
    BY <1>17 DEF Dump!CleanupFails, Dump!Old
  <2>2. files' \in [Backup -> SUBSET Dump!File] /\ \A x \in Backup: Folder(files'[x])
    <3> DEFINE F == files[b] \ some
    <3>1. Folder(F)
      BY <1>15
    <3> HIDE DEF F, Folder
    <3> QED BY <1>5, <2>1, <3>1 DEF F
  <2> QED BY <1>1, <1>3, <1>4, <1>17, <2>2 DEF Dump!CleanupFails
<1>18. CASE UNCHANGED Dump!vars
  BY <1>1, <1>18 DEF Dump!vars
<1>19. CASE Dump!Next
  BY <1>8, <1>9, <1>10, <1>11, <1>12, <1>13, <1>14, <1>16, <1>17, <1>19 DEF Dump!Next
<1> QED BY <1>18, <1>19

-----------------------------------------------------------------------------
(***************************************************************************)
(* database_cleanup: the database is as the deployed codes left it, and    *)
(* the lines of a wizard tell of nothing in use unless they are stale.     *)
(***************************************************************************)
Rows == {"modules", "models", "fields", "columns", "tables", "records", "data", "menus", "attachments", "indexes"}

\* The database d is as the code c and those deployed before it left it.  A
\* model of c that is not in ir.model has lost its table and its records too;
\* fields come from a code that was deployed, and those c has are as c has them.
Consistent(c, d) ==
  /\ DOMAIN d = Rows
  /\ d.models \subseteq DOMAIN Addon /\ d.records \subseteq DOMAIN Addon
  /\ d.data \subseteq DOMAIN Addon /\ d.menus \subseteq DOMAIN Addon
  /\ \A x \in d.columns: x = <<x[1], x[2]>> /\ x[1] \in d.tables
  /\ d.indexes \subseteq d.columns
  /\ \A m \in DOMAIN c.models \ d.models: c.models[m].table \notin d.tables /\ m \notin d.records
  /\ \A f \in d.fields:
       /\ f.model \in d.models
       /\ \E b \in Code: f.model \in DOMAIN b.models /\ f.name \in Cleanup!Names(b, f.model)
       /\ (f.model \in DOMAIN c.models /\ f.name \in Cleanup!Names(c, f.model)) => f \in Cleanup!FieldRows(c)

\* Lines found with the code c are of no use to it.
Useless(c, d, kind, x) ==
  /\ kind = "modules" => x \notin c.modules
  /\ kind = "models" => x \notin DOMAIN c.models
  /\ kind = "fields" => x.name \notin Cleanup!Names(c, x.model)
  /\ kind = "columns" =>
       <<c.models[x[1]].table, x[2]>> \notin Cleanup!ColumnsOf(c) \union Cleanup!InUse(c)
  /\ kind = "tables" => /\ x \notin KnownTables \union c.relations
                        /\ \A m \in DOMAIN c.models: c.models[m].table # x
  /\ kind = "data" => x \notin DOMAIN c.models \/ x \notin d.records
  /\ kind = "menus" => x \notin DOMAIN c.models

CleanupInd ==
  /\ code \in Code /\ stale \subseteq Cleanup!Kinds
  /\ Consistent(code, db)
  /\ DOMAIN lines = Cleanup!Kinds
  /\ \A k \in Cleanup!Kinds \ stale: \A x \in lines[k]: Useless(code, db, k, x)

\* Nothing that the deployed code uses of d is missing in e.
Keeps(d, e) ==
  /\ \A m \in d.modules: m \in code.modules => m \in e.modules
  /\ \A m \in d.models: m \in DOMAIN code.models => m \in e.models
  /\ \A f \in d.fields: f.model \in DOMAIN code.models /\ f.name \in Cleanup!Names(code, f.model) => f \in e.fields
  /\ \A x \in d.columns: x \in Cleanup!ColumnsOf(code) \union Cleanup!InUse(code) => x \in e.columns
  /\ \A t \in d.tables: t \in Cleanup!TablesOf(code) \union KnownTables => t \in e.tables
  /\ \A m \in d.records: m \in DOMAIN code.models => m \in e.records
  /\ \A m \in d.data \intersect d.records: m \in DOMAIN code.models => m \in e.data
  /\ \A m \in d.menus: m \in DOMAIN code.models => m \in e.menus

LEMMA KeepsMeans ==
  ASSUME NEW d, NEW e, Keeps(d, e) PROVE Cleanup!Used(d) \subseteq Cleanup!Used(e)
<1> DEFINE Modules(x) == {<<"module", m>>: m \in x.modules \intersect code.modules}
           ModelsOf(x) == {<<"model", m>>: m \in {y \in x.models: Cleanup!InEnv(y)}}
           FieldsOf(x) == {<<"field", f.model, f.name>>: f \in {y \in x.fields:
                           Cleanup!InEnv(y.model) /\ y.name \in Cleanup!Names(code, y.model)}}
           Columns(x) == {<<"column", y>>: y \in x.columns \intersect (Cleanup!ColumnsOf(code) \union Cleanup!InUse(code))}
           Tables(x) == {<<"table", t>>: t \in x.tables \intersect (Cleanup!TablesOf(code) \union KnownTables)}
           Recs(x) == {<<"record", m>>: m \in {y \in x.records: Cleanup!InEnv(y)}}
           Data(x) == {<<"data", m>>: m \in {y \in x.data \intersect x.records: Cleanup!InEnv(y)}}
           Menus(x) == {<<"menu", m>>: m \in {y \in x.menus: Cleanup!InEnv(y)}}
<1>1. \A x: Cleanup!Used(x) = Modules(x) \union ModelsOf(x) \union FieldsOf(x) \union Columns(x) \union Tables(x)
                              \union Recs(x) \union Data(x) \union Menus(x)
  BY DEF Cleanup!Used
<1>2. Modules(d) \subseteq Modules(e) /\ ModelsOf(d) \subseteq ModelsOf(e)
  BY DEF Keeps, Cleanup!InEnv
<1>3. FieldsOf(d) \subseteq FieldsOf(e)
  BY DEF Keeps, Cleanup!InEnv
<1>4. Columns(d) \subseteq Columns(e) /\ Tables(d) \subseteq Tables(e)
  BY DEF Keeps, Cleanup!InEnv
<1>5. Recs(d) \subseteq Recs(e) /\ Data(d) \subseteq Data(e) /\ Menus(d) \subseteq Menus(e)
  BY DEF Keeps, Cleanup!InEnv
<1> HIDE DEF Modules, ModelsOf, FieldsOf, Columns, Tables, Recs, Data, Menus
<1> QED
  BY <1>1, <1>2, <1>3, <1>4, <1>5

LEMMA KeepsAgain ==
  ASSUME NEW d, NEW e, NEW f, Keeps(d, e), Keeps(e, f) PROVE Keeps(d, f)
  BY DEF Keeps

\* Some rows of d are not in e, none is new but indexes.
Shrinks(d, e) ==
  /\ DOMAIN e = Rows
  /\ e.modules \subseteq d.modules /\ e.models \subseteq d.models /\ e.fields \subseteq d.fields
  /\ e.columns \subseteq d.columns /\ e.tables \subseteq d.tables /\ e.records \subseteq d.records
  /\ e.data \subseteq d.data /\ e.menus \subseteq d.menus

LEMMA TablesDropped ==
  ASSUME code \in Code, NEW d, NEW T, Consistent(code, d)
  PROVE  LET e == Cleanup!DropTables(d, T) IN
         /\ Consistent(code, e) /\ Shrinks(d, e)
         /\ e.models = d.models
         /\ e.tables = d.tables \ T
         /\ \A m \in DOMAIN code.models: code.models[m].table \in T => m \notin e.records
         /\ (\A t \in T: t \notin Cleanup!TablesOf(code) \union KnownTables
                         /\ \A m \in DOMAIN code.models: code.models[m].table # t) => Keeps(d, e)
         /\ T = {} => Keeps(d, e)
<1> DEFINE e == Cleanup!DropTables(d, T)
<1>1. /\ DOMAIN e = Rows
      /\ e.modules = d.modules /\ e.models = d.models /\ e.fields = d.fields /\ e.tables = d.tables \ T
      /\ e.columns = {x \in d.columns: x[1] \notin T} /\ e.indexes = {x \in d.indexes: x[1] \notin T}
      /\ e.records = {m \in d.records: ~(m \in DOMAIN code.models /\ code.models[m].table \in T)}
      /\ e.data = d.data /\ e.menus = d.menus
  BY DEF Cleanup!DropTables, Cleanup!InEnv, Cleanup!TableOf, Consistent, Rows
<1> HIDE DEF e
<1>2. Consistent(code, e) /\ Shrinks(d, e)
  BY <1>1 DEF Consistent, Shrinks
<1>3. ASSUME \A t \in T: t \notin Cleanup!TablesOf(code) \union KnownTables
                         /\ \A m \in DOMAIN code.models: code.models[m].table # t
      PROVE Keeps(d, e)
  <2>1. \A x \in Cleanup!ColumnsOf(code) \union Cleanup!InUse(code): x[1] \in Cleanup!TablesOf(code)
    BY DEF Cleanup!ColumnsOf, Cleanup!InUse, Cleanup!TablesOf
  <2> QED
    BY <1>1, <1>3, <2>1 DEF Keeps
<1>4. T = {} => Keeps(d, e)
  BY <1>1 DEF Keeps
<1>5. \A m \in DOMAIN code.models: code.models[m].table \in T => m \notin e.records
  BY <1>1
<1> QED
  BY <1>1, <1>2, <1>3, <1>4, <1>5 DEF e

LEMMA ColumnsDropped ==
  ASSUME code \in Code, NEW d, NEW X, Consistent(code, d)
  PROVE  LET e == Cleanup!DropColumns(d, X) IN
         /\ Consistent(code, e) /\ Shrinks(d, e)
         /\ e.models = d.models /\ e.fields = d.fields
         /\ (\A x \in X: x \notin Cleanup!ColumnsOf(code) \union Cleanup!InUse(code)) => Keeps(d, e)
<1> DEFINE e == Cleanup!DropColumns(d, X)
<1>1. /\ DOMAIN e = Rows
      /\ e.modules = d.modules /\ e.models = d.models /\ e.fields = d.fields /\ e.tables = d.tables
      /\ e.columns = d.columns \ X /\ e.indexes = d.indexes \ X
      /\ e.records = d.records /\ e.data = d.data /\ e.menus = d.menus
  BY DEF Cleanup!DropColumns, Consistent, Rows
<1> HIDE DEF e
<1>2. Consistent(code, e) /\ Shrinks(d, e)
  BY <1>1 DEF Consistent, Shrinks
<1>3. (\A x \in X: x \notin Cleanup!ColumnsOf(code) \union Cleanup!InUse(code)) => Keeps(d, e)
  BY <1>1 DEF Keeps
<1> QED
  BY <1>1, <1>2, <1>3 DEF e

\* The column of a field that the deployed code does not have is not in use.
LEMMA ColumnOfGone ==
  ASSUME Cleanup!NamesakesGoTogether, Cleanup!BlacklistedKeepFields, code \in Code,
         NEW d, Consistent(code, d), NEW f \in d.fields,
         f.model \in DOMAIN code.models, f.name \notin Cleanup!Names(code, f.model)
  PROVE  Cleanup!ColumnOf(f) \notin Cleanup!ColumnsOf(code) \union Cleanup!InUse(code)
<1> DEFINE x == <<code.models[f.model].table, f.name>>
<1>1. Cleanup!ColumnOf(f) = x
  BY DEF Cleanup!ColumnOf, Cleanup!TableOf
<1>2. PICK b \in Code: f.model \in DOMAIN b.models /\ f.name \in Cleanup!Names(b, f.model)
  BY DEF Consistent
<1>3. x \notin Cleanup!ColumnsOf(code)
  <2> SUFFICES ASSUME x \in Cleanup!ColumnsOf(code) PROVE FALSE
    OBVIOUS
  <2>1. PICK n \in DOMAIN code.models: code.models[n].table = code.models[f.model].table /\ f.name \in Cleanup!Names(code, n)
    <3>1. PICK n \in Cleanup!Auto(code): x \in {<<Cleanup!TableOf(code, n), g.name>>: g \in {y \in code.models[n].fields: y.stored}}
      BY DEF Cleanup!ColumnsOf
    <3>2. PICK g \in code.models[n].fields: x = <<Cleanup!TableOf(code, n), g.name>>
      BY <3>1
    <3> QED
      BY <3>1, <3>2 DEF Cleanup!TableOf, Cleanup!Auto, Cleanup!Names
  <2>2. n # f.model
    BY <2>1
  <2> QED
    BY <1>2, <2>1, <2>2 DEF Cleanup!NamesakesGoTogether
<1>4. x \notin Cleanup!InUse(code)
  BY <1>2 DEF Cleanup!InUse, Cleanup!BlacklistedKeepFields
<1> QED
  BY <1>1, <1>3, <1>4

LEMMA FieldsUnlinked ==
  ASSUME Cleanup!NamesakesGoTogether, Cleanup!BlacklistedKeepFields, code \in Code,
         NEW d, NEW F \in SUBSET d.fields, Consistent(code, d)
  PROVE  LET e == Cleanup!UnlinkFields(d, F) IN
         /\ Consistent(code, e) /\ Shrinks(d, e)
         /\ e.models = d.models
         /\ (\A f \in F: f.model \in DOMAIN code.models => f.name \notin Cleanup!Names(code, f.model)) => Keeps(d, e)
<1> DEFINE b == [d EXCEPT !.fields = d.fields \ F]
           X == {Cleanup!ColumnOf(f): f \in {x \in F: x.stored /\ Cleanup!InEnv(x.model)}}
           e == Cleanup!DropColumns(b, X)
<1>1. Cleanup!UnlinkFields(d, F) = e
  BY DEF Cleanup!UnlinkFields
<1>2. /\ DOMAIN b = Rows
      /\ b.modules = d.modules /\ b.models = d.models /\ b.fields = d.fields \ F /\ b.tables = d.tables
      /\ b.columns = d.columns /\ b.indexes = d.indexes
      /\ b.records = d.records /\ b.data = d.data /\ b.menus = d.menus
  BY DEF Consistent, Rows
<1>3. (\A f \in F: f.model \in DOMAIN code.models => f.name \notin Cleanup!Names(code, f.model)) =>
        \A x \in X: x \notin Cleanup!ColumnsOf(code) \union Cleanup!InUse(code)
  BY ColumnOfGone DEF Cleanup!InEnv
<1> HIDE DEF b, X
<1>4. Consistent(code, b) /\ Shrinks(d, b)
  BY <1>2 DEF Consistent, Shrinks
<1>5. (\A f \in F: f.model \in DOMAIN code.models => f.name \notin Cleanup!Names(code, f.model)) => Keeps(d, b)
  BY <1>2 DEF Keeps
<1>6. /\ Consistent(code, e) /\ Shrinks(b, e) /\ e.models = b.models
      /\ (\A x \in X: x \notin Cleanup!ColumnsOf(code) \union Cleanup!InUse(code)) => Keeps(b, e)
  BY <1>4, ColumnsDropped
<1> HIDE DEF e
<1>7. Shrinks(d, e)
  BY <1>4, <1>6 DEF Shrinks
<1>8. (\A f \in F: f.model \in DOMAIN code.models => f.name \notin Cleanup!Names(code, f.model)) => Keeps(d, e)
  BY <1>3, <1>4, <1>5, <1>6, KeepsAgain
<1> QED
  BY <1>1, <1>2, <1>6, <1>7, <1>8

LEMMA ModelsUnlinked ==
  ASSUME code \in Code, NEW d, NEW M \in SUBSET d.models, Consistent(code, d)
  PROVE  LET e == Cleanup!UnlinkModels(d, M) IN
         /\ Consistent(code, e) /\ Shrinks(d, e)
         /\ (\A m \in M: m \notin DOMAIN code.models) => Keeps(d, e)
<1> DEFINE known == {m \in M: Cleanup!InEnv(m)}
           T == {Cleanup!TableOf(code, m): m \in known}
           b == Cleanup!DropTables(d, T)
           own == {f \in d.fields: f.model \in M}
           e == [b EXCEPT !.models = b.models \ M, !.fields = b.fields \ own]
<1>1. Cleanup!UnlinkModels(d, M) = e
  BY DEF Cleanup!UnlinkModels
<1>2. /\ \A m \in M: m \in DOMAIN code.models => code.models[m].table \in T
      /\ (\A m \in M: m \notin DOMAIN code.models) => T = {}
  BY DEF Cleanup!InEnv, Cleanup!TableOf
<1> HIDE DEF T
<1>3. /\ Consistent(code, b) /\ Shrinks(d, b) /\ b.models = d.models /\ b.tables = d.tables \ T
      /\ \A m \in DOMAIN code.models: code.models[m].table \in T => m \notin b.records
      /\ T = {} => Keeps(d, b)
  BY TablesDropped
<1> HIDE DEF b
<1>4. /\ DOMAIN e = Rows
      /\ e.modules = b.modules /\ e.models = b.models \ M /\ e.fields = b.fields \ own /\ e.tables = b.tables
      /\ e.columns = b.columns /\ e.indexes = b.indexes
      /\ e.records = b.records /\ e.data = b.data /\ e.menus = b.menus
  BY <1>3 DEF Consistent, Rows
<1>5. b.fields \subseteq d.fields
  BY <1>3 DEF Shrinks
<1> HIDE DEF e
<1>6. Consistent(code, e)
  BY <1>2, <1>3, <1>4, <1>5 DEF Consistent
<1>7. Shrinks(d, e)
  BY <1>3, <1>4 DEF Shrinks
<1>8. (\A m \in M: m \notin DOMAIN code.models) => Keeps(b, e)
  BY <1>4, <1>5 DEF Keeps
<1>9. (\A m \in M: m \notin DOMAIN code.models) => Keeps(d, e)
  BY <1>2, <1>3, <1>8, KeepsAgain
<1> QED
  BY <1>1, <1>6, <1>7, <1>9

\* Purging leaves a consistent database with fewer rows, and keeps what is in
\* use when the lines that are purged are of no use.
Purges(k, S, e) ==
  /\ Consistent(code, e) /\ Shrinks(db, e)
  /\ (\A x \in S: Useless(code, db, k, x)) => Keeps(db, e)

LEMMA ModulesPurged ==
  ASSUME Cleanup!DatabaseCleanupParameters, code \in Code, Consistent(code, db), NEW S
  PROVE  Purges("modules", S, Cleanup!purge_modules(S))
<1> DEFINE gone == Cleanup!Downstream(S \intersect db.modules)
           owned == {m \in DOMAIN Addon: Addon[m] \in gone}
           M == owned \intersect db.models
           b == Cleanup!UnlinkModels(db, M)
           e == [b EXCEPT !.modules = b.modules \ S, !.data = b.data \ owned]
<1>1. Cleanup!purge_modules(S) = e
  BY DEF Cleanup!purge_modules
<1>2. (\A x \in S: x \notin code.modules) => \A m \in owned: m \notin DOMAIN code.models
  <2> SUFFICES ASSUME \A x \in S: x \notin code.modules, NEW m \in owned, m \in DOMAIN code.models PROVE FALSE
    OBVIOUS
  <2>1. Addon[m] \in code.modules /\ Addon[m] \in gone /\ \A d \in Depends: d[1] \in code.modules => d[2] \in code.modules
    BY DEF Cleanup!DatabaseCleanupParameters
  <2> QED
    BY <2>1 DEF Cleanup!Downstream
<1> HIDE DEF owned
<1>3. /\ Consistent(code, b) /\ Shrinks(db, b)
      /\ (\A m \in M: m \notin DOMAIN code.models) => Keeps(db, b)
  BY ModelsUnlinked
<1> HIDE DEF b
<1>4. /\ DOMAIN e = Rows
      /\ e.modules = b.modules \ S /\ e.models = b.models /\ e.fields = b.fields /\ e.tables = b.tables
      /\ e.columns = b.columns /\ e.indexes = b.indexes
      /\ e.records = b.records /\ e.data = b.data \ owned /\ e.menus = b.menus
  BY <1>3 DEF Consistent, Rows
<1> HIDE DEF e
<1>5. Consistent(code, e)
  BY <1>3, <1>4 DEF Consistent
<1>6. Shrinks(db, e)
  BY <1>3, <1>4 DEF Shrinks
<1>7. (\A x \in S: x \notin code.modules) => Keeps(b, e)
  BY <1>2, <1>4 DEF Keeps
<1>8. (\A x \in S: x \notin code.modules) => Keeps(db, e)
  BY <1>2, <1>3, <1>7, KeepsAgain
<1> QED
  BY <1>1, <1>5, <1>6, <1>8 DEF Purges, Useless

LEMMA ModelsPurged ==
  ASSUME Cleanup!DatabaseCleanupParameters, Cleanup!NamesakesGoTogether, Cleanup!BlacklistedKeepFields,
         code \in Code, Consistent(code, db), NEW S
  PROVE  Purges("models", S, Cleanup!purge_models(S))
<1> DEFINE M == S \intersect db.models
           relations == {f \in db.fields: f.relation \in M}
           a == Cleanup!UnlinkFields(db, relations)
           b == [a EXCEPT !.attachments = a.attachments \ M]
           e == Cleanup!UnlinkModels(b, M)
<1>1. Cleanup!purge_models(S) = e
  BY DEF Cleanup!purge_models
<1>2. ASSUME \A x \in S: x \notin DOMAIN code.models, NEW f \in relations, f.model \in DOMAIN code.models
      PROVE f.name \notin Cleanup!Names(code, f.model)
  <2> SUFFICES ASSUME f \in Cleanup!FieldRows(code) PROVE FALSE
    BY <1>2 DEF Consistent
  <2>0. PICK m \in DOMAIN code.models: \E g \in code.models[m].fields: f.relation = g.relation
    BY DEF Cleanup!FieldRows
  <2>1. PICK g \in code.models[m].fields: f.relation = g.relation
    BY <2>0
  <2>2. g.relation \in DOMAIN Addon => g.relation \in DOMAIN code.models
    BY <2>1 DEF Cleanup!DatabaseCleanupParameters
  <2>3. f.relation \in S /\ f.relation \in DOMAIN Addon
    BY DEF Consistent
  <2> QED
    BY <1>2, <2>1, <2>2, <2>3
<1>3. /\ Consistent(code, a) /\ Shrinks(db, a) /\ a.models = db.models
      /\ (\A f \in relations: f.model \in DOMAIN code.models => f.name \notin Cleanup!Names(code, f.model)) => Keeps(db, a)
  BY FieldsUnlinked
<1> HIDE DEF a
<1>4. (\A x \in S: x \notin DOMAIN code.models) => Keeps(db, a)
  BY <1>2, <1>3
<1> HIDE DEF relations
<1>5. /\ DOMAIN b = Rows
      /\ b.modules = a.modules /\ b.models = a.models /\ b.fields = a.fields /\ b.tables = a.tables
      /\ b.columns = a.columns /\ b.indexes = a.indexes
      /\ b.records = a.records /\ b.data = a.data /\ b.menus = a.menus
  BY <1>3 DEF Consistent, Rows
<1> HIDE DEF b
<1>6. Consistent(code, b) /\ Shrinks(db, b)
  BY <1>3, <1>5 DEF Consistent, Shrinks
<1>7. (\A x \in S: x \notin DOMAIN code.models) => Keeps(db, b)
  BY <1>4, <1>5 DEF Keeps
<1>8. M \in SUBSET b.models
  BY <1>3, <1>5
<1>9. /\ Consistent(code, e) /\ Shrinks(b, e)
      /\ (\A m \in M: m \notin DOMAIN code.models) => Keeps(b, e)
  BY <1>6, <1>8, ModelsUnlinked
<1> HIDE DEF e
<1>10. Shrinks(db, e)
  BY <1>6, <1>9 DEF Shrinks
<1>11. (\A x \in S: x \notin DOMAIN code.models) => Keeps(db, e)
  <2>1. (\A x \in S: x \notin DOMAIN code.models) => Keeps(b, e)
    BY <1>9
  <2> QED
    BY <1>7, <2>1, KeepsAgain
<1> QED
  BY <1>1, <1>9, <1>10, <1>11 DEF Purges, Useless

LEMMA FieldsPurged ==
  ASSUME Cleanup!NamesakesGoTogether, Cleanup!BlacklistedKeepFields, code \in Code, Consistent(code, db), NEW S,
         ~Cleanup!Raises("fields", S)
  PROVE  Purges("fields", S, Cleanup!purge_fields(S))
<1> DEFINE F == S \intersect db.fields
           X == {Cleanup!ColumnOf(f): f \in {g \in F: ~g.stored /\ code.models[g.model].auto}}
           b == Cleanup!UnlinkFields(db, F)
           e == Cleanup!DropColumns(b, X)
<1>1. Cleanup!purge_fields(S) = e
  BY DEF Cleanup!purge_fields
<1>2. \A f \in F: f.model \in DOMAIN code.models
  BY DEF Cleanup!Raises, Cleanup!InEnv
<1>3. (\A f \in F: f.name \notin Cleanup!Names(code, f.model)) =>
        \A x \in X: x \notin Cleanup!ColumnsOf(code) \union Cleanup!InUse(code)
  BY <1>2, ColumnOfGone
<1> HIDE DEF X
<1>4. /\ Consistent(code, b) /\ Shrinks(db, b)
      /\ (\A f \in F: f.model \in DOMAIN code.models => f.name \notin Cleanup!Names(code, f.model)) => Keeps(db, b)
  BY FieldsUnlinked
<1> HIDE DEF b
<1>5. /\ Consistent(code, e) /\ Shrinks(b, e)
      /\ (\A x \in X: x \notin Cleanup!ColumnsOf(code) \union Cleanup!InUse(code)) => Keeps(b, e)
  BY <1>4, ColumnsDropped
<1> HIDE DEF e
<1>6. Shrinks(db, e)
  BY <1>4, <1>5 DEF Shrinks
<1>7. (\A x \in S: Useless(code, db, "fields", x)) => Keeps(db, e)
  BY <1>3, <1>4, <1>5, KeepsAgain DEF Useless
<1> QED
  BY <1>1, <1>5, <1>6, <1>7 DEF Purges

LEMMA OthersPurged ==
  ASSUME code \in Code, Consistent(code, db), NEW S, NEW k \in {"columns", "tables", "data", "menus", "indexes"},
         ~Cleanup!Raises(k, S)
  PROVE  Purges(k, S, Cleanup!Purged(k, S))
<1> DEFINE e == Cleanup!Purged(k, S)
<1>1. CASE k = "columns"
  <2> DEFINE X == {<<Cleanup!TableOf(code, x[1]), x[2]>>: x \in S}
  <2>1. e = Cleanup!DropColumns(db, X)
    BY <1>1 DEF Cleanup!Purged, Cleanup!purge_columns
  <2>2. (\A x \in S: Useless(code, db, k, x)) => \A x \in X: x \notin Cleanup!ColumnsOf(code) \union Cleanup!InUse(code)
    BY <1>1 DEF Useless, Cleanup!TableOf
  <2> HIDE DEF X
  <2> QED
    BY <2>1, <2>2, ColumnsDropped DEF Purges
<1>2. CASE k = "tables"
  <2>1. e = Cleanup!DropTables(db, S)
    BY <1>2 DEF Cleanup!Purged
  <2>2. (\A t \in S: Useless(code, db, k, t)) =>
          \A t \in S: t \notin Cleanup!TablesOf(code) \union KnownTables /\ \A m \in DOMAIN code.models: code.models[m].table # t
    BY <1>2 DEF Useless, Cleanup!TablesOf, Cleanup!Auto, Cleanup!TableOf
  <2> QED
    BY <2>1, <2>2, TablesDropped DEF Purges
<1>3. CASE k \in {"data", "menus"}
  <2>1. /\ DOMAIN e = Rows
        /\ e.modules = db.modules /\ e.models = db.models /\ e.fields = db.fields /\ e.tables = db.tables
        /\ e.columns = db.columns /\ e.indexes = db.indexes /\ e.records = db.records
        /\ e.data = IF k = "data" THEN db.data \ S ELSE db.data
        /\ e.menus = IF k = "menus" THEN db.menus \ S ELSE db.menus
    BY <1>3 DEF Cleanup!Purged, Cleanup!purge_data, Cleanup!purge_menus, Consistent, Rows
  <2> HIDE DEF e
  <2>2. Consistent(code, e) /\ Shrinks(db, e)
    BY <1>3, <2>1 DEF Consistent, Shrinks
  <2>3. (\A x \in S: Useless(code, db, k, x)) => Keeps(db, e)
    BY <1>3, <2>1 DEF Keeps, Useless
  <2> QED
    BY <2>2, <2>3 DEF Purges, e
<1>4. CASE k = "indexes"
  <2> DEFINE X == {Cleanup!ColumnOf(f): f \in S}
  <2>1. X \subseteq db.columns
    BY <1>4 DEF Cleanup!Raises
  <2>2. e = [db EXCEPT !.indexes = db.indexes \union X]
    BY <1>4 DEF Cleanup!Purged, Cleanup!create_indexes
  <2>3. /\ DOMAIN e = Rows
        /\ e.modules = db.modules /\ e.models = db.models /\ e.fields = db.fields /\ e.tables = db.tables
        /\ e.columns = db.columns /\ e.indexes = db.indexes \union X /\ e.records = db.records
        /\ e.data = db.data /\ e.menus = db.menus
    BY <2>2 DEF Consistent, Rows
  <2> HIDE DEF e, X
  <2>4. Consistent(code, e) /\ Shrinks(db, e) /\ Keeps(db, e)
    BY <2>1, <2>3 DEF Consistent, Shrinks, Keeps
  <2> QED
    BY <2>4 DEF Purges, e
<1> QED
  BY <1>1, <1>2, <1>3, <1>4

\* Where no wizard's line is older than the code, lines stay of no use while
\* records only go.
LEMMA UselessStays ==
  ASSUME NEW c, NEW d, NEW e, e.records \subseteq d.records, NEW k, NEW x, Useless(c, d, k, x)
  PROVE  Useless(c, e, k, x)
  BY DEF Useless

LEMMA FoundUseless ==
  ASSUME Cleanup!DatabaseCleanupParameters, code \in Code, Consistent(code, db), NEW k \in Cleanup!Kinds, NEW x \in Cleanup!Found[k]
  PROVE  Useless(code, db, k, x)
<1>1. CASE k = "modules"
  BY <1>1 DEF Cleanup!Found, Cleanup!orphaned_modules, Useless
<1>2. CASE k = "models"
  BY <1>2 DEF Cleanup!Found, Cleanup!orphaned_models, Cleanup!InEnv, Useless
<1>3. CASE k = "fields"
  BY <1>3 DEF Cleanup!Found, Cleanup!orphaned_fields, Useless
<1>4. CASE k = "columns"
  <2>1. PICK m \in Cleanup!Auto(code): x \in {<<m, y[2]>>: y \in Cleanup!get_orphaned_columns(m)}
    BY <1>4 DEF Cleanup!Found
  <2>2. PICK y \in Cleanup!get_orphaned_columns(m): x = <<m, y[2]>>
    BY <2>1
  <2> DEFINE known == UNION {{f.name: f \in {g \in code.models[n].fields: g.column}}: n \in Cleanup!Sharing(m)}
  <2>3. y \in db.columns /\ y[1] = code.models[m].table /\ y[2] \notin known /\ y \notin Blacklist
    BY DEF Cleanup!get_orphaned_columns, Cleanup!TableOf
  <2>4. y = <<code.models[m].table, y[2]>> /\ code.models[m].table \in db.tables
    BY <2>3 DEF Consistent
  <2>5. y \notin Cleanup!ColumnsOf(code)
    <3> SUFFICES ASSUME y \in Cleanup!ColumnsOf(code) PROVE FALSE
      OBVIOUS
    <3>1. PICK n \in Cleanup!Auto(code): y \in {<<Cleanup!TableOf(code, n), g.name>>: g \in {z \in code.models[n].fields: z.stored}}
      BY DEF Cleanup!ColumnsOf
    <3>2. PICK g \in code.models[n].fields: g.stored /\ y = <<code.models[n].table, g.name>>
      BY <3>1 DEF Cleanup!TableOf
    <3>3. n \in DOMAIN code.models /\ code.models[n].auto /\ code.models[n].table = code.models[m].table /\ g.name = y[2]
      BY <2>3, <3>2 DEF Cleanup!Auto
    <3>4. n \in db.models
      BY <2>4, <3>3 DEF Consistent
    <3>5. n \in Cleanup!Sharing(m)
      BY <3>3, <3>4 DEF Cleanup!Sharing, Cleanup!InEnv, Cleanup!TableOf
    <3>6. g.column
      BY <3>2, <3>3 DEF Cleanup!DatabaseCleanupParameters
    <3>7. y[2] \in {f.name: f \in {h \in code.models[n].fields: h.column}}
      BY <3>2, <3>3, <3>6
    <3> QED
      BY <2>3, <3>5, <3>7
  <2>6. y \notin Cleanup!InUse(code)
    BY <2>3 DEF Cleanup!InUse
  <2>7. <<code.models[x[1]].table, x[2]>> = y
    BY <2>2, <2>4
  <2> QED
    BY <1>4, <2>5, <2>6, <2>7 DEF Useless
<1>5. CASE k = "tables"
  <2>1. x \in db.tables /\ x \notin Cleanup!known_tables
    BY <1>5 DEF Cleanup!Found
  <2> QED
    BY <1>5, <2>1 DEF Cleanup!known_tables, Consistent, Useless, Cleanup!TableOf, Cleanup!InEnv
<1>6. CASE k = "data"
  BY <1>6 DEF Cleanup!Found, Cleanup!dangling_data, Cleanup!InEnv, Useless
<1>7. CASE k = "menus"
  BY <1>7 DEF Cleanup!Found, Cleanup!dangling_menus, Cleanup!InEnv, Useless
<1>8. CASE k = "indexes"
  BY <1>8 DEF Useless
<1> QED
  BY <1>1, <1>2, <1>3, <1>4, <1>5, <1>6, <1>7, <1>8 DEF Cleanup!Kinds

\* What the ORM makes of a database when the code c is deployed.
LEMMA LoadedConsistent ==
  ASSUME Cleanup!DatabaseCleanupParameters, NEW c \in Code, NEW d,
         DOMAIN d = Rows, d.models \subseteq DOMAIN Addon, d.records \subseteq DOMAIN Addon,
         d.data \subseteq DOMAIN Addon, d.menus \subseteq DOMAIN Addon,
         \A x \in d.columns: x = <<x[1], x[2]>> /\ x[1] \in d.tables,
         d.indexes \subseteq d.columns,
         \A f \in d.fields: /\ f.model \in d.models
                            /\ \E b \in Code: f.model \in DOMAIN b.models /\ f.name \in Cleanup!Names(b, f.model)
  PROVE  Consistent(c, Cleanup!Loaded(d, c))
<1> DEFINE e == Cleanup!Loaded(d, c)
<1>1. /\ DOMAIN e = Rows
      /\ e.models = d.models \union DOMAIN c.models
      /\ e.fields = {f \in d.fields: ~\E g \in Cleanup!FieldRows(c): g.model = f.model /\ g.name = f.name} \union Cleanup!FieldRows(c)
      /\ e.columns = d.columns \union Cleanup!ColumnsOf(c) \union Cleanup!InUse(c)
      /\ e.tables = d.tables \union Cleanup!TablesOf(c) \union KnownTables
      /\ e.records = d.records \union DOMAIN c.models
      /\ e.data = d.data \union DOMAIN c.models
      /\ e.menus = d.menus \union DOMAIN c.models
      /\ e.indexes = d.indexes
  BY DEF Cleanup!Loaded, Rows
<1> HIDE DEF e
<1>2. DOMAIN c.models \subseteq DOMAIN Addon
  BY DEF Cleanup!DatabaseCleanupParameters
<1>3. \A x \in Cleanup!InUse(c): x = <<x[1], x[2]>> /\ x[1] \in Cleanup!TablesOf(c)
  BY DEF Cleanup!DatabaseCleanupParameters, Cleanup!InUse
<1>4. ASSUME NEW x \in Cleanup!ColumnsOf(c) PROVE x = <<x[1], x[2]>> /\ x[1] \in Cleanup!TablesOf(c)
  <2>1. PICK n \in Cleanup!Auto(c): x \in {<<Cleanup!TableOf(c, n), g.name>>: g \in {z \in c.models[n].fields: z.stored}}
    BY DEF Cleanup!ColumnsOf
  <2>2. PICK g: x = <<Cleanup!TableOf(c, n), g.name>>
    BY <2>1
  <2> QED
    BY <2>2 DEF Cleanup!TablesOf
<1>5. ASSUME NEW f \in Cleanup!FieldRows(c)
      PROVE f.model \in DOMAIN c.models /\ f.name \in Cleanup!Names(c, f.model)
  <2>1. PICK m \in DOMAIN c.models: f \in {[model |-> m, name |-> g.name, stored |-> g.stored,
                         index |-> g.index, relation |-> g.relation]: g \in c.models[m].fields}
    BY DEF Cleanup!FieldRows
  <2>2. PICK g \in c.models[m].fields: f.model = m /\ f.name = g.name
    BY <2>1
  <2> QED
    BY <2>2 DEF Cleanup!Names
<1>6. ASSUME NEW m \in DOMAIN c.models, NEW n \in Cleanup!Names(c, m)
      PROVE \E g \in Cleanup!FieldRows(c): g.model = m /\ g.name = n
  <2>1. PICK g \in c.models[m].fields: n = g.name
    BY DEF Cleanup!Names
  <2> DEFINE f == [model |-> m, name |-> g.name, stored |-> g.stored, index |-> g.index, relation |-> g.relation]
  <2>2. f \in Cleanup!FieldRows(c) /\ f.model = m /\ f.name = n
    BY <2>1 DEF Cleanup!FieldRows
  <2> QED
    BY <2>2
<1>7. ASSUME NEW f \in e.fields
      PROVE /\ f.model \in e.models
            /\ \E b \in Code: f.model \in DOMAIN b.models /\ f.name \in Cleanup!Names(b, f.model)
            /\ (f.model \in DOMAIN c.models /\ f.name \in Cleanup!Names(c, f.model)) => f \in Cleanup!FieldRows(c)
  <2>1. CASE f \in Cleanup!FieldRows(c)
    BY <1>1, <1>5, <2>1
  <2>2. CASE f \notin Cleanup!FieldRows(c)
    <3>1. f \in d.fields /\ ~\E g \in Cleanup!FieldRows(c): g.model = f.model /\ g.name = f.name
      BY <1>1, <2>2
    <3> QED
      BY <1>1, <1>6, <3>1
  <2> QED
    BY <2>1, <2>2
<1>8. \A x \in e.columns: x = <<x[1], x[2]>> /\ x[1] \in e.tables
  BY <1>1, <1>3, <1>4
<1>9. Consistent(c, e)
  BY <1>1, <1>2, <1>7, <1>8 DEF Consistent
<1> QED
  BY <1>9 DEF e

LEMMA CleanupInit ==
  ASSUME Cleanup!DatabaseCleanupParameters, Cleanup!Init PROVE CleanupInd
<1> DEFINE d == Cleanup!Empty
<1>1. code \in Code /\ db = Cleanup!Loaded(d, code) /\ lines = [k \in Cleanup!Kinds |-> {}] /\ stale = {}
  BY DEF Cleanup!Init
<1>2. /\ DOMAIN d = Rows /\ d.models = {} /\ d.records = {} /\ d.data = {} /\ d.menus = {}
      /\ d.columns = {} /\ d.indexes = {} /\ d.fields = {}
  BY DEF Cleanup!Empty, Rows
<1> HIDE DEF d
<1>3. Consistent(code, Cleanup!Loaded(d, code))
  BY <1>1, <1>2, LoadedConsistent
<1> QED
  BY <1>1, <1>3 DEF CleanupInd

\* All wizards.
LEMMA LinesPurged ==
  ASSUME Cleanup!DatabaseCleanupParameters, Cleanup!NamesakesGoTogether, Cleanup!BlacklistedKeepFields,
         code \in Code, Consistent(code, db), NEW S, NEW k \in Cleanup!Kinds, ~Cleanup!Raises(k, S)
  PROVE  Purges(k, S, Cleanup!Purged(k, S))
<1>1. CASE k = "modules"
  BY <1>1, ModulesPurged DEF Cleanup!Purged
<1>2. CASE k = "models"
  BY <1>2, ModelsPurged DEF Cleanup!Purged
<1>3. CASE k = "fields"
  BY <1>3, FieldsPurged DEF Cleanup!Purged
<1>4. CASE k \in {"columns", "tables", "data", "menus", "indexes"}
  BY <1>4, OthersPurged
<1> QED
  BY <1>1, <1>2, <1>3, <1>4 DEF Cleanup!Kinds

LEMMA CleanupStep ==
  ASSUME Cleanup!DatabaseCleanupParameters, Cleanup!NamesakesGoTogether, Cleanup!BlacklistedKeepFields,
         CleanupInd, Cleanup!Next \/ UNCHANGED Cleanup!vars
  PROVE  CleanupInd' /\ Cleanup!KeepsUsed
<1> USE DEF CleanupInd
<1>1. ASSUME NEW c \in Code, Cleanup!Deploy(c) PROVE CleanupInd' /\ Cleanup!KeepsUsed
  <2>1. code' = c /\ db' = Cleanup!Loaded(db, c) /\ lines' = lines /\ stale' = {k \in Cleanup!Kinds: lines[k] # {}}
    BY <1>1 DEF Cleanup!Deploy
  <2>2. Consistent(c, Cleanup!Loaded(db, c))
    BY LoadedConsistent DEF Consistent
  <2>3. Consistent(code', db')
    BY <2>1, <2>2
  <2> QED
    BY <2>1, <2>3 DEF Cleanup!KeepsUsed
<1>2. ASSUME NEW m \in db.records, Cleanup!LoseRecord(m) PROVE CleanupInd' /\ Cleanup!KeepsUsed
  <2> DEFINE e == [db EXCEPT !.records = db.records \ {m}]
  <2>1. code' = code /\ db' = e /\ lines' = lines /\ stale' = stale
    BY <1>2 DEF Cleanup!LoseRecord
  <2>2. Consistent(code, e) /\ e.records \subseteq db.records
    BY DEF Consistent, Rows
  <2> HIDE DEF e
  <2>3. Consistent(code', db')
    BY <2>1, <2>2
  <2>4. \A k \in Cleanup!Kinds \ stale: \A x \in lines[k]: Useless(code, e, k, x)
    BY <2>2, UselessStays
  <2> QED
    BY <2>1, <2>3, <2>4 DEF Cleanup!KeepsUsed
<1>3. ASSUME NEW k \in Cleanup!Kinds, Cleanup!find(k) PROVE CleanupInd' /\ Cleanup!KeepsUsed
  <2>1. code' = code /\ db' = db /\ stale' = stale \ {k}
        /\ lines' = [lines EXCEPT ![k] = Cleanup!Found[k]]
    BY <1>3 DEF Cleanup!find
  <2>2. \A x \in Cleanup!Found[k]: Useless(code, db, k, x)
    BY FoundUseless
  <2> DEFINE F == Cleanup!Found[k]
  <2> HIDE DEF F
  <2>3. DOMAIN lines' = Cleanup!Kinds /\ lines'[k] = F /\ \A j \in Cleanup!Kinds \ {k}: lines'[j] = lines[j]
    BY <2>1 DEF F
  <2>4. \A j \in Cleanup!Kinds \ stale': \A x \in lines'[j]: Useless(code, db, j, x)
    BY <2>1, <2>2, <2>3 DEF F
  <2>5. Consistent(code', db')
    BY <2>1
  <2> QED
    BY <2>1, <2>3, <2>4, <2>5 DEF Cleanup!KeepsUsed
<1>4. ASSUME NEW k \in Cleanup!Kinds, NEW S \in SUBSET lines[k], Cleanup!purge(k, S)
      PROVE CleanupInd' /\ Cleanup!KeepsUsed
  <2> DEFINE e == Cleanup!Purged(k, S)
  <2>1. code' = code /\ db' = e /\ stale' = stale /\ ~Cleanup!Raises(k, S)
        /\ lines' = [lines EXCEPT ![k] = lines[k] \ S]
    BY <1>4 DEF Cleanup!purge
  <2>2. Purges(k, S, e)
    BY <2>1, LinesPurged
  <2> HIDE DEF e
  <2>3. Consistent(code, e) /\ e.records \subseteq db.records
    BY <2>2 DEF Purges, Shrinks
  <2>4. /\ DOMAIN lines' = Cleanup!Kinds /\ lines'[k] = lines[k] \ S
        /\ \A j \in Cleanup!Kinds \ {k}: lines'[j] = lines[j]
    BY <2>1
  <2>5. \A j \in Cleanup!Kinds \ stale: \A x \in lines'[j]: Useless(code, e, j, x)
    BY <2>3, <2>4, UselessStays
  <2>6. Consistent(code', db')
    BY <2>1, <2>3
  <2>7. CleanupInd'
    BY <2>1, <2>4, <2>5, <2>6
  <2>8. k \notin stale => Keeps(db, e)
    BY <2>2 DEF Purges
  <2>9. k \notin stale => Cleanup!Used(db) \subseteq Cleanup!Used(e)
    BY <2>8, KeepsMeans
  <2>10. k \notin stale => Cleanup!Used(db) \subseteq Cleanup!Used(db')
    BY <2>1, <2>9
  <2> QED
    BY <2>4, <2>7, <2>10 DEF Cleanup!KeepsUsed
<1>5. CASE UNCHANGED Cleanup!vars
  <2>1. code' = code /\ db' = db /\ lines' = lines /\ stale' = stale
    BY <1>5 DEF Cleanup!vars
  <2>2. Consistent(code', db')
    BY <2>1
  <2> QED
    BY <2>1, <2>2 DEF Cleanup!KeepsUsed
<1> QED
  BY <1>1, <1>2, <1>3, <1>4, <1>5 DEF Cleanup!Next, Cleanup!Step

-----------------------------------------------------------------------------
(***************************************************************************)
(* upgrade_analysis, the comparison: a pass leaves no two records that are *)
(* alike in its keys, and every line of the report is about a final name.  *)
(***************************************************************************)
\* The new name of a module is final: it is not renamed or merged again.
Renamed == DOMAIN renamed_modules \union DOMAIN merged_modules
ReportLine(l) == DOMAIN l = {"module", "about", "text"} /\ (l.module = "general" \/ l.module \notin Renamed)

LEMMA MappedIsFinal == \A m: Comparison!module_map(m) \notin Renamed
<1>1. /\ \A m \in DOMAIN renamed_modules: renamed_modules[m] \notin Renamed
      /\ \A m \in DOMAIN merged_modules: merged_modules[m] \notin Renamed
  BY AddonsParameters DEF Comparison!NamesAreFinal, Renamed
<1> QED BY <1>1 DEF Comparison!module_map, Comparison!Mapped, Renamed

LEMMA FinalIsMapped == \A m: m \notin Renamed => Comparison!module_map(m) = m
  BY DEF Comparison!module_map, Comparison!Mapped, Renamed

LEMMA ReportLines ==
  \A m, a, t: m = "general" \/ m \notin Renamed => ReportLine(Comparison!Line(m, a, t))
<1>1. \A m, a, t: /\ Comparison!Line(m, a, t).module = m
                  /\ DOMAIN Comparison!Line(m, a, t) = {"module", "about", "text"}
  BY DEF Comparison!Line
<1> QED BY <1>1 DEF ReportLine

LEMMA MappedLines == \A m, a, t: ReportLine(Comparison!Line(Comparison!module_map(m), a, t))
  BY MappedIsFinal, ReportLines

LEMMA ReportsLines == \A o, n: \A l \in Comparison!report(o, n): ReportLine(l)
<1>1. \A o, n, k, t: \A l \in Comparison!fieldprint(o, n, k, t): ReportLine(l)
  BY MappedLines DEF Comparison!fieldprint
<1>2. \A o, n, K: \A l \in Comparison!report_generic(o, n, K): ReportLine(l)
  BY <1>1 DEF Comparison!report_generic
<1>3. \A o, n: \A l \in Comparison!report_field(o, n): ReportLine(l)
  BY <1>2 DEF Comparison!report_field
<1>4. \A o, n: \A l \in Comparison!report_xmlid(o, n): ReportLine(l)
  <2> SUFFICES ASSUME NEW o, NEW n, NEW l \in Comparison!report_xmlid(o, n) PROVE ReportLine(l)
    OBVIOUS
  <2>1. CASE pass = 1
    <3>1. l = Comparison!Line(Comparison!module_map(n.module), n.name, "changed")
      BY <2>1 DEF Comparison!report_xmlid
    <3> QED BY <3>1, MappedLines
  <2>2. CASE pass # 1
    <3> DEFINE how == IF pass = 2 THEN "moved" ELSE "renamed"
    <3>1. \/ l = Comparison!Line(Comparison!module_map(o.module), o.name, how)
          \/ l = Comparison!Line(Comparison!module_map(n.module), n.name, how)
      BY <2>2 DEF Comparison!report_xmlid
    <3> HIDE DEF how
    <3> QED BY <3>1, MappedLines
  <2> QED BY <2>1, <2>2
<1>5. \A o, n: \/ Comparison!report(o, n) = Comparison!report_field(o, n)
             \/ Comparison!report(o, n) = Comparison!report_xmlid(o, n)
  BY DEF Comparison!report
<1> QED BY <1>3, <1>4, <1>5

\* Records of a job, and the keys of its passes.
Compared == job \in {"fields", "xmlids"}

LEMMA PassesOf ==
  /\ Len(Comparison!Passes["fields"]) = 5 /\ DOMAIN Comparison!Passes["fields"] = 1..5
  /\ Len(Comparison!Passes["xmlids"]) = 3 /\ DOMAIN Comparison!Passes["xmlids"] = 1..3
<1>1. Comparison!Passes["fields"] = <<{"module", "mode", "model", "field", "type"},
                                      {"module", "mode", "model", "field"},
                                      {"mode", "model", "field", "type"},
                                      {"module", "model", "field"},
                                      {"mode", "model", "field"}>>
  BY Zenon DEF Comparison!Passes
<1>2. Comparison!Passes["xmlids"] = <<{"module", "model", "name"},
                                      {"model", "name"},
                                      {"model", "suffix", "other_prefix"}>>
  BY Zenon DEF Comparison!Passes
<1>3. \A a, b, c, d, e: Len(<<a, b, c, d, e>>) = 5 /\ DOMAIN <<a, b, c, d, e>> = 1..5
  OBVIOUS
<1>4. \A a, b, c: Len(<<a, b, c>>) = 3 /\ DOMAIN <<a, b, c>> = 1..3
  OBVIOUS
<1> QED BY <1>1, <1>2, <1>3, <1>4

PassNumber == /\ pass \in 1..6
              /\ job = "xmlids" => pass \in 1..4

\* Old records that a pass tries, and records alike in the keys of a pass.
Tried == IF job = "fields" THEN old \intersect Comparison!non_obsolete(Comparison!Old, Comparison!New) ELSE old
Alike(i, j, p) == Comparison!compare_records(Comparison!Old[i], Comparison!New[j], Comparison!Passes[job][p])

\* What a pass has gone over has no like among the new records that are left.
PassedOver ==
  \A p \in DOMAIN Comparison!Passes[job], i \in Tried, j \in new:
    p < pass \/ (p = pass /\ i \notin todo) => ~Alike(i, j, p)

Positions == old \subseteq DOMAIN Comparison!Old /\ new \subseteq DOMAIN Comparison!New

ComparisonTyped ==
  /\ input \in Comparable /\ write_files \in WriteFiles
  /\ job \in {"fields", "xmlids", "models", "output", "done"}
  /\ PassNumber
  /\ todo \subseteq old
  /\ \A l \in lines: ReportLine(l)
  /\ told \subseteq lines

ComparisonInd ==
  /\ ComparisonTyped
  /\ Compared => Positions /\ PassedOver
  /\ Comparison!ChangesAreTold

LEMMA Databases ==
  ASSUME NEW x \in Comparable
  PROVE  /\ \A k \in {"fields", "xmlids", "models"}: DOMAIN x.old[k] \subseteq Nat /\ DOMAIN x.new[k] \subseteq Nat
         /\ \A j \in DOMAIN x.new["models"]: x.new["models"][j].module \notin Renamed
<1>1. ASSUME NEW d \in {x.old, x.new}, NEW k \in {"fields", "xmlids", "models"}
      PROVE  DOMAIN d[k] \subseteq Nat
  <2>1. d[k] \in Seq({d[k][j]: j \in DOMAIN d[k]})
    BY AddonsParameters DEF Comparison!UpgradeAnalysisParameters
  <2> QED BY <2>1
<1>2. \A j \in DOMAIN x.new.models: x.new.models[j].module \notin Renamed
  BY AddonsParameters DEF Comparison!NamesAreFinal, Renamed
<1> QED BY <1>1, <1>2

LEMMA ComparisonStart == Comparison!Init => ComparisonInd
<1> SUFFICES ASSUME Comparison!Init PROVE ComparisonInd
  OBVIOUS
<1>1. /\ input \in Comparable /\ write_files \in WriteFiles /\ job = "fields" /\ pass = 1
      /\ old = Comparison!clean_records(input.old.fields) /\ new = Comparison!clean_records(input.new.fields)
      /\ todo = Comparison!non_obsolete(input.old.fields, input.new.fields)
      /\ lines = {} /\ told = {}
  BY DEF Comparison!Init
<1>2. Comparison!Old = input.old.fields /\ Comparison!New = input.new.fields
  BY <1>1 DEF Comparison!Old, Comparison!New
<1>3. todo \subseteq old
  BY <1>1 DEF Comparison!non_obsolete
<1>4. ComparisonTyped
  BY <1>1, <1>3 DEF ComparisonTyped, PassNumber
<1>5. Positions
  BY <1>1, <1>2 DEF Positions, Comparison!clean_records
<1>6. PassedOver
  <2>1. \A i \in Tried: i \in todo
    BY <1>1, <1>2 DEF Tried
  <2>2. \A p \in DOMAIN Comparison!Passes[job]: ~(p < pass)
    BY <1>1, PassesOf
  <2> QED BY <2>1, <2>2 DEF PassedOver
<1>7. Comparison!ChangesAreTold
  BY <1>1 DEF Comparison!ChangesAreTold
<1> QED BY <1>4, <1>5, <1>6, <1>7 DEF ComparisonInd

\* search: an old record is matched with the first new one like it, or has none.
LEMMA ComparisonMatches ==
  ASSUME ComparisonInd, NEW i \in todo, Comparison!match(i)
  PROVE  ComparisonInd'
<1> DEFINE like == Comparison!Found(i, new)
           first == Comparison!Min(like)
<1>1. /\ Compared /\ pass <= Len(Comparison!Passes[job])
      /\ todo' = todo \ {i}
      /\ UNCHANGED <<input, write_files, job, pass, told>>
      /\ IF like = {} THEN UNCHANGED <<old, new, lines>>
         ELSE /\ new' = new \ {first} /\ old' = old \ {i}
              /\ lines' = lines \union Comparison!report(Comparison!Old[i], Comparison!New[first])
  BY DEF Comparison!match, Comparison!Comparing, Comparison!rest, Compared
<1>2. ComparisonTyped /\ Positions /\ PassedOver
  BY <1>1 DEF ComparisonInd
<1>3. Comparison!Old' = Comparison!Old /\ Comparison!New' = Comparison!New
  BY <1>1 DEF Comparison!Old, Comparison!New
<1>4. \A j \in new: Alike(i, j, pass) => j \in like
  BY DEF Comparison!Found, Alike
<1> HIDE DEF like, first
<1>5. old' \subseteq old /\ new' \subseteq new /\ lines \subseteq lines' /\ (like # {} => i \notin old')
  BY <1>1
<1>6. ComparisonTyped'
  <2>1. todo' \subseteq old'
    BY <1>1, <1>2 DEF ComparisonTyped
  <2>2. \A l \in lines': ReportLine(l)
    <3>1. \A l \in lines: ReportLine(l)
      BY <1>2 DEF ComparisonTyped
    <3> QED BY <1>1, <3>1, ReportsLines
  <2>3. told' \subseteq lines'
    BY <1>1, <1>2, <1>5 DEF ComparisonTyped
  <2> QED BY <1>1, <1>2, <2>1, <2>2, <2>3 DEF ComparisonTyped, PassNumber, ReportLine, Renamed
<1>7. Positions'
  BY <1>2, <1>3, <1>5 DEF Positions
<1>8. PassedOver'
  <2>1. ASSUME NEW p \in DOMAIN Comparison!Passes[job], NEW k \in Tried', NEW j \in new',
               p < pass \/ (p = pass /\ k \notin todo')
        PROVE  ~Alike(k, j, p)
    <3>1. k \in Tried /\ j \in new /\ k \in old'
      BY <1>1, <1>3, <1>5, <2>1 DEF Tried, Comparison!non_obsolete, Comparison!clean_records, Comparison!obsolete_models
    <3>2. CASE k = i /\ p = pass
      BY <1>4, <1>5, <3>1, <3>2
    <3>3. CASE ~(k = i /\ p = pass)
      BY <1>1, <1>2, <2>1, <3>1, <3>3 DEF PassedOver
    <3> QED BY <3>2, <3>3
  <2> QED BY <1>1, <1>3, <2>1 DEF PassedOver, Alike, Comparison!Passes, Comparison!compare_records
<1>9. Comparison!ChangesAreTold'
  BY <1>1 DEF Comparison!ChangesAreTold, Compared
<1> QED BY <1>6, <1>7, <1>8, <1>9 DEF ComparisonInd

\* The next pass: the old records that are left are tried with other keys.
LEMMA ComparisonPasses ==
  ASSUME ComparisonInd, Comparison!NextPass
  PROVE  ComparisonInd'
<1>1. /\ Compared /\ pass <= Len(Comparison!Passes[job]) /\ todo = {} /\ pass' = pass + 1
      /\ old' \subseteq old /\ new' \subseteq new
      /\ todo' = (IF job = "fields" THEN old' \intersect Comparison!non_obsolete(Comparison!Old, Comparison!New)
                  ELSE old')
      /\ UNCHANGED <<input, write_files, job, lines, told>>
  BY DEF Comparison!NextPass, Comparison!Comparing, Compared
<1>2. ComparisonTyped /\ Positions /\ PassedOver
  BY <1>1 DEF ComparisonInd
<1>3. Comparison!Old' = Comparison!Old /\ Comparison!New' = Comparison!New
  BY <1>1 DEF Comparison!Old, Comparison!New
<1>4. PassNumber'
  <2>1. pass \in 1..6 /\ pass \in Nat /\ (job = "xmlids" => pass \in 1..4)
    BY <1>2 DEF ComparisonTyped, PassNumber
  <2>2. CASE job = "fields"
    <3>1. pass <= 5
      BY <1>1, <2>2, PassesOf
    <3> QED BY <1>1, <2>1, <2>2, <3>1 DEF PassNumber
  <2>3. CASE job = "xmlids"
    <3>1. pass <= 3
      BY <1>1, <2>3, PassesOf
    <3> QED BY <1>1, <2>1, <3>1 DEF PassNumber
  <2> QED BY <1>1, <2>2, <2>3 DEF Compared
<1>5. ComparisonTyped'
  BY <1>1, <1>2, <1>4 DEF ComparisonTyped, ReportLine, Renamed
<1>6. Positions'
  BY <1>1, <1>2, <1>3 DEF Positions
<1>7. Tried' \subseteq Tried /\ Tried' \subseteq todo'
  BY <1>1, <1>3 DEF Tried, Comparison!non_obsolete, Comparison!clean_records, Comparison!obsolete_models
<1>8. PassedOver'
  <2>1. ASSUME NEW p \in DOMAIN Comparison!Passes[job], NEW k \in Tried', NEW j \in new', p < pass + 1
        PROVE  ~Alike(k, j, p)
    <3>1. p < pass \/ p = pass
      BY <1>1, <1>2, <2>1, PassesOf DEF ComparisonTyped, PassNumber, Compared
    <3>2. k \in Tried /\ j \in new /\ k \notin todo
      BY <1>1, <1>7
    <3> QED BY <1>2, <3>1, <3>2 DEF PassedOver
  <2> QED BY <1>1, <1>3, <1>7, <2>1 DEF PassedOver, Alike, Comparison!Passes, Comparison!compare_records
<1>9. Comparison!ChangesAreTold'
  BY <1>1 DEF Comparison!ChangesAreTold, Compared
<1> QED BY <1>5, <1>6, <1>8, <1>9 DEF ComparisonInd

\* What no pass matched is reported, and the next comparison starts.
LEMMA ComparisonReports ==
  ASSUME ComparisonInd, Comparison!report_fields \/ Comparison!report_xmlids \/ Comparison!compare_model_sets
  PROVE  ComparisonInd'
<1>1. ComparisonTyped
  BY DEF ComparisonInd
<1>2. \A l \in lines: ReportLine(l)
  BY <1>1 DEF ComparisonTyped
<1>3. CASE Comparison!report_fields
  <2>1. /\ job' = "xmlids" /\ pass' = 1
        /\ old' = DOMAIN input.old.xmlids /\ new' = DOMAIN input.new.xmlids /\ todo' = old'
        /\ UNCHANGED <<input, write_files, told>>
        /\ lines' = lines
             \union {Comparison!Line(Comparison!module_map(Comparison!Old[i].module), Comparison!Old[i].field, "DEL"):
                       i \in {k \in old: Comparison!Matters(Comparison!Old[k])}}
             \union {Comparison!Line(Comparison!module_map(Comparison!New[j].module), Comparison!New[j].field, "NEW"):
                       j \in {k \in new: Comparison!Matters(Comparison!New[k])}}
    BY <1>3 DEF Comparison!report_fields
  <2>2. lines \subseteq lines' /\ \A l \in lines': ReportLine(l)
    BY <1>2, <2>1, MappedLines
  <2>3. ComparisonTyped'
    BY <1>1, <2>1, <2>2 DEF ComparisonTyped, PassNumber, ReportLine, Renamed
  <2>4. Comparison!Old' = input.old.xmlids /\ Comparison!New' = input.new.xmlids
    BY <2>1 DEF Comparison!Old, Comparison!New
  <2>5. Positions'
    BY <2>1, <2>4 DEF Positions
  <2>6. PassedOver'
    <3>1. Tried' \subseteq todo'
      BY <2>1 DEF Tried
    <3>2. \A p \in DOMAIN Comparison!Passes["xmlids"]: ~(p < pass')
      BY <2>1, PassesOf
    <3>3. DOMAIN Comparison!Passes[job]' = DOMAIN Comparison!Passes["xmlids"]
      BY <2>1 DEF Comparison!Passes
    <3> QED BY <3>1, <3>2, <3>3 DEF PassedOver
  <2>7. Comparison!ChangesAreTold'
    BY <2>1 DEF Comparison!ChangesAreTold
  <2> QED BY <2>3, <2>5, <2>6, <2>7 DEF ComparisonInd
<1>4. CASE Comparison!report_xmlids
  <2>1. /\ job' = "models" /\ UNCHANGED <<input, write_files, pass, todo, old, new, told>>
        /\ lines' = lines
             \union {Comparison!Line(Comparison!module_map(Comparison!Old[i].module), Comparison!Old[i].name, "DEL"): i \in old}
             \union {Comparison!Line(Comparison!module_map(Comparison!New[j].module), Comparison!New[j].name, "NEW"): j \in new}
    BY <1>4 DEF Comparison!report_xmlids
  <2>2. lines \subseteq lines' /\ \A l \in lines': ReportLine(l)
    BY <1>2, <2>1, MappedLines
  <2>3. ComparisonTyped'
    BY <1>1, <2>1, <2>2 DEF ComparisonTyped, PassNumber, ReportLine, Renamed
  <2> QED BY <2>1, <2>3 DEF ComparisonInd, Compared, Comparison!ChangesAreTold
<1>5. CASE Comparison!compare_model_sets
  <2> DEFINE went == UNION {Comparison!old_model(Comparison!Old[i]): i \in DOMAIN Comparison!Old}
             came == UNION {Comparison!new_model(Comparison!New[j]): j \in DOMAIN Comparison!New}
  <2>1. /\ job = "models" /\ job' = "output" /\ UNCHANGED <<input, write_files, pass, todo, old, new, told>>
        /\ lines' = lines \union went \union came
    BY <1>5 DEF Comparison!compare_model_sets
  <2>2. \A r: \A l \in Comparison!old_model(r): ReportLine(l)
    BY MappedLines, ReportLines DEF Comparison!old_model
  <2>3. \A r: r.module \notin Renamed => \A l \in Comparison!new_model(r): ReportLine(l)
    <3> SUFFICES ASSUME NEW r, r.module \notin Renamed, NEW l \in Comparison!new_model(r) PROVE ReportLine(l)
      OBVIOUS
    <3>1. \E t: l = Comparison!Line(r.module, r.model, t) \/ l = Comparison!Line("general", r.model, t)
      BY Zenon DEF Comparison!new_model
    <3> QED BY <3>1, ReportLines
  <2>4. \A j \in DOMAIN Comparison!New: Comparison!New[j].module \notin Renamed
    <3>1. Comparison!New = input.new["models"] /\ input \in Comparable
      BY <1>1, <2>1 DEF Comparison!New, ComparisonTyped
    <3> QED BY <3>1, Databases
  <2>5. lines \subseteq lines' /\ \A l \in lines': ReportLine(l)
    <3>1. ASSUME NEW l \in lines' PROVE ReportLine(l)
      <4>1. \/ l \in lines
            \/ \E i \in DOMAIN Comparison!Old: l \in Comparison!old_model(Comparison!Old[i])
            \/ \E j \in DOMAIN Comparison!New: l \in Comparison!new_model(Comparison!New[j])
        <5>1. l \in went => \E i \in DOMAIN Comparison!Old: l \in Comparison!old_model(Comparison!Old[i])
          OBVIOUS
        <5>2. l \in came => \E j \in DOMAIN Comparison!New: l \in Comparison!new_model(Comparison!New[j])
          OBVIOUS
        <5> HIDE DEF went, came
        <5> QED BY <2>1, <3>1, <5>1, <5>2
      <4> QED BY <1>2, <2>2, <2>3, <2>4, <4>1
    <3> QED BY <2>1, <3>1
  <2>6. ComparisonTyped'
    BY <1>1, <2>1, <2>5 DEF ComparisonTyped, PassNumber, ReportLine, Renamed
  <2> QED BY <2>1, <2>6 DEF ComparisonInd, Compared, Comparison!ChangesAreTold
<1> QED BY <1>3, <1>4, <1>5

\* analyze: a line about a module goes to its file or to the log.
LEMMA ComparisonTellsAll ==
  ASSUME ComparisonInd, Comparison!analyze
  PROVE  ComparisonInd'
<1>1. /\ job' = "done" /\ UNCHANGED <<input, write_files, pass, todo, old, new, lines>>
      /\ told' = {l \in lines: l.module \in Comparison!Keys
                              /\ (Comparison!In_log(l.module) \/ Comparison!In_file(l.module))}
  BY DEF Comparison!analyze
<1>2. ComparisonTyped
  BY DEF ComparisonInd
<1>3. \A l \in lines: Comparison!In_log(l.module) \/ Comparison!In_file(l.module)
  <2>1. \A l \in lines: l.module = "general" \/ Comparison!module_map(l.module) = l.module
    BY <1>2, FinalIsMapped DEF ComparisonTyped, ReportLine
  <2>2. write_files \in BOOLEAN
    BY <1>2, AddonsParameters DEF ComparisonTyped, Comparison!UpgradeAnalysisParameters
  <2> QED BY <2>1, <2>2 DEF Comparison!In_log, Comparison!In_file
<1>4. Comparison!Keys' = Comparison!Keys
  BY <1>1 DEF Comparison!Keys, Comparison!affected_modules
<1>5. Comparison!ChangesAreTold'
  BY <1>1, <1>3, <1>4 DEF Comparison!ChangesAreTold
<1>6. ComparisonTyped'
  BY <1>1, <1>2 DEF ComparisonTyped, PassNumber, ReportLine, Renamed
<1> QED BY <1>1, <1>5, <1>6 DEF ComparisonInd, Compared

LEMMA ComparisonStep ==
  ASSUME ComparisonInd, [Comparison!Next]_(Comparison!vars)
  PROVE  ComparisonInd'
<1>1. CASE \E i \in todo: Comparison!match(i)
  BY <1>1, ComparisonMatches
<1>2. CASE Comparison!NextPass
  BY <1>2, ComparisonPasses
<1>3. CASE Comparison!report_fields \/ Comparison!report_xmlids \/ Comparison!compare_model_sets
  BY <1>3, ComparisonReports
<1>4. CASE Comparison!analyze
  BY <1>4, ComparisonTellsAll
<1>5. CASE UNCHANGED Comparison!vars
  <2>1. UNCHANGED <<input, write_files, job, pass, todo, old, new, lines, told>>
    BY <1>5 DEF Comparison!vars
  <2>2. Comparison!Old' = Comparison!Old /\ Comparison!New' = Comparison!New /\ Compared' = Compared
    BY <2>1 DEF Comparison!Old, Comparison!New, Compared
  <2>3. ComparisonTyped'
    BY <2>1 DEF ComparisonInd, ComparisonTyped, PassNumber, ReportLine, Renamed
  <2>4. Tried' = Tried
    BY <2>1, <2>2 DEF Tried, Comparison!non_obsolete, Comparison!clean_records, Comparison!obsolete_models
  <2>5. ASSUME Compared PROVE Positions' /\ PassedOver'
    <3>1. Positions /\ PassedOver
      BY <2>5 DEF ComparisonInd
    <3>2. Positions'
      BY <2>1, <2>2, <3>1 DEF Positions
    <3>3. PassedOver'
      BY <2>1, <2>2, <2>4, <3>1 DEF PassedOver, Alike, Comparison!Passes, Comparison!compare_records
    <3> QED BY <3>2, <3>3
  <2>6. Comparison!ChangesAreTold'
    BY <2>1 DEF ComparisonInd, Comparison!ChangesAreTold, Comparison!Keys, Comparison!affected_modules
  <2> QED BY <2>2, <2>3, <2>5, <2>6 DEF ComparisonInd
<1> QED BY <1>1, <1>2, <1>3, <1>4, <1>5 DEF Comparison!Next

LEMMA ComparisonTold ==
  ComparisonInd => Comparison!TypeOK /\ Comparison!NothingLeftToMatch /\ Comparison!ChangesAreTold
<1> SUFFICES ASSUME ComparisonInd PROVE Comparison!TypeOK /\ Comparison!NothingLeftToMatch
  BY DEF ComparisonInd
<1>1. Comparison!TypeOK
  BY DEF ComparisonInd, ComparisonTyped, PassNumber, ReportLine, Comparison!TypeOK
<1>2. Comparison!NothingLeftToMatch
  <2> SUFFICES ASSUME Compared, ~Comparison!Comparing,
                      NEW p \in DOMAIN Comparison!Passes[job], NEW j \in new, NEW i \in Tried
               PROVE  ~Alike(i, j, p)
    BY DEF Comparison!NothingLeftToMatch, Compared, Tried, Alike
  <2>1. PassedOver /\ pass \in Nat
    BY DEF ComparisonInd, ComparisonTyped, PassNumber
  <2>2. p < pass
    BY <2>1, PassesOf DEF Compared, Comparison!Comparing
  <2> QED BY <2>1, <2>2 DEF PassedOver
<1> QED BY <1>1, <1>2

-----------------------------------------------------------------------------
(***************************************************************************)
(* The specification of all parts.                                         *)
(***************************************************************************)
\* The inductive invariant: that of the part a behaviour is about.
AddonsInd ==
  /\ part = "audit" => AuditInd
  /\ part = "mail" => MailInd
  /\ part = "remote" => RemoteInd
  /\ part = "urls" => UrlInd
  /\ part = "windows" => WindowInd
  /\ part = "images" => ImageInd
  /\ part = "store" => StoreInd
  /\ part = "vacuum" => VacuumInd
  /\ part = "backup" => BackupInd
  /\ part = "cleanup" => CleanupInd
  /\ part = "templates" => TemplateInd
  /\ part = "size" => SizeInd
  /\ part = "manager" => ManagerInd
  /\ part = "chatter" => ChatterInd
  /\ part = "records" => RecordsInd
  /\ part = "analysis" => ComparisonInd

\* A step is one of the part, or changes nothing of it.
LEMMA StepOfPart ==
  ASSUME [Next]_vars
  PROVE  /\ part' = part
         /\ part = "audit" => Audit!Next \/ UNCHANGED Audit!vars
         /\ part = "mail" => Mail!Next \/ UNCHANGED Mail!vars
         /\ part = "remote" => Remote!Next \/ UNCHANGED Remote!vars
         /\ part = "urls" => Urls!Next \/ UNCHANGED Urls!vars
         /\ part = "windows" => Windows!Next \/ UNCHANGED Windows!vars
         /\ part = "images" => Images!Next \/ UNCHANGED Images!vars
         /\ part = "store" => Store!Next \/ UNCHANGED Store!vars
         /\ part = "vacuum" => Cleaner!Next \/ UNCHANGED Cleaner!vars
         /\ part = "backup" => Dump!Next \/ UNCHANGED Dump!vars
         /\ part = "cleanup" => Cleanup!Next \/ UNCHANGED Cleanup!vars
         /\ part = "templates" => Templates!Next \/ UNCHANGED Templates!vars
         /\ part = "size" => Size!Next \/ UNCHANGED Size!vars
         /\ part = "manager" => [Manager!Next]_(Manager!vars)
         /\ part = "chatter" => [Chatter!mail_track]_(Chatter!vars)
         /\ part = "records" => [Records!Next]_(Records!vars)
         /\ part = "analysis" => [Comparison!Next]_(Comparison!vars)
<1>1. CASE UNCHANGED vars
  BY <1>1, SMTT(60) DEF vars, Audit!vars, Mail!vars, Remote!vars, Urls!vars, Windows!vars, Images!vars,
     Store!vars, Cleaner!vars, Dump!vars, Cleanup!vars, Templates!vars, Size!vars,
     Manager!vars, Chatter!vars, Records!vars, Comparison!vars
<1>2. CASE Next
  BY <1>2 DEF Next, Only
<1> QED BY <1>1, <1>2

LEMMA AddonsStart == ASSUME Init PROVE AddonsInd
<1>1. CASE part = "audit"
  BY <1>1, AuditInit, AddonsParameters DEF Init, AddonsInd
<1>2. CASE part = "mail"
  BY <1>2, MailInit, AddonsParameters DEF Init, AddonsInd
<1>3. CASE part = "remote"
  BY <1>3, RemoteInit, AddonsParameters DEF Init, AddonsInd
<1>4. CASE part = "urls"
  BY <1>4, UrlInit, AddonsParameters DEF Init, AddonsInd
<1>5. CASE part = "windows"
  BY <1>5, WindowInit, AddonsParameters DEF Init, AddonsInd
<1>6. CASE part = "images"
  BY <1>6, ImageInit, AddonsParameters DEF Init, AddonsInd
<1>7. CASE part = "store"
  BY <1>7, StoreInit, AddonsParameters DEF Init, AddonsInd
<1>8. CASE part = "vacuum"
  BY <1>8, VacuumInit, AddonsParameters DEF Init, AddonsInd
<1>9. CASE part = "backup"
  BY <1>9, BackupInit, AddonsParameters DEF Init, AddonsInd
<1>10. CASE part = "cleanup"
  BY <1>10, CleanupInit, AddonsParameters DEF Init, AddonsInd
<1>11. CASE part = "templates"
  BY <1>11, TemplateInit DEF Init, AddonsInd
<1>12. CASE part = "size"
  BY <1>12, SizeInit, AddonsParameters DEF Init, AddonsInd
<1>13. CASE part = "manager"
  BY <1>13, ManagerStart DEF Init, AddonsInd
<1>14. CASE part = "chatter"
  BY <1>14, ChatterStart DEF Init, AddonsInd
<1>15. CASE part = "records"
  BY <1>15, RecordsStart DEF Init, AddonsInd
<1>16. CASE part = "analysis"
  BY <1>16, ComparisonStart DEF Init, AddonsInd
<1> QED
  BY <1>1, <1>2, <1>3, <1>4, <1>5, <1>6, <1>7, <1>8, <1>9, <1>10, <1>11, <1>12,
     <1>13, <1>14, <1>15, <1>16 DEF Init

LEMMA AddonsStep == ASSUME AddonsInd, [Next]_vars PROVE AddonsInd'
<1>1. part' = part
  BY StepOfPart
<1>2. CASE part = "audit"
  BY <1>1, <1>2, StepOfPart, AuditStep, AddonsParameters DEF AddonsInd
<1>3. CASE part = "mail"
  BY <1>1, <1>3, StepOfPart, MailStep DEF AddonsInd
<1>4. CASE part = "remote"
  BY <1>1, <1>4, StepOfPart, RemoteStep, AddonsParameters DEF AddonsInd
<1>5. CASE part = "urls"
  BY <1>1, <1>5, StepOfPart, UrlStep, AddonsParameters DEF AddonsInd
<1>6. CASE part = "windows"
  BY <1>1, <1>6, StepOfPart, WindowStep, AddonsParameters DEF AddonsInd
<1>7. CASE part = "images"
  BY <1>1, <1>7, StepOfPart, ImageStep, AddonsParameters DEF AddonsInd
<1>8. CASE part = "store"
  BY <1>1, <1>8, StepOfPart, StoreStep, AddonsParameters DEF AddonsInd
<1>9. CASE part = "vacuum"
  BY <1>1, <1>9, StepOfPart, VacuumStep, AddonsParameters DEF AddonsInd
<1>10. CASE part = "backup"
  BY <1>1, <1>10, StepOfPart, BackupStep, AddonsParameters DEF AddonsInd
<1>11. CASE part = "cleanup"
  BY <1>1, <1>11, StepOfPart, CleanupStep, AddonsParameters DEF AddonsInd
<1>12. CASE part = "templates"
  BY <1>1, <1>12, StepOfPart, TemplateStep DEF AddonsInd
<1>13. CASE part = "size"
  BY <1>1, <1>13, StepOfPart, SizeStep, AddonsParameters DEF AddonsInd
<1>14. CASE part = "manager"
  BY <1>1, <1>14, StepOfPart, ManagerStep DEF AddonsInd
<1>15. CASE part = "chatter"
  BY <1>1, <1>15, StepOfPart, ChatterStep DEF AddonsInd
<1>16. CASE part = "records"
  BY <1>1, <1>16, StepOfPart, RecordsStep DEF AddonsInd
<1>17. CASE part = "analysis"
  BY <1>1, <1>17, StepOfPart, ComparisonStep DEF AddonsInd
<1> QED
  BY <1>1, <1>2, <1>3, <1>4, <1>5, <1>6, <1>7, <1>8, <1>9, <1>10, <1>11, <1>12, <1>13,
     <1>14, <1>15, <1>16, <1>17 DEF AddonsInd

LEMMA AddonsAlways == Spec => []AddonsInd
<1>1. Init => AddonsInd
  BY AddonsStart
<1>2. AddonsInd /\ [Next]_vars => AddonsInd'
  BY AddonsStep
<1> QED BY <1>1, <1>2, PTL DEF Spec

\* auditlog: lines tell what the records had and have, for any records, fields,
\* kinds of rules, transactions, roll-backs and clean-ups (create_logs,
\* autovacuum).
THEOREM LogsTellTruth == Spec => []LogsAreTrue
<1>1. AddonsInd => LogsAreTrue
  BY AuditIndMeans DEF AddonsInd, LogsAreTrue
<1> QED BY <1>1, AddonsAlways, PTL

\* fetchmail_attach_from_folder, mail_cleanup and the exports: for any messages,
\* settings, failures, workers and fetches at once, what the database says was
\* done on a server was done there, what left a folder is in the database, and
\* twice there only if two fetches were on (retrieve_imap_folder, run_export).
THEOREM RemoteStaysSafe == Spec => []RemoteIsSafe
<1>1. AddonsInd => RemoteIsSafe
  BY MailIndMeans, RemoteIndMeans DEF AddonsInd, RemoteIsSafe
<1> QED BY <1>1, AddonsAlways, PTL

\* base_url, base_time_window, base_multi_image: for any records, users and
\* orders of their steps, old keys lead to their records, windows of a record
\* stay apart unless transactions could not see each other's, and a record shows
\* the image it was given last.
THEOREM RecordsStayApart == Spec => []RecordsCoexist
<1>1. AddonsInd => RecordsCoexist
  BY ApartMeansApart, ImageIndMeans, AddonsParameters DEF AddonsInd, RecordsCoexist, UrlInd
<1> QED BY <1>1, AddonsAlways, PTL

\* session_db: with threads, a session reads as the operation that returned last
\* left it, although every operation may be tried again after it was done: the
\* lock is held over all tries (with_lock around with_cursor).
THEOREM SessionsReadBack == Spec => []LastReturnedIsRead
<1>1. AddonsInd => LastReturnedIsRead
  BY ReadsLeft DEF AddonsInd, LastReturnedIsRead
<1> QED BY <1>1, AddonsAlways, PTL

\* The steps that delete: for any codes that were deployed, backups, templates,
\* attachments and settings, they take nothing that is still needed (purge,
\* cleanup, autovacuum), and what remains is complete.
THEOREM NeededStays == Spec => NothingNeededGoes
<1> DEFINE Steps == /\ part = "cleanup" => Cleanup!KeepsUsed
                    /\ part = "backup" => Dump!KeepsBackup
                    /\ part = "templates" => Templates!LeavesSharedAction
                    /\ part = "vacuum" => Cleaner!OnlyOldGo
           States == /\ part = "backup" => Dump!SuccessIsWhole
                     /\ part = "size" => Size!KeptForRetention
<1>1. AddonsInd /\ [Next]_vars => Steps
  <2> SUFFICES ASSUME AddonsInd, [Next]_vars PROVE Steps
    OBVIOUS
  <2>1. part = "cleanup" => Cleanup!KeepsUsed
    BY StepOfPart, CleanupStep, AddonsParameters DEF AddonsInd
  <2>2. part = "backup" => Dump!KeepsBackup
    BY StepOfPart, BackupKeepsBackup, AddonsParameters DEF AddonsInd
  <2>3. part = "templates" => Templates!LeavesSharedAction
    BY StepOfPart, TemplateStep DEF AddonsInd
  <2>4. part = "vacuum" => Cleaner!OnlyOldGo
    BY StepOfPart, VacuumTakesOld DEF AddonsInd
  <2> QED BY <2>1, <2>2, <2>3, <2>4
<1>2. AddonsInd => States
  BY BackupIndMeans DEF AddonsInd, SizeInd
<1> HIDE DEF Steps, States
<1>3. Spec => [][Steps]_vars /\ []States
  BY <1>1, <1>2, AddonsAlways, PTL DEF Spec
<1> QED BY <1>3 DEF NothingNeededGoes, Steps, States

\* tracking_manager, tracking_manager_domain: for any owners, lines, fields,
\* configurations and requests, the hooks tell an owner once of each line that
\* came, went or changed and of nothing else, and the chatter of a record has its
\* changed fields (finalize_o2m_tracking, _mail_track).
THEOREM ChatterIsComplete == Spec => ChatterTellsChanges
<1> DEFINE Steps == part = "manager" => Manager!HooksTell
           States == part = "chatter" => Chatter!ValuesTellChanges
<1>1. AddonsInd /\ [Next]_vars => Steps
  <2> SUFFICES ASSUME AddonsInd, [Next]_vars, part = "manager" PROVE Manager!HooksTell
    OBVIOUS
  <2> QED BY StepOfPart, ManagerTells DEF AddonsInd
<1>2. AddonsInd => States
  BY ChatterTells DEF AddonsInd
<1> HIDE DEF Steps, States
<1>3. Spec => [][Steps]_vars /\ []States
  BY <1>1, <1>2, AddonsAlways, PTL DEF Spec
<1> QED BY <1>3 DEF ChatterTellsChanges, Steps, States

\* upgrade_analysis: for any modules, databases and maps of names, a complete
\* generation records what every module defines, no two records that are left
\* over are alike in the keys of any pass, and every line of the analysis that is
\* about a module is told (compare_registries, compare_sets, analyze).
THEOREM AnalysisIsComplete == Spec => []AnalysisTellsChanges
<1>1. AddonsInd => AnalysisTellsChanges
  BY RecordsTold, ComparisonTold DEF AddonsInd, AnalysisTellsChanges
<1> QED BY <1>1, AddonsAlways, PTL

-----------------------------------------------------------------------------
(***************************************************************************)
(* The types of the variables: of some parts the invariant says them, of   *)
(* the others every step keeps them.                                       *)
(***************************************************************************)
AddonsTyped ==
  /\ AddonsInd
  /\ part = "audit" => Audit!TypeOK
  /\ part = "mail" => Mail!TypeOK
  /\ part = "images" => Images!TypeOK
  /\ part = "store" => Store!TypeOK
  /\ part = "backup" => BackupTyped

LEMMA TypesStart == ASSUME Init PROVE AddonsTyped
<1>1. AddonsInd
  BY AddonsStart
<1>2. ASSUME part = "audit" PROVE Audit!TypeOK
  <2>1. Audit!Init
    BY <1>2 DEF Init
  <2> QED
    BY <2>1, AddonsParameters DEF Audit!Init, Audit!TypeOK, Audit!Database, Audit!AuditLogParameters
<1>3. ASSUME part = "mail" PROVE Mail!TypeOK
  <2>1. Mail!Init
    BY <1>3 DEF Init
  <2> QED
    BY <1>1, <1>3, <2>1, AddonsParameters DEF AddonsInd, MailInd, FolderOK, FetchSet, Mail!Init,
       Mail!TypeOK, Mail!Flags, Mail!Age, Mail!FetchmailParameters
<1>4. ASSUME part = "images" PROVE Images!TypeOK
  <2>1. Images!Init /\ ImageInd
    BY <1>1, <1>4 DEF Init, AddonsInd
  <2> QED
    BY <2>1 DEF ImageInd, Images!Init, Images!TypeOK, Images!Empty
<1>5. ASSUME part = "store" PROVE Store!TypeOK
  <2>1. Store!Init
    BY <1>5 DEF Init
  <2> QED
    BY <2>1 DEF Store!Init, Store!TypeOK, Store!Idle
<1>6. ASSUME part = "backup" PROVE BackupTyped
  BY <1>6, BackupTypesInit, AddonsParameters DEF Init
<1> QED
  BY <1>1, <1>2, <1>3, <1>4, <1>5, <1>6 DEF AddonsTyped

LEMMA TypesStep == ASSUME AddonsTyped, [Next]_vars PROVE AddonsTyped'
<1>1. AddonsInd /\ AddonsInd' /\ part' = part
  BY AddonsStep, StepOfPart DEF AddonsTyped
<1>2. part = "audit" => Audit!TypeOK'
  BY <1>1, StepOfPart, AuditTypes, AddonsParameters DEF AddonsInd, AddonsTyped
<1>3. part = "mail" => Mail!TypeOK'
  BY <1>1, StepOfPart, MailTypes, AddonsParameters DEF AddonsInd, AddonsTyped
<1>4. part = "images" => Images!TypeOK'
  BY <1>1, StepOfPart, ImageTypes, AddonsParameters DEF AddonsInd, AddonsTyped
<1>5. part = "store" => Store!TypeOK'
  BY <1>1, StepOfPart, StoreTypes DEF AddonsInd, AddonsTyped
<1>6. part = "backup" => BackupTyped'
  BY StepOfPart, BackupTypes, AddonsParameters DEF AddonsTyped
<1> QED
  BY <1>1, <1>2, <1>3, <1>4, <1>5, <1>6 DEF AddonsTyped

LEMMA TypedMeans == ASSUME AddonsTyped PROVE TypeOK
<1>1. part = "remote" => Remote!TypeOK
  BY RemoteIndMeans DEF AddonsTyped, AddonsInd
<1>2. part = "cleanup" => Cleanup!TypeOK
  BY DEF AddonsTyped, AddonsInd, CleanupInd, Consistent, Cleanup!TypeOK
<1>3. /\ part = "urls" => Urls!TypeOK
      /\ part = "windows" => Windows!TypeOK
      /\ part = "vacuum" => Cleaner!TypeOK
  BY DEF AddonsTyped, AddonsInd, UrlInd, WindowInd, VacuumInd
<1>4. /\ part = "manager" => Manager!TypeOK
      /\ part = "chatter" => Chatter!TypeOK
      /\ part = "records" => Records!TypeOK
      /\ part = "analysis" => Comparison!TypeOK
  BY ManagerTyped, ChatterTyped, RecordsTold, ComparisonTold DEF AddonsTyped, AddonsInd
<1> QED
  BY <1>1, <1>2, <1>3, <1>4 DEF AddonsTyped, TypeOK, BackupTyped

\* The variables of every part but those of excel_import_export and
\* database_size keep the types of its module, for any values of the constants.
THEOREM AddonsTypeCorrect == Spec => []TypeOK
<1>1. Init => AddonsTyped
  BY TypesStart
<1>2. AddonsTyped /\ [Next]_vars => AddonsTyped'
  BY TypesStep
<1>3. AddonsTyped => TypeOK
  BY TypedMeans
<1> QED
  BY <1>1, <1>2, <1>3, PTL DEF Spec

==============================================================================
