------------------------------ MODULE AddonsRecords_proofs ------------------------------
(***************************************************************************)
(* Of the parts of Addons that keep rows of the database: what is always   *)
(* so of each, that it is so at the start, that each step keeps it so, and *)
(* the properties that it implies.  Addons_proofs has the other parts, and *)
(* the theorems.                                                           *)
(***************************************************************************)
EXTENDS Addons, Sequences, WellFoundedInduction, FiniteSetTheorems, TLAPS

-----------------------------------------------------------------------------
(***************************************************************************)
(* Numbers.                                                                *)
(***************************************************************************)
LEMMA SmallestOfNat ==
  ASSUME NEW S \in SUBSET Nat, S # {}
  PROVE  \E m \in S: \A n \in S: m <= n
<1>1. PICK m \in S: \A n \in S: <<n, m>> \notin OpToRel(<, Nat)
  BY WFMin, NatLessThanWellFounded, Zenon
<1>2. \A n \in S: ~(n < m)
  BY <1>1, Zenon DEF OpToRel
<1> QED BY <1>2

LEMMA LargestOfBounded ==
  ASSUME NEW S \in SUBSET Nat, S # {}, NEW b \in Nat, \A n \in S: n <= b
  PROVE  \E m \in S: \A n \in S: n <= m
<1> DEFINE D == {d \in Nat: \E n \in S: d + n = b}
<1>1. \A n \in S: n \in Nat /\ b - n \in D
  OBVIOUS
<1>2. PICK d \in D: \A e \in D: d <= e
  <2>1. D \in SUBSET Nat /\ D # {}
    BY <1>1
  <2> QED BY <2>1, SmallestOfNat
<1>3. PICK m \in S: d + m = b
  BY <1>2
<1>4. ASSUME NEW n \in S PROVE n <= m
  <2>1. d <= b - n /\ n \in Nat /\ m \in Nat /\ d \in Nat
    BY <1>1, <1>2
  <2> QED BY <2>1, <1>3
<1> QED BY <1>4

-----------------------------------------------------------------------------
(***************************************************************************)
(* session_db: the thread that runs an operation has the lock, and until   *)
(* it returns only its own session may differ from what last says.         *)
(***************************************************************************)
StoreOps == {"none", "save", "delete", "get", "vacuum", "identifiers"}
Payloads == Payload \union {None}

\* Types: an operation that began has a session.
CallOK(c) ==
  /\ c \in [op: StoreOps, sid: Sid \union {None}, payload: Payloads, tries: Nat,
            pc: {"idle", "call", "run", "done"}, then: Sid \union {None}]
  /\ c.pc # "idle" => c.sid \in Sid /\ c.op # "none"

StoreShape ==
  /\ rows \in [Sid -> Payloads] /\ last \in [Sid -> Payloads]
  /\ owner \in Thread \union {None}
  /\ DOMAIN call = Thread /\ call = [t \in Thread |-> call[t]]
  /\ \A t \in Thread: CallOK(call[t])

\* The thread that runs an operation is the one that has the lock.
LockOwned == \A t \in Thread: call[t].pc \in {"run", "done"} <=> owner = t

\* What a thread may have changed since the last operation returned.
LeftBy(c) ==
  /\ c.op = "get" => /\ \A s \in Sid: rows[s] = last[s]
                     /\ c.pc = "done" => c.payload = last[c.sid]
  /\ c.op \in {"save", "delete"} => \A s \in Sid \ {c.sid}: rows[s] = last[s]
  /\ c.op = "save" /\ c.pc = "done" => rows[c.sid] = c.payload
  /\ c.op = "delete" /\ c.pc = "done" => rows[c.sid] = None

OnlyOwnerChanges ==
  /\ owner = None => \A s \in Sid: rows[s] = last[s]
  /\ \A t \in Thread: owner = t => LeftBy(call[t])

StoreInd == StoreShape /\ (mode = "threads" => LockOwned /\ OnlyOwnerChanges)

-----------------------------------------------------------------------------
\* The statement of an operation keeps the types; it changes its own session
\* only, in the way that LeftBy says, unless it is on all of them.
LEMMA EffectTypes ==
  ASSUME StoreShape, NEW c, CallOK(c), c.pc # "idle"
  PROVE  Store!Effect(c) \in [Sid -> Payloads]
<1>1. c.op \in {"save", "delete", "get", "vacuum", "identifiers"}
  BY DEF CallOK, StoreOps
<1>2. c.sid \in Sid /\ c.payload \in Payloads
  BY DEF CallOK
<1>3. CASE c.op = "save"
  BY <1>2, <1>3 DEF Store!Effect, StoreShape
<1>4. CASE c.op = "delete"
  BY <1>2, <1>4 DEF Store!Effect, StoreShape, Payloads
<1>5. CASE c.op = "get"
  BY <1>5 DEF Store!Effect, StoreShape
<1>6. CASE c.op = "vacuum"
  BY <1>6 DEF Store!Effect, StoreShape, Payloads
<1>7. CASE c.op = "identifiers"
  BY <1>7 DEF Store!Effect, StoreShape, Payloads
<1> QED BY <1>1, <1>3, <1>4, <1>5, <1>6, <1>7

LEMMA EffectLeaves ==
  ASSUME StoreShape, NEW c, CallOK(c), c.pc # "idle"
  PROVE  /\ c.op = "get" => Store!Effect(c) = rows
         /\ c.op \in {"save", "delete"} => \A s \in Sid \ {c.sid}: Store!Effect(c)[s] = rows[s]
         /\ c.op = "save" => Store!Effect(c)[c.sid] = c.payload
         /\ c.op = "delete" => Store!Effect(c)[c.sid] = None
<1>1. c.sid \in Sid
  BY DEF CallOK
<1>2. CASE c.op = "get"
  BY <1>2 DEF Store!Effect
<1>3. CASE c.op = "save"
  BY <1>1, <1>3 DEF Store!Effect, StoreShape
<1>4. CASE c.op = "delete"
  BY <1>1, <1>4 DEF Store!Effect, StoreShape
<1> QED BY <1>2, <1>3, <1>4

-----------------------------------------------------------------------------
LEMMA StoreInit == ASSUME Store!SessionStoreParameters, Store!Init PROVE StoreInd
<1>1. StoreShape
  BY DEF Store!Init, StoreShape, CallOK, Store!Idle, StoreOps, Payloads
<1>2. LockOwned /\ OnlyOwnerChanges
  BY DEF Store!Init, LockOwned, OnlyOwnerChanges, Store!Idle, Store!SessionStoreParameters
<1> QED BY <1>1, <1>2 DEF StoreInd

\* A thread starts an operation: nothing changes but what it is about to do.
LEMMA StoreCall ==
  ASSUME Store!SessionStoreParameters, StoreInd, NEW t \in Thread, NEW op \in StoreOps \ {"none"}, NEW s \in Sid,
         NEW p \in Payloads, NEW u \in Sid \union {None}, Store!Call(t, op, s, p, u)
  PROVE  StoreInd'
<1>1. StoreShape'
  BY DEF StoreInd, Store!Call, StoreShape, CallOK, StoreOps
<1>2. ASSUME mode' = "threads" PROVE LockOwned' /\ OnlyOwnerChanges'
  <2>1. owner # t
    BY <1>2 DEF StoreInd, Store!Call, LockOwned
  <2>2. LockOwned'
    BY <1>2, <2>1 DEF StoreInd, Store!Call, LockOwned, StoreShape
  <2>3. \A x \in Thread: owner = x => call'[x] = call[x]
    BY <2>1 DEF Store!Call, StoreInd, StoreShape
  <2>4. OnlyOwnerChanges'
    BY <1>2, <2>3 DEF StoreInd, Store!Call, OnlyOwnerChanges, LeftBy
  <2> QED BY <2>2, <2>4
<1> QED BY <1>1, <1>2 DEF StoreInd

LEMMA StoreBegin ==
  ASSUME Store!SessionStoreParameters, StoreInd, NEW t \in Thread, Store!Begin(t)
  PROVE  StoreInd'
<1>1. call' = [call EXCEPT ![t].pc = "run"] /\ rows' = rows /\ last' = last /\ mode' = mode
  BY DEF Store!Begin
<1>2. StoreShape'
  BY <1>1 DEF StoreInd, Store!Begin, Store!with_lock, StoreShape, CallOK
<1>3. ASSUME mode' = "threads" PROVE LockOwned' /\ OnlyOwnerChanges'
  <2>1. owner = None /\ owner' = t
    BY <1>1, <1>3 DEF Store!Begin, Store!with_lock
  <2>2. LockOwned'
    BY <1>1, <1>3, <2>1 DEF StoreInd, LockOwned, StoreShape, Store!SessionStoreParameters
  <2>3. \A s \in Sid: rows'[s] = last'[s]
    BY <1>1, <1>3, <2>1 DEF StoreInd, OnlyOwnerChanges
  <2>4. call'[t].pc = "run"
    BY <1>1 DEF StoreInd, StoreShape, CallOK
  <2>5. LeftBy(call[t])'
    BY <2>3, <2>4 DEF LeftBy
  <2>6. OnlyOwnerChanges'
    BY <2>1, <2>5 DEF OnlyOwnerChanges, Store!SessionStoreParameters
  <2> QED BY <2>2, <2>6
<1> QED BY <1>2, <1>3 DEF StoreInd

LEMMA StoreStatement ==
  ASSUME Store!SessionStoreParameters, StoreInd, NEW t \in Thread, Store!Statement(t)
  PROVE  StoreInd'
<1> DEFINE c == call[t]
<1>1. c.pc = "run" /\ CallOK(c)
  BY DEF Store!Statement, StoreInd, StoreShape
<1>2. rows' = Store!Effect(c) /\ mode' = mode /\ owner' = owner /\ last' = last
  BY DEF Store!Statement, Store!Execute
<1>3. \A x \in Thread \ {t}: call'[x] = call[x]
  BY DEF Store!Statement, StoreInd, StoreShape
<1>4. /\ call'[t].op = c.op /\ call'[t].sid = c.sid /\ call'[t].pc = "done"
      /\ call'[t].payload = IF c.op = "get" THEN rows[c.sid] ELSE c.payload
  BY <1>1 DEF Store!Statement, StoreInd, StoreShape, CallOK
<1>5. StoreShape'
  <2>1. rows' \in [Sid -> Payloads]
    BY <1>1, <1>2, EffectTypes DEF StoreInd
  <2>2. rows[c.sid] \in Payloads
    BY <1>1 DEF StoreInd, StoreShape, CallOK
  <2>3. CallOK(call'[t])
    BY <1>1, <2>2 DEF Store!Statement, StoreInd, StoreShape, CallOK
  <2> QED BY <1>2, <1>3, <2>1, <2>3 DEF StoreInd, StoreShape, Store!Statement, CallOK
<1>6. ASSUME mode' = "threads" PROVE LockOwned' /\ OnlyOwnerChanges'
  <2>1. owner = t /\ LeftBy(c)
    BY <1>1, <1>2, <1>6 DEF StoreInd, LockOwned, OnlyOwnerChanges
  <2>2. LockOwned'
    BY <1>2, <1>3, <1>4, <1>6, <2>1 DEF StoreInd, LockOwned
  <2>3. LeftBy(call[t])'
    BY <1>1, <1>2, <1>4, <2>1, EffectLeaves DEF LeftBy, StoreInd, CallOK
  <2> QED BY <1>2, <2>1, <2>2, <2>3 DEF OnlyOwnerChanges, Store!SessionStoreParameters
<1> QED BY <1>5, <1>6 DEF StoreInd

\* A failure: whether or not the statement was done, only what LeftBy allows has
\* changed; the operation is tried again under the same lock, or given up, and
\* then what it left is what its session has.
LEMMA StoreFailure ==
  ASSUME Store!SessionStoreParameters, StoreInd, NEW t \in Thread, Store!with_cursor(t)
  PROVE  StoreInd'
<1> DEFINE c == call[t]
<1> DEFINE d == [c EXCEPT !.op = "delete"]
<1>1. c.pc = "run" /\ CallOK(c) /\ mode' = mode
  BY DEF Store!with_cursor, StoreInd, StoreShape
<1>2. CallOK(d) /\ d.pc # "idle" /\ d.op = "delete"
  BY <1>1 DEF CallOK, StoreOps
<1>3. \/ rows' = Store!Effect(c)
      \/ rows' = rows
      \/ c.op = "identifiers" /\ rows' = Store!Effect(d)
  BY DEF Store!with_cursor, Store!Execute
<1>4. rows' \in [Sid -> Payloads]
  BY <1>1, <1>2, <1>3, EffectTypes DEF StoreInd, StoreShape
<1>5. /\ c.op = "get" => rows' = rows
      /\ c.op \in {"save", "delete"} => \A s \in Sid \ {c.sid}: rows'[s] = rows[s]
  BY <1>1, <1>3, EffectLeaves DEF StoreInd
<1>6. \A x \in Thread \ {t}: call'[x] = call[x]
  BY DEF Store!with_cursor, StoreInd, StoreShape
<1>7. CASE /\ call' = [call EXCEPT ![t] = Store!Idle]
           /\ owner' = IF owner = t THEN None ELSE owner
           /\ last' = rows'
  <2>1. call'[t] = Store!Idle /\ CallOK(Store!Idle)
    BY <1>7 DEF StoreInd, StoreShape, CallOK, Store!Idle, StoreOps, Payloads
  <2>2. StoreShape'
    BY <1>4, <1>6, <1>7, <2>1 DEF StoreInd, StoreShape
  <2>3. ASSUME mode' = "threads" PROVE LockOwned' /\ OnlyOwnerChanges'
    <3>1. owner = t /\ owner' = None
      BY <1>1, <1>7, <2>3 DEF StoreInd, LockOwned
    <3>2. LockOwned'
      BY <1>1, <1>6, <2>1, <2>3, <3>1 DEF StoreInd, LockOwned, Store!Idle, Store!SessionStoreParameters
    <3> QED BY <1>7, <3>1, <3>2 DEF OnlyOwnerChanges, Store!SessionStoreParameters
  <2> QED BY <2>2, <2>3 DEF StoreInd
<1>8. CASE /\ call' = [call EXCEPT ![t].tries = @ + 1]
           /\ owner' = owner /\ last' = last
  <2>1. /\ call'[t].op = c.op /\ call'[t].sid = c.sid /\ call'[t].pc = "run"
        /\ CallOK(call'[t])
    BY <1>1, <1>8 DEF StoreInd, StoreShape, CallOK
  <2>2. StoreShape'
    BY <1>4, <1>6, <1>8, <2>1 DEF StoreInd, StoreShape, CallOK
  <2>3. ASSUME mode' = "threads" PROVE LockOwned' /\ OnlyOwnerChanges'
    <3>1. owner = t /\ LeftBy(c)
      BY <1>1, <2>3 DEF StoreInd, LockOwned, OnlyOwnerChanges
    <3>2. LockOwned'
      BY <1>1, <1>6, <1>8, <2>1, <2>3 DEF StoreInd, LockOwned
    <3>3. LeftBy(call[t])'
      BY <1>5, <1>8, <2>1, <3>1 DEF LeftBy
    <3> QED BY <1>8, <3>1, <3>2, <3>3 DEF OnlyOwnerChanges, Store!SessionStoreParameters
  <2> QED BY <2>2, <2>3 DEF StoreInd
<1> QED BY <1>7, <1>8 DEF Store!with_cursor

\* When an operation returns, its session has what last then says.
LEMMA StoreReturn ==
  ASSUME Store!SessionStoreParameters, StoreInd, NEW t \in Thread, Store!Return(t)
  PROVE  StoreInd'
<1> DEFINE c == call[t]
<1>1. c.pc = "done" /\ CallOK(c) /\ rows' = rows /\ mode' = mode
  BY DEF Store!Return, StoreInd, StoreShape
<1>2. owner' = IF owner = t THEN None ELSE owner
  BY DEF Store!Return
<1>3. \A x \in Thread \ {t}: call'[x] = call[x]
  BY DEF Store!Return, StoreInd, StoreShape
<1>4. call'[t].pc \in {"idle", "call"} /\ CallOK(call'[t])
  BY <1>1 DEF Store!Return, StoreInd, StoreShape, CallOK, Store!Idle, StoreOps, Payloads
<1>5. c.op \in {"save", "delete", "get", "vacuum", "identifiers"}
  BY <1>1 DEF CallOK, StoreOps
<1>6. last' \in [Sid -> Payloads]
  <2>1. c.payload \in Payloads /\ None \in Payloads
    BY <1>1 DEF CallOK, Payloads
  <2>2. CASE c.op = "save"
    BY <2>1, <2>2 DEF Store!Return, StoreInd, StoreShape
  <2>3. CASE c.op = "delete"
    BY <2>1, <2>3 DEF Store!Return, StoreInd, StoreShape
  <2>4. CASE c.op = "get"
    BY <2>4 DEF Store!Return, StoreInd, StoreShape
  <2>5. CASE c.op \in {"vacuum", "identifiers"}
    BY <2>5 DEF Store!Return, StoreInd, StoreShape
  <2> QED BY <1>5, <2>2, <2>3, <2>4, <2>5
<1>7. StoreShape'
  BY <1>1, <1>2, <1>3, <1>4, <1>6 DEF StoreInd, StoreShape, Store!Return
<1>8. ASSUME mode' = "threads" PROVE LockOwned' /\ OnlyOwnerChanges'
  <2>1. owner = t /\ LeftBy(c) /\ owner' = None
    BY <1>1, <1>2, <1>8 DEF StoreInd, LockOwned, OnlyOwnerChanges
  <2>2. LockOwned'
    BY <1>1, <1>3, <1>4, <1>8, <2>1 DEF StoreInd, LockOwned, Store!SessionStoreParameters
  <2>3. \A s \in Sid: rows'[s] = last'[s]
    <3>1. CASE c.op = "save"
      BY <1>1, <2>1, <3>1 DEF Store!Return, LeftBy, StoreInd, StoreShape
    <3>2. CASE c.op = "delete"
      BY <1>1, <2>1, <3>2 DEF Store!Return, LeftBy, StoreInd, StoreShape
    <3>3. CASE c.op = "get"
      BY <1>1, <2>1, <3>3 DEF Store!Return, LeftBy
    <3>4. CASE c.op \in {"vacuum", "identifiers"}
      BY <1>1, <3>4 DEF Store!Return
    <3> QED BY <1>5, <3>1, <3>2, <3>3, <3>4
  <2> QED BY <2>1, <2>2, <2>3 DEF OnlyOwnerChanges, Store!SessionStoreParameters
<1> QED BY <1>7, <1>8 DEF StoreInd

-----------------------------------------------------------------------------
LEMMA StoreStep ==
  ASSUME Store!SessionStoreParameters, StoreInd, Store!Next \/ UNCHANGED Store!vars
  PROVE  StoreInd'
<1>1. ASSUME NEW t \in Thread,
             \/ Store!save(t) \/ Store!delete(t) \/ Store!get(t) \/ Store!vacuum(t)
             \/ Store!delete_from_identifiers(t)
      PROVE StoreInd'
  BY <1>1, StoreCall DEF Store!save, Store!delete, Store!get, Store!vacuum,
     Store!delete_from_identifiers, StoreOps, Payloads
<1>2. ASSUME NEW t \in Thread, Store!rotate(t) PROVE StoreInd'
  <2>1. PICK s \in Sid, u \in Sid: rows[s] # None /\ Store!Call(t, "delete", s, rows[s], u)
    BY <1>2 DEF Store!rotate
  <2>2. rows[s] \in Payloads
    BY DEF StoreInd, StoreShape
  <2> QED BY <2>1, <2>2, StoreCall DEF StoreOps
<1>3. ASSUME NEW t \in Thread, Store!Step(t) \/ Store!with_cursor(t) PROVE StoreInd'
  BY <1>3, StoreBegin, StoreStatement, StoreReturn, StoreFailure DEF Store!Step
<1>4. ASSUME NEW s \in Sid, Store!Expire(s) PROVE StoreInd'
  BY <1>4 DEF Store!Expire, StoreInd, StoreShape, LockOwned, OnlyOwnerChanges, LeftBy
<1>5. CASE UNCHANGED Store!vars
  BY <1>5 DEF Store!vars, StoreInd, StoreShape, LockOwned, OnlyOwnerChanges, LeftBy
<1> QED BY <1>1, <1>2, <1>3, <1>4, <1>5 DEF Store!Next

LEMMA ReadsLeft == ASSUME StoreInd PROVE Store!LastReturnedIsRead
  BY DEF StoreInd, LockOwned, OnlyOwnerChanges, LeftBy, Store!LastReturnedIsRead

\* Sessions past their lifetime are sessions, and an operation is tried five times.
LEMMA StoreTypes ==
  ASSUME StoreInd, Store!TypeOK, Store!Next \/ UNCHANGED Store!vars PROVE Store!TypeOK'
<1> DEFINE TriesOK(c) == c.tries \in 0..5 /\ c.pc \in {"idle", "call", "run", "done"}
<1> USE DEF Store!TypeOK
<1>1. ASSUME NEW c, CallOK(c), c.pc # "idle", Store!Execute(c)
      PROVE rows' \in [Sid -> Payload \union {None}] /\ old' \subseteq {s \in Sid: rows'[s] # None}
  <2>1. rows' \in [Sid -> Payload \union {None}]
    BY <1>1, EffectTypes DEF StoreInd, Store!Execute, Payloads
  <2>2. old' \subseteq {s \in Sid: rows'[s] # None}
    BY <1>1 DEF Store!Execute
  <2> QED BY <2>1, <2>2
<1>2. ASSUME NEW t \in Thread, call[t].pc # "idle" PROVE CallOK(call[t]) /\ call[t] = [call[t] EXCEPT !.pc = @]
  BY <1>2 DEF StoreInd, StoreShape, CallOK
<1>3. DOMAIN call = Thread /\ call = [t \in Thread |-> call[t]]
  BY DEF StoreInd, StoreShape
<1>4. TriesOK(Store!Idle)
  BY DEF Store!Idle
<1>5. ASSUME NEW t \in Thread, NEW c, call' = [call EXCEPT ![t] = c], TriesOK(c)
      PROVE \A u \in Thread: TriesOK(call'[u])
  BY <1>3, <1>5
<1>6. ASSUME NEW t \in Thread, NEW op, NEW sid, NEW payload, NEW then, Store!Call(t, op, sid, payload, then)
      PROVE Store!TypeOK'
  <2>1. TriesOK([op |-> op, sid |-> sid, payload |-> payload, tries |-> 1, pc |-> "call", then |-> then])
    OBVIOUS
  <2>2. \A u \in Thread: TriesOK(call'[u])
    BY <1>5, <1>6, <2>1 DEF Store!Call
  <2> QED BY <1>6, <2>2 DEF Store!Call
<1>7. ASSUME NEW t \in Thread, Store!Begin(t) PROVE Store!TypeOK'
  <2>1. TriesOK([call[t] EXCEPT !.pc = "run"])
    BY <1>2, <1>7 DEF Store!Begin, CallOK
  <2>2. \A u \in Thread: TriesOK(call'[u])
    BY <1>5, <1>7, <2>1 DEF Store!Begin
  <2> QED BY <1>7, <2>2 DEF Store!Begin, Store!with_lock
<1>8. ASSUME NEW t \in Thread, Store!Statement(t) PROVE Store!TypeOK'
  <2>1. TriesOK(call'[t])
    BY <1>2, <1>3, <1>8 DEF Store!Statement, CallOK
  <2>2. \A u \in Thread \ {t}: call'[u] = call[u]
    BY <1>3, <1>8 DEF Store!Statement
  <2>3. \A u \in Thread: TriesOK(call'[u])
    BY <2>1, <2>2
  <2> QED BY <1>1, <1>2, <1>8, <2>3 DEF Store!Statement
<1>9. ASSUME NEW t \in Thread, Store!with_cursor(t) PROVE Store!TypeOK'
  <2>1. rows' \in [Sid -> Payload \union {None}] /\ old' \subseteq {s \in Sid: rows'[s] # None}
    <3>1. CallOK([call[t] EXCEPT !.op = "delete"]) /\ [call[t] EXCEPT !.op = "delete"].pc # "idle"
      BY <1>2, <1>9 DEF Store!with_cursor, CallOK, StoreOps
    <3>2. CASE Store!Execute(call[t])
      BY <1>1, <1>2, <1>9, <3>2 DEF Store!with_cursor
    <3>3. CASE Store!Execute([call[t] EXCEPT !.op = "delete"])
      BY <1>1, <3>1, <3>3
    <3>4. CASE UNCHANGED <<rows, old>>
      BY <3>4
    <3> QED BY <1>9, <3>2, <3>3, <3>4 DEF Store!with_cursor
  <2>2. (\A u \in Thread: TriesOK(call'[u])) /\ owner' \in Thread \union {None}
    <3>1. CASE call' = [call EXCEPT ![t] = Store!Idle] /\ owner' = IF owner = t THEN None ELSE owner
      BY <1>4, <1>5, <3>1
    <3>2. CASE call[t].tries <= 4 /\ call' = [call EXCEPT ![t].tries = @ + 1] /\ owner' = owner
      <4>1. TriesOK([call[t] EXCEPT !.tries = @ + 1])
        BY <1>2, <1>9, <3>2 DEF Store!with_cursor, CallOK
      <4> QED BY <1>5, <3>2, <4>1
    <3> QED BY <1>9, <3>1, <3>2 DEF Store!with_cursor
  <2> QED BY <1>9, <2>1, <2>2 DEF Store!with_cursor
<1>10. ASSUME NEW t \in Thread, Store!Return(t) PROVE Store!TypeOK'
  <2> DEFINE c == IF call[t].then = None THEN Store!Idle
                  ELSE [Store!Idle EXCEPT !.op = "save", !.sid = call[t].then,
                                          !.payload = call[t].payload, !.tries = 1, !.pc = "call"]
  <2>1. TriesOK(c)
    BY <1>4 DEF Store!Idle
  <2>2. \A u \in Thread: TriesOK(call'[u])
    BY <1>5, <1>10, <2>1 DEF Store!Return
  <2> QED BY <1>10, <2>2 DEF Store!Return
<1>11. ASSUME NEW s \in Sid, Store!Expire(s) PROVE Store!TypeOK'
  BY <1>11 DEF Store!Expire
<1>12. CASE UNCHANGED Store!vars
  BY <1>12 DEF Store!vars
<1>13. CASE Store!Next
  BY <1>6, <1>7, <1>8, <1>9, <1>10, <1>11, <1>13
     DEF Store!Next, Store!Step, Store!save, Store!delete, Store!get, Store!vacuum,
         Store!delete_from_identifiers, Store!rotate
<1> QED BY <1>12, <1>13

-----------------------------------------------------------------------------
(***************************************************************************)
(* base_url: no two URLs share a key, so that an old key has one record.   *)
(***************************************************************************)
UrlInd == Urls!TypeOK /\ Urls!OldKeysLead /\ Urls!FreshUnlessMarked

\* URLs that keep their keys and records stay unique when some of them become
\* redirections or are marked.
LEMMA MappedUrls ==
  ASSUME NEW U \in SUBSET Urls!Url, Urls!Unique(U), NEW g \in [U -> Urls!Url],
         \A u \in U: /\ g[u].context = u.context /\ g[u].key = u.key /\ g[u].res_id = u.res_id
                     /\ u.redirect => g[u].redirect
  PROVE  Urls!Unique({g[u]: u \in U})
BY DEF Urls!Unique, Urls!Url

\* What update_url_key does to a record and a context, in four steps: which URLs
\* are marked, which are redirected and which one becomes the main one.
LEMMA MarkedUrls ==
  ASSUME UrlInd, NEW r \in Urls!Live, NEW c \in Context
  PROVE  /\ Urls!Marked(r, c) \subseteq Urls!Url
         /\ Urls!Unique(Urls!Marked(r, c))
         /\ \A w \in Urls!Marked(r, c): \E u \in urls: 
              /\ w = [u EXCEPT !.need_refresh = w.need_refresh]
              /\ w # u => w.need_refresh
              /\ (r \in url_need_refresh /\ u.res_id = r /\ ~u.redirect /\ ~u.manual) => w.need_refresh
         /\ \A u \in urls: \E w \in Urls!Marked(r, c): w = [u EXCEPT !.need_refresh = w.need_refresh]
<1> DEFINE g == [u \in urls |-> IF r \in url_need_refresh /\ u.res_id = r /\ ~u.redirect /\ ~u.manual
                                THEN [u EXCEPT !.need_refresh = TRUE] ELSE u]
<1>1. urls \subseteq Urls!Url /\ Urls!Unique(urls)
  BY DEF UrlInd, Urls!TypeOK
<1>2. Urls!Marked(r, c) = {g[u]: u \in urls}
  BY DEF Urls!Marked
<1>3. g \in [urls -> Urls!Url]
  BY <1>1 DEF Urls!Url
<1>4. \A u \in urls: /\ g[u] = [u EXCEPT !.need_refresh = g[u].need_refresh]
                     /\ g[u] # u => g[u].need_refresh
                     /\ (r \in url_need_refresh /\ u.res_id = r /\ ~u.redirect /\ ~u.manual)
                          => g[u].need_refresh
  BY <1>1 DEF Urls!Url
<1>5. \A u \in urls: /\ g[u].context = u.context /\ g[u].key = u.key /\ g[u].res_id = u.res_id
                     /\ u.redirect => g[u].redirect
  BY <1>1 DEF Urls!Url
<1>6. Urls!Unique({g[u]: u \in urls})
  BY <1>1, <1>3, <1>5, MappedUrls
<1> HIDE DEF g
<1> QED BY <1>2, <1>3, <1>4, <1>6

\* After the marking, no main URL needs the mark of its record any more.
LEMMA MarkedAreFresh ==
  ASSUME UrlInd, NEW r \in Urls!Live, NEW c \in Context, NEW w \in Urls!Marked(r, c),
         ~w.redirect, w.res_id \notin edited,
         \A v \in urls: v.res_id = w.res_id => v.redirect \/ ~v.manual
  PROVE  \/ w.key = Slug[name[w.res_id][w.context]] \/ w.need_refresh
         \/ w.res_id \in url_need_refresh \ {r}
<1>1. PICK u \in urls: /\ w = [u EXCEPT !.need_refresh = w.need_refresh]
                       /\ w # u => w.need_refresh
                       /\ (r \in url_need_refresh /\ u.res_id = r /\ ~u.redirect /\ ~u.manual)
                            => w.need_refresh
  BY MarkedUrls
<1>2. u \in Urls!Url
  BY DEF UrlInd, Urls!TypeOK
<1>3. /\ w.key = u.key /\ w.context = u.context /\ w.res_id = u.res_id /\ w.redirect = u.redirect
      /\ w.manual = u.manual
  BY <1>1, <1>2 DEF Urls!Url
<1>4. \/ u.key = Slug[name[u.res_id][u.context]] \/ u.need_refresh \/ u.res_id \in url_need_refresh
  BY <1>3 DEF UrlInd, Urls!FreshUnlessMarked
<1> QED BY <1>1, <1>3, <1>4

\* The key of a name is a key.
LEMMA SlugIsKey ==
  ASSUME Urls!UrlParameters, UrlInd, NEW r \in Urls!Live, NEW c \in Context
  PROVE  Slug[name[r][c]] \in Urls!Key /\ r \in Named
BY DEF Urls!UrlParameters, UrlInd, Urls!TypeOK, Urls!Key

\* The URLs once those of a record in a context that are not manual redirect:
\* others keep their place.
LEMMA RedirectedUrls ==
  ASSUME UrlInd, NEW r \in Urls!Live, NEW c \in Context,
         \A u \in Urls!main_url(urls, r, c): ~u.manual,
         NEW current, current = Urls!main_url(Urls!Marked(r, c), r, c),
         NEW rest, rest = (Urls!Marked(r, c) \ current) \union Urls!Redirected(current)
  PROVE  /\ rest \subseteq Urls!Url /\ Urls!Unique(rest)
         /\ \A w \in rest: /\ w.context = c /\ w.res_id = r => w.redirect
                           /\ w.redirect \/ w \in Urls!Marked(r, c)
                           /\ w.res_id \in Urls!Live
         /\ \A u \in urls: /\ \E w \in rest: w.context = u.context /\ w.key = u.key /\ w.res_id = u.res_id
                           /\ u.manual /\ ~u.redirect => u \in rest
<1> DEFINE marked == Urls!Marked(r, c)
           g == [u \in marked |-> IF u \in current
                                  THEN [u EXCEPT !.redirect = TRUE, !.need_refresh = FALSE] ELSE u]
<1>1. /\ marked \subseteq Urls!Url /\ Urls!Unique(marked)
      /\ \A w \in marked: \E u \in urls:
              /\ w = [u EXCEPT !.need_refresh = w.need_refresh]
              /\ w # u => w.need_refresh
      /\ \A u \in urls: \E w \in marked: w = [u EXCEPT !.need_refresh = w.need_refresh]
  BY MarkedUrls
<1>2. urls \subseteq Urls!Url /\ \A u \in urls: u.res_id \in Urls!Live
  BY DEF UrlInd, Urls!TypeOK
<1>3. \A w \in marked: w.res_id \in Urls!Live
  BY <1>1, <1>2 DEF Urls!Url
<1>4. g \in [marked -> Urls!Url] /\ rest = {g[u]: u \in marked}
  <2>1. current \subseteq marked
    BY DEF Urls!main_url
  <2>2. rest = {g[u]: u \in marked}
    BY <2>1 DEF Urls!Redirected
  <2>3. g \in [marked -> Urls!Url]
    <3>1. \A u \in Urls!Url: [u EXCEPT !.redirect = TRUE, !.need_refresh = FALSE] \in Urls!Url
      BY DEF Urls!Url
    <3> HIDE DEF marked
    <3> QED BY <1>1, <3>1
  <2> QED BY <2>2, <2>3
<1>5. \A u \in marked: /\ g[u].context = u.context /\ g[u].key = u.key /\ g[u].res_id = u.res_id
                       /\ u.redirect => g[u].redirect
                       /\ u.context = c /\ u.res_id = r => g[u].redirect
                       /\ g[u].redirect \/ g[u] = u
  BY <1>1 DEF Urls!Url, Urls!main_url
<1>6. \A u \in urls: u.manual /\ ~u.redirect => u \in marked /\ g[u] = u
  BY <1>2 DEF Urls!Url, Urls!main_url, Urls!Marked
<1>7. rest \subseteq Urls!Url /\ Urls!Unique(rest)
  <2>1. Urls!Unique({g[u]: u \in marked})
    <3> HIDE DEF g, marked
    <3> QED BY <1>1, <1>4, <1>5, MappedUrls
  <2>2. {g[u]: u \in marked} \subseteq Urls!Url
    <3> HIDE DEF g, marked
    <3> QED BY <1>4
  <2> QED BY <1>4, <2>1, <2>2
<1>8. \A u \in urls: \E w \in marked: w.context = u.context /\ w.key = u.key /\ w.res_id = u.res_id
  BY <1>1, <1>2 DEF Urls!Url
<1> HIDE DEF g, marked
<1>9. \A w \in rest: /\ w.context = c /\ w.res_id = r => w.redirect
                     /\ w.redirect \/ w \in marked
                     /\ w.res_id \in Urls!Live
  BY <1>3, <1>4, <1>5
<1>10. \A u \in urls: /\ \E w \in rest: w.context = u.context /\ w.key = u.key /\ w.res_id = u.res_id
                      /\ u.manual /\ ~u.redirect => u \in rest
  BY <1>4, <1>5, <1>6, <1>8
<1> QED BY <1>7, <1>9, <1>10 DEF marked

\* A key that no other record has as its main one becomes that of a record.
LEMMA AddedUrl ==
  ASSUME NEW U \in SUBSET Urls!Url, Urls!Unique(U), NEW r \in Named, NEW c \in Context,
         NEW k \in Urls!Key,
         \A u \in U: u.context = c /\ u.res_id = r => u.redirect,
         \A u \in Urls!existing_url(U, c, k): u.redirect,
         NEW A, A = Urls!add_url(U, r, c, k)
  PROVE  /\ A \subseteq Urls!Url /\ Urls!Unique(A)
         /\ \E w \in A: w.context = c /\ w.key = k /\ w.res_id = r
         /\ \A w \in A: \/ w.context = c /\ w.key = k /\ w.res_id = r
                        \/ w \in U /\ ~(w.context = c /\ w.key = k)
         /\ \A u \in U: u \in A \/ (u.context = c /\ u.key = k /\ u.redirect)
<1> SUFFICES \E n \in Urls!Url:
      /\ n.context = c /\ n.key = k /\ n.res_id = r
      /\ A = (U \ Urls!existing_url(U, c, k)) \union {n}
  <2>1. PICK n \in Urls!Url: /\ n.context = c /\ n.key = k /\ n.res_id = r
                             /\ A = (U \ Urls!existing_url(U, c, k)) \union {n}
    OBVIOUS
  <2>2. \A u \in U \ Urls!existing_url(U, c, k): ~(u.context = c /\ u.key = k)
    BY DEF Urls!existing_url
  <2>3. Urls!Unique(A)
    BY <2>1, <2>2 DEF Urls!Unique
  <2> QED BY <2>1, <2>2, <2>3 DEF Urls!existing_url
<1>1. CASE Urls!existing_url(U, c, k) = {}
  <2> DEFINE n == [context |-> c, key |-> k, res_id |-> r, redirect |-> FALSE,
                   manual |-> FALSE, need_refresh |-> FALSE]
  <2>1. n \in Urls!Url
    BY DEF Urls!Url
  <2> QED BY <1>1, <2>1 DEF Urls!add_url
<1>2. CASE Urls!existing_url(U, c, k) # {}
  <2>1. PICK e \in U: e.context = c /\ e.key = k
    BY <1>2 DEF Urls!existing_url
  <2>2. Urls!existing_url(U, c, k) = {e}
    BY <2>1 DEF Urls!existing_url, Urls!Unique
  <2> DEFINE n == [e EXCEPT !.res_id = r, !.redirect = FALSE]
  <2>3. A = (U \ {e}) \union {n}
    BY <1>2, <2>2 DEF Urls!add_url, Urls!Reused
  <2>4. n \in Urls!Url /\ n.context = c /\ n.key = k /\ n.res_id = r
    BY <2>1 DEF Urls!Url
  <2> QED BY <2>2, <2>3, <2>4
<1> QED BY <1>1, <1>2

\* The main URL of a record in a language is made or refreshed
\* (_update_url_key): the record is no longer marked, its URLs are.
LEMMA UrlKeyUpdated ==
  ASSUME Urls!UrlParameters, UrlInd, NEW r \in Urls!Live, NEW c \in Context,
         Urls!update_url_key(r, c)
  PROVE  UrlInd'
<1> DEFINE k == Slug[name[r][c]]
           manual == \E u \in Urls!main_url(urls, r, c): u.manual
           marked == IF manual THEN urls ELSE Urls!Marked(r, c)
           current == Urls!main_url(marked, r, c)
           due == ~manual /\ \A u \in current: u.need_refresh
           changes == due /\ \A u \in current: u.key # k
           rest == (marked \ current) \union Urls!Redirected(current)
           unmarked == {IF u \in current THEN [u EXCEPT !.need_refresh = FALSE] ELSE u: u \in marked}
           same(u, w) == w.context = u.context /\ w.key = u.key /\ w.res_id = u.res_id
<1>1. /\ changes => \A u \in Urls!existing_url(rest, c, k): u.redirect
      /\ urls' = IF changes THEN Urls!add_url(rest, r, c, k) ELSE IF due THEN unmarked ELSE marked
      /\ found' = IF changes
                  THEN [x \in DOMAIN found \union {<<c, k>>} |-> IF x = <<c, k>> THEN r ELSE found[x]]
                  ELSE found
      /\ url_need_refresh' = url_need_refresh \ {r}
      /\ name' = name /\ edited' = edited
  BY DEF Urls!update_url_key
<1>2. steps' \in 0..MaxSteps["urls"]
  BY DEF Urls!update_url_key, Urls!Step, UrlInd, Urls!TypeOK, Urls!UrlParameters
<1>3. k \in Urls!Key /\ r \in Named
  BY SlugIsKey
<1>4. /\ urls \subseteq Urls!Url /\ Urls!Unique(urls) /\ \A u \in urls: u.res_id \in Urls!Live
      /\ DOMAIN found \subseteq Context \X Urls!Key /\ \A x \in DOMAIN found: found[x] \in Urls!Live
      /\ Urls!Live \subseteq Named /\ \A x \in Urls!Live: name[x] \in [Context -> Name]
      /\ url_need_refresh \subseteq Urls!Live /\ edited \subseteq Urls!Live
  BY DEF UrlInd, Urls!TypeOK
<1> HIDE DEF k, manual, marked, current, due, changes, rest, unmarked
<1>5. ASSUME urls' \subseteq Urls!Url, Urls!Unique(urls'), \A u \in urls': u.res_id \in Urls!Live,
             found' = found \/ found' = [x \in DOMAIN found \union {<<c, k>>} |-> IF x = <<c, k>> THEN r ELSE found[x]]
      PROVE  Urls!TypeOK'
  <2>1. name' = name /\ edited' = edited /\ url_need_refresh' \subseteq url_need_refresh
    BY <1>1
  <2>2. Urls!Live' = Urls!Live /\ Urls!Url' = Urls!Url /\ Urls!Key' = Urls!Key
    BY <2>1 DEF Urls!Live, Urls!Url, Urls!Key
  <2>3. /\ Urls!Live' \subseteq Named /\ \A x \in Urls!Live': name'[x] \in [Context -> Name]
        /\ url_need_refresh' \subseteq Urls!Live' /\ edited' \subseteq Urls!Live'
    BY <1>4, <2>1, <2>2
  <2>4. urls' \subseteq Urls!Url' /\ Urls!Unique(urls)' /\ \A u \in urls': u.res_id \in Urls!Live'
    BY <1>5, <2>2 DEF Urls!Unique
  <2>5. DOMAIN found' \subseteq Context \X Urls!Key' /\ \A x \in DOMAIN found': found'[x] \in Urls!Live'
    BY <1>3, <1>4, <1>5, <2>2
  <2> QED BY <1>2, <2>3, <2>4, <2>5 DEF Urls!TypeOK
<1>6. ASSUME \A u \in urls: \E w \in urls': same(u, w), found' = found
      PROVE  Urls!OldKeysLead'
  <2>1. ASSUME NEW x \in DOMAIN found, found[x] \notin edited
        PROVE  \E w \in urls': <<w.context, w.key>> = x /\ w.res_id = found[x]
    <3>1. PICK u \in urls: <<u.context, u.key>> = x /\ u.res_id = found[x]
      BY <2>1 DEF UrlInd, Urls!OldKeysLead
    <3>2. PICK w \in urls': w.context = u.context /\ w.key = u.key /\ w.res_id = u.res_id
      BY <1>6
    <3> QED BY <3>1, <3>2
  <2>2. found' = found /\ edited' = edited
    BY <1>1, <1>6
  <2> QED BY <2>1, <2>2 DEF Urls!OldKeysLead
<1>7. CASE manual
  <2>1. urls' = urls /\ found' = found
    BY <1>1, <1>7 DEF marked, due, changes
  <2>2. Urls!TypeOK' /\ Urls!OldKeysLead'
    BY <1>4, <1>5, <1>6, <2>1
  <2>3. Urls!FreshUnlessMarked'
    BY <1>1, <1>7, <2>1 DEF UrlInd, Urls!FreshUnlessMarked, manual, Urls!main_url
  <2> QED BY <2>2, <2>3 DEF UrlInd
<1>8. ASSUME ~manual,
             \A w \in urls': w.redirect \/ w \in Urls!Marked(r, c)
                             \/ (w.context = c /\ w.key = k /\ w.res_id = r),
             \A u \in urls: u.manual /\ ~u.redirect => u \in urls'
      PROVE  Urls!FreshUnlessMarked'
  <2> SUFFICES ASSUME NEW w \in urls', ~w.redirect, w.res_id \notin edited,
                      \A v \in urls': v.res_id = w.res_id => v.redirect \/ ~v.manual
               PROVE  \/ w.key = Slug[name[w.res_id][w.context]] \/ w.need_refresh
                      \/ w.res_id \in url_need_refresh \ {r}
    BY <1>1 DEF Urls!FreshUnlessMarked
  <2>1. \A v \in urls: v.res_id = w.res_id => v.redirect \/ ~v.manual
    BY <1>8
  <2>2. CASE w \in Urls!Marked(r, c)
    BY <2>1, <2>2, MarkedAreFresh
  <2> QED BY <1>8, <2>2 DEF k
<1>9. CASE ~manual /\ ~changes
  <2>1. marked = Urls!Marked(r, c) /\ found' = found
    BY <1>1, <1>9 DEF marked
  <2>2. /\ marked \subseteq Urls!Url /\ Urls!Unique(marked)
        /\ \A w \in marked: \E u \in urls: w = [u EXCEPT !.need_refresh = w.need_refresh]
        /\ \A u \in urls: \E w \in marked: w = [u EXCEPT !.need_refresh = w.need_refresh]
    BY <2>1, MarkedUrls
  <2>3. \A w \in marked: w.res_id \in Urls!Live
    BY <1>4, <2>2 DEF Urls!Url
  <2>4. \A u \in urls: \E w \in marked: same(u, w)
    BY <1>4, <2>2 DEF Urls!Url
  <2> DEFINE g == [u \in marked |-> IF due /\ u \in current THEN [u EXCEPT !.need_refresh = FALSE] ELSE u]
  <2>5. urls' = {g[u]: u \in marked}
    BY <1>1, <1>9 DEF unmarked
  <2>6. \A u \in Urls!Url: [u EXCEPT !.need_refresh = FALSE] \in Urls!Url
    BY DEF Urls!Url
  <2>7. g \in [marked -> Urls!Url]
    BY <2>2, <2>6
  <2>8. \A u \in marked: g[u].context = u.context /\ g[u].key = u.key /\ g[u].res_id = u.res_id
                         /\ g[u].redirect = u.redirect
    BY <2>2 DEF Urls!Url
  \* The URL that is due has the key of the name already, or it would change.
  <2>9. \A u \in marked: g[u] = u \/ (u.context = c /\ u.key = k /\ u.res_id = r)
    <3>1. \A u \in current: u \in marked /\ u.context = c /\ u.res_id = r /\ ~u.redirect
      BY DEF current, Urls!main_url
    <3>2. CASE due
      <4>1. PICK e \in current: e.key = k
        BY <1>9, <3>2 DEF changes
      <4>2. \A u \in current: u = e
        BY <2>2, <3>1 DEF Urls!Unique
      <4> QED BY <3>1, <4>1, <4>2
    <3> QED BY <3>2
  <2>10. \A u \in urls: u.manual /\ ~u.redirect => u \in marked /\ u \notin current
    BY <1>4, <1>9, <2>1 DEF current, Urls!main_url, Urls!Marked, manual
  <2>11. \A u \in marked \ current: g[u] = u
    OBVIOUS
  <2> HIDE DEF g
  <2>12. urls' \subseteq Urls!Url /\ Urls!Unique(urls')
    BY <2>2, <2>5, <2>7, <2>8, MappedUrls
  <2>13. \A u \in urls': u.res_id \in Urls!Live
    BY <2>3, <2>5, <2>8
  <2>14. Urls!TypeOK'
    BY <1>5, <2>1, <2>12, <2>13
  <2>15. Urls!OldKeysLead'
    BY <1>6, <2>1, <2>4, <2>5, <2>8
  <2>16. Urls!FreshUnlessMarked'
    <3>1. \A w \in urls': w \in Urls!Marked(r, c) \/ (w.context = c /\ w.key = k /\ w.res_id = r)
      BY <2>1, <2>5, <2>8, <2>9
    <3>2. \A u \in urls: u.manual /\ ~u.redirect => u \in urls'
      BY <2>5, <2>10, <2>11
    <3> QED BY <1>8, <1>9, <3>1, <3>2
  <2> QED BY <2>14, <2>15, <2>16 DEF UrlInd
<1>10. CASE ~manual /\ changes
  <2>1. /\ marked = Urls!Marked(r, c)
        /\ current = Urls!main_url(Urls!Marked(r, c), r, c)
        /\ rest = (Urls!Marked(r, c) \ current) \union Urls!Redirected(current)
        /\ \A u \in Urls!main_url(urls, r, c): ~u.manual
    BY <1>10 DEF marked, current, rest, manual
  <2>2. /\ rest \subseteq Urls!Url /\ Urls!Unique(rest)
        /\ \A w \in rest: /\ w.context = c /\ w.res_id = r => w.redirect
                          /\ w.redirect \/ w \in Urls!Marked(r, c)
                          /\ w.res_id \in Urls!Live
        /\ \A u \in urls: /\ \E w \in rest: same(u, w)
                          /\ u.manual /\ ~u.redirect => u \in rest
    BY <2>1, RedirectedUrls
  <2>3. urls' = Urls!add_url(rest, r, c, k) /\ \A u \in Urls!existing_url(rest, c, k): u.redirect
    BY <1>1, <1>10
  <2>4. /\ urls' \subseteq Urls!Url /\ Urls!Unique(urls')
        /\ \E w \in urls': w.context = c /\ w.key = k /\ w.res_id = r
        /\ \A w \in urls': \/ w.context = c /\ w.key = k /\ w.res_id = r
                           \/ w \in rest /\ ~(w.context = c /\ w.key = k)
        /\ \A u \in rest: u \in urls' \/ (u.context = c /\ u.key = k /\ u.redirect)
    BY <1>3, <2>2, <2>3, AddedUrl
  <2>5. found' = [x \in DOMAIN found \union {<<c, k>>} |-> IF x = <<c, k>> THEN r ELSE found[x]]
    BY <1>1, <1>10
  <2>6. Urls!TypeOK'
    BY <1>5, <2>2, <2>4, <2>5
  <2>7. Urls!OldKeysLead'
    <3> SUFFICES ASSUME NEW x \in DOMAIN found', found'[x] \notin edited
                 PROVE  \E w \in urls': <<w.context, w.key>> = x /\ w.res_id = found'[x]
      BY <1>1 DEF Urls!OldKeysLead
    <3>1. CASE x = <<c, k>>
      BY <2>4, <2>5, <3>1
    <3>2. CASE x # <<c, k>>
      <4>1. x \in DOMAIN found /\ found'[x] = found[x]
        BY <2>5, <3>2
      <4>2. PICK u \in urls: <<u.context, u.key>> = x /\ u.res_id = found[x]
        BY <4>1 DEF UrlInd, Urls!OldKeysLead
      <4>3. PICK w \in rest: same(u, w)
        BY <2>2
      <4> QED BY <2>4, <3>2, <4>1, <4>2, <4>3
    <3> QED BY <3>1, <3>2
  <2>8. Urls!FreshUnlessMarked'
    BY <1>8, <1>10, <2>2, <2>4
  <2> QED BY <2>6, <2>7, <2>8 DEF UrlInd
<1> QED BY <1>7, <1>9, <1>10

LEMMA UrlInit == ASSUME Urls!UrlParameters, Urls!Init PROVE UrlInd
<1>1. Urls!Live = {} /\ DOMAIN found = {}
  BY DEF Urls!Init, Urls!Live
<1> QED BY <1>1 DEF UrlInd, Urls!Init, Urls!TypeOK, Urls!OldKeysLead, Urls!FreshUnlessMarked,
          Urls!Unique, Urls!UrlParameters

\* The record is marked; nothing is found under its keys yet.
LEMMA UrlRecordCreated ==
  ASSUME Urls!UrlParameters, UrlInd, NEW r \in Named, Urls!create(r) PROVE UrlInd'
<1>1. PICK n \in Name: name' = [x \in Urls!Live \union {r} |-> IF x = r THEN [c \in Context |-> n] ELSE name[x]]
  BY DEF Urls!create
<1>2. /\ r \notin Urls!Live /\ Urls!Live' = Urls!Live \union {r}
      /\ \A x \in Urls!Live: name'[x] = name[x]
      /\ name'[r] \in [Context -> Name]
  BY <1>1 DEF Urls!create, Urls!Live
<1>3. url_need_refresh' = url_need_refresh \union {r} /\ urls' = urls /\ found' = found /\ edited' = edited
  BY DEF Urls!create
<1>4. Urls!TypeOK'
  BY <1>2, <1>3 DEF UrlInd, Urls!TypeOK, Urls!Unique, Urls!Url, Urls!Key, Urls!create, Urls!Step,
     Urls!UrlParameters
<1>5. Urls!OldKeysLead'
  BY <1>3 DEF UrlInd, Urls!OldKeysLead
<1>6. Urls!FreshUnlessMarked'
  BY <1>2, <1>3 DEF UrlInd, Urls!TypeOK, Urls!FreshUnlessMarked
<1> QED BY <1>4, <1>5, <1>6 DEF UrlInd

\* The mark of the record covers its URLs of all languages.
LEMMA UrlRecordRenamed ==
  ASSUME Urls!UrlParameters, UrlInd, NEW r \in Urls!Live, NEW c \in Context, Urls!Rename(r, c)
  PROVE  UrlInd'
<1>1. PICK n \in Name: name' = [name EXCEPT ![r][c] = n]
  BY DEF Urls!Rename
<1>2. /\ Urls!Live' = Urls!Live
      /\ \A x \in Urls!Live: x # r => name'[x] = name[x]
      /\ name'[r] \in [Context -> Name]
  BY <1>1 DEF Urls!Live, UrlInd, Urls!TypeOK
<1>3. url_need_refresh' = url_need_refresh \union {r} /\ urls' = urls /\ found' = found /\ edited' = edited
  BY DEF Urls!Rename
<1>4. Urls!TypeOK'
  BY <1>2, <1>3 DEF UrlInd, Urls!TypeOK, Urls!Unique, Urls!Url, Urls!Key, Urls!Rename, Urls!Step,
     Urls!UrlParameters
<1>5. Urls!OldKeysLead'
  BY <1>3 DEF UrlInd, Urls!OldKeysLead
<1>6. Urls!FreshUnlessMarked'
  BY <1>2, <1>3 DEF UrlInd, Urls!TypeOK, Urls!FreshUnlessMarked
<1> QED BY <1>4, <1>5, <1>6 DEF UrlInd

\* A record goes with its URLs and with what was found under them.
LEMMA UrlRecordDeleted ==
  ASSUME Urls!UrlParameters, UrlInd, NEW r \in Urls!Live, Urls!unlink(r) PROVE UrlInd'
<1>1. /\ Urls!Live' = Urls!Live \ {r}
      /\ \A x \in Urls!Live: x # r => name'[x] = name[x]
      /\ urls' = {u \in urls: u.res_id # r}
      /\ DOMAIN found' = {y \in DOMAIN found: found[y] # r}
      /\ \A y \in DOMAIN found': found'[y] = found[y]
      /\ url_need_refresh' = url_need_refresh \ {r} /\ edited' = edited \ {r}
  BY DEF Urls!unlink, Urls!Live
<1>2. Urls!TypeOK'
  BY <1>1 DEF UrlInd, Urls!TypeOK, Urls!Unique, Urls!Url, Urls!Key, Urls!unlink, Urls!Step, Urls!UrlParameters
<1>3. Urls!OldKeysLead'
  BY <1>1 DEF UrlInd, Urls!OldKeysLead
<1>4. Urls!FreshUnlessMarked'
  BY <1>1 DEF UrlInd, Urls!TypeOK, Urls!FreshUnlessMarked
<1> QED BY <1>2, <1>3, <1>4 DEF UrlInd

\* Nothing is claimed of a record of which the URLs were edited; those of the
\* others stay.
LEMMA UrlsEdited ==
  ASSUME Urls!UrlParameters, UrlInd, NEW r \in Urls!Live, NEW U \in SUBSET Urls!Url,
         Urls!EditUrls(r, U),
         \A u \in U: u \in urls \/ u.res_id = r,
         \A u \in urls: u \in U \/ u.res_id = r
  PROVE  UrlInd'
<1>1. /\ urls' = U /\ Urls!Unique(U) /\ edited' = edited \union {r}
      /\ name' = name /\ url_need_refresh' = url_need_refresh /\ found' = found
  BY DEF Urls!EditUrls
<1>2. Urls!TypeOK'
  BY <1>1 DEF UrlInd, Urls!TypeOK, Urls!Live, Urls!Unique, Urls!Url, Urls!Key, Urls!EditUrls, Urls!Step,
     Urls!UrlParameters
<1>3. Urls!OldKeysLead'
  BY <1>1 DEF UrlInd, Urls!OldKeysLead
<1>4. Urls!FreshUnlessMarked'
  <2> SUFFICES ASSUME NEW w \in U, ~w.redirect, w.res_id \notin edited, w.res_id # r,
                      \A v \in U: v.res_id = w.res_id => v.redirect \/ ~v.manual
               PROVE  \/ w.key = Slug[name[w.res_id][w.context]] \/ w.need_refresh
                      \/ w.res_id \in url_need_refresh
    BY <1>1 DEF Urls!FreshUnlessMarked
  <2> QED BY DEF UrlInd, Urls!FreshUnlessMarked
<1> QED BY <1>2, <1>3, <1>4 DEF UrlInd

LEMMA UrlStep ==
  ASSUME Urls!UrlParameters, UrlInd, Urls!Next \/ UNCHANGED Urls!vars PROVE UrlInd'
<1>1. urls \subseteq Urls!Url /\ Urls!Live \subseteq Named /\ \A u \in urls: u.res_id \in Urls!Live
  BY DEF UrlInd, Urls!TypeOK
<1>2. ASSUME NEW r \in Named, Urls!create(r) PROVE UrlInd'
  BY <1>2, UrlRecordCreated
<1>3. ASSUME NEW r \in Urls!Live, Urls!unlink(r) PROVE UrlInd'
  BY <1>3, UrlRecordDeleted
<1>4. ASSUME NEW r \in Urls!Live, NEW c \in Context, Urls!Rename(r, c) PROVE UrlInd'
  BY <1>4, UrlRecordRenamed
<1>5. ASSUME NEW r \in Urls!Live, NEW c \in Context, Urls!update_url_key(r, c) PROVE UrlInd'
  BY <1>5, UrlKeyUpdated
<1>6. ASSUME NEW r \in Urls!Live, NEW c \in Context, Urls!AddUrl(r, c) PROVE UrlInd'
  <2>1. PICK k \in Urls!Key, b \in BOOLEAN:
          Urls!EditUrls(r, urls \union {[context |-> c, key |-> k, res_id |-> r, redirect |-> b,
                                         manual |-> TRUE, need_refresh |-> FALSE]})
    BY <1>6 DEF Urls!AddUrl
  <2> DEFINE n == [context |-> c, key |-> k, res_id |-> r, redirect |-> b,
                   manual |-> TRUE, need_refresh |-> FALSE]
  <2>2. n \in Urls!Url /\ n.res_id = r
    BY <1>1 DEF Urls!Url
  <2> HIDE DEF n
  <2>3. urls \union {n} \subseteq Urls!Url
    BY <1>1, <2>2
  <2> QED BY <2>1, <2>2, <2>3, UrlsEdited DEF n
<1>7. ASSUME NEW u \in urls, Urls!EditUrl(u) PROVE UrlInd'
  <2>1. PICK k \in Urls!Key, b \in BOOLEAN:
          Urls!EditUrls(u.res_id, (urls \ {u}) \union {[u EXCEPT !.key = k, !.redirect = b]})
    BY <1>7 DEF Urls!EditUrl
  <2> DEFINE n == [u EXCEPT !.key = k, !.redirect = b]
  <2>2. n \in Urls!Url /\ n.res_id = u.res_id
    BY <1>1 DEF Urls!Url
  <2> HIDE DEF n
  <2>3. (urls \ {u}) \union {n} \subseteq Urls!Url
    BY <1>1, <2>2
  <2>4. Urls!EditUrls(u.res_id, (urls \ {u}) \union {n})
    BY <2>1 DEF n
  <2> QED BY <1>1, <2>2, <2>3, <2>4, UrlsEdited
<1>8. ASSUME NEW u \in urls, Urls!DeleteUrl(u) PROVE UrlInd'
  BY <1>1, <1>8, UrlsEdited DEF Urls!DeleteUrl
<1>9. CASE UNCHANGED Urls!vars
  BY <1>9 DEF UrlInd, Urls!vars, Urls!TypeOK, Urls!OldKeysLead, Urls!FreshUnlessMarked, Urls!Live,
     Urls!Unique, Urls!Url, Urls!Key
<1> QED BY <1>2, <1>3, <1>4, <1>5, <1>6, <1>7, <1>8, <1>9 DEF Urls!Next

-----------------------------------------------------------------------------
(***************************************************************************)
(* base_time_window: what a transaction wrote overlaps nothing that it     *)
(* sees, and what it does not see is written down as excused.              *)
(***************************************************************************)
\* Two of the rows that belong to one owner do not overlap.
Apart(R, i, j) ==
  R[i].owner = R[j].owner =>
    ~(Windows!Overlaps(R[i].hours, R[j].hours) /\ R[i].hours.days \intersect R[j].hours.days # {})

\* What a transaction sees is what was committed, but for its own rows and those
\* that others wrote since it began; and no row of its own overlaps another it
\* sees, unless the pair is excused.
SeesCommitted(t) ==
  \A i \in Id \ (t.mine \union t.changed):
    /\ i \in DOMAIN t.cache <=> i \in DOMAIN windows
    /\ i \in DOMAIN windows => t.cache[i] = windows[i]

OwnRowsApart(t) ==
  \A i \in t.mine, j \in Id:
    (i \in DOMAIN t.cache /\ j \in DOMAIN t.cache /\ i # j /\ {i, j} \notin t.pairs) => Apart(t.cache, i, j)

WindowFields(t) == DOMAIN t = {"open", "cache", "sent", "mine", "changed", "pairs"}

WindowShape ==
  /\ DOMAIN tx = User
  /\ \A u \in User: /\ WindowFields(tx[u])
                    /\ DOMAIN tx[u].cache \subseteq Id
                    /\ \A i \in DOMAIN tx[u].sent: DOMAIN tx[u].sent[i] = {"owner", "hours"}

WindowInd ==
  /\ Windows!TypeOK
  /\ WindowShape
  /\ \A u \in User: tx[u].open => SeesCommitted(tx[u]) /\ OwnRowsApart(tx[u])
  /\ \A i, j \in DOMAIN windows: (i # j /\ {i, j} \notin excused) => Apart(windows, i, j)

\* Rows that do not overlap share no instant of the week.
LEMMA ApartMeansApart ==
  ASSUME Windows!WindowParameters, WindowInd PROVE Windows!WindowsApart
<1> SUFFICES ASSUME NEW i \in DOMAIN windows, NEW j \in DOMAIN windows, i # j, {i, j} \notin excused,
                    windows[i].owner = windows[j].owner,
                    NEW d \in windows[i].hours.days \intersect windows[j].hours.days,
                    NEW t \in 0..EndOfDay,
                    windows[i].hours.from <= t, t < windows[i].hours.to,
                    windows[j].hours.from <= t, t < windows[j].hours.to
             PROVE  FALSE
  BY DEF Windows!WindowsApart
<1>1. windows[i].hours \in Hours /\ windows[j].hours \in Hours
  BY DEF WindowInd, Windows!TypeOK, Windows!Window
<1>2. windows[i].hours.from \in Nat /\ windows[i].hours.to \in Nat
      /\ windows[j].hours.from \in Nat /\ windows[j].hours.to \in Nat /\ t \in Nat
  BY <1>1 DEF Windows!WindowParameters
<1>3. Windows!Overlaps(windows[i].hours, windows[j].hours)
  BY <1>2 DEF Windows!Overlaps
<1>4. Apart(windows, i, j)
  BY DEF WindowInd
<1> QED BY <1>3, <1>4 DEF Apart

LEMMA ApartSymmetric ==
  ASSUME NEW R, NEW i, NEW j, Apart(R, j, i) PROVE Apart(R, i, j)
BY DEF Apart, Windows!Overlaps

LEMMA WindowInit ==
  ASSUME Windows!WindowParameters, Windows!Init PROVE WindowInd
<1>1. DOMAIN windows = {}
  BY DEF Windows!Init
<1>2. DOMAIN tx = User /\ \A u \in User: tx[u] = Windows!Idle
  BY DEF Windows!Init
<1> QED BY <1>1, <1>2 DEF WindowInd, WindowShape, WindowFields, Windows!Init, Windows!TypeOK, Windows!Idle,
          Windows!WindowParameters

\* Of a transaction, what the invariant says of it.
TransactionOK(t) ==
  /\ t.mine \union t.changed \subseteq Id
  /\ DOMAIN t.sent = DOMAIN t.cache
  /\ \A i \in DOMAIN t.sent: t.cache[i] \in Windows!Window /\ t.sent[i].owner \in Scheduled
  /\ WindowFields(t)
  /\ DOMAIN t.cache \subseteq Id
  /\ \A i \in DOMAIN t.sent: DOMAIN t.sent[i] = {"owner", "hours"}

LEMMA Transactions ==
  ASSUME WindowInd, NEW u \in User
  PROVE  TransactionOK(tx[u]) /\ (tx[u].open => SeesCommitted(tx[u]) /\ OwnRowsApart(tx[u]))
BY DEF WindowInd, WindowShape, Windows!TypeOK, TransactionOK

\* A step of one transaction that commits nothing.
LEMMA OneTransaction ==
  ASSUME Windows!WindowParameters, WindowInd, NEW u \in User,
         DOMAIN tx' = User, \A x \in User \ {u}: tx'[x] = tx[x],
         UNCHANGED <<watched, windows, excused>>,
         steps' = steps \/ Windows!Step,
         TransactionOK(tx'[u]), tx'[u].open => SeesCommitted(tx'[u]) /\ OwnRowsApart(tx'[u])
  PROVE  WindowInd'
<1>1. \A x \in User: TransactionOK(tx'[x])
  BY Transactions
<1>2. Windows!TypeOK'
  BY <1>1 DEF WindowInd, Windows!TypeOK, TransactionOK, Windows!Window, Windows!Step, Windows!WindowParameters
<1>3. WindowShape'
  BY <1>1 DEF WindowShape, TransactionOK, WindowFields
<1>4. (\A x \in User: tx[x].open => SeesCommitted(tx[x]) /\ OwnRowsApart(tx[x]))'
  <2>1. \A x \in User: tx'[x].open => SeesCommitted(tx'[x]) /\ OwnRowsApart(tx'[x])
    BY DEF WindowInd
  <2> QED BY <2>1 DEF SeesCommitted, OwnRowsApart
<1>5. (\A i, j \in DOMAIN windows: (i # j /\ {i, j} \notin excused) => Apart(windows, i, j))'
  BY DEF WindowInd, Apart, Windows!Overlaps
<1> QED BY <1>2, <1>3, <1>4, <1>5 DEF WindowInd

\* A write that the constraints let pass: the rows it compared are apart, and
\* those it could not compare are excused.
LEMMA Written ==
  ASSUME Windows!WindowParameters, WindowInd, NEW u \in User, NEW S \in SUBSET Id, NEW R, NEW sent,
         NEW fields,
         Windows!Write(u, S, R, sent, fields),
         DOMAIN R \subseteq Id, \A i \in DOMAIN R: R[i] \in Windows!Window,
         S \subseteq DOMAIN R, DOMAIN sent = DOMAIN R,
         \A i \in DOMAIN R: DOMAIN sent[i] = {"owner", "hours"} /\ sent[i].owner \in Scheduled,
         \A i \in Id \ S: (i \in DOMAIN R <=> i \in DOMAIN tx[u].cache)
                          /\ (i \in DOMAIN R => R[i] = tx[u].cache[i])
  PROVE  WindowInd'
<1> DEFINE pairs == {p \in tx[u].pairs: p \intersect S = {}} \union
                      (IF fields \intersect watched # {} THEN Windows!Unsent(S, sent, R)
                       ELSE {{i, j}: i \in S, j \in Id})
           t == tx'[u]
<1>1. TransactionOK(tx[u]) /\ tx[u].open
  BY Transactions DEF Windows!Write
<1>2. SeesCommitted(tx[u]) /\ OwnRowsApart(tx[u])
  BY <1>1, Transactions
<1>3. DOMAIN tx = User /\ WindowFields(tx[u])
  BY DEF WindowInd, WindowShape
<1>4. tx' = [tx EXCEPT ![u].cache = R, ![u].sent = sent, ![u].mine = @ \union S, ![u].pairs = pairs]
  <2>1. tx' = [tx EXCEPT ![u].cache = R, ![u].sent = sent, ![u].mine = @ \union S,
                 ![u].pairs = {p \in @: p \intersect S = {}} \union
                   (IF fields \intersect watched # {} THEN Windows!Unsent(S, sent, R)
                    ELSE {{i, j}: i \in S, j \in Id})]
    BY DEF Windows!Write
  <2> QED BY <1>3, <2>1 DEF WindowFields
<1>5. /\ DOMAIN tx' = User /\ \A x \in User \ {u}: tx'[x] = tx[x]
      /\ WindowFields(t) /\ t.open = tx[u].open /\ t.cache = R /\ t.sent = sent
      /\ t.mine = tx[u].mine \union S /\ t.changed = tx[u].changed /\ t.pairs = pairs
  <2> HIDE DEF pairs
  <2> QED BY <1>3, <1>4 DEF WindowFields
<1> HIDE DEF t, pairs
<1>6. TransactionOK(t)
  BY <1>1, <1>5 DEF TransactionOK
<1>7. SeesCommitted(t)
  BY <1>2, <1>5 DEF SeesCommitted
<1>8. ASSUME NEW i \in S, NEW j \in DOMAIN R, i # j, {i, j} \notin pairs PROVE Apart(R, i, j)
  <2>1. fields \intersect watched # {}
    BY <1>8 DEF pairs
  <2>2. Windows!check_window_no_overlaps(sent, R, S)
    BY <2>1 DEF Windows!Write
  <2>3. sent[j] = R[j]
    BY <1>8, <2>1 DEF Windows!Unsent, pairs
  <2>4. j \notin Windows!Others(sent, i, R[i])
    BY <2>2 DEF Windows!check_window_no_overlaps
  <2> QED BY <1>8, <2>3, <2>4 DEF Windows!Others, Apart, Windows!Overlaps
<1>9. OwnRowsApart(t)
  <2> SUFFICES ASSUME NEW i \in tx[u].mine \union S, NEW j \in Id, i \in DOMAIN R, j \in DOMAIN R, i # j,
                      {i, j} \notin pairs
               PROVE  Apart(R, i, j)
    BY <1>5 DEF OwnRowsApart
  <2>1. CASE i \in S
    BY <1>8, <2>1
  <2>2. CASE j \in S
    <3>1. {j, i} = {i, j}
      OBVIOUS
    <3>2. Apart(R, j, i)
      BY <1>8, <2>2, <3>1
    <3> QED BY <3>2, ApartSymmetric
  <2>3. CASE i \notin S /\ j \notin S
    <3>1. {i, j} \intersect S = {}
      BY <2>3
    <3>2. {i, j} \notin tx[u].pairs
      BY <3>1 DEF pairs
    <3>3. Apart(tx[u].cache, i, j)
      BY <1>1, <1>2, <2>3, <3>2 DEF OwnRowsApart, TransactionOK
    <3>4. R[i] = tx[u].cache[i] /\ R[j] = tx[u].cache[j]
      BY <2>3
    <3> QED BY <3>3, <3>4 DEF Apart
  <2> QED BY <2>1, <2>2, <2>3
<1> QED BY <1>5, <1>6, <1>7, <1>9, OneTransaction DEF Windows!Write, t

LEMMA WindowBegin ==
  ASSUME Windows!WindowParameters, WindowInd, NEW u \in User, Windows!Begin(u) PROVE WindowInd'
<1>1. /\ DOMAIN tx' = User /\ \A x \in User \ {u}: tx'[x] = tx[x]
      /\ tx'[u] = [Windows!Idle EXCEPT !.open = TRUE, !.cache = windows, !.sent = windows]
  BY DEF WindowInd, WindowShape, Windows!Begin
<1>2. /\ WindowFields(tx'[u]) /\ tx'[u].cache = windows /\ tx'[u].sent = windows
      /\ tx'[u].mine = {} /\ tx'[u].changed = {}
  BY <1>1 DEF Windows!Idle, WindowFields
<1>3. \A i \in DOMAIN windows: i \in Id /\ windows[i] \in Windows!Window
  BY DEF WindowInd, Windows!TypeOK
<1>4. TransactionOK(tx'[u])
  BY <1>2, <1>3 DEF TransactionOK, Windows!Window
<1>5. SeesCommitted(tx'[u]) /\ OwnRowsApart(tx'[u])
  BY <1>2 DEF SeesCommitted, OwnRowsApart
<1> QED BY <1>1, <1>4, <1>5, OneTransaction DEF Windows!Begin

LEMMA WindowRollback ==
  ASSUME Windows!WindowParameters, WindowInd, NEW u \in User, Windows!Rollback(u) PROVE WindowInd'
<1>1. /\ DOMAIN tx' = User /\ \A x \in User \ {u}: tx'[x] = tx[x]
      /\ tx'[u] = Windows!Idle
  BY DEF WindowInd, WindowShape, Windows!Rollback
<1>2. TransactionOK(tx'[u]) /\ ~tx'[u].open
  BY <1>1 DEF Windows!Idle, WindowFields, TransactionOK
<1> QED BY <1>1, <1>2, OneTransaction DEF Windows!Rollback

LEMMA WindowCreate ==
  ASSUME Windows!WindowParameters, WindowInd, NEW u \in User, Windows!create(u) PROVE WindowInd'
<1> DEFINE With(R, i, w) == [j \in DOMAIN R \union {i} |-> IF j = i THEN w ELSE R[j]]
<1>1. PICK i \in Id, w \in Windows!Window:
         Windows!Write(u, {i}, With(tx[u].cache, i, w), With(tx[u].sent, i, w), {"hours", "owner"})
  BY DEF Windows!create
<1>2. TransactionOK(tx[u])
  BY Transactions
<1>3. w.owner \in Scheduled /\ DOMAIN w = {"owner", "hours"}
  BY DEF Windows!Window
<1> DEFINE R == With(tx[u].cache, i, w)
           sent == With(tx[u].sent, i, w)
<1>4. /\ DOMAIN R \subseteq Id /\ \A j \in DOMAIN R: R[j] \in Windows!Window
      /\ DOMAIN sent = DOMAIN R /\ {i} \subseteq DOMAIN R
      /\ \A j \in DOMAIN R: DOMAIN sent[j] = {"owner", "hours"} /\ sent[j].owner \in Scheduled
      /\ \A j \in Id \ {i}: (j \in DOMAIN R <=> j \in DOMAIN tx[u].cache)
                            /\ (j \in DOMAIN R => R[j] = tx[u].cache[j])
  BY <1>2, <1>3 DEF TransactionOK
<1>5. Windows!Write(u, {i}, R, sent, {"hours", "owner"}) /\ {i} \in SUBSET Id
  BY <1>1
<1> HIDE DEF R, sent
<1> QED BY <1>4, <1>5, Written

\* Hours or owner: what the ORM has sent has the days of the rows.
LEMMA WindowUpdate ==
  ASSUME Windows!WindowParameters, WindowInd, NEW u \in User, NEW S \in SUBSET DOMAIN tx[u].cache, NEW R,
         NEW fields, Windows!Update(u, S, R, fields),
         DOMAIN R = DOMAIN tx[u].cache, \A i \in DOMAIN R: R[i] \in Windows!Window,
         \A i \in DOMAIN R \ S: R[i] = tx[u].cache[i]
  PROVE  WindowInd'
<1>1. PICK sent \in Windows!Sent(u, R): Windows!Write(u, S, R, sent, fields)
  BY DEF Windows!Update
<1>2. TransactionOK(tx[u])
  BY Transactions
<1>3. DOMAIN sent = DOMAIN R /\ \A i \in DOMAIN R: DOMAIN sent[i] = {"owner", "hours"}
                                                   /\ sent[i].owner \in Scheduled
  <2>1. CASE sent = R
    BY <2>1 DEF Windows!Window
  <2>2. CASE sent = [i \in DOMAIN R |-> [tx[u].sent[i] EXCEPT !.hours.days = R[i].hours.days]]
    BY <1>2, <2>2 DEF TransactionOK
  <2> QED BY <2>1, <2>2 DEF Windows!Sent
<1>4. DOMAIN R \subseteq Id /\ S \in SUBSET Id /\ S \subseteq DOMAIN R
  BY <1>2 DEF TransactionOK
<1> QED BY <1>1, <1>3, <1>4, Written

LEMMA WindowHours ==
  ASSUME Windows!WindowParameters, WindowInd, NEW u \in User, NEW S \in SUBSET DOMAIN tx[u].cache,
         Windows!WriteHours(u, S)
  PROVE  WindowInd'
<1> DEFINE R(h) == [i \in DOMAIN tx[u].cache |-> IF i \in S THEN [tx[u].cache[i] EXCEPT !.hours = h]
                                                 ELSE tx[u].cache[i]]
<1>1. PICK h \in Hours: Windows!Update(u, S, R(h), {"hours"})
  BY DEF Windows!WriteHours
<1>2. ASSUME NEW i \in DOMAIN tx[u].cache
      PROVE  tx[u].cache[i] \in Windows!Window /\ [tx[u].cache[i] EXCEPT !.hours = h] \in Windows!Window
  <2>1. tx[u].cache[i] \in Windows!Window
    BY Transactions DEF TransactionOK
  <2>2. \A x \in Windows!Window: [x EXCEPT !.hours = h] \in Windows!Window
    BY DEF Windows!Window
  <2> QED BY <2>1, <2>2
<1>3. /\ DOMAIN R(h) = DOMAIN tx[u].cache /\ \A i \in DOMAIN R(h): R(h)[i] \in Windows!Window
      /\ \A i \in DOMAIN R(h) \ S: R(h)[i] = tx[u].cache[i]
  BY <1>2
<1> HIDE DEF R
<1> QED BY <1>1, <1>3, WindowUpdate

LEMMA WindowOwner ==
  ASSUME Windows!WindowParameters, WindowInd, NEW u \in User, NEW S \in SUBSET DOMAIN tx[u].cache,
         Windows!WriteOwner(u, S)
  PROVE  WindowInd'
<1> DEFINE R(o) == [i \in DOMAIN tx[u].cache |-> IF i \in S THEN [tx[u].cache[i] EXCEPT !.owner = o]
                                                 ELSE tx[u].cache[i]]
<1>1. PICK o \in Scheduled: Windows!Update(u, S, R(o), {"owner"})
  BY DEF Windows!WriteOwner
<1>2. ASSUME NEW i \in DOMAIN tx[u].cache
      PROVE  tx[u].cache[i] \in Windows!Window /\ [tx[u].cache[i] EXCEPT !.owner = o] \in Windows!Window
  <2>1. tx[u].cache[i] \in Windows!Window
    BY Transactions DEF TransactionOK
  <2>2. \A x \in Windows!Window: [x EXCEPT !.owner = o] \in Windows!Window
    BY DEF Windows!Window
  <2> QED BY <2>1, <2>2
<1>3. /\ DOMAIN R(o) = DOMAIN tx[u].cache /\ \A i \in DOMAIN R(o): R(o)[i] \in Windows!Window
      /\ \A i \in DOMAIN R(o) \ S: R(o)[i] = tx[u].cache[i]
  BY <1>2
<1> HIDE DEF R
<1> QED BY <1>1, <1>3, WindowUpdate

LEMMA WindowUnlink ==
  ASSUME Windows!WindowParameters, WindowInd, NEW u \in User, NEW S \in SUBSET DOMAIN tx[u].cache,
         Windows!unlink(u, S)
  PROVE  WindowInd'
<1> DEFINE R == [i \in DOMAIN tx[u].cache \ S |-> tx[u].cache[i]]
<1>1. tx' = [tx EXCEPT ![u].cache = R, ![u].sent = R, ![u].mine = @ \union S]
  BY DEF Windows!unlink
<1>2. TransactionOK(tx[u]) /\ SeesCommitted(tx[u]) /\ OwnRowsApart(tx[u])
  BY Transactions DEF Windows!unlink
<1>3. DOMAIN tx = User /\ WindowFields(tx[u])
  BY DEF WindowInd, WindowShape
<1> DEFINE t == tx'[u]
<1>4. /\ DOMAIN tx' = User /\ \A x \in User \ {u}: tx'[x] = tx[x]
      /\ WindowFields(t) /\ t.cache = R /\ t.sent = R
      /\ t.mine = tx[u].mine \union S /\ t.changed = tx[u].changed /\ t.pairs = tx[u].pairs
  <2> HIDE DEF R
  <2> QED BY <1>1, <1>3 DEF WindowFields
<1> HIDE DEF t
<1>5. TransactionOK(t)
  BY <1>2, <1>4 DEF TransactionOK, Windows!Window
<1>6. SeesCommitted(t)
  BY <1>2, <1>4 DEF SeesCommitted
<1>7. OwnRowsApart(t)
  <2> SUFFICES ASSUME NEW i \in t.mine, NEW j \in Id, i \in DOMAIN R, j \in DOMAIN R, i # j,
                      {i, j} \notin tx[u].pairs
               PROVE  Apart(R, i, j)
    <3> HIDE DEF R
    <3> QED BY <1>4 DEF OwnRowsApart
  <2>1. Apart(tx[u].cache, i, j)
    BY <1>2, <1>4 DEF OwnRowsApart
  <2> QED BY <2>1 DEF Apart
<1> QED BY <1>4, <1>5, <1>6, <1>7, OneTransaction DEF Windows!unlink, t

\* What a transaction publishes is apart from what others published, unless they
\* ran at the same time.
LEMMA WindowCommit ==
  ASSUME Windows!WindowParameters, WindowInd, NEW u \in User, Windows!Commit(u) PROVE WindowInd'
<1> DEFINE t == tx[u]
           stay == (DOMAIN windows \ t.mine) \union (DOMAIN t.cache \intersect t.mine)
<1>1. /\ t.open /\ t.mine \intersect t.changed = {}
      /\ windows' = [i \in stay |-> IF i \in t.mine THEN t.cache[i] ELSE windows[i]]
      /\ tx' = [x \in User |-> IF x = u THEN Windows!Idle
                               ELSE IF tx[x].open THEN [tx[x] EXCEPT !.changed = @ \union t.mine]
                               ELSE tx[x]]
      /\ excused' = {p \in excused: p \intersect t.mine = {}} \union t.pairs
                    \union {{i, j}: i \in t.mine, j \in t.changed}
      /\ watched' = watched /\ steps' = steps
  BY DEF Windows!Commit
<1>2. TransactionOK(t) /\ SeesCommitted(t) /\ OwnRowsApart(t)
  BY <1>1, Transactions
<1>3. DOMAIN windows \subseteq Id /\ \A i \in DOMAIN windows: windows[i] \in Windows!Window
  BY DEF WindowInd, Windows!TypeOK
<1>4. DOMAIN windows' \subseteq Id /\ \A i \in DOMAIN windows': windows'[i] \in Windows!Window
  BY <1>1, <1>2, <1>3 DEF TransactionOK
<1>5. ASSUME NEW x \in User PROVE TransactionOK(tx'[x])
  <2>1. CASE x = u
    BY <1>1, <2>1 DEF Windows!Idle, WindowFields, TransactionOK
  <2>2. CASE x # u /\ ~tx[x].open
    BY <1>1, <2>2, Transactions
  <2>3. CASE x # u /\ tx[x].open
    <3>1. TransactionOK(tx[x])
      BY Transactions
    <3>2. /\ tx'[x].mine = tx[x].mine /\ tx'[x].changed = tx[x].changed \union t.mine
          /\ tx'[x].cache = tx[x].cache /\ tx'[x].sent = tx[x].sent /\ WindowFields(tx'[x])
      BY <1>1, <2>3, <3>1 DEF TransactionOK, WindowFields
    <3> QED BY <1>2, <3>1, <3>2 DEF TransactionOK
  <2> QED BY <2>1, <2>2, <2>3
<1>6. ASSUME NEW x \in User, tx'[x].open PROVE OwnRowsApart(tx'[x])
  <2>1. x # u /\ tx[x].open
    BY <1>1, <1>6 DEF Windows!Idle
  <2>2. TransactionOK(tx[x]) /\ OwnRowsApart(tx[x])
    BY <2>1, Transactions
  <2>3. tx'[x].mine = tx[x].mine /\ tx'[x].cache = tx[x].cache /\ tx'[x].pairs = tx[x].pairs
    BY <1>1, <2>1, <2>2 DEF TransactionOK, WindowFields
  <2> QED BY <2>2, <2>3 DEF OwnRowsApart
<1>7. ASSUME NEW x \in User, tx'[x].open, NEW i \in Id \ (tx'[x].mine \union tx'[x].changed)
      PROVE  /\ i \in DOMAIN tx'[x].cache <=> i \in DOMAIN windows'
             /\ i \in DOMAIN windows' => tx'[x].cache[i] = windows'[i]
  <2>1. x # u /\ tx[x].open
    BY <1>1, <1>7 DEF Windows!Idle
  <2>2. TransactionOK(tx[x]) /\ SeesCommitted(tx[x])
    BY <2>1, Transactions
  <2>3. tx'[x].mine = tx[x].mine /\ tx'[x].changed = tx[x].changed \union t.mine /\ tx'[x].cache = tx[x].cache
    BY <1>1, <2>1, <2>2 DEF TransactionOK, WindowFields
  <2>4. i \notin t.mine /\ (i \in DOMAIN windows' <=> i \in DOMAIN windows)
        /\ (i \in DOMAIN windows => windows'[i] = windows[i])
    BY <1>1, <1>7, <2>3
  <2> HIDE DEF t, stay
  <2> QED BY <1>7, <2>2, <2>3, <2>4 DEF SeesCommitted
<1>8. ASSUME NEW i \in t.mine, NEW j, i \in DOMAIN windows', j \in DOMAIN windows', i # j,
             {i, j} \notin excused'
      PROVE  Apart(windows', i, j)
  <2>1. windows'[i] = t.cache[i] /\ i \in DOMAIN t.cache /\ {i, j} \notin t.pairs /\ j \in Id
    BY <1>1, <1>4, <1>8
  <2>2. j \in DOMAIN t.cache /\ windows'[j] = t.cache[j]
    <3>1. CASE j \in t.mine
      BY <1>1, <1>8, <3>1
    <3>2. CASE j \notin t.mine
      <4>1. j \in DOMAIN windows /\ windows'[j] = windows[j] /\ j \notin t.changed
        BY <1>1, <1>8, <3>2
      <4> QED BY <1>2, <2>1, <3>2, <4>1 DEF SeesCommitted
    <3> QED BY <3>1, <3>2
  <2>3. Apart(t.cache, i, j)
    BY <1>2, <1>8, <2>1, <2>2 DEF OwnRowsApart
  <2> QED BY <2>1, <2>2, <2>3 DEF Apart
<1>9. ASSUME NEW i \in DOMAIN windows', NEW j \in DOMAIN windows', i # j, {i, j} \notin excused'
      PROVE  Apart(windows', i, j)
  <2>1. CASE i \in t.mine
    BY <1>8, <1>9, <2>1
  <2>2. CASE j \in t.mine
    <3>1. {j, i} = {i, j}
      OBVIOUS
    <3>2. Apart(windows', j, i)
      BY <1>8, <1>9, <2>2, <3>1
    <3> QED BY <3>2, ApartSymmetric
  <2>3. CASE i \notin t.mine /\ j \notin t.mine
    <3>1. /\ i \in DOMAIN windows /\ j \in DOMAIN windows
          /\ windows'[i] = windows[i] /\ windows'[j] = windows[j]
      BY <1>1, <1>9, <2>3
    <3>2. {i, j} \notin excused
      BY <1>1, <1>9, <2>3
    <3>3. Apart(windows, i, j)
      BY <1>9, <3>1, <3>2 DEF WindowInd
    <3> QED BY <3>1, <3>3 DEF Apart
  <2> QED BY <2>1, <2>2, <2>3
<1>10. Windows!TypeOK'
  BY <1>1, <1>4, <1>5 DEF WindowInd, Windows!TypeOK, TransactionOK, Windows!Window
<1>11. WindowShape'
  BY <1>1, <1>5 DEF WindowShape, TransactionOK, WindowFields
<1>12. (\A x \in User: tx[x].open => SeesCommitted(tx[x]) /\ OwnRowsApart(tx[x]))'
  BY <1>6, <1>7 DEF SeesCommitted, OwnRowsApart
<1>13. (\A i, j \in DOMAIN windows: (i # j /\ {i, j} \notin excused) => Apart(windows, i, j))'
  BY <1>9 DEF Apart, Windows!Overlaps
<1> QED BY <1>10, <1>11, <1>12, <1>13 DEF WindowInd

LEMMA WindowStep ==
  ASSUME Windows!WindowParameters, WindowInd, Windows!Next \/ UNCHANGED Windows!vars PROVE WindowInd'
<1>1. CASE UNCHANGED Windows!vars
  BY <1>1 DEF Windows!vars, WindowInd, Windows!TypeOK, Windows!Window, WindowShape, WindowFields,
     SeesCommitted, OwnRowsApart, Apart, Windows!Overlaps
<1>2. CASE Windows!Next
  BY <1>2, WindowBegin, WindowRollback, WindowCreate, WindowHours, WindowOwner, WindowUnlink, WindowCommit
     DEF Windows!Next
<1> QED BY <1>1, <1>2

-----------------------------------------------------------------------------
(***************************************************************************)
(* base_multi_image: of the images of a record one sorts first, and it is  *)
(* the one that was written last as its main image.                        *)
(***************************************************************************)
ImagesOf(R, o) == {i \in DOMAIN R: R[i].owner_model = o[1] /\ R[i].owner_id = o[2]}
Sorts(R, i, j) == \/ R[i].sequence < R[j].sequence
                  \/ R[i].sequence = R[j].sequence /\ i <= j
IsFirst(R, I, i) == i \in I /\ \A j \in I: Sorts(R, i, j)
Shows(R, o, p) == \E i: IsFirst(R, ImagesOf(R, o), i) /\ R[i].image = p
SameImages(R, S, o) == /\ ImagesOf(S, o) = ImagesOf(R, o)
                       /\ \A i \in ImagesOf(R, o): S[i] = R[i]

ImageRow(r) == /\ DOMAIN r = {"owner_model", "owner_id", "sequence", "image"}
               /\ r.owner_model \in WithImages /\ r.owner_id \in OwnerId
               /\ r.sequence \in Sequence \union {Images!Last} /\ r.image \in Picture
ImageTable(R) == /\ DOMAIN R \subseteq Nat
                 /\ \A i \in DOMAIN R: ImageRow(R[i])
                 /\ \E b \in Nat: \A i \in DOMAIN R: i <= b

\* Every row is of a model that is installed, and ids stay below a bound.
ImageInd ==
  /\ installed \subseteq WithImages /\ live \subseteq Images!Owner
  /\ single \in [Images!Owner -> Picture \union {None}]
  /\ shown \in [Images!Owner -> Picture \union {None}]
  /\ steps \in 0..MaxSteps["images"]
  /\ ImageTable(rows)
  /\ \A i \in DOMAIN rows: rows[i].owner_model \in installed
  /\ \A o \in live: shown[o] # None => Shows(rows, o, shown[o])

LEMMA LastSequence ==
  ASSUME Images!ImageParameters
  PROVE  /\ Sequence \union {Images!Last} \subseteq Nat
         /\ \A s \in Sequence: s < Images!Last
<1>1. PICK most \in Sequence: \A s \in Sequence: s <= most
  BY DEF Images!ImageParameters
<1> DEFINE greatest == Images!Max(Sequence)
<1>2. greatest \in Sequence /\ \A s \in Sequence: greatest >= s
  <2>1. \E x \in Sequence: \A y \in Sequence: x >= y
    BY <1>1 DEF Images!ImageParameters
  <2> QED BY <2>1, Zenon DEF Images!Max
<1>3. Images!Last = 1 + greatest
  BY DEF Images!Last
<1> HIDE DEF greatest
<1> QED BY <1>2, <1>3 DEF Images!ImageParameters

\* A new id is not one of a row, nor are those after it.
LEMMA ImageIds ==
  ASSUME ImageTable(rows)
  PROVE  Images!NewId \in Nat /\ \A i \in DOMAIN rows: i < Images!NewId
<1>1. CASE DOMAIN rows = {}
  BY <1>1 DEF Images!NewId
<1>2. CASE DOMAIN rows # {}
  <2>1. PICK m \in DOMAIN rows: \A i \in DOMAIN rows: i <= m
    BY <1>2, LargestOfBounded DEF ImageTable
  <2>2. \E x \in DOMAIN rows: \A y \in DOMAIN rows: x >= y
    BY <2>1 DEF ImageTable
  <2>3. Images!Max(DOMAIN rows) \in DOMAIN rows
        /\ \A i \in DOMAIN rows: Images!Max(DOMAIN rows) >= i
    BY <2>2, Zenon DEF Images!Max
  <2>4. Images!NewId = 1 + Images!Max(DOMAIN rows)
    BY <1>2, Zenon DEF Images!NewId
  <2> HIDE DEF Images!Max
  <2> QED BY <2>3, <2>4 DEF ImageTable
<1> QED BY <1>1, <1>2

\* Images that there are have a first, and only one.
LEMMA FirstImage ==
  ASSUME Images!ImageParameters, NEW R, ImageTable(R), NEW I \in SUBSET DOMAIN R, I # {}
  PROVE  \E i: IsFirst(R, I, i)
<1> DEFINE seqs == {s \in Nat: \E i \in I: R[i].sequence = s}
<1>1. \A i \in I: i \in Nat /\ R[i].sequence \in Nat
  BY LastSequence DEF ImageTable, ImageRow
<1>2. PICK s \in seqs: \A t \in seqs: s <= t
  <2>1. seqs \in SUBSET Nat /\ seqs # {}
    BY <1>1
  <2> QED BY <2>1, SmallestOfNat
<1> DEFINE ids == {i \in I: R[i].sequence = s}
<1>3. PICK i \in ids: \A j \in ids: i <= j
  <2>1. ids \in SUBSET Nat /\ ids # {}
    BY <1>1, <1>2
  <2> QED BY <2>1, SmallestOfNat
<1>4. ASSUME NEW j \in I PROVE Sorts(R, i, j)
  <2>1. R[j].sequence \in seqs
    BY <1>1
  <2>2. s <= R[j].sequence /\ R[i].sequence = s /\ s \in Nat /\ R[j].sequence \in Nat
    BY <1>1, <1>2, <1>3, <2>1
  <2>3. R[j].sequence = s => i <= j
    BY <1>3
  <2> QED BY <2>2, <2>3 DEF Sorts
<1> QED BY <1>3, <1>4 DEF IsFirst

LEMMA OnlyFirst ==
  ASSUME Images!ImageParameters, NEW R, ImageTable(R), NEW I \in SUBSET DOMAIN R,
         NEW i, NEW j, IsFirst(R, I, i), IsFirst(R, I, j)
  PROVE  i = j
<1>1. i \in Nat /\ j \in Nat /\ R[i].sequence \in Nat /\ R[j].sequence \in Nat
  BY LastSequence DEF ImageTable, ImageRow, IsFirst
<1>2. Sorts(R, i, j) /\ Sorts(R, j, i)
  BY DEF IsFirst
<1> QED BY <1>1, <1>2 DEF Sorts

\* The first image that the code finds is the first of ImagesOf.
LEMMA FirstOfOwner ==
  ASSUME Images!ImageParameters, ImageTable(rows), NEW o, Images!image_ids(o) # {}
  PROVE  /\ Images!image_ids(o) = ImagesOf(rows, o)
         /\ IsFirst(rows, ImagesOf(rows, o), Images!First(Images!image_ids(o)))
<1>1. Images!image_ids(o) = ImagesOf(rows, o)
  BY DEF Images!image_ids, ImagesOf
<1> DEFINE I == ImagesOf(rows, o)
<1>2. \E i: IsFirst(rows, I, i)
  <2>1. I \in SUBSET DOMAIN rows
    BY DEF ImagesOf
  <2> QED BY <1>1, <2>1, FirstImage
<1>3. \A i, j: Images!Before(i, j) <=> Sorts(rows, i, j)
  BY DEF Images!Before, Sorts
<1> HIDE DEF I
<1>4. \E i \in I: \A j \in I: Images!Before(i, j)
  BY <1>2, <1>3 DEF IsFirst
<1>5. Images!First(I) \in I /\ \A j \in I: Images!Before(Images!First(I), j)
  BY <1>4, Zenon DEF Images!First
<1>6. IsFirst(rows, I, Images!First(I))
  BY <1>3, <1>5 DEF IsFirst
<1> QED BY <1>1, <1>6 DEF I

LEMMA ImageIndMeans ==
  ASSUME Images!ImageParameters, ImageInd
  PROVE  Images!MainIsLastWritten
<1> SUFFICES ASSUME NEW o \in live, shown[o] # None
             PROVE  Images!image_1920(o) = shown[o]
  BY DEF Images!MainIsLastWritten
<1>1. PICK i: IsFirst(rows, ImagesOf(rows, o), i) /\ rows[i].image = shown[o]
  BY DEF ImageInd, Shows
<1>2. Images!image_ids(o) # {}
  BY <1>1 DEF Images!image_ids, ImagesOf, IsFirst
<1>3. Images!First(Images!image_ids(o)) = i
  <2>1. IsFirst(rows, ImagesOf(rows, o), Images!First(Images!image_ids(o)))
    BY <1>2, FirstOfOwner DEF ImageInd
  <2>2. ImagesOf(rows, o) \in SUBSET DOMAIN rows
    BY DEF ImagesOf
  <2> QED BY <1>1, <2>1, <2>2, OnlyFirst DEF ImageInd
<1> QED BY <1>1, <1>2, <1>3 DEF Images!image_1920

\* What has the same images shows the same.
LEMMA StillShows ==
  ASSUME NEW R, NEW S, NEW o, NEW p, SameImages(R, S, o), Shows(R, o, p)
  PROVE  Shows(S, o, p)
BY DEF Shows, IsFirst, SameImages, Sorts

LEMMA ImageInit == ASSUME Images!ImageParameters, Images!Init PROVE ImageInd
<1>1. DOMAIN rows = {}
  BY DEF Images!Init, Images!Empty
<1>2. ImageTable(rows)
  BY <1>1 DEF ImageTable
<1>3. 0 \in 0..MaxSteps["images"]
  BY DEF Images!ImageParameters
<1> QED BY <1>1, <1>2, <1>3 DEF Images!Init, ImageInd

\* Every operation keeps the images of a record that it does not touch, and
\* shows or forgets the main image of the one it does.
LEMMA ImageStepKeeps ==
  ASSUME Images!ImageParameters, ImageInd, Images!Step,
         installed' \subseteq WithImages, live' \subseteq live,
         single' \in [Images!Owner -> Picture \union {None}],
         shown' \in [Images!Owner -> Picture \union {None}],
         ImageTable(rows'),
         \A i \in DOMAIN rows': rows'[i].owner_model \in installed',
         \A o \in live': \/ shown'[o] = None
                         \/ Shows(rows', o, shown'[o])
                         \/ shown'[o] = shown[o] /\ SameImages(rows, rows', o)
  PROVE  ImageInd'
<1>1. ASSUME NEW o \in live', shown'[o] # None PROVE Shows(rows', o, shown'[o])
  <2>1. CASE shown'[o] = shown[o] /\ SameImages(rows, rows', o)
    <3>1. Shows(rows, o, shown[o])
      BY <1>1, <2>1 DEF ImageInd
    <3>2. Shows(rows', o, shown[o])
      BY <3>1, <2>1, StillShows
    <3> QED BY <2>1, <3>2
  <2> QED BY <1>1, <2>1
<1>2. steps' \in 0..MaxSteps["images"]
  BY DEF ImageInd, Images!Step, Images!ImageParameters
<1>3. (\A o \in live: shown[o] # None => Shows(rows, o, shown[o]))'
  BY <1>1 DEF Shows, IsFirst, ImagesOf, Sorts
<1>4. ImageTable(rows)'
  BY DEF ImageTable, ImageRow
<1>5. live' \subseteq Images!Owner
  BY DEF ImageInd
<1> QED BY <1>2, <1>3, <1>4, <1>5 DEF ImageInd

\* Tables without some images, and with one more.
LEMMA RemovedImages ==
  ASSUME ImageTable(rows), NEW I, NEW o, I \intersect ImagesOf(rows, o) = {}
  PROVE  SameImages(rows, Images!Without(I), o)
BY DEF SameImages, ImagesOf, Images!Without

LEMMA WithoutTable ==
  ASSUME ImageTable(rows), NEW I
  PROVE  /\ ImageTable(Images!Without(I))
         /\ \A i \in DOMAIN Images!Without(I): /\ i \in DOMAIN rows /\ i \notin I
                                               /\ Images!Without(I)[i] = rows[i]
<1>1. /\ DOMAIN Images!Without(I) = DOMAIN rows \ I
      /\ \A i \in DOMAIN rows \ I: Images!Without(I)[i] = rows[i]
  BY DEF Images!Without
<1> QED BY <1>1 DEF ImageTable

NewRow(o, p) == [owner_model |-> o[1], owner_id |-> o[2], sequence |-> DefaultSequence, image |-> p]

LEMMA AddedImage ==
  ASSUME Images!ImageParameters, ImageInd,
         NEW o \in Images!Owner, o[1] \in installed, NEW p \in Picture,
         NEW R, R = [i \in DOMAIN rows \union {Images!NewId} |->
                       IF i = Images!NewId THEN NewRow(o, p) ELSE rows[i]]
  PROVE  /\ ImageTable(R)
         /\ \A i \in DOMAIN R: R[i].owner_model \in installed
         /\ \A q \in Images!Owner: q # o => SameImages(rows, R, q)
         /\ ImagesOf(rows, o) = {} => Shows(R, o, p)
<1> DEFINE n == Images!NewId
<1>1. n \in Nat /\ \A i \in DOMAIN rows: i < n
  BY ImageIds DEF ImageInd
<1>2. /\ DOMAIN R = DOMAIN rows \union {n} /\ R[n] = NewRow(o, p)
      /\ \A i \in DOMAIN rows: R[i] = rows[i]
  BY <1>1 DEF ImageInd, ImageTable
<1>3. ImageRow(NewRow(o, p))
  BY DEF ImageRow, NewRow, Images!Owner, Images!ImageParameters
<1> HIDE DEF n
<1>4. ImageTable(R)
  <2>1. \A i \in DOMAIN R: i \in Nat /\ ImageRow(R[i]) /\ i <= n
    BY <1>1, <1>2, <1>3 DEF ImageInd, ImageTable
  <2> QED BY <1>1, <2>1 DEF ImageTable
<1>5. \A i \in DOMAIN R: R[i].owner_model \in installed
  BY <1>2 DEF ImageInd, NewRow
<1>6. ASSUME NEW q \in Images!Owner, q # o PROVE SameImages(rows, R, q)
  <2>1. ~(R[n].owner_model = q[1] /\ R[n].owner_id = q[2])
    BY <1>2, <1>6 DEF NewRow, Images!Owner
  <2> QED BY <1>2, <2>1 DEF SameImages, ImagesOf
<1>7. ASSUME ImagesOf(rows, o) = {} PROVE Shows(R, o, p)
  <2>1. ImagesOf(R, o) = {n}
    BY <1>2, <1>7 DEF ImagesOf, NewRow
  <2>2. Sorts(R, n, n)
    BY <1>1 DEF Sorts
  <2>3. R[n].image = p
    BY <1>2 DEF NewRow
  <2> QED BY <2>1, <2>2, <2>3 DEF Shows, IsFirst
<1> QED BY <1>4, <1>5, <1>6, <1>7

\* What one field of one image is changed to.
LEMMA ChangedImage ==
  ASSUME ImageInd, NEW o \in Images!Owner, NEW k \in ImagesOf(rows, o),
         NEW R, DOMAIN R = DOMAIN rows, \A i \in DOMAIN rows: i # k => R[i] = rows[i],
         ImageRow(R[k]), R[k].owner_model = rows[k].owner_model
  PROVE  /\ ImageTable(R)
         /\ \A i \in DOMAIN R: R[i].owner_model \in installed
         /\ \A q \in Images!Owner: q # o /\ R[k].owner_id = rows[k].owner_id => SameImages(rows, R, q)
<1>1. ImageTable(R)
  BY DEF ImageInd, ImageTable
<1>2. \A i \in DOMAIN R: R[i].owner_model \in installed
  BY DEF ImageInd, ImagesOf
<1>3. ASSUME NEW q \in Images!Owner, q # o, R[k].owner_id = rows[k].owner_id
      PROVE  SameImages(rows, R, q)
  <2>1. ~(rows[k].owner_model = q[1] /\ rows[k].owner_id = q[2])
    BY <1>3 DEF ImagesOf, Images!Owner
  <2> QED BY <1>3, <2>1 DEF SameImages, ImagesOf
<1> QED BY <1>1, <1>2, <1>3

\* The owner o is changed in shown, the others keep theirs.
LEMMA ShownSet ==
  ASSUME ImageInd, NEW o, NEW p \in Picture \union {None}, shown' = [shown EXCEPT ![o] = p]
  PROVE  /\ shown' \in [Images!Owner -> Picture \union {None}]
         /\ o \in Images!Owner => shown'[o] = p
         /\ \A q \in Images!Owner: q # o => shown'[q] = shown[q]
BY DEF ImageInd

LEMMA ImageWrite ==
  ASSUME Images!ImageParameters, ImageInd, NEW o \in Images!Owner, NEW p \in Picture \union {None},
         Images!set_multi_image(o, p)
  PROVE  ImageInd'
<1> DEFINE ids == Images!image_ids(o)
           first == Images!First(ids)
<1>1. /\ Images!Step /\ o[1] \in installed /\ o \in live
      /\ shown' = [shown EXCEPT ![o] = p] /\ UNCHANGED <<installed, live, single>>
  BY Zenon DEF Images!set_multi_image
<1>2. /\ shown' \in [Images!Owner -> Picture \union {None}] /\ shown'[o] = p
      /\ \A q \in Images!Owner: q # o => shown'[q] = shown[q]
  BY <1>1, ShownSet
<1>3. /\ installed' \subseteq WithImages /\ live' \subseteq live /\ live' \subseteq Images!Owner
      /\ single' \in [Images!Owner -> Picture \union {None}]
  BY <1>1 DEF ImageInd
<1>4. ids = ImagesOf(rows, o)
  BY DEF Images!image_ids, ImagesOf
<1>5. ids # {} => IsFirst(rows, ids, first)
  BY <1>4, FirstOfOwner DEF ImageInd
<1>6. rows' = CASE p # None /\ ids # {} -> [rows EXCEPT ![first].image = p]
                [] p # None /\ ids = {} ->
                     [i \in DOMAIN rows \union {Images!NewId} |->
                        IF i = Images!NewId THEN NewRow(o, p) ELSE rows[i]]
                [] p = None /\ ids # {} -> Images!Without({first})
                [] OTHER -> rows
  BY DEF Images!set_multi_image, NewRow
<1> HIDE DEF ids, first
<1> SUFFICES /\ ImageTable(rows')
             /\ \A i \in DOMAIN rows': rows'[i].owner_model \in installed'
             /\ \A q \in Images!Owner: q # o => SameImages(rows, rows', q)
             /\ p = None \/ Shows(rows', o, p)
  <2>1. \A q \in live': \/ shown'[q] = None
                        \/ Shows(rows', q, shown'[q])
                        \/ shown'[q] = shown[q] /\ SameImages(rows, rows', q)
    BY <1>2, <1>3
  <2> QED BY <1>1, <1>2, <1>3, <2>1, ImageStepKeeps
<1>7. CASE p # None /\ ids # {}
  <2>1. rows' = [rows EXCEPT ![first].image = p]
    BY <1>6, <1>7
  <2>2. first \in DOMAIN rows /\ first \in ids /\ p \in Picture
    BY <1>4, <1>5, <1>7 DEF IsFirst, ImagesOf
  <2>3. ImageRow(rows[first])
    BY <2>2 DEF ImageInd, ImageTable
  <2>4. /\ DOMAIN rows' = DOMAIN rows /\ \A i \in DOMAIN rows: i # first => rows'[i] = rows[i]
        /\ ImageRow(rows'[first])
        /\ rows'[first].owner_model = rows[first].owner_model
        /\ rows'[first].owner_id = rows[first].owner_id
        /\ rows'[first].sequence = rows[first].sequence /\ rows'[first].image = p
    BY <2>1, <2>2, <2>3 DEF ImageRow
  <2>5. /\ ImageTable(rows') /\ \A i \in DOMAIN rows': rows'[i].owner_model \in installed
        /\ \A q \in Images!Owner: q # o => SameImages(rows, rows', q)
    BY <1>4, <2>2, <2>4, ChangedImage
  <2>6. ImagesOf(rows', o) = ids
    BY <1>4, <2>4 DEF ImagesOf
  <2>7. \A j \in ids: Sorts(rows', first, j)
    <3>1. \A j \in ids: j \in DOMAIN rows
      BY <1>4 DEF ImagesOf
    <3>2. \A j \in ids: Sorts(rows, first, j)
      BY <1>5, <1>7 DEF IsFirst
    <3>3. \A j \in DOMAIN rows: rows'[j].sequence = rows[j].sequence
      BY <2>4
    <3> QED BY <2>2, <3>1, <3>2, <3>3 DEF Sorts
  <2>8. Shows(rows', o, p)
    BY <2>2, <2>4, <2>6, <2>7 DEF Shows, IsFirst
  <2> QED BY <1>1, <2>5, <2>8
<1>8. CASE p # None /\ ids = {}
  <2> DEFINE R == [i \in DOMAIN rows \union {Images!NewId} |->
                    IF i = Images!NewId THEN NewRow(o, p) ELSE rows[i]]
  <2>1. rows' = R
    BY <1>6, <1>8
  <2>2. p \in Picture /\ ImagesOf(rows, o) = {}
    BY <1>4, <1>8
  <2>3. /\ ImageTable(R) /\ \A i \in DOMAIN R: R[i].owner_model \in installed
        /\ \A q \in Images!Owner: q # o => SameImages(rows, R, q)
        /\ Shows(R, o, p)
    BY <1>1, <2>2, AddedImage
  <2> HIDE DEF R
  <2> QED BY <1>1, <2>1, <2>3
<1>9. CASE p = None /\ ids # {}
  <2>1. rows' = Images!Without({first})
    BY <1>6, <1>9
  <2>2. \A q \in Images!Owner: q # o => SameImages(rows, rows', q)
    <3> SUFFICES ASSUME NEW q \in Images!Owner, q # o PROVE {first} \intersect ImagesOf(rows, q) = {}
      BY <2>1, RemovedImages DEF ImageInd
    <3> QED BY <1>4, <1>5, <1>9 DEF IsFirst, ImagesOf, Images!Owner
  <2>3. /\ ImageTable(rows')
        /\ \A i \in DOMAIN rows': i \in DOMAIN rows /\ rows'[i] = rows[i]
    BY <2>1, WithoutTable DEF ImageInd
  <2>4. \A i \in DOMAIN rows': rows'[i].owner_model \in installed'
    BY <1>1, <2>3 DEF ImageInd
  <2> QED BY <1>9, <2>2, <2>3, <2>4
<1>10. CASE p = None /\ ids = {}
  BY <1>1, <1>6, <1>10 DEF ImageInd, SameImages, ImagesOf
<1> QED BY <1>7, <1>8, <1>9, <1>10

\* An edit of the images of o forgets what o shows.
LEMMA ImageEdit ==
  ASSUME Images!ImageParameters, ImageInd, NEW o \in Images!Owner, NEW R, Images!EditImages(o, R),
         ImageTable(R), \A i \in DOMAIN R: R[i].owner_model \in installed,
         \A q \in Images!Owner: q # o => SameImages(rows, R, q)
  PROVE  ImageInd'
<1>1. /\ Images!Step /\ rows' = R /\ Images!Forget({o}) /\ UNCHANGED <<installed, live, single>>
  BY DEF Images!EditImages
<1>2. /\ shown' \in [Images!Owner -> Picture \union {None}] /\ shown'[o] = None
      /\ \A q \in Images!Owner: q # o => shown'[q] = shown[q]
  BY <1>1 DEF Images!Forget, ImageInd
<1>3. \A q \in live': \/ shown'[q] = None
                      \/ Shows(rows', q, shown'[q])
                      \/ shown'[q] = shown[q] /\ SameImages(rows, rows', q)
  BY <1>1, <1>2 DEF ImageInd
<1> QED BY <1>1, <1>2, <1>3, ImageStepKeeps DEF ImageInd

LEMMA ImageAdd ==
  ASSUME Images!ImageParameters, ImageInd, NEW o \in Images!Owner, Images!Add(o) PROVE ImageInd'
<1>1. PICK p \in Picture:
        Images!EditImages(o, [i \in DOMAIN rows \union {Images!NewId} |->
                                IF i = Images!NewId THEN NewRow(o, p) ELSE rows[i]])
  BY DEF Images!Add, NewRow
<1> DEFINE R == [i \in DOMAIN rows \union {Images!NewId} |->
                   IF i = Images!NewId THEN NewRow(o, p) ELSE rows[i]]
<1>2. o[1] \in installed /\ Images!EditImages(o, R)
  BY <1>1 DEF Images!EditImages
<1>3. /\ ImageTable(R) /\ \A i \in DOMAIN R: R[i].owner_model \in installed
      /\ \A q \in Images!Owner: q # o => SameImages(rows, R, q)
  BY <1>2, AddedImage
<1> HIDE DEF R
<1> QED BY <1>2, <1>3, ImageEdit

LEMMA ImageMove ==
  ASSUME Images!ImageParameters, ImageInd, NEW o \in Images!Owner, Images!Move(o) PROVE ImageInd'
<1>1. PICK k \in ImagesOf(rows, o), s \in Sequence:
        Images!EditImages(o, [rows EXCEPT ![k].sequence = s])
  BY DEF Images!Move, Images!image_ids, ImagesOf
<1> DEFINE R == [rows EXCEPT ![k].sequence = s]
<1>2. k \in DOMAIN rows /\ ImageRow(rows[k])
  BY DEF ImagesOf, ImageInd, ImageTable
<1>3. /\ DOMAIN R = DOMAIN rows /\ \A i \in DOMAIN rows: i # k => R[i] = rows[i]
      /\ ImageRow(R[k]) /\ R[k].owner_model = rows[k].owner_model /\ R[k].owner_id = rows[k].owner_id
  BY <1>2 DEF ImageRow
<1>4. Images!EditImages(o, R)
  BY <1>1
<1> HIDE DEF R
<1>5. /\ ImageTable(R) /\ \A i \in DOMAIN R: R[i].owner_model \in installed
      /\ \A q \in Images!Owner: q # o => SameImages(rows, R, q)
  BY <1>3, ChangedImage
<1> QED BY <1>4, <1>5, ImageEdit

LEMMA ImageRemove ==
  ASSUME Images!ImageParameters, ImageInd, NEW o \in Images!Owner, Images!Remove(o) PROVE ImageInd'
<1>1. PICK k \in ImagesOf(rows, o): Images!EditImages(o, Images!Without({k}))
  BY DEF Images!Remove, Images!image_ids, ImagesOf
<1>2. ASSUME NEW q \in Images!Owner, q # o PROVE SameImages(rows, Images!Without({k}), q)
  <2>1. {k} \intersect ImagesOf(rows, q) = {}
    BY <1>2 DEF ImagesOf, Images!Owner
  <2> QED BY <2>1, RemovedImages DEF ImageInd
<1>3. /\ ImageTable(Images!Without({k}))
      /\ \A i \in DOMAIN Images!Without({k}): Images!Without({k})[i].owner_model \in installed
  BY WithoutTable DEF ImageInd
<1> QED BY <1>1, <1>2, <1>3, ImageEdit

LEMMA ImageUnlink ==
  ASSUME Images!ImageParameters, ImageInd, NEW o \in Images!Owner, NEW bypass \in BOOLEAN,
         Images!unlink(o, bypass)
  PROVE  ImageInd'
<1>1. /\ Images!Step /\ live' = live \ {o} /\ single' = [single EXCEPT ![o] = None]
      /\ Images!Forget({o}) /\ UNCHANGED installed
      /\ rows' = Images!Without(ImagesOf(rows, o)) \/ rows' = rows
  BY DEF Images!unlink, Images!Removed, Images!image_ids, ImagesOf
<1>2. /\ shown' \in [Images!Owner -> Picture \union {None}]
      /\ \A q \in Images!Owner: q # o => shown'[q] = shown[q]
  BY <1>1 DEF Images!Forget, ImageInd
<1>3. single' \in [Images!Owner -> Picture \union {None}]
  BY <1>1 DEF ImageInd
<1>4. /\ ImageTable(rows')
      /\ \A i \in DOMAIN rows': i \in DOMAIN rows /\ rows'[i] = rows[i]
      /\ \A q \in Images!Owner: q # o => SameImages(rows, rows', q)
  <2>1. CASE rows' = rows
    BY <2>1 DEF ImageInd, SameImages
  <2>2. CASE rows' = Images!Without(ImagesOf(rows, o))
    <3>1. ASSUME NEW q \in Images!Owner, q # o PROVE SameImages(rows, rows', q)
      <4>1. ImagesOf(rows, o) \intersect ImagesOf(rows, q) = {}
        BY <3>1 DEF ImagesOf, Images!Owner
      <4> QED BY <2>2, <4>1, RemovedImages DEF ImageInd
    <3> QED BY <2>2, <3>1, WithoutTable DEF ImageInd
  <2> QED BY <1>1, <2>1, <2>2
<1>5. \A i \in DOMAIN rows': rows'[i].owner_model \in installed'
  BY <1>1, <1>4 DEF ImageInd
<1>6. /\ installed' \subseteq WithImages /\ live' \subseteq live /\ live' \subseteq Images!Owner
  BY <1>1 DEF ImageInd
<1>7. \A q \in live': shown'[q] = shown[q] /\ SameImages(rows, rows', q)
  BY <1>1, <1>2, <1>4, <1>6
<1> QED BY <1>1, <1>2, <1>3, <1>4, <1>5, <1>6, <1>7, ImageStepKeeps

\* Instances define the cardinality as the standard module does.
LEMMA FiniteOwners ==
  ASSUME Images!ImageParameters
  PROVE  IsFiniteSet(OwnerId) /\ Images!Cardinality(OwnerId) = Cardinality(OwnerId)
<1>1. IsFiniteSet(OwnerId)
  BY DEF Images!ImageParameters, Images!IsFiniteSet, IsFiniteSet
<1>2. Images!Cardinality(OwnerId) = Cardinality(OwnerId)
  BY DEF Images!Cardinality, Cardinality
<1> QED BY <1>1, <1>2

\* The hook inserts rows of a model that had none: the image of a record is the
\* only one.
LEMMA ImageInstall ==
  ASSUME Images!ImageParameters, ImageInd, NEW m \in WithImages, Images!pre_init_hook(m)
  PROVE  ImageInd'
<1> DEFINE with == {o \in Images!OfModel(m) \intersect live: single[o] # None}
           N == Images!Cardinality(OwnerId)
<1>1. /\ Images!Step /\ m \notin installed /\ installed' = installed \union {m}
      /\ UNCHANGED <<live, single>>
      /\ shown' = [o \in Images!Owner |-> IF o \in Images!OfModel(m) /\ o \in live THEN single[o]
                                          ELSE shown[o]]
  BY DEF Images!pre_init_hook
<1>2. PICK id \in [with -> {Images!NewId + k: k \in 0..N}]:
        /\ \A o, p \in with: o # p => id[o] # id[p]
        /\ rows' = [i \in DOMAIN rows \union {id[o]: o \in with} |->
                      IF i \in DOMAIN rows THEN rows[i]
                      ELSE LET o == CHOOSE o \in with: id[o] = i IN
                           [owner_model |-> m, owner_id |-> o[2], sequence |-> Images!Last,
                            image |-> single[o]]]
  BY Zenon DEF Images!pre_init_hook
<1>3. N \in Nat
  BY FiniteOwners, FS_CardinalityType
<1> HIDE DEF N
<1>4. \A o \in with: /\ o \in live /\ o \in Images!Owner /\ o[1] = m /\ o[2] \in OwnerId
                     /\ single[o] \in Picture /\ o = <<m, o[2]>>
  BY DEF Images!OfModel, Images!Owner, ImageInd
<1>5. \A o \in with: id[o] \in Nat /\ id[o] \notin DOMAIN rows /\ id[o] <= Images!NewId + N
  <2> SUFFICES ASSUME NEW o \in with
               PROVE  id[o] \in Nat /\ id[o] \notin DOMAIN rows /\ id[o] <= Images!NewId + N
    OBVIOUS
  <2>1. PICK k \in 0..N: id[o] = Images!NewId + k
    BY <1>2
  <2>2. Images!NewId \in Nat /\ \A i \in DOMAIN rows: i < Images!NewId
    BY ImageIds DEF ImageInd
  <2>3. id[o] \in Nat /\ Images!NewId <= id[o] /\ id[o] <= Images!NewId + N
    BY <1>3, <2>1, <2>2
  <2>4. id[o] \notin DOMAIN rows
    BY <2>2, <2>3 DEF ImageInd, ImageTable
  <2> QED BY <2>3, <2>4
<1> HIDE DEF with
<1>6. /\ DOMAIN rows' = DOMAIN rows \union {id[o]: o \in with}
      /\ \A i \in DOMAIN rows: rows'[i] = rows[i]
  BY <1>2
<1>7. ASSUME NEW o \in with
      PROVE  rows'[id[o]] = [owner_model |-> m, owner_id |-> o[2], sequence |-> Images!Last,
                             image |-> single[o]]
  <2>1. (CHOOSE p \in with: id[p] = id[o]) = o
    <3>1. \A p \in with: id[p] = id[o] => p = o
      BY <1>2
    <3> QED BY <3>1
  <2>2. id[o] \in DOMAIN rows \union {id[p]: p \in with} /\ id[o] \notin DOMAIN rows
    BY <1>5
  <2> QED BY <1>2, <2>1, <2>2, Zenon
<1>8. \A o \in with: /\ ImageRow(rows'[id[o]]) /\ rows'[id[o]].owner_model = m
                     /\ rows'[id[o]].owner_id = o[2] /\ rows'[id[o]].image = single[o]
  <2> SUFFICES ASSUME NEW o \in with
               PROVE  /\ ImageRow(rows'[id[o]]) /\ rows'[id[o]].owner_model = m
                      /\ rows'[id[o]].owner_id = o[2] /\ rows'[id[o]].image = single[o]
    OBVIOUS
  <2> DEFINE r == [owner_model |-> m, owner_id |-> o[2], sequence |-> Images!Last,
                   image |-> single[o]]
  <2>1. o[2] \in OwnerId /\ single[o] \in Picture
    BY <1>4
  <2>2. /\ DOMAIN r = {"owner_model", "owner_id", "sequence", "image"}
        /\ r.owner_model = m /\ r.owner_id = o[2] /\ r.sequence = Images!Last /\ r.image = single[o]
    OBVIOUS
  <2>3. rows'[id[o]] = r
    BY <1>7
  <2> HIDE DEF r
  <2> QED BY <2>1, <2>2, <2>3 DEF ImageRow
<1>9. ImageTable(rows')
  <2>1. \A i \in DOMAIN rows': i \in Nat /\ ImageRow(rows'[i])
    BY <1>5, <1>6, <1>8 DEF ImageInd, ImageTable
  <2>2. Images!NewId \in Nat /\ \A i \in DOMAIN rows: i < Images!NewId
    BY ImageIds DEF ImageInd
  <2>3. \A i \in DOMAIN rows': i <= Images!NewId + N
    BY <1>3, <1>5, <1>6, <2>1, <2>2
  <2> QED BY <1>3, <2>1, <2>2, <2>3 DEF ImageTable
<1>10. \A i \in DOMAIN rows': rows'[i].owner_model \in installed'
  BY <1>1, <1>6, <1>8 DEF ImageInd
<1>11. ASSUME NEW q \in live', q[1] = m
       PROVE  shown'[q] = None \/ Shows(rows', q, shown'[q])
  <2>1. shown'[q] = single[q] /\ q \in live /\ q \in Images!Owner
    BY <1>1, <1>11 DEF ImageInd, Images!OfModel
  <2>2. CASE single[q] # None
    <3>1. q \in with
      BY <1>11, <2>1, <2>2 DEF with, Images!OfModel
    <3>2. ImagesOf(rows', q) = {id[q]}
      <4>1. \A i \in DOMAIN rows: i \notin ImagesOf(rows', q)
        BY <1>1, <1>6, <1>11 DEF ImagesOf, ImageInd
      <4>2. \A o \in with: o[2] = q[2] => o = q
        BY <1>4, <3>1
      <4>3. \A o \in with: id[o] \in ImagesOf(rows', q) <=> o = q
        BY <1>6, <1>8, <1>11, <4>2 DEF ImagesOf
      <4> QED BY <1>6, <3>1, <4>1, <4>3 DEF ImagesOf
    <3>3. id[q] \in Nat /\ rows'[id[q]].image = single[q]
      BY <1>5, <1>8, <3>1
    <3>4. Sorts(rows', id[q], id[q])
      BY <3>3 DEF Sorts
    <3> QED BY <2>1, <3>2, <3>3, <3>4 DEF Shows, IsFirst
  <2> QED BY <2>1, <2>2
<1>12. ASSUME NEW q \in live', q[1] # m
       PROVE  shown'[q] = shown[q] /\ SameImages(rows, rows', q)
  <2>1. q \in Images!Owner /\ q \notin Images!OfModel(m)
    BY <1>1, <1>12 DEF ImageInd, Images!OfModel
  <2>2. shown'[q] = shown[q]
    BY <1>1, <2>1
  <2>3. \A o \in with: id[o] \notin ImagesOf(rows', q)
    BY <1>8, <1>12 DEF ImagesOf
  <2> QED BY <1>6, <2>2, <2>3 DEF SameImages, ImagesOf
<1>13. shown' \in [Images!Owner -> Picture \union {None}]
  BY <1>1 DEF ImageInd
<1>14. /\ installed' \subseteq WithImages /\ live' \subseteq live
       /\ single' \in [Images!Owner -> Picture \union {None}]
  BY <1>1 DEF ImageInd
<1> QED BY <1>1, <1>9, <1>10, <1>11, <1>12, <1>13, <1>14, ImageStepKeeps

LEMMA ImageUninstall ==
  ASSUME Images!ImageParameters, ImageInd, NEW m \in WithImages, Images!uninstall_hook(m)
  PROVE  ImageInd'
<1> DEFINE I == {i \in DOMAIN rows: rows[i].owner_model = m}
<1>1. /\ Images!Step /\ installed' = installed \ {m} /\ rows' = Images!Without(I)
      /\ Images!Forget(Images!OfModel(m)) /\ UNCHANGED <<live, single>>
  BY DEF Images!uninstall_hook
<1>2. /\ shown' \in [Images!Owner -> Picture \union {None}]
      /\ \A q \in Images!Owner: IF q[1] = m THEN shown'[q] = None ELSE shown'[q] = shown[q]
  BY <1>1 DEF Images!Forget, ImageInd, Images!OfModel
<1>3. /\ ImageTable(rows')
      /\ \A i \in DOMAIN rows': i \in DOMAIN rows /\ i \notin I /\ rows'[i] = rows[i]
  BY <1>1, WithoutTable DEF ImageInd
<1>4. ASSUME NEW q, q[1] # m PROVE SameImages(rows, rows', q)
  <2>1. I \intersect ImagesOf(rows, q) = {}
    BY <1>4 DEF ImagesOf
  <2> HIDE DEF I
  <2> QED BY <1>1, <2>1, RemovedImages DEF ImageInd
<1>5. \A i \in DOMAIN rows': rows'[i].owner_model \in installed'
  BY <1>1, <1>3 DEF ImageInd
<1>6. /\ installed' \subseteq WithImages /\ live' \subseteq live /\ live' \subseteq Images!Owner
      /\ single' \in [Images!Owner -> Picture \union {None}]
  BY <1>1 DEF ImageInd
<1>7. \A q \in live': shown'[q] = None \/ (shown'[q] = shown[q] /\ SameImages(rows, rows', q))
  BY <1>2, <1>4, <1>6
<1> QED BY <1>1, <1>2, <1>3, <1>5, <1>6, <1>7, ImageStepKeeps

LEMMA ImageStep ==
  ASSUME Images!ImageParameters, ImageInd, Images!Next \/ UNCHANGED Images!vars PROVE ImageInd'
<1>1. CASE UNCHANGED Images!vars
  BY <1>1 DEF Images!vars, ImageInd, ImageTable, ImageRow, Shows, IsFirst, ImagesOf, Sorts
<1>2. CASE Images!Next
  BY <1>2, ImageWrite, ImageAdd, ImageMove, ImageRemove, ImageUnlink, ImageInstall, ImageUninstall
     DEF Images!Next
<1> QED BY <1>1, <1>2

\* The rows of the table.
LEMMA ImageTypes ==
  ASSUME Images!ImageParameters, ImageInd, ImageInd', Images!TypeOK, Images!Next \/ UNCHANGED Images!vars
  PROVE Images!TypeOK'
<1> DEFINE Typed(R) == \A i \in DOMAIN R: R[i] \in Images!Row
           Added(o, s, p) == [owner_model |-> o[1], owner_id |-> o[2], sequence |-> s, image |-> p]
<1>1. Typed(rows) /\ \A o \in Images!Owner: single[o] \in Picture \union {None}
  BY DEF Images!TypeOK
<1>2. SUFFICES Typed(rows')
  BY DEF ImageInd, ImageTable, Images!TypeOK
<1>3. ASSUME NEW o \in Images!Owner, NEW s \in Sequence \union {Images!Last}, NEW p \in Picture
      PROVE Added(o, s, p) \in Images!Row
  BY DEF Images!Owner, Images!Row
<1>4. ASSUME NEW I PROVE Typed(Images!Without(I))
  BY <1>1 DEF Images!Without
<1>5. DefaultSequence \in Sequence
  BY DEF Images!ImageParameters
<1>6. ASSUME NEW o \in Images!Owner, NEW p \in Picture, NEW n,
             rows' = [i \in DOMAIN rows \union {n} |-> IF i = n THEN Added(o, DefaultSequence, p) ELSE rows[i]]
      PROVE Typed(rows')
  <2> DEFINE r == Added(o, DefaultSequence, p)
  <2>1. r \in Images!Row
    BY <1>3, <1>5
  <2>2. \A i \in DOMAIN rows': rows'[i] = r \/ (i \in DOMAIN rows /\ rows'[i] = rows[i])
    BY <1>6
  <2> HIDE DEF r
  <2> QED BY <1>1, <2>1, <2>2
<1>7. ASSUME NEW o \in Images!Owner, NEW p \in Picture \union {None}, Images!set_multi_image(o, p)
      PROVE Typed(rows')
  <2> DEFINE first == Images!First(Images!image_ids(o))
             n == Images!NewId
  <2>1. \/ p # None /\ rows' = [rows EXCEPT ![first].image = p]
        \/ p # None /\ rows' = [i \in DOMAIN rows \union {n} |-> IF i = n THEN Added(o, DefaultSequence, p) ELSE rows[i]]
        \/ rows' = Images!Without({first})
        \/ rows' = rows
    BY <1>7 DEF Images!set_multi_image
  <2> HIDE DEF first, n
  <2>2. CASE p # None /\ rows' = [rows EXCEPT ![first].image = p]
    <3>1. \A r \in Images!Row: [r EXCEPT !.image = p] \in Images!Row
      BY <2>2 DEF Images!Row
    <3>2. \A i \in DOMAIN rows': i \in DOMAIN rows /\ (rows'[i] = rows[i] \/ rows'[i] = [rows[i] EXCEPT !.image = p])
      BY <2>2
    <3> QED BY <1>1, <3>1, <3>2
  <2> QED BY <1>1, <1>4, <1>6, <2>1, <2>2
<1>8. ASSUME NEW o \in Images!Owner, Images!Add(o) PROVE Typed(rows')
  <2>1. PICK p \in Picture: Images!EditImages(o, [i \in DOMAIN rows \union {Images!NewId} |->
                              IF i = Images!NewId THEN Added(o, DefaultSequence, p) ELSE rows[i]])
    BY <1>8 DEF Images!Add
  <2> DEFINE n == Images!NewId
  <2>2. rows' = [i \in DOMAIN rows \union {n} |-> IF i = n THEN Added(o, DefaultSequence, p) ELSE rows[i]]
    BY <2>1 DEF Images!EditImages
  <2> HIDE DEF n
  <2> QED BY <1>6, <2>2
<1>9. ASSUME NEW o \in Images!Owner, Images!Move(o) PROVE Typed(rows')
  <2>1. PICK i \in Images!image_ids(o), s \in Sequence: rows' = [rows EXCEPT ![i].sequence = s]
    BY <1>9 DEF Images!Move, Images!EditImages
  <2>2. \A r \in Images!Row: [r EXCEPT !.sequence = s] \in Images!Row
    BY DEF Images!Row
  <2>3. \A j \in DOMAIN rows': j \in DOMAIN rows /\ (rows'[j] = rows[j] \/ rows'[j] = [rows[j] EXCEPT !.sequence = s])
    BY <2>1
  <2> QED BY <1>1, <2>2, <2>3
<1>10. ASSUME NEW o \in Images!Owner, Images!Remove(o) PROVE Typed(rows')
  BY <1>4, <1>10 DEF Images!Remove, Images!EditImages
<1>11. ASSUME NEW o \in Images!Owner, NEW bypass \in BOOLEAN, Images!unlink(o, bypass) PROVE Typed(rows')
  BY <1>1, <1>4, <1>11 DEF Images!unlink
<1>12. ASSUME NEW m \in WithImages, Images!pre_init_hook(m) PROVE Typed(rows')
  <2> DEFINE with == {o \in Images!OfModel(m) \intersect live: single[o] # None}
  <2>1. PICK id \in [with -> {Images!NewId + k: k \in 0..Images!Cardinality(OwnerId)}]:
          rows' = [i \in DOMAIN rows \union {id[o]: o \in with} |->
                     IF i \in DOMAIN rows THEN rows[i]
                     ELSE LET o == CHOOSE o \in with: id[o] = i IN
                          [owner_model |-> m, owner_id |-> o[2], sequence |-> Images!Last, image |-> single[o]]]
    BY <1>12 DEF Images!pre_init_hook
  <2>2. \A o \in with: [owner_model |-> m, owner_id |-> o[2], sequence |-> Images!Last, image |-> single[o]]
                         \in Images!Row
    BY <1>1 DEF Images!OfModel, Images!Owner, Images!Row
  <2> HIDE DEF with
  <2>3. ASSUME NEW i \in DOMAIN rows', i \notin DOMAIN rows PROVE rows'[i] \in Images!Row
    <3> DEFINE o == CHOOSE o \in with: id[o] = i
    <3>1. o \in with
      BY <2>1, <2>3
    <3>2. rows'[i] = [owner_model |-> m, owner_id |-> o[2], sequence |-> Images!Last, image |-> single[o]]
      BY <2>1, <2>3
    <3> HIDE DEF o
    <3> QED BY <2>2, <3>1, <3>2
  <2>4. \A i \in DOMAIN rows: i \in DOMAIN rows' => rows'[i] = rows[i]
    BY <2>1
  <2> QED BY <1>1, <2>3, <2>4
<1>13. ASSUME NEW m \in WithImages, Images!uninstall_hook(m) PROVE Typed(rows')
  BY <1>4, <1>13 DEF Images!uninstall_hook
<1>14. CASE UNCHANGED Images!vars
  BY <1>1, <1>14 DEF Images!vars
<1>15. CASE Images!Next
  BY <1>7, <1>8, <1>9, <1>10, <1>11, <1>12, <1>13, <1>15 DEF Images!Next
<1> QED BY <1>14, <1>15

-----------------------------------------------------------------------------
(***************************************************************************)
(* autovacuum_message_attachment: what a run is about to delete was old    *)
(* enough, and days only pass.                                             *)
(***************************************************************************)
\* The record i is old enough for a rule that fits, and was as this asks.
Selectable(i, d, R) ==
  \E r \in DOMAIN Rules: /\ i \in Rules[r].fits /\ d > Born[i] + Rules[r].retention
                         /\ Rules[r].filter => i \in R.passed

\* What a run is about to delete was old enough for a rule, and still is.
VacuumInd ==
  /\ Cleaner!TypeOK
  /\ DOMAIN run = {"on", "seen", "passed", "rules", "todo"}
  /\ run.rules \in Seq({Rules[r]: r \in DOMAIN Rules})
  /\ \A i \in run.todo: Selectable(i, day, run)

LEMMA VacuumInit == ASSUME Cleaner!VacuumParameters, Cleaner!Init PROVE VacuumInd
  BY DEF Cleaner!VacuumParameters, Cleaner!Init, Cleaner!NoRun, VacuumInd, Cleaner!TypeOK

LEMMA VacuumStep ==
  ASSUME Cleaner!VacuumParameters, VacuumInd, Cleaner!Next \/ UNCHANGED Cleaner!vars
  PROVE VacuumInd'
<1> USE DEF VacuumInd, Cleaner!TypeOK
<1>1. CASE Cleaner!autovacuum
  BY <1>1 DEF Cleaner!autovacuum, Cleaner!VacuumParameters
<1>2. CASE Cleaner!NextRule
  <2>1. /\ run.rules # <<>> /\ UNCHANGED <<day, db, passes, stuck, broken, faults>>
        /\ run' = [run EXCEPT !.rules = Tail(run.rules),
                              !.todo = Cleaner!Selected(Head(run.rules), run.seen, run.passed)]
    BY <1>2 DEF Cleaner!NextRule
  <2>2. Head(run.rules) \in {Rules[r]: r \in DOMAIN Rules} /\ Tail(run.rules) \in Seq({Rules[r]: r \in DOMAIN Rules})
    BY <2>1
  <2>3. /\ DOMAIN run' = {"on", "seen", "passed", "rules", "todo"}
        /\ run'.seen = run.seen /\ run'.passed = run.passed /\ run'.rules = Tail(run.rules)
        /\ run'.todo = Cleaner!Selected(Head(run.rules), run.seen, run.passed)
    BY <2>1
  <2>4. PICK r \in DOMAIN Rules: Head(run.rules) = Rules[r]
    BY <2>2
  <2>5. \A i \in run'.todo: i \in run.seen /\ Selectable(i, day, run')
    BY <2>3, <2>4 DEF Cleaner!Selected, Cleaner!Expired, Selectable
  <2> QED
    BY <2>1, <2>2, <2>3, <2>5
<1>3. CASE Cleaner!DeleteBatch
  BY <1>3 DEF Cleaner!DeleteBatch, Selectable
<1>4. CASE Cleaner!BatchFails
  BY <1>4 DEF Cleaner!BatchFails, Cleaner!Failed
<1>5. CASE Cleaner!End
  BY <1>5 DEF Cleaner!End, Cleaner!NoRun
<1>6. CASE Cleaner!NewDay
  <2>1. /\ day < MaxDay["vacuum"] /\ day' = day + 1 /\ UNCHANGED <<passes, stuck, broken, run, faults>>
        /\ db' = db \union {i \in Target: Born[i] = day + 1}
    BY <1>6 DEF Cleaner!NewDay
  <2>2. \A i \in run.todo: Selectable(i, day', run')
    <3> SUFFICES ASSUME NEW i \in run.todo PROVE Selectable(i, day', run')
      OBVIOUS
    <3>1. PICK r \in DOMAIN Rules: i \in Rules[r].fits /\ day > Born[i] + Rules[r].retention
                                   /\ (Rules[r].filter => i \in run.passed)
      BY DEF Selectable
    <3>2. i \in Target /\ Born[i] \in Nat /\ Rules[r].retention \in Nat
      BY DEF Cleaner!VacuumParameters
    <3> QED
      BY <2>1, <3>1, <3>2 DEF Selectable
  <2>3. day' \in 0..MaxDay["vacuum"] /\ db' \subseteq Target
    <3>1. MaxDay["vacuum"] \in Nat /\ day \in 0..MaxDay["vacuum"] /\ db \subseteq Target
      BY DEF Cleaner!VacuumParameters
    <3>2. day' \in 0..MaxDay["vacuum"]
      BY ONLY <2>1, <3>1
    <3> QED
      BY ONLY <2>1, <3>1, <3>2
  <2> QED
    BY <2>1, <2>2, <2>3
<1>7. CASE Cleaner!Crash
  BY <1>7 DEF Cleaner!Crash, Cleaner!NoRun, Cleaner!VacuumParameters
<1>8. ASSUME NEW i \in Target, Cleaner!UserDeletes(i) \/ Cleaner!Edit(i) PROVE VacuumInd'
  BY <1>8 DEF Cleaner!UserDeletes, Cleaner!Edit, Selectable
<1>9. CASE UNCHANGED Cleaner!vars
  BY <1>9 DEF Cleaner!vars, Selectable
<1>10. CASE Cleaner!SearchFails
  BY <1>10 DEF Cleaner!SearchFails, Cleaner!NoRun, Cleaner!VacuumParameters
<1> QED
  BY <1>1, <1>2, <1>3, <1>4, <1>5, <1>6, <1>7, <1>8, <1>9, <1>10 DEF Cleaner!Next, Cleaner!Vacuuming

LEMMA VacuumTakesOld ==
  ASSUME VacuumInd, Cleaner!Next \/ UNCHANGED Cleaner!vars
  PROVE Cleaner!OnlyOldGo
<1> SUFFICES ASSUME NEW i \in db \ db', ~(\E j \in Target: j = i /\ Cleaner!UserDeletes(j))
             PROVE \/ Selectable(i, day, run) \/ Cleaner!UserDeletes(i)
  BY DEF Cleaner!OnlyOldGo, Selectable, Cleaner!TypeOK, VacuumInd
<1> i \in Target
  BY DEF Cleaner!TypeOK, VacuumInd
<1>1. CASE Cleaner!DeleteBatch \/ Cleaner!BatchFails
  BY <1>1 DEF Cleaner!DeleteBatch, Cleaner!BatchFails, Cleaner!Batch, VacuumInd
<1>2. CASE \E j \in Target: Cleaner!UserDeletes(j)
  BY <1>2 DEF Cleaner!UserDeletes
<1> QED
  BY <1>1, <1>2 DEF Cleaner!Next, Cleaner!Vacuuming, Cleaner!autovacuum, Cleaner!NextRule, Cleaner!SearchFails,
     Cleaner!End, Cleaner!NewDay, Cleaner!Crash, Cleaner!Edit, Cleaner!vars

-----------------------------------------------------------------------------
(***************************************************************************)
(* database_size: a measurement that is due was taken and not purged.      *)
(***************************************************************************)
\* Measurements are of days that have come, so that one that is taken away
\* cannot have been due before.
SizeInd ==
  /\ day \in 1..MaxDay["size"] /\ conf \in Settings
  /\ DOMAIN taken \subseteq 1..day /\ DOMAIN sizes \subseteq DOMAIN taken
  /\ Size!KeptForRetention

LEMMA SizeInit ==
  ASSUME Size!DatabaseSizeParameters, Size!Init PROVE SizeInd
  BY DEF Size!DatabaseSizeParameters, Size!Init, Size!NoDays, SizeInd, Size!KeptForRetention

LEMMA SizeStep ==
  ASSUME Size!DatabaseSizeParameters, SizeInd, Size!Next \/ UNCHANGED Size!vars
  PROVE SizeInd'
<1> /\ MaxDay["size"] \in Nat /\ day \in 1..MaxDay["size"] /\ conf \in Settings
    /\ conf.daily \in Nat /\ conf.monthly \in Nat
    /\ DOMAIN taken \subseteq 1..day /\ DOMAIN sizes \subseteq DOMAIN taken
  BY DEF SizeInd, Size!DatabaseSizeParameters
<1> Size!KeptForRetention
  BY DEF SizeInd
<1>1. CASE Size!measure
  <2>1. /\ DOMAIN sizes' = DOMAIN sizes \union {day} /\ DOMAIN taken' = DOMAIN taken \union {day}
        /\ day' = day /\ conf' = conf
    BY <1>1 DEF Size!measure
  <2> QED
    BY <2>1 DEF SizeInd, Size!KeptForRetention, Size!FirstOfMonth, Size!LimitedByMonth
<1>2. CASE Size!purge
  <2>1. /\ conf.enabled /\ day' = day /\ conf' = conf /\ taken' = taken
        /\ DOMAIN sizes' = {d \in DOMAIN sizes: ~Size!Expired(d)}
    BY <1>2 DEF Size!purge, Size!Restrict
  <2>2. ASSUME NEW d \in DOMAIN sizes, Size!Expired(d)
        PROVE /\ ~Size!LimitedByMonth => conf.daily # 0 /\ d + conf.daily < day
              /\ Size!FirstOfMonth(d) \/ Size!LimitedByMonth => conf.monthly # 0 /\ d + conf.monthly < day
    <3>1. d \in Nat
      OBVIOUS
    <3> QED
      BY <2>2, <3>1 DEF Size!Expired, Size!LimitedByMonth
  <2> QED
    BY <2>1, <2>2 DEF SizeInd, Size!KeptForRetention, Size!FirstOfMonth, Size!LimitedByMonth
<1>3. CASE Size!NextDay
  <2>1. ASSUME NEW d \in DOMAIN taken, NEW n \in Nat, d + n < day PROVE d + n < day + 1
    BY <2>1
  <2> QED
    BY <1>3, <2>1 DEF Size!NextDay, SizeInd, Size!KeptForRetention, Size!FirstOfMonth, Size!LimitedByMonth
<1>4. CASE Size!Use
  BY <1>4 DEF Size!Use, SizeInd, Size!KeptForRetention, Size!FirstOfMonth, Size!LimitedByMonth
<1>5. CASE UNCHANGED Size!vars
  BY <1>5 DEF Size!vars, SizeInd, Size!KeptForRetention, Size!FirstOfMonth, Size!LimitedByMonth
<1> QED
  BY <1>1, <1>2, <1>3, <1>4, <1>5 DEF Size!Next

-----------------------------------------------------------------------------
(***************************************************************************)
(* excel_import_export: what templates share of their actions.             *)
(***************************************************************************)
Fields == {"res_model", "input", "exports", "imports", "result", "export_action", "import_action", "report_menu"}

\* The record of every template has these fields.
Recorded(f) ==
  /\ DOMAIN f = Template
  /\ \A t \in Template: f[t] # None => DOMAIN f[t] = Fields

TemplateInd == Recorded(tpl)

\* Of all the templates, t alone may change.
OneChanges(f, g, t) ==
  /\ DOMAIN g = Template
  /\ \A u \in Template \ {t}: g[u] = f[u]
  /\ g[t] # None => DOMAIN g[t] = Fields

LEMMA TemplateInit == ASSUME Templates!Init PROVE TemplateInd
  BY DEF Templates!Init, TemplateInd, Recorded

\* Taking an input apart makes a record of the same fields.
LEMMA GivenIsRecord ==
  ASSUME NEW t, NEW r, NEW given, NEW res, DOMAIN r = Fields
  PROVE DOMAIN Templates!Given(t, r, given, res) = Fields
<1> DEFINE a == Templates!FromInput(r, given)
<1>1. DOMAIN a = Fields
  BY DEF Templates!FromInput
<1>2. Templates!Given(t, r, given, res) =
        IF res = None THEN a ELSE Templates!update_result_export_ids(t, [a EXCEPT !.result = res])
  BY DEF Templates!Given
<1> DEFINE b == [a EXCEPT !.result = res]
<1>3. DOMAIN b = Fields
  BY <1>1
<1> HIDE DEF a, b
<1> DEFINE c == Templates!update_result_export_ids(t, b)
<1>4. DOMAIN c = Fields
  BY <1>3 DEF Templates!update_result_export_ids
<1>5. Templates!Given(t, r, given, res) = IF res = None THEN a ELSE c
  BY <1>2 DEF b
<1> QED
  BY <1>1, <1>4, <1>5

\* Every operation changes one template, but taking an action away.
LEMMA TemplateChanges ==
  ASSUME TemplateInd, NEW t \in Template,
         \/ \E d \in Instructions \union {None}, r \in Model \union {None}:
              Templates!write(t, d, r) \/ \E m \in Model: Templates!create(t, m, d, r)
         \/ \E m \in Model: Templates!SetModel(t, m)
         \/ \E i \in 1 .. 10: Templates!RemoveLine(t, i)
         \/ Templates!ClearResult(t) \/ Templates!unlink(t)
         \/ Templates!add_export_action(t)
         \/ Templates!add_import_action(t) \/ Templates!remove_import_action(t)
         \/ Templates!add_report_menu(t) \/ Templates!remove_report_menu(t)
  PROVE OneChanges(tpl, tpl', t)
<1> USE DEF TemplateInd, Recorded, OneChanges
<1>1. ASSUME NEW m \in Model, NEW d, NEW r, Templates!create(t, m, d, r) PROVE OneChanges(tpl, tpl', t)
  <2>1. DOMAIN Templates!Blank(m) = Fields
    BY DEF Templates!Blank, Fields
  <2> DEFINE e == Templates!Given(t, Templates!Blank(m), d, r)
  <2>2. DOMAIN e = Fields
    BY <2>1, GivenIsRecord
  <2>3. tpl' = [tpl EXCEPT ![t] = e]
    BY <1>1 DEF Templates!create
  <2> HIDE DEF e
  <2> QED
    BY <2>2, <2>3
<1>2. ASSUME NEW d, NEW r, Templates!write(t, d, r) PROVE OneChanges(tpl, tpl', t)
  <2>1. DOMAIN tpl[t] = Fields
    BY <1>2 DEF Templates!write, Templates!Live
  <2> DEFINE e == Templates!Given(t, tpl[t], d, r)
  <2>2. DOMAIN e = Fields
    BY <2>1, GivenIsRecord
  <2>3. tpl' = [tpl EXCEPT ![t] = e]
    BY <1>2 DEF Templates!write
  <2> HIDE DEF e
  <2> QED
    BY <2>2, <2>3
<1>3. CASE \E m \in Model: Templates!SetModel(t, m)
  BY <1>3 DEF Templates!SetModel, Templates!Live
<1>4. CASE \E i \in 1 .. 10: Templates!RemoveLine(t, i)
  BY <1>4 DEF Templates!RemoveLine, Templates!Live
<1>5. CASE Templates!ClearResult(t) \/ Templates!unlink(t)
  BY <1>5 DEF Templates!ClearResult, Templates!unlink, Templates!Live
<1>6. CASE Templates!add_export_action(t)
  BY <1>6 DEF Templates!add_export_action, Templates!Live
<1>7. CASE Templates!add_import_action(t) \/ Templates!remove_import_action(t)
  BY <1>7 DEF Templates!add_import_action, Templates!remove_import_action, Templates!Live
<1>8. CASE Templates!add_report_menu(t) \/ Templates!remove_report_menu(t)
  BY <1>8 DEF Templates!add_report_menu, Templates!remove_report_menu, Templates!Live
<1> QED
  BY <1>1, <1>2, <1>3, <1>4, <1>5, <1>6, <1>7, <1>8

\* The templates from which a step takes their action.
Loses == {u \in Templates!Live: tpl[u].export_action # None /\ tpl'[u] # None /\ tpl'[u].export_action = None}

LEMMA RemovingAction ==
  ASSUME TemplateInd, NEW t \in Template, Templates!remove_export_action(t)
  PROVE /\ Recorded(tpl')
        /\ (\A u \in Templates!Live: tpl[u].export_action \in {None, tpl[u].res_model}) => Loses \subseteq {t}
<1> DEFINE a == tpl[t].export_action
<1>1. t \in Templates!Live /\ a # None
  BY DEF Templates!remove_export_action
<1>2. CASE Templates!Sharers(t) = {}
  <2>1. tpl' = [u \in Template |-> IF u \in Templates!Live
                                   THEN [tpl[u] EXCEPT !.export_action =
                                           IF tpl[u].export_action = a THEN None ELSE tpl[u].export_action]
                                   ELSE None]
    BY <1>2 DEF Templates!remove_export_action
  <2>2. /\ DOMAIN tpl' = Template
        /\ \A u \in Templates!Live: /\ DOMAIN tpl'[u] = Fields
                                    /\ tpl[u].export_action # a => tpl'[u].export_action = tpl[u].export_action
        /\ \A u \in Template \ Templates!Live: tpl'[u] = None
    BY <2>1 DEF TemplateInd, Recorded, Templates!Live, Fields
  <2>3. Recorded(tpl')
    BY <2>2 DEF Recorded, Templates!Live
  <2>4. ASSUME \A u \in Templates!Live: tpl[u].export_action \in {None, tpl[u].res_model},
               NEW u \in Loses
        PROVE u = t
    BY <1>1, <1>2, <2>2, <2>4 DEF Loses, Templates!Sharers
  <2> QED
    BY <2>3, <2>4
<1>3. CASE Templates!Sharers(t) # {}
  <2>1. tpl' = [tpl EXCEPT ![t].export_action = None]
    BY <1>3 DEF Templates!remove_export_action
  <2> QED
    BY <1>1, <2>1 DEF TemplateInd, Recorded, Loses, Templates!Live
<1> QED
  BY <1>2, <1>3

LEMMA TemplateStep ==
  ASSUME TemplateInd, Templates!Next \/ UNCHANGED Templates!vars
  PROVE TemplateInd' /\ Templates!LeavesSharedAction
<1> DEFINE AsTheModel == \A u \in Templates!Live: tpl[u].export_action \in {None, tpl[u].res_model}
<1>1. Recorded(tpl') /\ (AsTheModel => \E x: Loses \subseteq {x})
  <2>1. ASSUME NEW t \in Template, OneChanges(tpl, tpl', t) PROVE Recorded(tpl') /\ Loses \subseteq {t}
    BY <2>1 DEF TemplateInd, Recorded, OneChanges, Loses, Templates!Live
  <2>2. CASE UNCHANGED Templates!vars
    BY <2>2 DEF Templates!vars, TemplateInd, Recorded, Loses
  <2>3. CASE Templates!Next
    <3>1. PICK t \in Template: \/ OneChanges(tpl, tpl', t) \/ Templates!remove_export_action(t)
      BY <2>3, TemplateChanges DEF Templates!Next, Templates!Operation
    <3> QED
      BY <2>1, <3>1, RemovingAction
  <2> QED
    BY <2>2, <2>3
<1>2. ASSUME NEW x, Loses \subseteq {x} PROVE Cardinality(Loses) <= 1
  <2>1. Loses = {} \/ Loses = {x}
    BY <1>2
  <2>2. Cardinality({}) = 0 /\ Cardinality({x}) = 1
    BY FS_EmptySet, FS_Singleton, Zenon
  <2> QED
    BY <2>1, <2>2
<1>3. Templates!Cardinality(Loses) = Cardinality(Loses)
  BY DEF Templates!Cardinality, Cardinality
<1>4. TemplateInd'
  BY <1>1 DEF TemplateInd, Recorded
<1>5. Templates!LeavesSharedAction <=> (AsTheModel => Templates!Cardinality(Loses) <= 1)
  BY DEF Templates!LeavesSharedAction, Loses
<1> QED
  BY <1>1, <1>2, <1>3, <1>4, <1>5

-----------------------------------------------------------------------------
(***************************************************************************)
(* tracking_manager: while a request runs, its data are messages without   *)
(* repetition, and with the first values they tell what changed.           *)
(***************************************************************************)
\* Sequences without repetition, one after the other.
LEMMA JoinedApart ==
  ASSUME NEW S, NEW s \in Seq(S), NEW t \in Seq(S), Manager!IsInjective(s), Manager!IsInjective(t),
         Manager!Range(s) \intersect Manager!Range(t) = {}
  PROVE  /\ s \o t \in Seq(S)
         /\ Manager!IsInjective(s \o t)
         /\ Manager!Range(s \o t) = Manager!Range(s) \union Manager!Range(t)
<1>1. /\ s \o t \in Seq(S)
      /\ Len(s \o t) = Len(s) + Len(t) /\ Len(s) \in Nat /\ Len(t) \in Nat
      /\ DOMAIN s = 1..Len(s) /\ DOMAIN t = 1..Len(t) /\ DOMAIN (s \o t) = 1..Len(s \o t)
      /\ \A i \in 1..Len(s): (s \o t)[i] = s[i]
      /\ \A i \in 1..Len(t): (s \o t)[Len(s) + i] = t[i]
  OBVIOUS
<1> DEFINE u == s \o t
<1> HIDE DEF u
<1>2. ASSUME NEW i \in DOMAIN u
      PROVE  \/ i \in DOMAIN s /\ u[i] = s[i]
             \/ i - Len(s) \in DOMAIN t /\ u[i] = t[i - Len(s)]
  <2>1. CASE i <= Len(s)
    BY <1>1, <2>1 DEF u
  <2>2. CASE i > Len(s)
    <3>1. i - Len(s) \in 1..Len(t) /\ Len(s) + (i - Len(s)) = i
      BY <1>1, <2>2 DEF u
    <3> QED BY <1>1, <3>1 DEF u
  <2> QED BY <1>1, <2>1, <2>2 DEF u
<1>3. Manager!Range(u) = Manager!Range(s) \union Manager!Range(t)
  <2>1. \A i \in DOMAIN s: i \in DOMAIN u /\ u[i] = s[i]
    BY <1>1 DEF u
  <2>2. ASSUME NEW i \in DOMAIN t PROVE Len(s) + i \in DOMAIN u /\ u[Len(s) + i] = t[i]
    <3>1. i \in 1..Len(t)
      BY <1>1
    <3>2. Len(s) + i \in 1..Len(u)
      BY <1>1, <3>1 DEF u
    <3> QED BY <1>1, <3>1, <3>2 DEF u
  <2> QED BY <1>2, <2>1, <2>2 DEF Manager!Range
<1>4. Manager!IsInjective(u)
  <2> SUFFICES ASSUME NEW i \in DOMAIN u, NEW j \in DOMAIN u, u[i] = u[j] PROVE i = j
    BY DEF Manager!IsInjective
  <2>1. \A k \in DOMAIN s, n \in DOMAIN t: s[k] # t[n]
    BY DEF Manager!Range
  <2>2. CASE i \in DOMAIN s /\ u[i] = s[i] /\ j \in DOMAIN s /\ u[j] = s[j]
    BY <2>2 DEF Manager!IsInjective
  <2>3. CASE i - Len(s) \in DOMAIN t /\ u[i] = t[i - Len(s)] /\ j - Len(s) \in DOMAIN t /\ u[j] = t[j - Len(s)]
    <3>1. i - Len(s) = j - Len(s)
      BY <2>3 DEF Manager!IsInjective
    <3> QED BY <1>1, <3>1 DEF u
  <2> QED BY <1>2, <2>1, <2>2, <2>3
<1> QED BY <1>1, <1>3, <1>4 DEF u

\* The definitions of the library, as the modules of tracking_manager have them.
LEMMA SameSets ==
  ASSUME NEW S
  PROVE  Manager!Cardinality(S) = Cardinality(S) /\ (Manager!IsFiniteSet(S) <=> IsFiniteSet(S))
BY DEF Manager!Cardinality, Cardinality, Manager!IsFiniteSet, IsFiniteSet

LEMMA SequenceOfSet ==
  ASSUME NEW S, IsFiniteSet(S)
  PROVE  /\ Manager!InSomeOrder(S) \in Seq(S)
         /\ Manager!Range(Manager!InSomeOrder(S)) = S
         /\ Manager!IsInjective(Manager!InSomeOrder(S))
<1>1. Cardinality(S) \in Nat /\ ExistsBijection(1..Cardinality(S), S)
  <2>1. PICK n \in Nat: ExistsBijection(1..n, S)
    BY FS_NatBijection
  <2>2. Cardinality(S) = n
    BY <2>1, FS_CountingElements
  <2> QED BY <2>1, <2>2
<1>2. \E f \in [1..Cardinality(S) -> S]: Manager!IsInjective(f)
  <2>1. PICK f \in Bijection(1..Cardinality(S), S): TRUE
    BY <1>1 DEF ExistsBijection
  <2> QED BY <2>1 DEF Bijection, Injection, IsInjective, Manager!IsInjective
<1> DEFINE s == Manager!InSomeOrder(S)
           Good(f) == f \in [1..Manager!Cardinality(S) -> S] /\ Manager!IsInjective(f)
<1>3. s \in [1..Cardinality(S) -> S] /\ Manager!IsInjective(s)
  <2>1. s = CHOOSE f: Good(f)
    BY Zenon DEF Manager!InSomeOrder
  <2>2. \E f: Good(f)
    BY <1>2, SameSets
  <2>3. Good(s)
    <3> HIDE DEF Good, s
    <3> QED BY <2>1, <2>2, Zenon
  <2> QED BY <2>3, SameSets
<1> HIDE DEF s
<1>4. s \in Seq(S)
  <2>1. \A n \in Nat: \A f: f \in [1..n -> S] => f \in Seq(S)
    OBVIOUS
  <2> QED BY <1>1, <1>3, <2>1
<1>6. Manager!Range(s) = S
  <2>1. Manager!Range(s) \subseteq S
    BY <1>3 DEF Manager!Range
  <2>2. s \in Bijection(1..Cardinality(S), Manager!Range(s))
    BY <1>3 DEF Manager!Range, Bijection, Injection, Surjection, IsInjective, Manager!IsInjective
  <2>3. Cardinality(Manager!Range(s)) = Cardinality(S)
    BY <1>1, <2>2, FS_CountingElements DEF ExistsBijection
  <2> QED BY <2>1, <2>3, FS_Subset
<1> QED BY <1>3, <1>4, <1>6 DEF s

-----------------------------------------------------------------------------
(***************************************************************************)
(* tracking_manager: what the hooks know of the lines is what changed of   *)
(* them since the last run.                                                *)
(***************************************************************************)
Sound(d) == d \in Manager!Database /\ \A l \in Detail: d.line[l] # None => l \in d.used

\* Those among pairs of an owner and a line that have an owner.
Owned(S) == {x \in S: x.owner # None}
PairsOf(data, how) ==
  {[owner |-> m.owner, record |-> m.record]: m \in {x \in Manager!Range(data): x.mode = how}}

\* The data of the hooks: what was created and removed, once each.
DataTells(data, s) ==
  /\ Manager!IsInjective(data)
  /\ \A m \in Manager!Range(data): m.mode \in {"create", "unlink"}
  /\ PairsOf(data, "create") = Owned({[owner |-> s.line[l][inverse_name], record |-> l]: l \in s.fresh})
  /\ PairsOf(data, "unlink") = Owned(s.gone)

\* The first values of a line in the hooks are those it had; a line without
\* any did not change.
LinesKnown(d, before, s) ==
  /\ \A l \in Detail: d.line[l] # None => s.line[l] # None
  /\ \A l \in DOMAIN before: before[l] = s.line[l] /\ l \in d.used
  /\ Manager!get_fields_to_track # {} =>
       \A l \in Detail \ DOMAIN before: d.line[l] # None => d.line[l] = s.line[l]

SinceTyped(s, d) ==
  /\ s = [line |-> s.line, fresh |-> s.fresh, gone |-> s.gone]
  /\ s.line \in [Detail -> Manager!Record \union {None}]
  /\ s.fresh \in SUBSET d.used
  /\ \A l \in s.fresh: s.line[l] # None
  /\ \A g \in s.gone: /\ g = [owner |-> g.owner, record |-> g.record]
                      /\ g.record \in d.used /\ d.line[g.record] = None

PreTyped ==
  /\ pre = [hook |-> pre.hook, before |-> pre.before, data |-> pre.data]
  /\ pre.hook \in BOOLEAN
  /\ \E L \in SUBSET Detail: pre.before \in [L -> Manager!Record]
  /\ pre.data \in Seq(Manager!Message)

TxTyped ==
  tx # None => /\ tx = [start |-> tx.start, point |-> tx.point]
               /\ Sound(tx.start)
               /\ tx.point # None => Sound(tx.point)

ManagerInd ==
  /\ conf \in DetailConfig /\ cache \in DetailConfig \union {None}
  /\ ops \in 0..MaxSteps["manager"]
  /\ Manager!Range(told) \subseteq Manager!Message
  /\ Sound(db) /\ TxTyped /\ PreTyped /\ SinceTyped(since, db)
  /\ tx = None => pre = Manager!NoData /\ since = Manager!From(db.line)
  /\ ~pre.hook => pre = Manager!NoData
  /\ IF Manager!is_tracked_by_o2m
     THEN LinesKnown(db, pre.before, since) /\ DataTells(pre.data, since)
     ELSE pre = Manager!NoData

\* After the hooks, and after a rollback.
LEMMA NothingSince ==
  ASSUME Sound(db'), pre' = Manager!NoData, since' = Manager!From(db'.line)
  PROVE  /\ PreTyped' /\ SinceTyped(since', db')
         /\ ~pre'.hook
         /\ LinesKnown(db', pre'.before, since')
         /\ LinesKnown(db, pre.before, since)' 
         /\ DataTells(pre'.data, since')
<1>1. /\ pre' = [hook |-> FALSE, before |-> [l \in {} |-> None], data |-> <<>>]
      /\ since' = [line |-> db'.line, fresh |-> {}, gone |-> {}]
  BY DEF Manager!NoData, Manager!From
<1>2. /\ db'.line \in [Detail -> Manager!Record \union {None}]
      /\ db'.used \subseteq Detail
  BY DEF Sound, Manager!Database
<1>3. PreTyped'
  <2>1. [l \in {} |-> None] \in [{} -> Manager!Record]
    OBVIOUS
  <2>2. {} \in SUBSET Detail /\ <<>> \in Seq(Manager!Message)
    OBVIOUS
  <2>3. /\ pre'.hook = FALSE /\ pre'.before = [l \in {} |-> None] /\ pre'.data = <<>>
        /\ pre' = [hook |-> pre'.hook, before |-> pre'.before, data |-> pre'.data]
    BY <1>1
  <2>4. \E L \in SUBSET Detail: pre'.before \in [L -> Manager!Record]
    BY <2>1, <2>2, <2>3
  <2> QED BY <2>2, <2>3, <2>4 DEF PreTyped
<1>4. SinceTyped(since', db')
  BY <1>1, <1>2 DEF SinceTyped
<1>5. DOMAIN pre'.before = {}
  BY <1>1
<1>6. LinesKnown(db', pre'.before, since') /\ LinesKnown(db, pre.before, since)'
  BY <1>1, <1>5 DEF LinesKnown
<1>7. DataTells(pre'.data, since')
  BY <1>1 DEF DataTells, PairsOf, Owned, Manager!IsInjective, Manager!Range
<1> QED BY <1>1, <1>3, <1>4, <1>6, <1>7

LEMMA DetailRecords ==
  /\ \A r \in Manager!Record: r # None
  /\ \A r \in Manager!Record: r[inverse_name] \in Master \union {None}
  /\ \A r \in Manager!Record, f \in DetailField: r[f] \in UNION {Manager!ValueOf(g): g \in DetailField}
  /\ \A r \in Manager!Record, f \in DetailField: \A v \in Manager!ValueOf(f):
       [r EXCEPT ![f] = v] \in Manager!Record
<1>1. inverse_name \in DetailField /\ None \notin Manager!Record
  BY AddonsParameters DEF Manager!TrackingParameters
<1>2. \A r \in Manager!Record: /\ r \in [DetailField -> UNION {Manager!ValueOf(f): f \in DetailField}]
                               /\ \A f \in DetailField: r[f] \in Manager!ValueOf(f)
  BY DEF Manager!Record
<1>3. Manager!ValueOf(inverse_name) = Master \union {None}
  BY DEF Manager!ValueOf
<1>4. ASSUME NEW r \in Manager!Record, NEW f \in DetailField, NEW v \in Manager!ValueOf(f)
      PROVE  [r EXCEPT ![f] = v] \in Manager!Record
  <2> DEFINE q == [r EXCEPT ![f] = v]
  <2>1. v \in UNION {Manager!ValueOf(g): g \in DetailField}
    OBVIOUS
  <2>2. q \in [DetailField -> UNION {Manager!ValueOf(g): g \in DetailField}]
    BY <1>2, <2>1
  <2>3. \A g \in DetailField: q[g] \in Manager!ValueOf(g)
    BY <1>2
  <2> QED BY <2>2, <2>3 DEF Manager!Record
<1> QED BY <1>1, <1>2, <1>3, <1>4

\* What is tracked does not depend on whether the methods were called before.
LEMMA KnownStays ==
  ASSUME conf' = conf, cache' = cache \/ cache' = Manager!Known
  PROVE  /\ Manager!Known' = Manager!Known
         /\ Manager!is_tracked_by_o2m' = Manager!is_tracked_by_o2m
         /\ Manager!get_fields_to_track' = Manager!get_fields_to_track
<1>1. Manager!Known' = Manager!Known
  BY DEF Manager!Known
<1> QED BY <1>1 DEF Manager!is_tracked_by_o2m, Manager!get_fields_to_track

LEMMA KnownTyped ==
  ASSUME conf \in DetailConfig, cache \in DetailConfig \union {None}
  PROVE  Manager!Known \in DetailConfig /\ Manager!get_fields_to_track \subseteq DetailField
<1>1. Manager!Known \in DetailConfig
  BY DEF Manager!Known
<1>2. /\ DetailConfig \subseteq [active: SUBSET {"owner", "line"}, custom: SUBSET (DetailField \union {Details}),
                      rule: BOOLEAN, domain: BOOLEAN]
      /\ Trackable \subseteq DetailField
  BY AddonsParameters DEF Manager!TrackingParameters
<1>3. Manager!Known.custom \subseteq DetailField \union {Details}
  BY <1>1, <1>2
<1> QED BY <1>1, <1>2, <1>3 DEF Manager!get_fields_to_track

LEMMA ManagerStart == Manager!Init => ManagerInd
<1> SUFFICES ASSUME Manager!Init PROVE ManagerInd
  OBVIOUS
<1>1. /\ conf \in DetailConfig /\ cache = None /\ ops = 0 /\ told = <<>> /\ tx = None
      /\ pre = Manager!NoData /\ since = Manager!From(db.line)
  BY DEF Manager!Init
<1>2. Sound(db)
  <2>1. PICK line \in [Detail -> Manager!Record \union {None}], open \in SUBSET Master:
          db = [line |-> line, used |-> {l \in Detail: line[l] # None}, open |-> open]
    BY DEF Manager!Init
  <2> QED BY <2>1 DEF Sound, Manager!Database
<1>3. MaxSteps["manager"] \in Nat
  BY AddonsParameters DEF Manager!TrackingParameters
<1>4. /\ pre = [hook |-> FALSE, before |-> [l \in {} |-> None], data |-> <<>>]
      /\ since = [line |-> db.line, fresh |-> {}, gone |-> {}]
  BY <1>1 DEF Manager!NoData, Manager!From
<1>5. DOMAIN pre.before = {} /\ pre.data = <<>> /\ pre.hook = FALSE
  BY <1>4
<1>6. PreTyped
  <2>1. pre.before \in [{} -> Manager!Record]
    BY <1>4
  <2>2. {} \in SUBSET Detail /\ <<>> \in Seq(Manager!Message)
    OBVIOUS
  <2>3. \E L \in SUBSET Detail: pre.before \in [L -> Manager!Record]
    BY <2>1, <2>2
  <2> QED BY <1>4, <1>5, <2>2, <2>3 DEF PreTyped
<1>7. SinceTyped(since, db)
  BY <1>2, <1>4 DEF Sound, Manager!Database, SinceTyped
<1>8. LinesKnown(db, pre.before, since)
  BY <1>4, <1>5 DEF LinesKnown
<1>9. DataTells(pre.data, since)
  BY <1>4, <1>5 DEF DataTells, PairsOf, Owned, Manager!IsInjective, Manager!Range
<1>10. Manager!Range(told) \subseteq Manager!Message
  BY <1>1 DEF Manager!Range
<1> QED BY <1>1, <1>2, <1>3, <1>5, <1>6, <1>7, <1>8, <1>9, <1>10 DEF ManagerInd, TxTyped

LEMMA OpsBounded ==
  ASSUME ops \in 0..MaxSteps["manager"], ops < MaxSteps["manager"], ops' = ops + 1
  PROVE  ops' \in 0..MaxSteps["manager"]
<1>1. MaxSteps["manager"] \in Nat
  BY AddonsParameters DEF Manager!TrackingParameters
<1> QED BY <1>1

\* _tm_prepare_o2m_tracking: the lines written have their first values.
LEMMA ManagerWrites ==
  ASSUME ManagerInd, NEW L \in SUBSET Detail, NEW f \in DetailField, NEW v \in Manager!ValueOf(f),
         Manager!write(L, f, v)
  PROVE  ManagerInd'
<1>1. /\ tx # None /\ ops < MaxSteps["manager"] /\ ops' = ops + 1
      /\ conf' = conf /\ told' = told /\ tx' = tx /\ since' = since
      /\ \A l \in L: db.line[l] # None
      /\ pre' = Manager!prepare_o2m_tracking(L)
      /\ cache' = Manager!Known
  BY DEF Manager!write, Manager!Operation
<1>2. db' = [db EXCEPT !.line = [l \in Detail |-> IF l \in L THEN [db.line[l] EXCEPT ![f] = v] ELSE db.line[l]]]
  BY DEF Manager!write
<1>3. /\ conf \in DetailConfig /\ cache \in DetailConfig \union {None}
      /\ Sound(db) /\ TxTyped /\ PreTyped /\ SinceTyped(since, db)
  BY DEF ManagerInd
<1>4. /\ db'.used = db.used /\ db'.open = db.open
      /\ db'.line = [l \in Detail |-> IF l \in L THEN [db.line[l] EXCEPT ![f] = v] ELSE db.line[l]]
      /\ db' = [line |-> db'.line, used |-> db'.used, open |-> db'.open]
  BY <1>2, <1>3 DEF Sound, Manager!Database
<1>5. /\ db.line \in [Detail -> Manager!Record \union {None}] /\ db.used \subseteq Detail
      /\ db.open \subseteq Master /\ \A l \in Detail: db.line[l] # None => l \in db.used
  BY <1>3 DEF Sound, Manager!Database
<1>6. \A l \in L: db.line[l] \in Manager!Record /\ [db.line[l] EXCEPT ![f] = v] \in Manager!Record
  BY <1>1, <1>5, DetailRecords
<1>7. /\ db'.line \in [Detail -> Manager!Record \union {None}]
      /\ \A l \in Detail: db'.line[l] = None <=> db.line[l] = None
      /\ \A l \in Detail \ L: db'.line[l] = db.line[l]
  BY <1>1, <1>4, <1>5, <1>6, DetailRecords
<1>8. Sound(db')
  <2>1. db' \in Manager!Database
    BY <1>4, <1>5, <1>7 DEF Manager!Database
  <2> QED BY <1>4, <1>5, <1>7, <2>1 DEF Sound
<1>9. SinceTyped(since', db')
  BY <1>1, <1>3, <1>4, <1>5, <1>7 DEF SinceTyped
<1>10. /\ Manager!is_tracked_by_o2m' = Manager!is_tracked_by_o2m
       /\ Manager!get_fields_to_track' = Manager!get_fields_to_track
  BY <1>1, KnownStays
<1>11. conf' \in DetailConfig /\ cache' \in DetailConfig \union {None}
  BY <1>1, <1>3, KnownTyped
<1>12. TxTyped'
  BY <1>1, <1>3 DEF TxTyped, Sound
<1>13. ops' \in 0..MaxSteps["manager"] /\ Manager!Range(told') \subseteq Manager!Message
  BY <1>1, OpsBounded DEF ManagerInd
<1>14. CASE ~Manager!is_tracked_by_o2m
  <2>1. pre' = pre /\ pre = Manager!NoData
    BY <1>1, <1>14 DEF Manager!prepare_o2m_tracking, ManagerInd
  <2>2. PreTyped'
    BY <1>3, <2>1 DEF PreTyped
  <2> QED BY <1>1, <1>8, <1>9, <1>10, <1>11, <1>12, <1>13, <1>14, <2>1, <2>2 DEF ManagerInd, Sound, Manager!NoData
<1>15. CASE Manager!is_tracked_by_o2m /\ Manager!get_fields_to_track = {}
  <2>1. pre' = pre
    BY <1>1, <1>15 DEF Manager!prepare_o2m_tracking
  <2>2. PreTyped'
    BY <1>3, <2>1 DEF PreTyped
  <2>3. LinesKnown(db, pre.before, since) /\ DataTells(pre.data, since) /\ (~pre.hook => pre = Manager!NoData)
    BY <1>15 DEF ManagerInd
  <2>4. LinesKnown(db, pre.before, since)'
    BY <1>1, <1>4, <1>7, <1>10, <1>15, <2>1, <2>3 DEF LinesKnown
  <2>5. DataTells(pre.data, since)'
    BY <1>1, <2>1, <2>3 DEF DataTells, PairsOf
  <2>6. ~pre'.hook => pre' = Manager!NoData'
    BY <2>1, <2>3 DEF Manager!NoData
  <2> QED BY <1>1, <1>8, <1>9, <1>10, <1>11, <1>12, <1>13, <1>15, <2>2, <2>4, <2>5, <2>6 DEF ManagerInd, Sound
<1>16. CASE Manager!is_tracked_by_o2m /\ Manager!get_fields_to_track # {}
  <2>1. pre' = [pre EXCEPT !.hook = TRUE, !.before =
          [l \in DOMAIN pre.before \union L |-> IF l \in DOMAIN pre.before THEN pre.before[l] ELSE db.line[l]]]
    BY <1>1, <1>16 DEF Manager!prepare_o2m_tracking
  <2>2. /\ pre'.hook = TRUE /\ pre'.data = pre.data
        /\ pre'.before = [l \in DOMAIN pre.before \union L |->
                            IF l \in DOMAIN pre.before THEN pre.before[l] ELSE db.line[l]]
        /\ pre' = [hook |-> pre'.hook, before |-> pre'.before, data |-> pre'.data]
    BY <1>3, <2>1 DEF PreTyped
  <2>3. LinesKnown(db, pre.before, since) /\ DataTells(pre.data, since)
    BY <1>16 DEF ManagerInd
  <2>4. PreTyped'
    <3>1. PICK M \in SUBSET Detail: pre.before \in [M -> Manager!Record]
      BY <1>3 DEF PreTyped
    <3>2. pre'.before \in [M \union L -> Manager!Record] /\ M \union L \in SUBSET Detail
      BY <1>6, <2>2, <3>1
    <3>3. pre.data \in Seq(Manager!Message)
      BY <1>3 DEF PreTyped
    <3>4. \E N \in SUBSET Detail: pre'.before \in [N -> Manager!Record]
      BY <3>2
    <3> QED BY <2>2, <3>3, <3>4 DEF PreTyped
  <2>5. DataTells(pre.data, since)'
    BY <1>1, <2>2, <2>3 DEF DataTells, PairsOf
  <2>6. LinesKnown(db, pre.before, since)'
    <3>1. \A l \in Detail: db'.line[l] # None => since'.line[l] # None
      BY <1>1, <1>7, <2>3 DEF LinesKnown
    <3>2. DOMAIN pre'.before = DOMAIN pre.before \union L
      BY <2>2
    <3>3. ASSUME NEW l \in DOMAIN pre'.before PROVE pre'.before[l] = since'.line[l] /\ l \in db'.used
      <4>1. CASE l \in DOMAIN pre.before
        BY <1>1, <1>4, <2>2, <2>3, <4>1 DEF LinesKnown
      <4>2. CASE l \notin DOMAIN pre.before
        <5>1. l \in L /\ l \in Detail /\ pre'.before[l] = db.line[l] /\ db.line[l] # None
          BY <1>1, <2>2, <3>2, <4>2
        <5> QED BY <1>1, <1>4, <1>5, <1>16, <2>3, <4>2, <5>1 DEF LinesKnown
      <4> QED BY <4>1, <4>2
    <3>4. \A l \in Detail \ DOMAIN pre'.before: db'.line[l] # None => db'.line[l] = since'.line[l]
      BY <1>1, <1>7, <1>16, <2>3, <3>2 DEF LinesKnown
    <3> QED BY <1>10, <3>1, <3>3, <3>4 DEF LinesKnown
  <2> QED BY <1>1, <1>8, <1>9, <1>10, <1>11, <1>12, <1>13, <1>16, <2>2, <2>4, <2>5, <2>6 DEF ManagerInd, Sound
<1> QED BY <1>14, <1>15, <1>16

\* The data after a line was created or removed.
AndTold(data, l, r, how) == data \o Manager!notify_owner(l, r, how, {})

EachOnce(data) ==
  /\ data \in Seq(Manager!Message) /\ Manager!IsInjective(data)
  /\ \A m \in Manager!Range(data): m.mode \in {"create", "unlink"}

TellsOneMore(after, data, l, r, how) ==
  /\ EachOnce(after)
  /\ PairsOf(after, how) = PairsOf(data, how) \union Owned({[owner |-> r[inverse_name], record |-> l]})
  /\ \A other \in {"create", "unlink"} \ {how}: PairsOf(after, other) = PairsOf(data, other)

\* notify_owner appends at most one message, about a pair it has not been told.
LEMMA OneMoreTold ==
  ASSUME NEW data, EachOnce(data),
         NEW l \in Detail, NEW r \in Manager!Record, NEW how \in {"create", "unlink"},
         [owner |-> r[inverse_name], record |-> l] \notin PairsOf(data, how)
  PROVE  TellsOneMore(AndTold(data, l, r, how), data, l, r, how)
<1> USE DEF EachOnce
<1> SUFFICES LET after == AndTold(data, l, r, how)
             IN  /\ after \in Seq(Manager!Message) /\ Manager!IsInjective(after)
                 /\ \A m \in Manager!Range(after): m.mode \in {"create", "unlink"}
                 /\ PairsOf(after, how) = PairsOf(data, how) \union Owned({[owner |-> r[inverse_name], record |-> l]})
                 /\ \A other \in {"create", "unlink"} \ {how}: PairsOf(after, other) = PairsOf(data, other)
  BY DEF TellsOneMore
<1> DEFINE told2 == AndTold(data, l, r, how)
<1>1. CASE r[inverse_name] = None
  <2>1. told2 = data
    BY <1>1 DEF AndTold, Manager!notify_owner
  <2> HIDE DEF told2
  <2>2. Owned({[owner |-> r[inverse_name], record |-> l]}) = {}
    BY <1>1 DEF Owned
  <2> QED BY <2>1, <2>2 DEF told2
<1>2. CASE r[inverse_name] # None
  <2> DEFINE one == [owner |-> r[inverse_name], mode |-> how, record |-> l, changes |-> {}]
  <2>1. told2 = data \o <<one>>
    BY <1>2 DEF AndTold, Manager!notify_owner
  <2>2. one \in Manager!Message
    <3>1. r[inverse_name] \in Master /\ {} \in SUBSET Manager!Change /\ how \in {"create", "update", "unlink"}
      BY <1>2, DetailRecords
    <3> QED BY <3>1 DEF Manager!Message
  <2>3. one \notin Manager!Range(data)
    BY DEF PairsOf
  <2> HIDE DEF one, told2
  <2>4. <<one>> \in Seq(Manager!Message) /\ Manager!Range(<<one>>) = {one} /\ Manager!IsInjective(<<one>>)
    BY <2>2 DEF Manager!Range, Manager!IsInjective
  <2>5. /\ told2 \in Seq(Manager!Message) /\ Manager!IsInjective(told2)
        /\ Manager!Range(told2) = Manager!Range(data) \union {one}
    <3>1. Manager!Range(data) \intersect Manager!Range(<<one>>) = {}
      BY <2>3, <2>4
    <3> DEFINE alone == <<one>>
    <3>2. /\ alone \in Seq(Manager!Message) /\ Manager!IsInjective(alone)
          /\ Manager!Range(data) \intersect Manager!Range(alone) = {}
          /\ told2 = data \o alone
      BY <2>1, <2>4, <3>1
    <3> HIDE DEF alone
    <3>3. /\ told2 \in Seq(Manager!Message) /\ Manager!IsInjective(told2)
          /\ Manager!Range(told2) = Manager!Range(data) \union Manager!Range(alone)
      BY <3>2, JoinedApart
    <3> QED BY <2>4, <3>3 DEF alone
  <2>6. one.mode = how /\ one.owner = r[inverse_name] /\ one.record = l
    BY DEF one
  <2>7. PairsOf(told2, how) = PairsOf(data, how) \union {[owner |-> r[inverse_name], record |-> l]}
    BY <2>5, <2>6 DEF PairsOf
  <2>8. \A other \in {"create", "unlink"} \ {how}: PairsOf(told2, other) = PairsOf(data, other)
    BY <2>5, <2>6 DEF PairsOf
  <2>9. Owned({[owner |-> r[inverse_name], record |-> l]}) = {[owner |-> r[inverse_name], record |-> l]}
    BY <1>2 DEF Owned
  <2>10. \A m \in Manager!Range(told2): m.mode \in {"create", "unlink"}
    BY <2>5, <2>6
  <2>11. PairsOf(told2, how) = PairsOf(data, how) \union Owned({[owner |-> r[inverse_name], record |-> l]})
    BY <2>7, <2>9
  <2> QED BY <2>5, <2>8, <2>10, <2>11 DEF told2
<1> QED BY <1>1, <1>2

\* _tm_track_create_unlink on a new line.
LEMMA ManagerCreates ==
  ASSUME ManagerInd, NEW l \in Detail, NEW r \in Manager!Record, Manager!create(l, r)
  PROVE  ManagerInd'
<1>1. /\ tx # None /\ ops < MaxSteps["manager"] /\ ops' = ops + 1
      /\ conf' = conf /\ told' = told /\ tx' = tx /\ l \notin db.used
      /\ pre' = Manager!track_create_unlink(l, r, "create")
      /\ cache' = Manager!Known
      /\ db' = [db EXCEPT !.line[l] = r, !.used = db.used \union {l}]
      /\ since' = [since EXCEPT !.line[l] = r, !.fresh = since.fresh \union {l}]
  BY DEF Manager!create, Manager!Operation
<1>2. /\ conf \in DetailConfig /\ cache \in DetailConfig \union {None}
      /\ Sound(db) /\ TxTyped /\ PreTyped /\ SinceTyped(since, db)
  BY DEF ManagerInd
<1>3. /\ db.line \in [Detail -> Manager!Record \union {None}] /\ db.used \subseteq Detail
      /\ db.open \subseteq Master /\ \A x \in Detail: db.line[x] # None => x \in db.used
      /\ db = [line |-> db.line, used |-> db.used, open |-> db.open]
  BY <1>2 DEF Sound, Manager!Database
<1>4. /\ db'.used = db.used \union {l} /\ db'.open = db.open
      /\ db'.line = [db.line EXCEPT ![l] = r]
      /\ db' = [line |-> db'.line, used |-> db'.used, open |-> db'.open]
  BY <1>1, <1>3
<1>5. /\ since = [line |-> since.line, fresh |-> since.fresh, gone |-> since.gone]
      /\ since.line \in [Detail -> Manager!Record \union {None}]
      /\ since.fresh \in SUBSET db.used
      /\ \A x \in since.fresh: since.line[x] # None
      /\ \A g \in since.gone: /\ g = [owner |-> g.owner, record |-> g.record]
                      /\ g.record \in db.used /\ db.line[g.record] = None
  BY <1>2 DEF SinceTyped
<1>6. /\ since'.line = [since.line EXCEPT ![l] = r]
      /\ since'.fresh = since.fresh \union {l} /\ since'.gone = since.gone
      /\ since' = [line |-> since'.line, fresh |-> since'.fresh, gone |-> since'.gone]
  BY <1>1, <1>5
<1>7. Sound(db')
  <2>1. db' \in Manager!Database
    BY <1>3, <1>4 DEF Manager!Database
  <2> QED BY <1>3, <1>4, <2>1, DetailRecords DEF Sound
<1>8. SinceTyped(since', db')
  <2>1. ASSUME NEW g \in since'.gone
        PROVE  /\ g = [owner |-> g.owner, record |-> g.record]
               /\ g.record \in db'.used /\ db'.line[g.record] = None
    <3>1. g.record # l /\ g.record \in Detail
      BY <1>1, <1>3, <1>5, <1>6
    <3> QED BY <1>3, <1>4, <1>5, <1>6, <3>1
  <2>2. since'.line \in [Detail -> Manager!Record \union {None}] /\ since'.fresh \in SUBSET db'.used
    BY <1>4, <1>5, <1>6
  <2>3. \A x \in since'.fresh: since'.line[x] # None
    BY <1>3, <1>5, <1>6, DetailRecords
  <2> QED BY <1>6, <2>1, <2>2, <2>3 DEF SinceTyped
<1>9. /\ Manager!is_tracked_by_o2m' = Manager!is_tracked_by_o2m
      /\ Manager!get_fields_to_track' = Manager!get_fields_to_track
  BY <1>1, KnownStays
<1>10. conf' \in DetailConfig /\ cache' \in DetailConfig \union {None}
  BY <1>1, <1>2, KnownTyped
<1>11. TxTyped'
  BY <1>1, <1>2 DEF TxTyped, Sound
<1>12. ops' \in 0..MaxSteps["manager"] /\ Manager!Range(told') \subseteq Manager!Message
  BY <1>1, OpsBounded DEF ManagerInd
<1>13. CASE ~Manager!is_tracked_by_o2m
  <2>1. pre' = pre /\ pre = Manager!NoData
    BY <1>1, <1>13 DEF Manager!track_create_unlink, ManagerInd
  <2>2. PreTyped'
    BY <1>2, <2>1 DEF PreTyped
  <2> QED BY <1>1, <1>7, <1>8, <1>9, <1>10, <1>11, <1>12, <1>13, <2>1, <2>2 DEF ManagerInd, Sound, Manager!NoData
<1>14. CASE Manager!is_tracked_by_o2m
  <2>1. pre' = [pre EXCEPT !.hook = TRUE, !.data = pre.data \o Manager!notify_owner(l, r, "create", {})]
    BY <1>1, <1>14 DEF Manager!track_create_unlink
  <2>2. /\ pre'.hook = TRUE /\ pre'.data = pre.data \o Manager!notify_owner(l, r, "create", {})
        /\ pre'.before = pre.before
        /\ pre' = [hook |-> pre'.hook, before |-> pre'.before, data |-> pre'.data]
    BY <1>2, <2>1 DEF PreTyped
  <2>3. LinesKnown(db, pre.before, since) /\ DataTells(pre.data, since)
    BY <1>14 DEF ManagerInd
  <2>4. [owner |-> r[inverse_name], record |-> l] \notin PairsOf(pre.data, "create")
    BY <1>1, <1>5, <2>3 DEF DataTells, Owned
  <2>5. /\ pre'.data \in Seq(Manager!Message) /\ Manager!IsInjective(pre'.data)
        /\ \A m \in Manager!Range(pre'.data): m.mode \in {"create", "unlink"}
        /\ PairsOf(pre'.data, "create") = PairsOf(pre.data, "create") \union Owned({[owner |-> r[inverse_name], record |-> l]})
        /\ PairsOf(pre'.data, "unlink") = PairsOf(pre.data, "unlink")
    <3>1. EachOnce(pre.data)
      BY <1>2, <2>3 DEF PreTyped, DataTells, EachOnce
    <3>2. "create" \in {"create", "unlink"} /\ "unlink" \in {"create", "unlink"} \ {"create"}
      OBVIOUS
    <3>3. TellsOneMore(AndTold(pre.data, l, r, "create"), pre.data, l, r, "create")
      BY <2>4, <3>1, <3>2, OneMoreTold
    <3>4. TellsOneMore(pre'.data, pre.data, l, r, "create")
      BY <2>2, <3>3 DEF AndTold
    <3> QED BY <3>2, <3>4 DEF TellsOneMore, EachOnce
  <2>6. PreTyped'
    BY <1>2, <2>2, <2>5 DEF PreTyped
  <2>7. DataTells(pre.data, since)'
    <3>1. {[owner |-> since'.line[x][inverse_name], record |-> x]: x \in since'.fresh}
            = {[owner |-> since.line[x][inverse_name], record |-> x]: x \in since.fresh}
              \union {[owner |-> r[inverse_name], record |-> l]}
      <4>1. l \notin since.fresh /\ since'.line[l] = r /\ \A x \in since.fresh: since'.line[x] = since.line[x]
        BY <1>1, <1>3, <1>5, <1>6
      <4> QED BY <1>6, <4>1
    <3>2. PairsOf(pre'.data, "create") =
            Owned({[owner |-> since'.line[x][inverse_name], record |-> x]: x \in since'.fresh})
      BY <2>3, <2>5, <3>1 DEF DataTells, Owned
    <3>3. PairsOf(pre'.data, "unlink") = Owned(since'.gone)
      BY <1>6, <2>3, <2>5 DEF DataTells
    <3> QED BY <2>5, <3>2, <3>3 DEF DataTells
  <2>8. LinesKnown(db, pre.before, since)'
    <3>1. \A x \in DOMAIN pre.before: x # l /\ x \in Detail
      BY <1>1, <1>3, <2>3 DEF LinesKnown
    <3>2. \A x \in Detail \ {l}: db'.line[x] = db.line[x] /\ since'.line[x] = since.line[x]
      BY <1>3, <1>4, <1>5, <1>6
    <3>3. db'.line[l] = r /\ since'.line[l] = r /\ r # None
      BY <1>3, <1>4, <1>5, <1>6, DetailRecords
    <3>4. \A x \in Detail: db'.line[x] # None => since'.line[x] # None
      BY <2>3, <3>2, <3>3 DEF LinesKnown
    <3>5. \A x \in DOMAIN pre'.before: pre'.before[x] = since'.line[x] /\ x \in db'.used
      BY <1>4, <2>2, <2>3, <3>1, <3>2 DEF LinesKnown
    <3>6. Manager!get_fields_to_track # {} =>
            \A x \in Detail \ DOMAIN pre'.before: db'.line[x] # None => db'.line[x] = since'.line[x]
      BY <2>2, <2>3, <3>2, <3>3 DEF LinesKnown
    <3> QED BY <1>9, <3>4, <3>5, <3>6 DEF LinesKnown
  <2> QED BY <1>1, <1>7, <1>8, <1>9, <1>10, <1>11, <1>12, <1>14, <2>2, <2>6, <2>7, <2>8 DEF ManagerInd, Sound
<1> QED BY <1>13, <1>14

\* _tm_track_create_unlink on a line that goes.
LEMMA ManagerUnlinks ==
  ASSUME ManagerInd, NEW l \in Detail, Manager!unlink(l)
  PROVE  ManagerInd'
<1> DEFINE r == db.line[l]
           pair == [owner |-> r[inverse_name], record |-> l]
<1>1. /\ tx # None /\ ops < MaxSteps["manager"] /\ ops' = ops + 1
      /\ conf' = conf /\ told' = told /\ tx' = tx /\ r # None
      /\ pre' = Manager!track_create_unlink(l, r, "unlink")
      /\ cache' = Manager!Known
      /\ db' = [db EXCEPT !.line[l] = None]
      /\ since' = [since EXCEPT !.gone = since.gone \union {pair}]
  BY DEF Manager!unlink, Manager!Operation
<1>2. /\ conf \in DetailConfig /\ cache \in DetailConfig \union {None}
      /\ Sound(db) /\ TxTyped /\ PreTyped /\ SinceTyped(since, db)
  BY DEF ManagerInd
<1>3. /\ db.line \in [Detail -> Manager!Record \union {None}] /\ db.used \subseteq Detail
      /\ db.open \subseteq Master /\ \A x \in Detail: db.line[x] # None => x \in db.used
      /\ db = [line |-> db.line, used |-> db.used, open |-> db.open]
  BY <1>2 DEF Sound, Manager!Database
<1>4. /\ db'.used = db.used /\ db'.open = db.open
      /\ db'.line = [db.line EXCEPT ![l] = None]
      /\ db' = [line |-> db'.line, used |-> db'.used, open |-> db'.open]
  BY <1>1, <1>3
<1>5. /\ since = [line |-> since.line, fresh |-> since.fresh, gone |-> since.gone]
      /\ since.line \in [Detail -> Manager!Record \union {None}]
      /\ since.fresh \in SUBSET db.used
      /\ \A x \in since.fresh: since.line[x] # None
      /\ \A g \in since.gone: /\ g = [owner |-> g.owner, record |-> g.record]
                      /\ g.record \in db.used /\ db.line[g.record] = None
  BY <1>2 DEF SinceTyped
<1>6. /\ since'.line = since.line /\ since'.fresh = since.fresh
      /\ since'.gone = since.gone \union {pair}
      /\ since' = [line |-> since'.line, fresh |-> since'.fresh, gone |-> since'.gone]
  BY <1>1, <1>5
<1>7. Sound(db') /\ r \in Manager!Record
  <2>1. db' \in Manager!Database
    BY <1>3, <1>4 DEF Manager!Database
  <2> QED BY <1>1, <1>3, <1>4, <2>1 DEF Sound
<1>8. SinceTyped(since', db')
  <2>1. ASSUME NEW g \in since'.gone
        PROVE  /\ g = [owner |-> g.owner, record |-> g.record]
               /\ g.record \in db'.used /\ db'.line[g.record] = None
    <3>1. CASE g = pair
      BY <1>1, <1>3, <1>4, <3>1
    <3>2. CASE g \in since.gone
      BY <1>3, <1>4, <1>5, <3>2
    <3> QED BY <1>6, <3>1, <3>2
  <2>2. since'.line \in [Detail -> Manager!Record \union {None}] /\ since'.fresh \in SUBSET db'.used
    BY <1>4, <1>5, <1>6
  <2> QED BY <1>5, <1>6, <2>1, <2>2 DEF SinceTyped
<1>9. /\ Manager!is_tracked_by_o2m' = Manager!is_tracked_by_o2m
      /\ Manager!get_fields_to_track' = Manager!get_fields_to_track
  BY <1>1, KnownStays
<1>10. conf' \in DetailConfig /\ cache' \in DetailConfig \union {None}
  BY <1>1, <1>2, KnownTyped
<1>11. TxTyped'
  BY <1>1, <1>2 DEF TxTyped, Sound
<1>12. ops' \in 0..MaxSteps["manager"] /\ Manager!Range(told') \subseteq Manager!Message
  BY <1>1, OpsBounded DEF ManagerInd
<1>13. CASE ~Manager!is_tracked_by_o2m
  <2>1. pre' = pre /\ pre = Manager!NoData
    BY <1>1, <1>13 DEF Manager!track_create_unlink, ManagerInd
  <2>2. PreTyped'
    BY <1>2, <2>1 DEF PreTyped
  <2> QED BY <1>1, <1>7, <1>8, <1>9, <1>10, <1>11, <1>12, <1>13, <2>1, <2>2 DEF ManagerInd, Sound, Manager!NoData
<1>14. CASE Manager!is_tracked_by_o2m
  <2>1. pre' = [pre EXCEPT !.hook = TRUE, !.data = pre.data \o Manager!notify_owner(l, r, "unlink", {})]
    BY <1>1, <1>14 DEF Manager!track_create_unlink
  <2>2. /\ pre'.hook = TRUE /\ pre'.data = pre.data \o Manager!notify_owner(l, r, "unlink", {})
        /\ pre'.before = pre.before
        /\ pre' = [hook |-> pre'.hook, before |-> pre'.before, data |-> pre'.data]
    BY <1>2, <2>1 DEF PreTyped
  <2>3. LinesKnown(db, pre.before, since) /\ DataTells(pre.data, since)
    BY <1>14 DEF ManagerInd
  <2>4. pair \notin PairsOf(pre.data, "unlink")
    BY <1>1, <1>5, <2>3 DEF DataTells, Owned
  <2>5. /\ pre'.data \in Seq(Manager!Message) /\ Manager!IsInjective(pre'.data)
        /\ \A m \in Manager!Range(pre'.data): m.mode \in {"create", "unlink"}
        /\ PairsOf(pre'.data, "unlink") = PairsOf(pre.data, "unlink") \union Owned({pair})
        /\ PairsOf(pre'.data, "create") = PairsOf(pre.data, "create")
    <3>1. EachOnce(pre.data)
      BY <1>2, <2>3 DEF PreTyped, DataTells, EachOnce
    <3>2. "unlink" \in {"create", "unlink"} /\ "create" \in {"create", "unlink"} \ {"unlink"}
      OBVIOUS
    <3>3. TellsOneMore(AndTold(pre.data, l, r, "unlink"), pre.data, l, r, "unlink")
      BY <1>7, <2>4, <3>1, <3>2, OneMoreTold
    <3>4. TellsOneMore(pre'.data, pre.data, l, r, "unlink")
      BY <2>2, <3>3 DEF AndTold
    <3> QED BY <3>2, <3>4 DEF TellsOneMore, EachOnce
  <2>6. PreTyped'
    BY <1>2, <2>2, <2>5 DEF PreTyped
  <2>7. DataTells(pre.data, since)'
    <3>1. PairsOf(pre'.data, "create") =
            Owned({[owner |-> since'.line[x][inverse_name], record |-> x]: x \in since'.fresh})
      BY <1>6, <2>3, <2>5 DEF DataTells
    <3>2. PairsOf(pre'.data, "unlink") = Owned(since'.gone)
      BY <1>6, <2>3, <2>5 DEF DataTells, Owned
    <3> QED BY <2>5, <3>1, <3>2 DEF DataTells
  <2>8. LinesKnown(db, pre.before, since)'
    <3>1. db'.line[l] = None /\ \A x \in Detail \ {l}: db'.line[x] = db.line[x]
      BY <1>3, <1>4
    <3> QED BY <1>4, <1>6, <1>9, <2>2, <2>3, <3>1 DEF LinesKnown
  <2> QED BY <1>1, <1>7, <1>8, <1>9, <1>10, <1>11, <1>12, <1>14, <2>2, <2>6, <2>7, <2>8 DEF ManagerInd, Sound
<1> QED BY <1>13, <1>14

\* The message about a line that is there before and after.
Update(l) == [owner |-> db.line[l][inverse_name], mode |-> "update", record |-> l,
              changes |-> Manager!Net(l)]
NetChanged == {x \in Detail: since.line[x] # None /\ db.line[x] # None /\ Manager!Net(x) # {}}

\* The first values that the hooks have are enough to tell the net changes.
LEMMA UpdatesTell ==
  ASSUME ManagerInd, Manager!is_tracked_by_o2m
  PROVE  /\ Manager!Updates \in Seq(Manager!Message) /\ Manager!IsInjective(Manager!Updates)
         /\ Manager!Range(Manager!Updates) = Owned({Update(l): l \in NetChanged})
         /\ ~pre.hook => pre.data = <<>> /\ Owned({Update(l): l \in NetChanged}) = {}
<1>1. /\ conf \in DetailConfig /\ cache \in DetailConfig \union {None}
      /\ Sound(db) /\ PreTyped /\ SinceTyped(since, db) /\ LinesKnown(db, pre.before, since)
  BY DEF ManagerInd
<1>2. Manager!get_fields_to_track \subseteq DetailField
  BY <1>1, KnownTyped
<1>3. PICK L \in SUBSET Detail: pre.before \in [L -> Manager!Record]
  BY <1>1 DEF PreTyped
<1>4. /\ db.line \in [Detail -> Manager!Record \union {None}]
      /\ since.line \in [Detail -> Manager!Record \union {None}]
  BY <1>1 DEF Sound, Manager!Database, SinceTyped
<1> DEFINE changed == {l \in DOMAIN pre.before:
                         db.line[l] # None /\ Manager!get_changes(pre.before[l], db.line[l]) # {}}
           about(l) == Manager!notify_owner(l, db.line[l], "update", Manager!get_changes(pre.before[l], db.line[l]))
           all == UNION {Manager!Range(about(l)): l \in changed}
<1>5. \A l \in DOMAIN pre.before: /\ l \in Detail /\ since.line[l] # None
                                  /\ Manager!get_changes(pre.before[l], db.line[l]) = Manager!Net(l)
  <2> SUFFICES ASSUME NEW l \in DOMAIN pre.before
               PROVE  /\ l \in Detail /\ since.line[l] # None
                      /\ Manager!get_changes(pre.before[l], db.line[l]) = Manager!Net(l)
    OBVIOUS
  <2>1. l \in Detail /\ pre.before[l] \in Manager!Record /\ pre.before[l] = since.line[l]
    BY <1>1, <1>3 DEF LinesKnown
  <2> QED BY <2>1, DetailRecords DEF Manager!get_changes, Manager!Net
<1>6. ASSUME NEW l \in NetChanged PROVE l \in DOMAIN pre.before
  <2>1. PICK f \in Manager!get_fields_to_track: since.line[l][f] # db.line[l][f]
    BY DEF NetChanged, Manager!Net
  <2> QED BY <1>1, <2>1 DEF LinesKnown, NetChanged
<1>7. changed = NetChanged
  BY <1>5, <1>6 DEF NetChanged
<1>8. \A l \in changed: Manager!Range(about(l)) = Owned({Update(l)})
  <2> SUFFICES ASSUME NEW l \in changed PROVE Manager!Range(about(l)) = Owned({Update(l)})
    OBVIOUS
  <2>1. Update(l).owner = db.line[l][inverse_name]
    BY DEF Update
  <2>2. CASE db.line[l][inverse_name] = None
    <3>1. about(l) = <<>> /\ Owned({Update(l)}) = {}
      BY <2>1, <2>2 DEF Manager!notify_owner, Owned
    <3>2. Manager!Range(<<>>) = {}
      BY DEF Manager!Range
    <3> HIDE DEF about
    <3> QED BY <3>1, <3>2
  <2>3. CASE db.line[l][inverse_name] # None
    <3>1. about(l) = <<Update(l)>> /\ Owned({Update(l)}) = {Update(l)}
      BY <1>5, <2>1, <2>3 DEF Manager!notify_owner, Owned, Update
    <3> QED BY <3>1 DEF Manager!Range
  <2> QED BY <2>2, <2>3
<1>9. all = Owned({Update(l): l \in NetChanged})
  <2>1. all = UNION {Owned({Update(l)}): l \in NetChanged}
    <3> HIDE DEF changed, about
    <3> QED BY <1>7, <1>8
  <2>2. UNION {Owned({Update(l)}): l \in NetChanged} = Owned({Update(l): l \in NetChanged})
    BY DEF Owned
  <2> QED BY <2>1, <2>2
<1>10. \A m \in Owned({Update(l): l \in NetChanged}): m \in Manager!Message
  <2> SUFFICES ASSUME NEW l \in NetChanged, Update(l).owner # None PROVE Update(l) \in Manager!Message
    BY DEF Owned
  <2>1. since.line[l] \in Manager!Record /\ db.line[l] \in Manager!Record /\ l \in Detail
    BY <1>4 DEF NetChanged
  <2>2. db.line[l][inverse_name] \in Master
    BY <2>1, DetailRecords DEF Update
  <2>3. Manager!Net(l) \subseteq Manager!Change
    BY <1>2, <2>1, DetailRecords DEF Manager!Net, Manager!Change
  <2> QED BY <2>1, <2>2, <2>3 DEF Update, Manager!Message
<1>11. IsFiniteSet(all)
  <2>1. IsFiniteSet(Detail)
    BY SameSets, AddonsParameters DEF Manager!TrackingParameters
  <2>2. IsFiniteSet({Update(l): l \in NetChanged})
    <3>1. IsFiniteSet(NetChanged)
      BY <2>1, FS_Subset DEF NetChanged
    <3> DEFINE of == [l \in NetChanged |-> Update(l)]
               updates == {Update(l): l \in NetChanged}
    <3>2. of \in Surjection(NetChanged, updates)
      BY DEF Surjection
    <3> HIDE DEF of, updates
    <3>3. IsFiniteSet(updates)
      BY <3>1, <3>2, FS_Surjection
    <3> QED BY <3>3 DEF updates
  <2> QED BY <1>9, <2>2, FS_Subset DEF Owned
<1>12. Manager!Updates = Manager!InSomeOrder(all)
  BY DEF Manager!Updates
<1> HIDE DEF all, changed, about
<1>13. /\ Manager!Updates \in Seq(all) /\ Manager!IsInjective(Manager!Updates)
       /\ Manager!Range(Manager!Updates) = all
  BY <1>11, <1>12, SequenceOfSet
<1>14. Manager!Updates \in Seq(Manager!Message)
  <2>1. all \subseteq Manager!Message
    BY <1>9, <1>10
  <2> QED BY <1>13, <2>1
<1>15. ASSUME ~pre.hook PROVE pre.data = <<>> /\ Owned({Update(l): l \in NetChanged}) = {}
  <2>1. pre = Manager!NoData
    BY <1>15 DEF ManagerInd
  <2>2. pre.data = <<>> /\ DOMAIN pre.before = {}
    BY <2>1 DEF Manager!NoData
  <2> QED BY <1>6, <2>2 DEF Owned
<1> QED BY <1>9, <1>13, <1>14, <1>15

LEMMA KeptMessages ==
  ASSUME NEW all \in Seq(Manager!Message), Manager!IsInjective(all)
  PROVE  /\ Manager!IsInjective(Manager!post_message(all))
         /\ Manager!Range(Manager!post_message(all)) = {m \in Manager!Range(all): Manager!Shown(m.owner)}
BY DEF Manager!post_message, Manager!Restrict, Manager!IsInjective, Manager!Range

\* What the hooks tell is what was kept for them and what changed.
LEMMA HookMessages ==
  ASSUME ManagerInd, Manager!is_tracked_by_o2m, Manager!finalize_o2m_tracking
  PROVE  /\ Manager!IsInjective(told')
         /\ Manager!Range(told') =
              {m \in Manager!Range(pre.data) \union Owned({Update(l): l \in NetChanged}): Manager!Shown(m.owner)}
         /\ Manager!Range(told') \subseteq Manager!Message
<1> DEFINE all == pre.data \o Manager!Updates
<1>1. pre.data \in Seq(Manager!Message) /\ DataTells(pre.data, since)
  BY DEF ManagerInd, PreTyped
<1>2. Manager!Range(pre.data) \intersect Manager!Range(Manager!Updates) = {}
  <2>1. \A m \in Manager!Range(pre.data): m.mode # "update"
    BY <1>1 DEF DataTells
  <2>2. \A m \in Manager!Range(Manager!Updates): m.mode = "update"
    BY UpdatesTell DEF Owned, Update
  <2> QED BY <2>1, <2>2
<1>3. /\ all \in Seq(Manager!Message) /\ Manager!IsInjective(all)
      /\ Manager!Range(all) = Manager!Range(pre.data) \union Manager!Range(Manager!Updates)
  <2>1. Manager!IsInjective(pre.data)
    BY <1>1 DEF DataTells
  <2>2. Manager!Updates \in Seq(Manager!Message) /\ Manager!IsInjective(Manager!Updates)
    BY UpdatesTell
  <2> QED BY <1>1, <1>2, <2>1, <2>2, JoinedApart
<1> HIDE DEF all
<1>4. Manager!Range(all) = Manager!Range(pre.data) \union Owned({Update(l): l \in NetChanged})
  BY <1>3, UpdatesTell
<1>5. \A m \in Manager!Range(all): m \in Manager!Message
  BY <1>3 DEF Manager!Range
<1>6. CASE pre.hook
  <2>1. told' = Manager!post_message(all)
    BY <1>6 DEF Manager!finalize_o2m_tracking, all
  <2>2. Manager!IsInjective(told') /\ Manager!Range(told') = {m \in Manager!Range(all): Manager!Shown(m.owner)}
    BY <1>3, <2>1, KeptMessages
  <2> QED BY <1>4, <1>5, <2>2
<1>7. CASE ~pre.hook
  <2>1. told' = <<>> /\ pre.data = <<>> /\ Owned({Update(l): l \in NetChanged}) = {}
    BY <1>7, UpdatesTell DEF Manager!finalize_o2m_tracking
  <2>2. Manager!Range(pre.data) = {} /\ Manager!Range(told') = {} /\ Manager!IsInjective(told')
    BY <2>1 DEF Manager!Range, Manager!IsInjective
  <2> QED BY <2>1, <2>2
<1> QED BY <1>6, <1>7

\* tracking_manager: a run of the hooks tells the net changes.
LEMMA HooksTellNetChanges ==
  ASSUME ManagerInd, Manager!finalize_o2m_tracking
  PROVE  Manager!TellsNetChanges
<1>1. CASE ~Manager!is_tracked_by_o2m
  <2>1. pre = Manager!NoData
    BY <1>1 DEF ManagerInd
  <2>2. told' = <<>>
    BY <2>1 DEF Manager!finalize_o2m_tracking, Manager!NoData
  <2> QED BY <1>1, <2>2 DEF Manager!TellsNetChanges
<1>2. CASE Manager!is_tracked_by_o2m
  <2> DEFINE updates == {Update(l): l \in NetChanged}
             created == {[owner |-> since.line[l][inverse_name], record |-> l]: l \in since.fresh}
  <2>1. /\ Manager!IsInjective(told')
        /\ Manager!Range(told') = {m \in Manager!Range(pre.data) \union Owned(updates): Manager!Shown(m.owner)}
    BY <1>2, HookMessages
  <2>2. /\ \A m \in Manager!Range(pre.data): m.mode \in {"create", "unlink"}
        /\ PairsOf(pre.data, "create") = Owned(created)
        /\ PairsOf(pre.data, "unlink") = Owned(since.gone)
    BY <1>2 DEF ManagerInd, DataTells
  <2>3. \A m \in Owned(updates): m.mode = "update"
    BY DEF Owned, Update
  <2> HIDE DEF updates, created
  <2>4. Manager!ToldOf("update") = Manager!Audience(updates)
    BY <2>1, <2>2, <2>3 DEF Manager!ToldOf, Manager!Audience, Owned
  <2>5. {[owner |-> m.owner, record |-> m.record]: m \in Manager!ToldOf("create")} = Manager!Audience(created)
    <3>1. Manager!ToldOf("create") = {m \in Manager!Range(pre.data): m.mode = "create" /\ Manager!Shown(m.owner)}
      BY <2>1, <2>3 DEF Manager!ToldOf
    <3>2. {[owner |-> m.owner, record |-> m.record]: m \in Manager!ToldOf("create")}
            = {x \in PairsOf(pre.data, "create"): Manager!Shown(x.owner)}
      BY <3>1 DEF PairsOf
    <3> QED BY <2>2, <3>2 DEF Owned, Manager!Audience
  <2>6. {[owner |-> m.owner, record |-> m.record]: m \in Manager!ToldOf("unlink")} = Manager!Audience(since.gone)
    <3>1. Manager!ToldOf("unlink") = {m \in Manager!Range(pre.data): m.mode = "unlink" /\ Manager!Shown(m.owner)}
      BY <2>1, <2>3 DEF Manager!ToldOf
    <3>2. {[owner |-> m.owner, record |-> m.record]: m \in Manager!ToldOf("unlink")}
            = {x \in PairsOf(pre.data, "unlink"): Manager!Shown(x.owner)}
      BY <3>1 DEF PairsOf
    <3> QED BY <2>2, <3>2 DEF Owned, Manager!Audience
  <2> QED BY <1>2, <2>1, <2>4, <2>5, <2>6 DEF Manager!TellsNetChanges, updates, created, Update, NetChanged
<1> QED BY <1>1, <1>2

LEMMA ManagerFinalizes ==
  ASSUME ManagerInd, Manager!finalize_o2m_tracking
  PROVE  Manager!Range(told') \subseteq Manager!Message
<1>1. CASE ~Manager!is_tracked_by_o2m
  <2>1. told' = <<>>
    BY <1>1, HooksTellNetChanges DEF Manager!TellsNetChanges
  <2> QED BY <2>1 DEF Manager!Range
<1>2. CASE Manager!is_tracked_by_o2m
  BY <1>2, HookMessages
<1> QED BY <1>1, <1>2

\* Nothing is left to tell after the hooks and after a rollback.
LEMMA NothingLeftToTell ==
  ASSUME ManagerInd, conf' \in DetailConfig, cache' \in DetailConfig \union {None},
         ops' \in 0..MaxSteps["manager"], Manager!Range(told') \subseteq Manager!Message,
         TxTyped', Sound(db'), pre' = Manager!NoData, since' = Manager!From(db'.line)
  PROVE  ManagerInd'
<1>1. /\ PreTyped' /\ SinceTyped(since', db') /\ ~pre'.hook
      /\ LinesKnown(db, pre.before, since)' /\ DataTells(pre'.data, since')
  BY NothingSince
<1>2. SinceTyped(since, db)' /\ DataTells(pre.data, since)'
  BY <1>1 DEF SinceTyped, DataTells, PairsOf
<1>3. Sound(db)'
  BY DEF Sound
<1>4. pre' = Manager!NoData' /\ since' = Manager!From(db.line)'
  BY DEF Manager!NoData, Manager!From
<1> QED BY <1>1, <1>2, <1>3, <1>4 DEF ManagerInd

LEMMA ManagerStep == ManagerInd /\ [Manager!Next]_(Manager!vars) => ManagerInd'
<1> SUFFICES ASSUME ManagerInd, [Manager!Next]_(Manager!vars) PROVE ManagerInd'
  OBVIOUS
<1>0. /\ conf \in DetailConfig /\ cache \in DetailConfig \union {None} /\ ops \in 0..MaxSteps["manager"]
      /\ Manager!Range(told) \subseteq Manager!Message /\ Sound(db) /\ TxTyped /\ PreTyped
      /\ SinceTyped(since, db) /\ (tx = None => pre = Manager!NoData /\ since = Manager!From(db.line))
  BY DEF ManagerInd
<1>1. CASE UNCHANGED Manager!vars
  <2>1. /\ conf' = conf /\ cache' = cache /\ db' = db /\ pre' = pre /\ told' = told /\ tx' = tx
        /\ since' = since /\ ops' = ops
    BY <1>1 DEF Manager!vars
  <2>2. /\ Manager!is_tracked_by_o2m' = Manager!is_tracked_by_o2m
        /\ Manager!get_fields_to_track' = Manager!get_fields_to_track
    BY <2>1, KnownStays
  <2>3. LinesKnown(db, pre.before, since)' <=> LinesKnown(db, pre.before, since)
    BY <2>1, <2>2 DEF LinesKnown
  <2>4. DataTells(pre.data, since)' <=> DataTells(pre.data, since)
    BY <2>1 DEF DataTells, PairsOf
  <2>5. TxTyped' /\ PreTyped' /\ SinceTyped(since, db)' /\ Sound(db)' /\ Manager!NoData' = Manager!NoData
        /\ Manager!From(db.line)' = Manager!From(db.line)
    BY <1>0, <2>1 DEF TxTyped, PreTyped, SinceTyped, Sound, Manager!NoData, Manager!From
  <2> QED BY <1>0, <2>1, <2>2, <2>3, <2>4, <2>5 DEF ManagerInd
<1>2. CASE Manager!Configure
  <2>1. /\ tx = None /\ ops < MaxSteps["manager"] /\ ops' = ops + 1 /\ conf' \in DetailConfig
        /\ db' = db /\ pre' = pre /\ told' = told /\ tx' = tx /\ since' = since
    BY <1>2 DEF Manager!Configure
  <2>2. cache' \in DetailConfig \union {None}
    BY <1>0, <1>2 DEF Manager!Configure, Manager!write_active, Manager!update_custom_tracking, 
                      Manager!write_custom_tracking
  <2>3. TxTyped' /\ Sound(db') /\ ops' \in 0..MaxSteps["manager"]
    BY <1>0, <2>1, OpsBounded DEF TxTyped
  <2> QED BY <1>0, <2>1, <2>2, <2>3, NothingLeftToTell
<1>3. CASE \E L \in SUBSET Detail, f \in DetailField: \E x \in Manager!ValueOf(f): Manager!write(L, f, x)
  BY <1>3, ManagerWrites
<1>4. CASE \E l \in Detail: Manager!unlink(l) \/ \E values \in Manager!Record: Manager!create(l, values)
  BY <1>4, ManagerUnlinks, ManagerCreates
<1>5. CASE \E o \in Master: Manager!write_owner(o)
  <2>1. PICK o \in Master: Manager!write_owner(o)
    BY <1>5
  <2>2. /\ tx # None /\ ops < MaxSteps["manager"] /\ ops' = ops + 1
        /\ conf' = conf /\ told' = told /\ tx' = tx /\ cache' = cache /\ pre' = pre /\ since' = since
        /\ db' = [db EXCEPT !.open = IF o \in db.open THEN db.open \ {o} ELSE db.open \union {o}]
    BY <2>1 DEF Manager!write_owner, Manager!Operation
  <2>3. /\ db = [line |-> db.line, used |-> db.used, open |-> db.open] /\ db.open \subseteq Master
    BY <1>0 DEF Sound, Manager!Database
  <2>4. /\ db'.line = db.line /\ db'.used = db.used /\ db'.open \subseteq Master
        /\ db' = [line |-> db'.line, used |-> db'.used, open |-> db'.open]
    BY <2>2, <2>3
  <2>5. Sound(db') /\ Sound(db)'
    BY <1>0, <2>4 DEF Sound, Manager!Database
  <2>6. /\ Manager!is_tracked_by_o2m' = Manager!is_tracked_by_o2m
        /\ Manager!get_fields_to_track' = Manager!get_fields_to_track
    BY <2>2, KnownStays
  <2>7. LinesKnown(db, pre.before, since)' <=> LinesKnown(db, pre.before, since)
    BY <2>2, <2>4, <2>6 DEF LinesKnown
  <2>8. DataTells(pre.data, since)' <=> DataTells(pre.data, since)
    BY <2>2 DEF DataTells, PairsOf
  <2>9. TxTyped' /\ PreTyped' /\ SinceTyped(since, db)' /\ Manager!NoData' = Manager!NoData
    BY <1>0, <2>2, <2>4 DEF TxTyped, PreTyped, SinceTyped, Sound, Manager!NoData
  <2>10. ops' \in 0..MaxSteps["manager"]
    BY <1>0, <2>2, OpsBounded
  <2> QED BY <1>0, <2>2, <2>5, <2>6, <2>7, <2>8, <2>9, <2>10 DEF ManagerInd
<1>6. CASE Manager!Begin
  <2>1. /\ tx = None /\ tx' = [start |-> db, point |-> None]
        /\ conf' = conf /\ cache' = cache /\ db' = db /\ pre' = pre /\ told' = told
        /\ since' = since /\ ops' = ops
    BY <1>6 DEF Manager!Begin
  <2>2. TxTyped' /\ Sound(db')
    BY <1>0, <2>1 DEF TxTyped, Sound
  <2> QED BY <1>0, <2>1, <2>2, NothingLeftToTell
<1>7. CASE Manager!Commit \/ Manager!Flush \/ Manager!Savepoint
  <2>1. /\ Manager!finalize_o2m_tracking /\ conf' = conf /\ cache' = cache /\ db' = db /\ ops' = ops
        /\ tx # None /\ (tx' = None \/ tx' = tx \/ tx' = [tx EXCEPT !.point = db])
    BY <1>7 DEF Manager!Commit, Manager!Flush, Manager!Savepoint
  <2>2. pre' = Manager!NoData /\ since' = Manager!From(db.line) /\ Manager!Range(told') \subseteq Manager!Message
    BY <2>1, ManagerFinalizes DEF Manager!finalize_o2m_tracking
  <2>3. Sound(db') /\ TxTyped'
    <3>1. CASE tx' = None \/ tx' = tx
      BY <1>0, <2>1, <3>1 DEF TxTyped, Sound
    <3>2. CASE tx' = [tx EXCEPT !.point = db]
      <4>1. tx = [start |-> tx.start, point |-> tx.point] /\ Sound(tx.start)
        BY <1>0, <2>1 DEF TxTyped
      <4>2. tx'.start = tx.start /\ tx'.point = db /\ tx' = [start |-> tx'.start, point |-> tx'.point]
        BY <3>2, <4>1
      <4> QED BY <1>0, <2>1, <4>1, <4>2 DEF TxTyped, Sound
    <3> QED BY <1>0, <2>1, <3>1, <3>2
  <2> QED BY <1>0, <2>1, <2>2, <2>3, NothingLeftToTell
<1>8. CASE Manager!RollbackToSavepoint \/ Manager!Rollback
  <2> DEFINE Back(to) == /\ to = tx.start \/ (tx.point # None /\ to = tx.point)
                         /\ Manager!GoBack(to)
                         /\ tx' = None \/ tx' = [tx EXCEPT !.point = None]
                         /\ tx # None
  <2>0. Manager!Rollback => Back(tx.start)
    BY DEF Manager!Rollback
  <2>9. Manager!RollbackToSavepoint => Back(tx.point)
    BY DEF Manager!RollbackToSavepoint
  <2>1. PICK to: Back(to)
    BY <1>8, <2>0, <2>9
  <2>2. /\ tx = [start |-> tx.start, point |-> tx.point] /\ Sound(tx.start)
        /\ tx.point # None => Sound(tx.point)
    BY <1>0, <2>1 DEF TxTyped
  <2>3. /\ db' = to /\ pre' = Manager!NoData /\ since' = Manager!From(to.line)
        /\ conf' = conf /\ cache' = cache /\ told' = told /\ ops' = ops /\ Sound(to)
    BY <2>1, <2>2 DEF Manager!GoBack
  <2>4. TxTyped'
    <3>1. CASE tx' = None
      BY <3>1 DEF TxTyped
    <3>2. CASE tx' = [tx EXCEPT !.point = None]
      <4>1. tx'.start = tx.start /\ tx'.point = None /\ tx' = [start |-> tx'.start, point |-> tx'.point]
        BY <2>2, <3>2
      <4> QED BY <2>2, <4>1 DEF TxTyped, Sound
    <3> QED BY <2>1, <3>1, <3>2
  <2> QED BY <1>0, <2>3, <2>4, NothingLeftToTell
<1> QED BY <1>1, <1>2, <1>3, <1>4, <1>5, <1>6, <1>7, <1>8 DEF Manager!Next

LEMMA ManagerTells == ManagerInd => Manager!HooksTell
<1> SUFFICES ASSUME ManagerInd, Manager!Commit \/ Manager!Flush \/ Manager!Savepoint
             PROVE  Manager!TellsNetChanges
  BY DEF Manager!HooksTell
<1>1. Manager!finalize_o2m_tracking
  BY DEF Manager!Commit, Manager!Flush, Manager!Savepoint
<1> QED BY <1>1, HooksTellNetChanges

LEMMA ManagerTyped == ManagerInd => Manager!TypeOK
<1> SUFFICES ASSUME ManagerInd PROVE Manager!TypeOK
  OBVIOUS
<1>1. pre.before \in UNION {[L -> Manager!Record]: L \in SUBSET Detail}
  BY DEF ManagerInd, PreTyped
<1>2. tx = None \/ tx \in [start: Manager!Database, point: Manager!Database \union {None}]
  <2>1. CASE tx # None
    <3>1. /\ tx = [start |-> tx.start, point |-> tx.point] /\ tx.start \in Manager!Database
          /\ tx.point \in Manager!Database \union {None}
      BY <2>1 DEF ManagerInd, TxTyped, Sound
    <3> QED BY <3>1
  <2> QED BY <2>1
<1> QED BY <1>1, <1>2 DEF ManagerInd, PreTyped, Sound, SinceTyped, Manager!TypeOK

-----------------------------------------------------------------------------
(***************************************************************************)
(* tracking_manager_domain: what the chatter tells of a record is what     *)
(* changed and what its domains show, each once.                           *)
(***************************************************************************)
\* f has the values on 0..n that a first one and a step give.
StaysIn(T, n, step) == \A x \in T, k \in 1..n: step[<<x, k>>] \in T
Iterates(f, T, a, n, step) ==
  f \in [0..n -> T] /\ f[0] = a /\ \A k \in 1..n: f[k] = step[<<f[k - 1], k>>]

LEMMA Iterated ==
  ASSUME NEW T, NEW a \in T, NEW n \in Nat, NEW step, StaysIn(T, n, step)
  PROVE  \E f: Iterates(f, T, a, n, step)
<1> USE DEF StaysIn, Iterates
<1> DEFINE Upto(m, f) == f \in [0..m -> T] /\ f[0] = a /\ \A k \in 1..m: f[k] = step[<<f[k - 1], k>>]
           Bad == {m \in 0..n: ~\E f: Upto(m, f)}
<1>1. Upto(0, [k \in 0..0 |-> a])
  OBVIOUS
<1>2. ASSUME NEW m \in Nat, m + 1 \in 0..n, NEW f, Upto(m, f)
      PROVE  Upto(m + 1, [k \in 0..(m + 1) |-> IF k = m + 1 THEN step[<<f[m], m + 1>>] ELSE f[k]])
  <2> DEFINE g == [k \in 0..(m + 1) |-> IF k = m + 1 THEN step[<<f[m], m + 1>>] ELSE f[k]]
  <2>1. step[<<f[m], m + 1>>] \in T
    BY <1>2
  <2>2. g \in [0..(m + 1) -> T]
    BY <1>2, <2>1
  <2>3. g[0] = a
    BY <1>2
  <2>4. ASSUME NEW k \in 1..(m + 1) PROVE g[k] = step[<<g[k - 1], k>>]
    <3>1. g[k - 1] = f[k - 1] /\ k - 1 \in 0..m
      BY <2>4
    <3>2. CASE k = m + 1
      <4>1. g[k] = step[<<f[m], m + 1>>]
        BY <3>2
      <4>2. f[m] = g[k - 1] /\ m + 1 = k
        BY <3>1, <3>2
      <4> QED BY <4>1, <4>2
    <3>3. CASE k # m + 1
      <4>1. g[k] = f[k] /\ k \in 1..m
        BY <3>3
      <4>2. f[k] = step[<<f[k - 1], k>>]
        BY <1>2, <4>1
      <4> HIDE DEF g
      <4> QED BY <3>1, <4>1, <4>2
    <3> QED BY <3>2, <3>3
  <2> HIDE DEF g
  <2>5. Upto(m + 1, g)
    BY <2>2, <2>3, <2>4
  <2> QED BY <2>5 DEF g
<1>3. Bad = {}
  <2> SUFFICES ASSUME Bad # {} PROVE FALSE
    OBVIOUS
  <2>1. Bad \in SUBSET Nat
    OBVIOUS
  <2> HIDE DEF Upto
  <2>2. PICK m \in Bad: \A k \in Bad: m <= k
    <3> HIDE DEF Bad
    <3> QED BY <2>1, SmallestOfNat
  <2>3. m # 0
    BY <1>1
  <2>4. m - 1 \in Nat /\ m - 1 \in 0..n /\ m - 1 \notin Bad
    BY <2>2, <2>3
  <2>5. PICK f: Upto(m - 1, f)
    BY <2>4
  <2>6. (m - 1) + 1 = m /\ m \in 0..n
    BY <2>4
  <2>7. \E g: Upto(m, g)
    <3>1. \E g: Upto((m - 1) + 1, g)
      BY <1>2, <2>4, <2>5, <2>6
    <3> QED BY <2>6, <3>1
  <2> QED BY <2>2, <2>7
<1>4. n \in 0..n
  OBVIOUS
<1> HIDE DEF Upto
<1>5. PICK f: Upto(n, f)
  BY <1>3, <1>4
<1> USE DEF Upto
<1> QED BY <1>5

LEMMA RemovedAt ==
  ASSUME NEW E, NEW s \in Seq(E), NEW i \in 1..Len(s)
  PROVE  LET u == Chatter!Without(s, i)
         IN  /\ u \in Seq(E) /\ Len(u) = Len(s) - 1
             /\ \A j \in 1..Len(u): u[j] = IF j < i THEN s[j] ELSE s[j + 1]
<1> DEFINE before == SubSeq(s, 1, i - 1)
           after == SubSeq(s, i + 1, Len(s))
<1>1. Len(s) \in Nat /\ i \in Nat /\ i >= 1 /\ i <= Len(s)
  OBVIOUS
<1>2. before \in Seq(E) /\ Len(before) = i - 1 /\ \A j \in 1..(i - 1): before[j] = s[j]
  BY <1>1
<1>3. after \in Seq(E) /\ Len(after) = Len(s) - i /\ \A j \in 1..(Len(s) - i): after[j] = s[i + j]
  BY <1>1
<1>4. Chatter!Without(s, i) = before \o after
  BY DEF Chatter!Without
<1> HIDE DEF before, after
<1> DEFINE u == before \o after
<1>5. u \in Seq(E) /\ Len(u) = Len(s) - 1
  <2>1. u \in Seq(E) /\ Len(u) = Len(before) + Len(after)
    BY <1>2, <1>3
  <2> HIDE DEF u
  <2> QED BY <1>1, <1>2, <1>3, <2>1
<1>6. ASSUME NEW j \in 1..Len(u) PROVE u[j] = IF j < i THEN s[j] ELSE s[j + 1]
  <2>1. CASE j < i
    <3>1. j \in 1..Len(before) /\ u[j] = before[j]
      BY <1>1, <1>2, <1>3, <1>5, <2>1
    <3> QED BY <1>2, <2>1, <3>1
  <2>2. CASE ~(j < i)
    <3>1. j - (i - 1) \in 1..(Len(s) - i) /\ u[j] = after[j - (i - 1)] /\ i + (j - (i - 1)) = j + 1
      BY <1>1, <1>2, <1>3, <1>5, <2>2
    <3> QED BY <1>3, <2>2, <3>1
  <2> QED BY <2>1, <2>2
<1> QED BY <1>4, <1>5, <1>6

LEMMA RemovedFromSet ==
  ASSUME NEW E, NEW s \in Seq(E), NEW i \in 1..Len(s), Chatter!IsInjective(s)
  PROVE  LET u == Chatter!Without(s, i)
         IN  /\ u \in Seq(E) /\ Chatter!IsInjective(u)
             /\ Chatter!Range(u) = {s[j]: j \in (1..Len(s)) \ {i}}
<1> DEFINE u == Chatter!Without(s, i)
<1>1. /\ u \in Seq(E) /\ Len(u) = Len(s) - 1 /\ Len(s) \in Nat
      /\ \A j \in 1..Len(u): u[j] = IF j < i THEN s[j] ELSE s[j + 1]
  BY RemovedAt
<1> HIDE DEF u
<1>2. DOMAIN u = 1..Len(u) /\ DOMAIN s = 1..Len(s)
  BY <1>1
<1>3. Chatter!IsInjective(u)
  <2> SUFFICES ASSUME NEW a \in 1..Len(u), NEW b \in 1..Len(u), u[a] = u[b] PROVE a = b
    BY <1>2 DEF Chatter!IsInjective
  <2> DEFINE place(j) == IF j < i THEN j ELSE j + 1
  <2>1. /\ place(a) \in DOMAIN s /\ place(b) \in DOMAIN s
        /\ u[a] = s[place(a)] /\ u[b] = s[place(b)]
    BY <1>1, <1>2
  <2>2. place(a) = place(b)
    <3> HIDE DEF place
    <3> QED BY <2>1 DEF Chatter!IsInjective
  <2> QED BY <2>2
<1>4. Chatter!Range(u) \subseteq {s[j]: j \in (1..Len(s)) \ {i}}
  <2> SUFFICES ASSUME NEW a \in 1..Len(u) PROVE \E j \in (1..Len(s)) \ {i}: u[a] = s[j]
    BY <1>2 DEF Chatter!Range
  <2>1. CASE a < i
    <3>1. a \in (1..Len(s)) \ {i} /\ u[a] = s[a]
      BY <1>1, <2>1
    <3> QED BY <3>1
  <2>2. CASE ~(a < i)
    <3>1. a + 1 \in (1..Len(s)) \ {i} /\ u[a] = s[a + 1]
      BY <1>1, <2>2
    <3> QED BY <3>1
  <2> QED BY <2>1, <2>2
<1>5. ASSUME NEW j \in (1..Len(s)) \ {i} PROVE s[j] \in Chatter!Range(u)
  <2>1. CASE j < i
    <3>1. j \in 1..Len(u) /\ u[j] = s[j]
      BY <1>1, <2>1
    <3> QED BY <1>2, <3>1 DEF Chatter!Range
  <2>2. CASE ~(j < i)
    <3>1. j - 1 \in 1..Len(u) /\ ~(j - 1 < i) /\ (j - 1) + 1 = j
      BY <1>1, <2>2
    <3>2. u[j - 1] = s[j]
      BY <1>1, <3>1
    <3> QED BY <1>2, <3>1, <3>2 DEF Chatter!Range
  <2> QED BY <2>1, <2>2
<1> QED BY <1>1, <1>3, <1>4, <1>5 DEF u

\* What list.pop has made of the entries after n of the keys.
PoppedSo(entries, keys, f) ==
  f = [n \in 0..Len(keys) |->
        IF n = 0 THEN [list |-> entries, raised |-> FALSE]
        ELSE IF f[n - 1].raised \/ keys[n] > Len(f[n - 1].list)
        THEN [f[n - 1] EXCEPT !.raised = TRUE]
        ELSE [f[n - 1] EXCEPT !.list = Chatter!Without(@, keys[n])]]

LEMMA PoppedTyped ==
  ASSUME NEW E, NEW entries \in Seq(E), NEW keys \in Seq(Nat \ {0})
  PROVE  \E f: /\ PoppedSo(entries, keys, f) /\ f \in [0..Len(keys) -> [list: Seq(E), raised: BOOLEAN]]
               /\ Chatter!PopAll(entries, keys) = f[Len(keys)]
<1> DEFINE T == [list: Seq(E), raised: BOOLEAN]
           first == [list |-> entries, raised |-> FALSE]
           after(x, n) == IF x.raised \/ keys[n] > Len(x.list) THEN [x EXCEPT !.raised = TRUE]
                          ELSE [x EXCEPT !.list = Chatter!Without(@, keys[n])]
           step == [p \in T \X (1..Len(keys)) |-> after(p[1], p[2])]
<1>1. first \in T /\ Len(keys) \in Nat
  OBVIOUS
<1>2. ASSUME NEW x \in T, NEW n \in 1..Len(keys) PROVE after(x, n) \in T /\ step[<<x, n>>] = after(x, n)
  <2>1. keys[n] \in Nat \ {0} /\ x.list \in Seq(E) /\ x.raised \in BOOLEAN /\ x = [list |-> x.list, raised |-> x.raised]
    OBVIOUS
  <2>2. CASE x.raised \/ keys[n] > Len(x.list)
    BY <2>1, <2>2
  <2>3. CASE ~(x.raised \/ keys[n] > Len(x.list))
    <3>1. keys[n] \in 1..Len(x.list)
      BY <2>1, <2>3
    <3>2. Chatter!Without(x.list, keys[n]) \in Seq(E)
      BY <2>1, <3>1, RemovedAt
    <3>3. after(x, n) = [list |-> Chatter!Without(x.list, keys[n]), raised |-> x.raised]
      BY <2>1, <2>3
    <3> QED BY <2>1, <3>2, <3>3
  <2> QED BY <2>2, <2>3
<1> HIDE DEF step, T, after
<1>3. PICK g \in [0..Len(keys) -> T]: g[0] = first /\ \A n \in 1..Len(keys): g[n] = step[<<g[n - 1], n>>]
  <2>1. StaysIn(T, Len(keys), step)
    BY <1>2 DEF StaysIn
  <2> HIDE DEF first
  <2>2. \E f: Iterates(f, T, first, Len(keys), step)
    BY <1>1, <2>1, Iterated
  <2> QED BY <2>2 DEF Iterates
<1>4. PoppedSo(entries, keys, g)
  <2>1. ASSUME NEW n \in 1..Len(keys) PROVE g[n] = after(g[n - 1], n)
    <3>1. n - 1 \in 0..Len(keys)
      BY <1>1
    <3>2. g[n - 1] \in T /\ g[n] = step[<<g[n - 1], n>>]
      BY <1>3, <3>1
    <3> QED BY <1>2, <3>2
  <2>2. \A n \in 0..Len(keys): n = 0 \/ n \in 1..Len(keys)
    BY <1>1
  <2>3. g = [n \in 0..Len(keys) |-> IF n = 0 THEN first ELSE after(g[n - 1], n)]
    BY <1>3, <2>1, <2>2
  <2> QED BY <2>3, Zenon DEF PoppedSo, after, first
<1> DEFINE chosen == CHOOSE f: PoppedSo(entries, keys, f)
<1>5. Chatter!PopAll(entries, keys) = chosen[Len(keys)]
  BY Zenon DEF Chatter!PopAll, PoppedSo
<1>6. PoppedSo(entries, keys, chosen)
  BY <1>4, Zenon
<1> HIDE DEF chosen
<1>7. chosen \in [0..Len(keys) -> T]
  <2>1. /\ DOMAIN chosen = 0..Len(keys) /\ chosen[0] = first
        /\ \A n \in 1..Len(keys): chosen[n] = after(chosen[n - 1], n)
        /\ chosen = [n \in 0..Len(keys) |-> chosen[n]]
    <3>1. chosen = [n \in 0..Len(keys) |-> IF n = 0 THEN first ELSE after(chosen[n - 1], n)]
      BY <1>6, Zenon DEF PoppedSo, after, first
    <3>2. DOMAIN chosen = 0..Len(keys)
      BY <3>1, Zenon
    <3>3. chosen[0] = first
      BY <1>1, <3>1
    <3>4. ASSUME NEW n \in 1..Len(keys) PROVE chosen[n] = after(chosen[n - 1], n)
      <4>1. n \in 0..Len(keys) /\ n # 0
        BY <1>1
      <4> QED BY <3>1, <4>1, Zenon
    <3>5. chosen = [n \in 0..Len(keys) |-> chosen[n]]
      <4> DEFINE value(n) == IF n = 0 THEN first ELSE after(chosen[n - 1], n)
      <4>1. chosen = [n \in 0..Len(keys) |-> value(n)]
        BY <3>1
      <4> HIDE DEF value
      <4> QED BY <4>1
    <3> QED BY <3>2, <3>3, <3>4, <3>5
  <2> DEFINE Bad == {n \in 0..Len(keys): chosen[n] \notin T}
  <2>2. Bad = {}
    <3> SUFFICES ASSUME Bad # {} PROVE FALSE
      OBVIOUS
    <3>1. Bad \in SUBSET Nat
      BY <1>1
    <3>2. PICK n \in Bad: \A m \in Bad: n <= m
      <4> HIDE DEF Bad
      <4> QED BY <3>1, SmallestOfNat
    <3>3. n # 0
      BY <1>1, <2>1, <3>2
    <3>4. n \in 1..Len(keys) /\ n - 1 \in 0..Len(keys) /\ n - 1 \notin Bad
      BY <1>1, <3>2, <3>3
    <3>5. chosen[n] \in T
      BY <1>2, <2>1, <3>4
    <3> QED BY <3>2, <3>5
  <2> HIDE DEF T
  <2> QED BY <2>1, <2>2
<1> QED BY <1>5, <1>6, <1>7 DEF T

LEMMA ChatterSets ==
  ASSUME NEW S
  PROVE  Chatter!Cardinality(S) = Cardinality(S) /\ (Chatter!IsFiniteSet(S) <=> IsFiniteSet(S))
BY DEF Chatter!Cardinality, Cardinality, Chatter!IsFiniteSet, IsFiniteSet

\* An order of a finite set has all of it.
LEMMA OrderOfSet ==
  ASSUME NEW S, IsFiniteSet(S), NEW s \in Chatter!Orders(S)
  PROVE  /\ s \in Seq(S) /\ Len(s) = Cardinality(S) /\ DOMAIN s = 1..Len(s)
         /\ Chatter!IsInjective(s) /\ Chatter!Range(s) = S
<1>1. Cardinality(S) \in Nat /\ ExistsBijection(1..Cardinality(S), S)
  <2>1. PICK n \in Nat: ExistsBijection(1..n, S)
    BY FS_NatBijection
  <2>2. Cardinality(S) = n
    BY <2>1, FS_CountingElements
  <2> QED BY <2>1, <2>2
<1>2. s \in [1..Cardinality(S) -> S] /\ \A i, j \in 1..Cardinality(S): i # j => s[i] # s[j]
  <2>1. s \in [1..Cardinality(S) -> S] /\ Chatter!IsInjective(s)
    BY ChatterSets DEF Chatter!Orders, Chatter!Bijection, Chatter!Injection
  <2> QED BY <2>1 DEF Chatter!IsInjective
<1>3. Chatter!IsInjective(s)
  BY <1>2 DEF Chatter!IsInjective
<1>4. s \in Seq(S) /\ Len(s) = Cardinality(S) /\ DOMAIN s = 1..Len(s)
  <2>1. \A n \in Nat: \A f: f \in [1..n -> S] => f \in Seq(S) /\ Len(f) = n /\ DOMAIN f = 1..n
    OBVIOUS
  <2> QED BY <1>1, <1>2, <2>1
<1>5. Chatter!Range(s) = S
  <2>1. Chatter!Range(s) \subseteq S
    BY <1>2 DEF Chatter!Range
  <2>2. s \in Bijection(1..Cardinality(S), Chatter!Range(s))
    BY <1>2, <1>3 DEF Chatter!Range, Bijection, Injection, Surjection, IsInjective, Chatter!IsInjective
  <2>3. Cardinality(Chatter!Range(s)) = Cardinality(S)
    BY <1>1, <2>2, FS_CountingElements DEF ExistsBijection
  <2> QED BY <2>1, <2>3, FS_Subset
<1> QED BY <1>3, <1>4, <1>5

AnyValue == Chatter!PropertyValues \union PropertyValue \union {None}

ChatterData ==
  /\ tracked \in SUBSET Chatter!Field
  /\ initial \in UNION {Chatter!Values(F): F \in SUBSET Chatter!Field}
  /\ now \in Chatter!Values(Chatter!Field)
  /\ domains \in Domains

LEMMA ChatterValues ==
  ASSUME ChatterData
  PROVE  /\ DOMAIN initial \subseteq Chatter!Field
         /\ \A f \in DOMAIN initial: initial[f] \in AnyValue
         /\ \A f \in DOMAIN initial \intersect PropertiesField:
              DOMAIN initial[f] \subseteq PropertyName /\ \A k \in DOMAIN initial[f]: initial[f][k] \in AnyValue
         /\ \A f \in Chatter!Field: now[f] \in AnyValue
         /\ \A f \in PropertiesField:
              DOMAIN now[f] \subseteq PropertyName /\ \A k \in DOMAIN now[f]: now[f][k] \in AnyValue
<1>1. ASSUME NEW F \in SUBSET Chatter!Field, NEW r \in Chatter!Values(F)
      PROVE  /\ DOMAIN r = F /\ \A f \in F: r[f] \in AnyValue
             /\ \A f \in F \intersect PropertiesField:
                  DOMAIN r[f] \subseteq PropertyName /\ \A k \in DOMAIN r[f]: r[f][k] \in AnyValue
  <2>1. r \in [F -> AnyValue] /\ \A f \in F: r[f] \in Chatter!ValueOf(f)
    BY DEF Chatter!Values, AnyValue
  <2>2. ASSUME NEW f \in F \intersect PropertiesField
        PROVE  DOMAIN r[f] \subseteq PropertyName /\ \A k \in DOMAIN r[f]: r[f][k] \in AnyValue
    <3>1. r[f] \in Chatter!PropertyValues
      BY <2>1 DEF Chatter!ValueOf
    <3>2. PICK K \in SUBSET PropertyName: r[f] \in [K -> PropertyValue \union {None}]
      BY <3>1 DEF Chatter!PropertyValues
    <3> QED BY <3>2 DEF AnyValue
  <2> QED BY <2>1, <2>2
<1>2. PICK F \in SUBSET Chatter!Field: initial \in Chatter!Values(F)
  BY DEF ChatterData
<1>3. now \in Chatter!Values(Chatter!Field) /\ PropertiesField \subseteq Chatter!Field
  BY DEF ChatterData, Chatter!Field
<1> QED BY <1>1, <1>2, <1>3

ChangedFields == {f \in tracked: Chatter!Changed(f)}
ChangedProperties == ChangedFields \intersect PropertiesField
TellsField(f) == [field |-> f, key |-> None, old |-> initial[f], new |-> now[f]]

LEMMA ChangedFinite ==
  ASSUME ChatterData
  PROVE  /\ IsFiniteSet(ChangedFields) /\ ChangedFields \subseteq Chatter!Field
         /\ ChangedFields \subseteq DOMAIN initial /\ ChangedFields \subseteq tracked
<1>1. IsFiniteSet(Chatter!Field)
  BY ChatterSets, AddonsParameters DEF Chatter!TrackingValuesParameters
<1>2. ChangedFields \subseteq Chatter!Field
  BY DEF ChangedFields, ChatterData
<1> QED BY <1>1, <1>2, FS_Subset DEF ChangedFields, Chatter!Changed

\* The entries for the properties of fields.
LEMMA ExtraTyped ==
  ASSUME ChatterData
  PROVE  /\ IsFiniteSet(Chatter!ExtraEntries)
         /\ \A e \in Chatter!ExtraEntries: e \in Chatter!Entry /\ e.field \in ChangedProperties /\ e.key \in PropertyName
         /\ ChangedProperties = {} => Chatter!ExtraEntries = {}
         /\ \A f \in ChangedProperties, k \in PropertyName:
              (\E e \in Chatter!ExtraEntries: e.field = f /\ e.key = k) <=>
                k \in DOMAIN initial[f] \intersect DOMAIN now[f] /\ initial[f][k] # now[f][k]
<1> DEFINE of(f) == Chatter!create_tracking_values_property(f)
           keys(f) == {x \in DOMAIN initial[f] \intersect DOMAIN now[f]: initial[f][x] # now[f][x]}
           one(f, k) == [field |-> f, key |-> k, old |-> initial[f][k], new |-> now[f][k]]
<1>1. Chatter!ExtraEntries = UNION {of(f): f \in ChangedProperties}
  BY DEF Chatter!ExtraEntries, ChangedProperties, ChangedFields
<1>2. \A f: of(f) = {one(f, k): k \in keys(f)}
  BY DEF Chatter!create_tracking_values_property
<1>3. ASSUME NEW f \in ChangedProperties
      PROVE  /\ keys(f) \subseteq PropertyName /\ f \in Chatter!Field
             /\ \A k \in keys(f): initial[f][k] \in AnyValue /\ now[f][k] \in AnyValue
  BY ChatterValues, ChangedFinite DEF ChangedProperties
<1>4. ASSUME NEW f \in ChangedProperties PROVE IsFiniteSet(of(f))
  <2>1. IsFiniteSet(PropertyName)
    BY ChatterSets, AddonsParameters DEF Chatter!TrackingValuesParameters
  <2>2. IsFiniteSet(keys(f))
    BY <1>3, <2>1, FS_Subset
  <2> DEFINE entry == [k \in keys(f) |-> one(f, k)]
             domain == keys(f)
             image == of(f)
  <2>3. entry \in Surjection(domain, image)
    BY <1>2 DEF Surjection
  <2> HIDE DEF entry, domain, image
  <2>4. IsFiniteSet(image)
    <3>1. IsFiniteSet(domain)
      BY <2>2 DEF domain
    <3> QED BY <2>3, <3>1, FS_Surjection
  <2> QED BY <2>4 DEF image
<1>5. IsFiniteSet(Chatter!ExtraEntries)
  <2> DEFINE all == {of(f): f \in ChangedProperties}
             giving == [f \in ChangedProperties |-> of(f)]
  <2>1. IsFiniteSet(ChangedProperties)
    BY ChangedFinite, FS_Subset DEF ChangedProperties
  <2>2. giving \in Surjection(ChangedProperties, all)
    BY DEF Surjection
  <2>3. \A T \in all: IsFiniteSet(T)
    BY <1>4
  <2> HIDE DEF all, giving
  <2>4. IsFiniteSet(all)
    BY <2>1, <2>2, FS_Surjection
  <2>5. IsFiniteSet(UNION all)
    BY <2>3, <2>4, FS_UNION
  <2> QED BY <1>1, <2>5 DEF all
<1>6. ASSUME NEW e \in Chatter!ExtraEntries
      PROVE  e \in Chatter!Entry /\ e.field \in ChangedProperties /\ e.key \in PropertyName
  <2>1. PICK f \in ChangedProperties: \E k \in keys(f): e = one(f, k)
    BY <1>1, <1>2
  <2> QED BY <1>3, <2>1 DEF Chatter!Entry, AnyValue
<1>7. ASSUME NEW f \in ChangedProperties, NEW k \in PropertyName
      PROVE  (\E e \in Chatter!ExtraEntries: e.field = f /\ e.key = k) <=> k \in keys(f)
  <2>1. ASSUME NEW e \in Chatter!ExtraEntries, e.field = f, e.key = k PROVE k \in keys(f)
    <3>1. PICK g \in ChangedProperties: \E x \in keys(g): e = one(g, x)
      BY <1>1, <1>2
    <3> QED BY <2>1, <3>1
  <2>2. ASSUME k \in keys(f) PROVE \E e \in Chatter!ExtraEntries: e.field = f /\ e.key = k
    <3>1. one(f, k) \in Chatter!ExtraEntries
      BY <1>1, <1>2, <2>2
    <3> QED BY <3>1
  <2> QED BY <2>1, <2>2
<1>8. ChangedProperties = {} => Chatter!ExtraEntries = {}
  BY <1>1
<1> QED BY <1>5, <1>6, <1>7, <1>8

\* The entries of Odoo's mail: one for each changed field.
LEMMA MailEntries ==
  ASSUME ChatterData, NEW order \in Chatter!Orders(ChangedFields)
  PROVE  LET entries == Chatter!super_mail_track(order)
         IN  /\ entries \in Seq(Chatter!Entry) /\ Len(entries) = Cardinality(ChangedFields)
             /\ DOMAIN entries = 1..Len(entries) /\ Len(entries) \in Nat
             /\ order \in Seq(ChangedFields) /\ Len(order) = Len(entries)
             /\ \A i \in 1..Len(entries): order[i] \in ChangedFields /\ entries[i] = TellsField(order[i])
             /\ Chatter!IsInjective(entries) /\ Chatter!IsInjective(order)
             /\ Chatter!Range(entries) = {TellsField(f): f \in ChangedFields}
<1> DEFINE entries == Chatter!super_mail_track(order)
<1>1. /\ order \in Seq(ChangedFields) /\ Len(order) = Cardinality(ChangedFields) /\ DOMAIN order = 1..Len(order)
      /\ Chatter!IsInjective(order) /\ Chatter!Range(order) = ChangedFields
  BY ChangedFinite, OrderOfSet
<1>2. entries = [i \in 1..Len(order) |-> TellsField(order[i])] /\ Len(order) \in Nat
  BY <1>1 DEF Chatter!super_mail_track, TellsField
<1>3. \A f \in ChangedFields: TellsField(f) \in Chatter!Entry
  BY ChangedFinite, ChatterValues DEF TellsField, Chatter!Entry, AnyValue
<1>4. \A i \in 1..Len(order): order[i] \in ChangedFields
  BY <1>1
<1> HIDE DEF entries
<1>5. entries \in Seq(Chatter!Entry) /\ Len(entries) = Len(order) /\ DOMAIN entries = 1..Len(order)
  <2>1. entries \in [1..Len(order) -> Chatter!Entry]
    BY <1>2, <1>3, <1>4
  <2>2. \A n \in Nat: \A f: f \in [1..n -> Chatter!Entry] => f \in Seq(Chatter!Entry) /\ Len(f) = n /\ DOMAIN f = 1..n
    OBVIOUS
  <2> QED BY <1>2, <2>1, <2>2
<1>6. \A i \in 1..Len(order): entries[i] = TellsField(order[i])
  BY <1>2
<1>7. \A i \in 1..Len(order): entries[i].field = order[i]
  <2>1. \A f: TellsField(f).field = f
    BY DEF TellsField
  <2> QED BY <1>6, <2>1
<1>8. Chatter!IsInjective(entries)
  BY <1>1, <1>5, <1>7 DEF Chatter!IsInjective
<1>9. Chatter!Range(entries) = {TellsField(f): f \in ChangedFields}
  BY <1>1, <1>4, <1>5, <1>6 DEF Chatter!Range
<1> QED BY <1>1, <1>2, <1>4, <1>5, <1>6, <1>8, <1>9 DEF entries

\* Without the placeholder of the only properties field, if there is one, the
\* entries are those of the plain fields.
LEMMA PlainPopped ==
  ASSUME ChatterData, NEW order \in Chatter!Orders(ChangedFields),
         NEW keys \in Chatter!Orders(Chatter!keys_to_delete(Chatter!super_mail_track(order)))
  PROVE  LET entries == Chatter!super_mail_track(order)
             plain == Chatter!PopAll(entries, keys)
         IN  /\ plain \in [list: Seq(Chatter!Entry), raised: BOOLEAN]
             /\ Cardinality(ChangedProperties) <= 1 =>
                  /\ ~plain.raised /\ Chatter!IsInjective(plain.list)
                  /\ Chatter!Range(plain.list) = {TellsField(f): f \in ChangedFields \ PropertiesField}
             /\ ChangedProperties = {} => plain.list = entries
<1> DEFINE entries == Chatter!super_mail_track(order)
           gone == Chatter!keys_to_delete(entries)
           plain == Chatter!PopAll(entries, keys)
<1>1. /\ entries \in Seq(Chatter!Entry) /\ Len(entries) \in Nat /\ DOMAIN entries = 1..Len(entries)
      /\ \A i \in 1..Len(entries): order[i] \in ChangedFields /\ entries[i] = TellsField(order[i])
      /\ order \in Seq(ChangedFields) /\ Len(order) = Len(entries)
      /\ Chatter!IsInjective(entries) /\ Chatter!IsInjective(order)
      /\ Chatter!Range(entries) = {TellsField(f): f \in ChangedFields}
  BY MailEntries
<1> HIDE DEF entries
<1>2. gone = {i \in 1..Len(entries): order[i] \in PropertiesField}
  <2>1. \A f: TellsField(f).field = f
    BY DEF TellsField
  <2> QED BY <1>1, <2>1 DEF Chatter!keys_to_delete
<1>3. IsFiniteSet(gone)
  <2>1. IsFiniteSet(1..Len(entries))
    <3>1. 1 \in Int /\ Len(entries) \in Int
      BY <1>1
    <3> QED BY <3>1, FS_Interval
  <2> QED BY <1>2, <2>1, FS_Subset
<1>4. keys \in Chatter!Orders(gone)
  BY DEF entries
<1> HIDE DEF gone
<1>5. /\ keys \in Seq(gone) /\ Len(keys) = Cardinality(gone) /\ DOMAIN keys = 1..Len(keys)
      /\ Chatter!IsInjective(keys) /\ Chatter!Range(keys) = gone /\ Len(keys) \in Nat
  BY <1>3, <1>4, OrderOfSet, FS_CardinalityType
<1>6. keys \in Seq(Nat \ {0})
  <2> DEFINE Positive == Nat \ {0}
  <2>1. \A n \in gone: n \in Positive
    BY <1>2
  <2>2. keys \in Seq(gone)
    BY <1>5
  <2> HIDE DEF Positive
  <2>3. keys \in Seq(Positive)
    BY <2>1, <2>2
  <2> QED BY <2>3 DEF Positive
<1>7. PICK f: /\ PoppedSo(entries, keys, f) /\ f \in [0..Len(keys) -> [list: Seq(Chatter!Entry), raised: BOOLEAN]]
              /\ plain = f[Len(keys)]
  BY <1>1, <1>6, PoppedTyped
<1> HIDE DEF plain
<1>8. plain \in [list: Seq(Chatter!Entry), raised: BOOLEAN]
  BY <1>5, <1>7
<1>9. f[0] = [list |-> entries, raised |-> FALSE]
  BY <1>5, <1>7 DEF PoppedSo
<1>10. CASE ChangedProperties = {}
  <2>1. gone = {}
    BY <1>1, <1>2, <1>10 DEF ChangedProperties
  <2>2. Len(keys) = 0
    BY <1>5, <2>1 DEF Chatter!Range
  <2>3. plain.list = entries /\ plain.raised = FALSE
    BY <1>7, <1>9, <2>2
  <2>4. ChangedFields \ PropertiesField = ChangedFields
    BY <1>10 DEF ChangedProperties
  <2> QED BY <1>1, <1>8, <2>3, <2>4 DEF plain, entries
<1>11. CASE ChangedProperties # {} /\ Cardinality(ChangedProperties) <= 1
  <2>1. IsFiniteSet(ChangedProperties)
    BY ChangedFinite, FS_Subset DEF ChangedProperties
  <2>2. PICK p: ChangedProperties = {p}
    BY <1>11, <2>1, FS_CardinalityType, FS_EmptySet, FS_Singleton, SMTT(20)
  <2>3. p \in ChangedFields /\ p \in PropertiesField /\ \A g \in ChangedFields: g \in PropertiesField => g = p
    BY <2>2 DEF ChangedProperties
  <2>4. PICK i \in 1..Len(entries): order[i] = p
    <3>1. TellsField(p) \in Chatter!Range(entries)
      BY <1>1, <2>3
    <3>2. PICK i \in 1..Len(entries): TellsField(p) = TellsField(order[i])
      BY <1>1, <3>1 DEF Chatter!Range
    <3>3. \A g: TellsField(g).field = g
      BY DEF TellsField
    <3> QED BY <3>2, <3>3
  <2>5. gone = {i}
    <3>1. \A j \in 1..Len(entries): order[j] = p => j = i
      <4>1. DOMAIN order = 1..Len(entries)
        BY <1>1
      <4> QED BY <2>4, <4>1, <1>1 DEF Chatter!IsInjective
    <3> QED BY <1>1, <1>2, <2>3, <2>4, <3>1
  <2>6. Len(keys) = 1 /\ keys[1] = i
    <3>1. Len(keys) = 1
      BY <1>5, <2>5, FS_Singleton
    <3>2. keys[1] \in gone
      <4>1. keys \in Seq(gone)
        BY <1>5
      <4> QED BY <3>1, <4>1
    <3> QED BY <2>5, <3>1, <3>2
  <2>7. plain = [list |-> Chatter!Without(entries, i), raised |-> FALSE]
    <3>1. f[1] = IF f[0].raised \/ keys[1] > Len(f[0].list)
                 THEN [f[0] EXCEPT !.raised = TRUE]
                 ELSE [f[0] EXCEPT !.list = Chatter!Without(@, keys[1])]
      <4>1. 1 \in 0..Len(keys) /\ 1 - 1 = 0 /\ 1 # 0
        BY <2>6
      <4> QED BY <1>7, <4>1 DEF PoppedSo
    <3>2. f[0].raised = FALSE /\ f[0].list = entries /\ ~(i > Len(entries))
      BY <1>1, <1>9, <2>4
    <3> QED BY <1>7, <1>9, <2>6, <3>1, <3>2
  <2>8. /\ Chatter!IsInjective(plain.list)
        /\ Chatter!Range(plain.list) = {entries[j]: j \in (1..Len(entries)) \ {i}}
    BY <1>1, <2>4, <2>7, RemovedFromSet
  <2>9. {entries[j]: j \in (1..Len(entries)) \ {i}} = {TellsField(g): g \in ChangedFields \ PropertiesField}
    <3>1. ASSUME NEW j \in (1..Len(entries)) \ {i}
          PROVE  entries[j] \in {TellsField(g): g \in ChangedFields \ PropertiesField}
      <4>1. j \notin gone
        BY <2>5
      <4> QED BY <1>1, <1>2, <4>1
    <3>2. ASSUME NEW g \in ChangedFields \ PropertiesField
          PROVE  \E j \in (1..Len(entries)) \ {i}: entries[j] = TellsField(g)
      <4>1. PICK j \in 1..Len(entries): TellsField(g) = entries[j]
        BY <1>1 DEF Chatter!Range
      <4>2. order[j] = g
        <5>1. TellsField(g) = TellsField(order[j])
          BY <1>1, <4>1
        <5>2. \A x: TellsField(x).field = x
          BY DEF TellsField
        <5> QED BY <5>1, <5>2
      <4> QED BY <2>3, <2>4, <4>1, <4>2
    <3> QED BY <3>1, <3>2
  <2>10. ~plain.raised
    BY <2>7
  <2> QED BY <1>8, <1>11, <2>8, <2>9, <2>10 DEF plain, entries
<1>12. CASE ~(Cardinality(ChangedProperties) <= 1) /\ ChangedProperties # {}
  BY <1>8, <1>12 DEF plain, entries
<1> QED BY <1>10, <1>11, <1>12

NoDomains == domains = [f \in {} |-> TRUE]
HasDomain(f) == f \in DOMAIN domains /\ ~domains[f]
\* What the chatter should tell.
ToTell == {TellsField(f): f \in {g \in ChangedFields \ PropertiesField: ~HasDomain(g)}} \union Chatter!ExtraEntries
Tellable == Cardinality(ChangedProperties) <= 1 /\ (NoDomains \/ ChangedProperties = {})

LEMMA AppendedApart ==
  ASSUME NEW S, NEW s \in Seq(S), NEW t \in Seq(S), Chatter!IsInjective(s), Chatter!IsInjective(t),
         Chatter!Range(s) \intersect Chatter!Range(t) = {}
  PROVE  /\ s \o t \in Seq(S) /\ Chatter!IsInjective(s \o t)
         /\ Chatter!Range(s \o t) = Chatter!Range(s) \union Chatter!Range(t)
<1>1. \A u: (Chatter!IsInjective(u) <=> Manager!IsInjective(u)) /\ Chatter!Range(u) = Manager!Range(u)
  BY DEF Chatter!IsInjective, Manager!IsInjective, Chatter!Range, Manager!Range
<1> DEFINE u == s \o t
<1>2. Manager!IsInjective(s) /\ Manager!IsInjective(t) /\ Manager!Range(s) \intersect Manager!Range(t) = {}
  BY <1>1
<1>3. /\ s \o t \in Seq(S)
      /\ Manager!IsInjective(s \o t)
      /\ Manager!Range(s \o t) = Manager!Range(s) \union Manager!Range(t)
  BY <1>2, JoinedApart
<1> QED BY <1>1, <1>3

\* The entries before the domains.
LEMMA AllEntries ==
  ASSUME ChatterData, NEW order \in Chatter!Orders(ChangedFields),
         NEW extra \in Chatter!Orders(Chatter!ExtraEntries),
         NEW keys \in Chatter!Orders(Chatter!keys_to_delete(Chatter!super_mail_track(order)))
  PROVE  LET entries == Chatter!super_mail_track(order)
             every == Chatter!PopAll(entries, keys).list \o extra
         IN  /\ every \in Seq(Chatter!Entry)
             /\ Cardinality(ChangedProperties) <= 1 =>
                  /\ Chatter!IsInjective(every)
                  /\ Chatter!Range(every) = {TellsField(f): f \in ChangedFields \ PropertiesField}
                                              \union Chatter!ExtraEntries
             /\ ChangedProperties = {} => every = entries /\ Len(every) = Cardinality(ChangedFields)
<1> DEFINE entries == Chatter!super_mail_track(order)
           left == Chatter!PopAll(entries, keys).list
           every == left \o extra
<1>1. /\ extra \in Seq(Chatter!ExtraEntries) /\ Len(extra) = Cardinality(Chatter!ExtraEntries)
      /\ Chatter!IsInjective(extra) /\ Chatter!Range(extra) = Chatter!ExtraEntries
  BY ExtraTyped, OrderOfSet
<1>2. extra \in Seq(Chatter!Entry)
  <2>1. \A e \in Chatter!ExtraEntries: e \in Chatter!Entry
    BY ExtraTyped
  <2> QED BY <1>1, <2>1
<1>3. left \in Seq(Chatter!Entry)
  BY PlainPopped
<1>4. ASSUME Cardinality(ChangedProperties) <= 1
      PROVE  /\ Chatter!IsInjective(every)
             /\ Chatter!Range(every) = {TellsField(f): f \in ChangedFields \ PropertiesField}
                                         \union Chatter!ExtraEntries
  <2>1. /\ Chatter!IsInjective(left)
        /\ Chatter!Range(left) = {TellsField(f): f \in ChangedFields \ PropertiesField}
    BY <1>4, PlainPopped
  <2>2. Chatter!Range(left) \intersect Chatter!Range(extra) = {}
    <3>1. \A e \in Chatter!Range(extra): e.key \in PropertyName
      BY <1>1, ExtraTyped
    <3>2. \A e \in Chatter!Range(left): e.key = None
      BY <2>1 DEF TellsField
    <3> QED BY <3>1, <3>2, AddonsParameters DEF Chatter!TrackingValuesParameters
  <2> HIDE DEF left
  <2> QED BY <1>1, <1>2, <1>3, <2>1, <2>2, AppendedApart
<1>5. ASSUME ChangedProperties = {} PROVE every = entries /\ Len(every) = Cardinality(ChangedFields)
  <2>1. left = entries
    BY <1>5, PlainPopped
  <2>2. extra = <<>>
    <3>1. Chatter!ExtraEntries = {}
      BY <1>5, ExtraTyped
    <3>2. Cardinality(Chatter!ExtraEntries) = 0
      BY <3>1, FS_EmptySet
    <3> QED BY <1>1, <3>2
  <2>3. entries \in Seq(Chatter!Entry) /\ Len(entries) = Cardinality(ChangedFields)
    BY MailEntries
  <2> HIDE DEF entries, left
  <2> QED BY <2>1, <2>2, <2>3
<1>6. every \in Seq(Chatter!Entry)
  <2> HIDE DEF left
  <2> QED BY <1>2, <1>3
<1> QED BY <1>4, <1>5, <1>6

LEMMA FilterTyped ==
  ASSUME NEW changes \in SUBSET Chatter!Field, NEW every \in Seq(Chatter!Entry),
         NEW res \in Chatter!filter_domains(changes, every)
  PROVE  /\ res.raised \in BOOLEAN /\ res.changes \subseteq Chatter!Field
         /\ Chatter!Range(res.values) \subseteq Chatter!Entry
<1>1. Chatter!Range(every) \subseteq Chatter!Entry
  BY DEF Chatter!Range
<1>2. \A I \in SUBSET DOMAIN every: Chatter!Range(Chatter!Restrict(every, I)) \subseteq Chatter!Range(every)
  BY DEF Chatter!Range, Chatter!Restrict
<1>3. Chatter!Range(<<>>) = {}
  BY DEF Chatter!Range
<1>4. CASE res = Chatter!Returns(changes, every)
  BY <1>1, <1>4 DEF Chatter!Returns
<1>5. CASE res = Chatter!Raises
  BY <1>3, <1>5 DEF Chatter!Raises
<1> DEFINE left(R) == Chatter!Restrict(every, {i \in DOMAIN every: every[i].field \notin R})
<1>6. CASE \E R: \E C \in SUBSET changes: res = Chatter!Returns(C, left(R))
  BY <1>1, <1>2, <1>6 DEF Chatter!Returns
<1>7. \/ res = Chatter!Returns(changes, every) \/ res = Chatter!Raises
      \/ \E R: \E C \in SUBSET changes: res = Chatter!Returns(C, left(R))
  BY DEF Chatter!filter_domains
<1> QED BY <1>4, <1>5, <1>6, <1>7

LEMMA FilterTells ==
  ASSUME ChatterData, Tellable, NEW every \in Seq(Chatter!Entry), Chatter!IsInjective(every),
         Chatter!Range(every) = {TellsField(f): f \in ChangedFields \ PropertiesField} \union Chatter!ExtraEntries,
         ChangedProperties = {} => Len(every) = Cardinality(ChangedFields),
         NEW res \in Chatter!filter_domains(ChangedFields, every)
  PROVE  ~res.raised /\ Chatter!IsInjective(res.values) /\ Chatter!Range(res.values) = ToTell
<1>1. CASE NoDomains
  <2>1. res = Chatter!Returns(ChangedFields, every)
    BY <1>1 DEF NoDomains, Chatter!filter_domains
  <2>2. \A f: ~HasDomain(f)
    BY <1>1 DEF NoDomains, HasDomain
  <2> QED BY <2>1, <2>2 DEF Chatter!Returns, ToTell
<1>2. CASE ~NoDomains
  <2>1. ChangedProperties = {} /\ Chatter!ExtraEntries = {} /\ ChangedFields \ PropertiesField = ChangedFields
    BY <1>2, ExtraTyped DEF Tellable, ChangedProperties
  <2>2. Chatter!Range(every) = {TellsField(f): f \in ChangedFields}
    BY <2>1
  <2>3. \A e \in Chatter!Range(every): e.key = None
    BY <2>2 DEF TellsField
  <2>4. CASE Chatter!Range(every) = {}
    <3>1. res = Chatter!Returns(ChangedFields, every)
      BY <2>4 DEF Chatter!filter_domains
    <3>2. ChangedFields = {}
      BY <2>2, <2>4
    <3>3. ToTell = {}
      BY <2>1, <3>2 DEF ToTell
    <3> QED BY <2>4, <3>1, <3>3 DEF Chatter!Returns
  <2>5. CASE Chatter!Range(every) # {}
    <3> DEFINE removed == {f \in DOMAIN domains \intersect tracked: ~domains[f]}
               left == Chatter!Restrict(every, {i \in DOMAIN every: every[i].field \notin removed})
    <3>1. Chatter!Cardinality(ChangedFields) = Len(every) /\ ~\A e \in Chatter!Range(every): e.key # None
      BY <2>1, <2>3, <2>5, ChatterSets
    <3>2. PICK C: res = Chatter!Returns(C, left)
      BY <1>2, <2>3, <3>1 DEF Chatter!filter_domains, NoDomains
    <3>3. \A f \in ChangedFields: f \in removed <=> HasDomain(f)
      BY ChangedFinite DEF HasDomain
    <3>4. Chatter!IsInjective(left) /\ Chatter!Range(left) = {e \in Chatter!Range(every): e.field \notin removed}
      BY DEF Chatter!Restrict, Chatter!IsInjective, Chatter!Range
    <3> HIDE DEF removed, left
    <3>5. Chatter!Range(left) = {TellsField(f): f \in {g \in ChangedFields: ~HasDomain(g)}}
      BY <2>2, <3>3, <3>4 DEF TellsField
    <3>6. ToTell = {TellsField(f): f \in {g \in ChangedFields: ~HasDomain(g)}}
      BY <2>1 DEF ToTell
    <3> QED BY <3>2, <3>4, <3>5, <3>6 DEF Chatter!Returns
  <2> QED BY <2>4, <2>5
<1> QED BY <1>1, <1>2

\* What is told is what ValuesTellChanges asks for.
ShowsChanges(res) ==
  /\ res.raised \in BOOLEAN /\ res.changes \subseteq Chatter!Field
  /\ Chatter!Range(res.values) \subseteq Chatter!Entry
  /\ Tellable => ~res.raised /\ Chatter!IsInjective(res.values) /\ Chatter!Range(res.values) = ToTell

LEMMA TrackTells ==
  ASSUME ChatterData, Chatter!mail_track
  PROVE  ShowsChanges(result')
<1>0. ChangedFields = {f \in tracked: Chatter!Changed(f)}
  BY DEF ChangedFields
<1>1. PICK order \in Chatter!Orders(ChangedFields), extra \in Chatter!Orders(Chatter!ExtraEntries):
        \E keys \in Chatter!Orders(Chatter!keys_to_delete(Chatter!super_mail_track(order))):
          LET entries == Chatter!super_mail_track(order)
              plain == Chatter!PopAll(entries, keys)
          IN  result' \in IF plain.raised THEN {Chatter!Raises}
                ELSE Chatter!filter_domains({e.field: e \in Chatter!Range(entries)}, plain.list \o extra)
  BY <1>0, Zenon DEF Chatter!mail_track
<1> DEFINE entries == Chatter!super_mail_track(order)
<1>2. PICK keys \in Chatter!Orders(Chatter!keys_to_delete(entries)):
          LET plain == Chatter!PopAll(entries, keys)
          IN  result' \in IF plain.raised THEN {Chatter!Raises}
                ELSE Chatter!filter_domains({e.field: e \in Chatter!Range(entries)}, plain.list \o extra)
  BY <1>1
<1> DEFINE plain == Chatter!PopAll(entries, keys)
           every == plain.list \o extra
<1>3. {e.field: e \in Chatter!Range(entries)} = ChangedFields
  <2>1. Chatter!Range(entries) = {TellsField(f): f \in ChangedFields}
    BY MailEntries
  <2>2. \A f: TellsField(f).field = f
    BY DEF TellsField
  <2> HIDE DEF entries
  <2> QED BY <2>1, <2>2
<1>4. /\ plain \in [list: Seq(Chatter!Entry), raised: BOOLEAN]
      /\ Cardinality(ChangedProperties) <= 1 => ~plain.raised
  BY PlainPopped
<1>5. /\ every \in Seq(Chatter!Entry)
      /\ Cardinality(ChangedProperties) <= 1 =>
           /\ Chatter!IsInjective(every)
           /\ Chatter!Range(every) = {TellsField(f): f \in ChangedFields \ PropertiesField}
                                       \union Chatter!ExtraEntries
      /\ ChangedProperties = {} => Len(every) = Cardinality(ChangedFields)
  BY AllEntries
<1>6. result' \in IF plain.raised THEN {Chatter!Raises} ELSE Chatter!filter_domains(ChangedFields, every)
  BY <1>2, <1>3
<1> HIDE DEF entries, plain, every
<1>7. CASE plain.raised
  <2>1. result' = Chatter!Raises /\ ~(Cardinality(ChangedProperties) <= 1)
    BY <1>4, <1>6, <1>7
  <2>2. Chatter!Range(<<>>) = {}
    BY DEF Chatter!Range
  <2> QED BY <2>1, <2>2 DEF Chatter!Raises, ShowsChanges, Tellable
<1>8. CASE ~plain.raised
  <2>1. result' \in Chatter!filter_domains(ChangedFields, every)
    BY <1>6, <1>8
  <2>2. ChangedFields \in SUBSET Chatter!Field
    BY ChangedFinite
  <2>3. /\ result'.raised \in BOOLEAN /\ result'.changes \subseteq Chatter!Field
        /\ Chatter!Range(result'.values) \subseteq Chatter!Entry
    BY <1>5, <2>1, <2>2, FilterTyped
  <2>4. Tellable => ~result'.raised /\ Chatter!IsInjective(result'.values) /\ Chatter!Range(result'.values) = ToTell
    BY <1>5, <2>1, FilterTells DEF Tellable
  <2> QED BY <2>3, <2>4 DEF ShowsChanges
<1> QED BY <1>7, <1>8

ChatterInd == ChatterData /\ (result # None => ShowsChanges(result))

LEMMA ChatterStart == Chatter!Init => ChatterInd
BY DEF Chatter!Init, ChatterInd, ChatterData

LEMMA ChatterStep == ChatterInd /\ [Chatter!mail_track]_(Chatter!vars) => ChatterInd'
<1> SUFFICES ASSUME ChatterInd, [Chatter!mail_track]_(Chatter!vars) PROVE ChatterInd'
  OBVIOUS
<1>1. tracked' = tracked /\ initial' = initial /\ now' = now /\ domains' = domains
  BY DEF Chatter!mail_track, Chatter!vars
<1>2. ChatterData /\ ChatterData'
  BY <1>1 DEF ChatterInd, ChatterData
<1>3. ASSUME NEW f PROVE Chatter!Changed(f)' <=> Chatter!Changed(f)
  BY <1>1 DEF Chatter!Changed
<1>4. ChangedFields' = ChangedFields
  BY <1>1, <1>3 DEF ChangedFields
<1>5. Chatter!ExtraEntries' = Chatter!ExtraEntries
  BY <1>1, <1>3 DEF Chatter!ExtraEntries, Chatter!create_tracking_values_property
<1>6. \A f: TellsField(f)' = TellsField(f) /\ HasDomain(f)' = HasDomain(f)
  BY <1>1 DEF TellsField, HasDomain
<1>7. ToTell' = ToTell /\ ChangedProperties' = ChangedProperties /\ NoDomains' = NoDomains
  BY <1>1, <1>4, <1>5 DEF ToTell, ChangedProperties, NoDomains, TellsField, HasDomain
<1>8. Tellable' = Tellable
  BY <1>7 DEF Tellable
<1>9. result' # None => ShowsChanges(result')
  <2>1. CASE Chatter!mail_track
    BY <1>2, <2>1, TrackTells
  <2>2. CASE UNCHANGED Chatter!vars
    <3>1. result' = result
      BY <2>2 DEF Chatter!vars
    <3> QED BY <3>1 DEF ChatterInd, ShowsChanges
  <2> QED BY <2>1, <2>2
<1>10. ShowsChanges(result)' <=> ShowsChanges(result')
  BY <1>7, <1>8 DEF ShowsChanges
<1> QED BY <1>2, <1>9, <1>10 DEF ChatterInd

LEMMA ChatterTyped == ChatterInd => Chatter!TypeOK
BY DEF ChatterInd, ChatterData, ShowsChanges, Chatter!TypeOK

LEMMA ChatterTells == ChatterInd => Chatter!ValuesTellChanges
<1> SUFFICES ASSUME ChatterInd, result # None, Tellable
             PROVE  /\ ~result.raised
                    /\ \A f \in PlainField: f \in ChangedFields /\ ~HasDomain(f) <=>
                         \E e \in Chatter!Range(result.values): e.field = f /\ e.old = initial[f] /\ e.new = now[f]
                    /\ \A f \in PropertiesField, k \in PropertyName:
                         (\E e \in Chatter!Range(result.values): e.field = f /\ e.key = k) <=>
                           /\ f \in ChangedProperties
                           /\ k \in DOMAIN initial[f] \intersect DOMAIN now[f]
                           /\ initial[f][k] # now[f][k]
                    /\ Chatter!IsInjective(result.values)
                    /\ \A e \in Chatter!Range(result.values): e.field \in PropertiesField => e.key # None
  BY ChatterSets DEF Chatter!ValuesTellChanges, Tellable, NoDomains, HasDomain, ChangedFields, ChangedProperties
<1>1. ChatterData /\ ~result.raised /\ Chatter!IsInjective(result.values) /\ Chatter!Range(result.values) = ToTell
  BY DEF ChatterInd, ShowsChanges
<1>2. /\ \A e \in Chatter!ExtraEntries: e.field \in ChangedProperties /\ e.key \in PropertyName
      /\ \A f \in ChangedProperties, k \in PropertyName:
              (\E e \in Chatter!ExtraEntries: e.field = f /\ e.key = k) <=>
                k \in DOMAIN initial[f] \intersect DOMAIN now[f] /\ initial[f][k] # now[f][k]
  BY <1>1, ExtraTyped
<1>3. PlainField \intersect PropertiesField = {} /\ None \notin PropertyName
  BY AddonsParameters DEF Chatter!TrackingValuesParameters
<1>4. ChangedProperties = ChangedFields \intersect PropertiesField
  BY DEF ChangedProperties
<1>5. \A f: /\ TellsField(f).field = f /\ TellsField(f).key = None
            /\ TellsField(f).old = initial[f] /\ TellsField(f).new = now[f]
  BY DEF TellsField
<1>6. \A e \in ToTell: \/ e \in Chatter!ExtraEntries
                     \/ \E f \in ChangedFields \ PropertiesField: ~HasDomain(f) /\ e = TellsField(f)
  BY DEF ToTell
<1>7. ASSUME NEW f \in PlainField
      PROVE  f \in ChangedFields /\ ~HasDomain(f) <=>
               \E e \in ToTell: e.field = f /\ e.old = initial[f] /\ e.new = now[f]
  <2>1. ASSUME f \in ChangedFields, ~HasDomain(f)
        PROVE  \E e \in ToTell: e.field = f /\ e.old = initial[f] /\ e.new = now[f]
    <3>1. TellsField(f) \in ToTell
      BY <1>3, <2>1 DEF ToTell
    <3> QED BY <1>5, <3>1
  <2>2. ASSUME NEW e \in ToTell, e.field = f PROVE f \in ChangedFields /\ ~HasDomain(f)
    BY <1>2, <1>3, <1>4, <1>5, <1>6, <2>2
  <2> QED BY <2>1, <2>2
<1>8. ASSUME NEW f \in PropertiesField, NEW k \in PropertyName
      PROVE  (\E e \in ToTell: e.field = f /\ e.key = k) <=>
               /\ f \in ChangedProperties
               /\ k \in DOMAIN initial[f] \intersect DOMAIN now[f] /\ initial[f][k] # now[f][k]
  <2>1. \A e \in ToTell: e.field = f => e \in Chatter!ExtraEntries
    BY <1>5, <1>6
  <2>2. \A e \in Chatter!ExtraEntries: e \in ToTell
    BY DEF ToTell
  <2> QED BY <1>2, <2>1, <2>2
<1>9. \A e \in ToTell: e.field \in PropertiesField => e.key # None
  BY <1>2, <1>3, <1>5, <1>6
<1> QED BY <1>1, <1>7, <1>8, <1>9

-----------------------------------------------------------------------------
(***************************************************************************)
(* upgrade_analysis, the records: while modules are loaded, the records    *)
(* so far tell the models in memory, each by its last one.                 *)
(***************************************************************************)
RecordsTyped ==
  /\ defs \in [Records!Module -> [sets: Definition, loads: SUBSET XmlId]]
  /\ state \in [Records!Module -> {"installed", "uninstalled", "to install"}]
  /\ imd \subseteq XmlId
  /\ \A r \in record.fields: /\ r.module \in Records!Module /\ r.field \in ModelField /\ r.mode \in Records!Modes
                             /\ r.attr \in Attr /\ r.value \in AttrValue \ {NoAttr}
  /\ record.xmlids \subseteq [module: Records!Module, xmlid: XmlId]
  /\ DOMAIN upg \subseteq Records!Property /\ upg \in [DOMAIN upg -> AttrValue]
  /\ phase \in {"idle", "loading", "loaded"}
  /\ covered \subseteq Records!Module
  /\ steps \in 0..MaxSteps["records"]

\* External ids of modules that are or were installed exist.
IdsExist == \A m \in Records!Module: state[m] # "uninstalled" => defs[m].loads \subseteq imd

\* While a generation goes on: modules are loaded in their order, and the
\* records so far tell what is in memory.
InOrder == \A m \in Records!Loaded, o \in Records!ToLoad: m < o
RecordedLoaded == \A r \in record.fields: r.module \in Records!Loaded /\ <<r.field, r.attr>> \in DOMAIN upg
OneEach == \A r, o \in record.fields:
             r.field = o.field /\ r.attr = o.attr /\ r.module = o.module => r = o
LastIs(p, value) == \E r \in Records!Told(p): r.value = value /\ \A o \in Records!Told(p): o.module <= r.module
LastTells == \A p \in DOMAIN upg: LastIs(p, upg[p])
MemoryTold == LET memory == Records!log_model(Records!Loaded)
              IN  \A p \in DOMAIN memory: p \in DOMAIN upg /\ upg[p] = memory[p]
CreatedFirst == \A r, o \in record.fields:
                  r.field = o.field /\ r.mode = "create" /\ o.module # r.module
                    => o.mode = "modify" /\ o.module > r.module
IdsTold == \A m \in Records!Loaded: \A x \in defs[m].loads: [module |-> m, xmlid |-> x] \in record.xmlids

Generating == /\ covered = {} /\ InOrder /\ RecordedLoaded /\ OneEach /\ LastTells /\ MemoryTold
              /\ CreatedFirst /\ IdsTold

RecordsInd ==
  /\ RecordsTyped /\ IdsExist
  /\ phase # "idle" => Generating
  /\ Records!RecordsTellModels

\* The models in memory have values that are not empty.
LEMMA MemoryTyped ==
  ASSUME defs \in [Records!Module -> [sets: Definition, loads: SUBSET XmlId]],
         NEW S \in SUBSET Records!Module
  PROVE  LET memory == Records!log_model(S)
         IN  /\ DOMAIN memory \subseteq Records!Property
             /\ \A p \in DOMAIN memory: memory[p] \in AttrValue \ {NoAttr}
<1> DEFINE setters(p) == {m \in S: p \in DOMAIN defs[m].sets}
           value(p) == defs[Records!Max(setters(p))].sets[p]
           memory == Records!log_model(S)
<1>1. Loadable \in Nat /\ Definition \subseteq UNION {[P -> AttrValue]: P \in SUBSET Records!Property}
  BY AddonsParameters DEF Records!UpgradeRecordsParameters
<1>2. memory = [p \in {q \in Records!Property: setters(q) # {} /\ value(q) # NoAttr} |-> value(p)]
  BY DEF Records!log_model
<1>3. ASSUME NEW p \in Records!Property, setters(p) # {} PROVE value(p) \in AttrValue
  <2>1. setters(p) \in SUBSET Nat /\ \A n \in setters(p): n <= Loadable
    <3>1. \A m \in S: m \in Nat /\ m <= Loadable
      BY <1>1 DEF Records!Module
    <3> QED BY <3>1
  <2>2. \E m \in setters(p): \A n \in setters(p): m >= n
    <3> DEFINE set == setters(p)
    <3>1. set \in SUBSET Nat /\ set # {} /\ \A n \in set: n <= Loadable
      BY <1>3, <2>1
    <3> HIDE DEF set
    <3>2. PICK m \in set: \A n \in set: n <= m
      BY <1>1, <3>1, LargestOfBounded
    <3>3. \A n \in set: m >= n
      BY <3>1, <3>2
    <3> QED BY <3>3 DEF set
  <2>3. Records!Max(setters(p)) \in setters(p)
    <3> DEFINE set == setters(p)
    <3> HIDE DEF set
    <3>1. \E m \in set: \A n \in set: m >= n
      BY <2>2 DEF set
    <3>2. Records!Max(set) \in set
      BY <3>1, Zenon DEF Records!Max
    <3> QED BY <3>2 DEF set
  <2>4. \A m \in S: p \in DOMAIN defs[m].sets => defs[m].sets[p] \in AttrValue
    BY <1>1
  <2> QED BY <2>3, <2>4
<1> HIDE DEF setters, value, memory
<1> QED BY <1>2, <1>3 DEF memory

LEMMA RecordsStart == Records!Init => RecordsInd
<1> SUFFICES ASSUME Records!Init PROVE RecordsInd
  OBVIOUS
<1>1. /\ defs \in [Records!Module -> [sets: Definition, loads: SUBSET XmlId]]
      /\ state \in [Records!Module -> {"installed", "uninstalled"}]
      /\ imd = {x \in XmlId: \E m \in Records!Module: state[m] = "installed" /\ x \in defs[m].loads}
      /\ record = Records!NoRecord /\ upg = Records!Nothing /\ phase = "idle" /\ covered = {} /\ steps = 0
  BY DEF Records!Init
<1>2. MaxSteps["records"] \in Nat
  BY AddonsParameters DEF Records!UpgradeRecordsParameters
<1>3. record.fields = {} /\ record.xmlids = {} /\ DOMAIN upg = {} /\ upg \in [DOMAIN upg -> AttrValue]
  BY <1>1 DEF Records!NoRecord, Records!Nothing
<1>4. RecordsTyped
  <2>1. state \in [Records!Module -> {"installed", "uninstalled", "to install"}]
    BY <1>1
  <2>2. imd \subseteq XmlId
    BY <1>1
  <2>3. record.xmlids \subseteq [module: Records!Module, xmlid: XmlId] /\ DOMAIN upg \subseteq Records!Property
    BY <1>3
  <2>4. steps \in 0..MaxSteps["records"]
    BY <1>1, <1>2
  <2> QED BY <1>1, <1>3, <2>1, <2>2, <2>3, <2>4 DEF RecordsTyped
<1>5. IdsExist
  <2> SUFFICES ASSUME NEW m \in Records!Module, state[m] # "uninstalled", NEW x \in defs[m].loads PROVE x \in imd
    BY DEF IdsExist
  <2>1. state[m] = "installed" /\ x \in XmlId
    BY <1>1
  <2> QED BY <1>1, <2>1
<1> QED BY <1>1, <1>4, <1>5 DEF RecordsInd, Records!RecordsTellModels

\* compare_registries: the records of a module that is loaded after the others.
LEMMA ModuleLoads ==
  ASSUME RecordsInd, NEW m \in Records!Module, Records!init_models(m)
  PROVE  RecordsInd'
<1> DEFINE local == Records!log_model(Records!Loaded \union {m})
           diff == Records!changed(local)
           how(p) == IF \E a \in Attr: <<p[1], a>> \in DOMAIN upg THEN "modify" ELSE "create"
           new_of(p) == [module |-> m, field |-> p[1], attr |-> p[2], value |-> local[p], mode |-> how(p)]
           added == {new_of(p): p \in diff}
<1>1. /\ phase = "loading" /\ m \in Records!ToLoad /\ \A o \in Records!ToLoad: m <= o
      /\ record' = [fields |-> record.fields \union added, xmlids |-> record.xmlids \union Records!log_xml_id(m)]
      /\ upg' = [p \in DOMAIN upg \union DOMAIN local |-> IF p \in DOMAIN local THEN local[p] ELSE upg[p]]
      /\ imd' = imd \union defs[m].loads
      /\ state' = [state EXCEPT ![m] = "installed"]
      /\ defs' = defs /\ phase' = phase /\ covered' = covered /\ steps' = steps
  BY DEF Records!init_models, Records!compare_registries
<1>2. RecordsTyped /\ IdsExist /\ Generating
  BY <1>1 DEF RecordsInd
<1>3. Loadable \in Nat
  BY AddonsParameters DEF Records!UpgradeRecordsParameters
<1>4. /\ Records!Loaded' = Records!Loaded \union {m} /\ Records!ToLoad' = Records!ToLoad \ {m}
      /\ Records!Loaded \subseteq Records!Module /\ Records!ToLoad \subseteq Records!Module
  BY <1>1, <1>2 DEF Records!Loaded, Records!ToLoad, RecordsTyped
<1>5. DOMAIN local \subseteq Records!Property /\ \A p \in DOMAIN local: local[p] \in AttrValue \ {NoAttr}
  BY <1>2, <1>4, MemoryTyped DEF RecordsTyped
<1>6. /\ diff \subseteq DOMAIN local
      /\ \A p \in DOMAIN local: p \in diff <=> p \notin DOMAIN upg \/ upg[p] # local[p]
  BY DEF Records!changed
<1>7. \A p \in Records!Property: p = <<p[1], p[2]>> /\ p[1] \in ModelField /\ p[2] \in Attr
  BY DEF Records!Property
<1>8. \A o \in Records!Loaded: o < m
  BY <1>1, <1>2 DEF Generating, InOrder
<1>25. m \in Nat /\ \A a \in Records!Loaded: a \in Nat
  <2>1. \A a \in Records!Module: a \in Nat
    BY <1>3 DEF Records!Module
  <2> QED BY <1>4, <2>1
<1> HIDE DEF local, diff
<1>9. \A p: /\ new_of(p).module = m /\ new_of(p).field = p[1] /\ new_of(p).attr = p[2]
            /\ new_of(p).value = local[p] /\ new_of(p).mode = how(p) /\ how(p) \in {"modify", "create"}
  OBVIOUS
<1> HIDE DEF new_of
<1>10. /\ record'.fields = record.fields \union added
       /\ record'.xmlids = record.xmlids \union Records!log_xml_id(m)
       /\ DOMAIN upg' = DOMAIN upg \union DOMAIN local
       /\ \A p \in DOMAIN local: upg'[p] = local[p]
       /\ \A p \in DOMAIN upg \ DOMAIN local: upg'[p] = upg[p]
  BY <1>1
<1> HIDE DEF added
<1>11. \A r \in record.fields: r.module \in Records!Loaded /\ r.module < m /\ <<r.field, r.attr>> \in DOMAIN upg
  BY <1>2, <1>8 DEF Generating, RecordedLoaded
<1>12. ASSUME NEW r \in added
       PROVE  \E p \in diff: r = new_of(p) /\ p \in DOMAIN local /\ p \in Records!Property /\ p = <<r.field, r.attr>>
  <2>1. PICK p \in diff: r = new_of(p)
    BY DEF added
  <2> QED BY <1>5, <1>6, <1>7, <1>9, <2>1
<1>13. RecordsTyped'
  <2>1. ASSUME NEW r \in record'.fields
        PROVE  /\ r.module \in Records!Module /\ r.field \in ModelField /\ r.mode \in Records!Modes
               /\ r.attr \in Attr /\ r.value \in AttrValue \ {NoAttr}
    <3>1. CASE r \in record.fields
      BY <1>2, <3>1 DEF RecordsTyped
    <3>2. CASE r \in added
      <4>1. PICK p \in diff: r = new_of(p) /\ p \in DOMAIN local /\ p \in Records!Property
        BY <1>12, <3>2
      <4> QED BY <1>5, <1>7, <1>9, <4>1 DEF Records!Modes
    <3> QED BY <1>10, <3>1, <3>2
  <2>2. record'.xmlids \subseteq [module: Records!Module, xmlid: XmlId]
    BY <1>2, <1>10 DEF Records!log_xml_id, RecordsTyped
  <2>3. DOMAIN upg' \subseteq Records!Property /\ upg' \in [DOMAIN upg' -> AttrValue]
    <3>1. ASSUME NEW p \in DOMAIN upg' PROVE p \in Records!Property /\ upg'[p] \in AttrValue
      <4>1. CASE p \in DOMAIN local
        BY <1>5, <1>10, <4>1
      <4>2. CASE p \notin DOMAIN local
        BY <1>2, <1>10, <4>2 DEF RecordsTyped
      <4> QED BY <4>1, <4>2
    <3>2. upg' = [p \in DOMAIN upg' |-> upg'[p]]
      BY <1>1
    <3> QED BY <3>1, <3>2
  <2>4. imd' \subseteq XmlId /\ state' \in [Records!Module -> {"installed", "uninstalled", "to install"}]
    BY <1>1, <1>2 DEF RecordsTyped
  <2> QED BY <1>1, <1>2, <2>1, <2>2, <2>3, <2>4 DEF RecordsTyped, Records!Module, Records!Modes, Records!Property
<1>14. IdsExist'
  BY <1>1, <1>2 DEF IdsExist, RecordsTyped, Records!Module, Records!ToLoad
<1>15. InOrder'
  <2> SUFFICES ASSUME NEW a \in Records!Loaded', NEW o \in Records!ToLoad' PROVE a < o
    BY DEF InOrder
  <2>1. o \in Records!ToLoad /\ o # m /\ m <= o /\ m \in Nat /\ o \in Nat
    BY <1>1, <1>3, <1>4 DEF Records!Module
  <2>2. CASE a = m
    BY <2>1, <2>2
  <2>3. CASE a \in Records!Loaded
    BY <1>2, <2>1, <2>3 DEF Generating, InOrder
  <2> QED BY <1>4, <2>2, <2>3
<1>16. RecordedLoaded'
  <2> SUFFICES ASSUME NEW r \in record'.fields PROVE r.module \in Records!Loaded' /\ <<r.field, r.attr>> \in DOMAIN upg'
    BY DEF RecordedLoaded
  <2>1. CASE r \in record.fields
    BY <1>4, <1>10, <1>11, <2>1
  <2>2. CASE r \in added
    <3>1. PICK p \in diff: r = new_of(p) /\ p \in DOMAIN local /\ p = <<r.field, r.attr>>
      BY <1>12, <2>2
    <3>2. r.module = m
      BY <1>9, <3>1
    <3> QED BY <1>4, <1>10, <3>1, <3>2
  <2> QED BY <1>10, <2>1, <2>2
<1>17. OneEach'
  <2> SUFFICES ASSUME NEW r \in record'.fields, NEW o \in record'.fields,
                      r.field = o.field, r.attr = o.attr, r.module = o.module
               PROVE  r = o
    BY DEF OneEach
  <2>1. \A x \in added: x.module = m
    BY <1>9, <1>12
  <2>2. \A x \in record.fields: x.module # m
    <3> SUFFICES ASSUME NEW x \in record.fields, x.module = m PROVE FALSE
      OBVIOUS
    <3>1. m < m
      BY <1>11
    <3>2. m \in Nat
      BY <1>25
    <3> QED BY <3>1, <3>2
  <2>3. CASE r \in record.fields /\ o \in record.fields
    BY <1>2, <2>3 DEF Generating, OneEach
  <2>4. CASE r \in added /\ o \in added
    <3>1. PICK p \in diff: r = new_of(p) /\ p = <<r.field, r.attr>>
      BY <1>12, <2>4
    <3>2. PICK q \in diff: o = new_of(q) /\ q = <<o.field, o.attr>>
      BY <1>12, <2>4
    <3> QED BY <3>1, <3>2
  <2> QED BY <1>10, <2>1, <2>2, <2>3, <2>4
<1>18. \A p: Records!Told(p)' = Records!Told(p) \union {r \in added: r.field = p[1] /\ r.attr = p[2]}
  BY <1>10 DEF Records!Told
<1> DEFINE more(p) == {r \in added: r.field = p[1] /\ r.attr = p[2]}
           after(p) == Records!Told(p) \union more(p)
<1>19. LastTells'
  <2> SUFFICES ASSUME NEW p \in DOMAIN upg'
               PROVE  \E r \in after(p): r.value = upg'[p] /\ \A o \in after(p): o.module <= r.module
    BY <1>18 DEF LastTells, LastIs
  <2>1. p \in Records!Property
    BY <1>2, <1>5, <1>10 DEF RecordsTyped
  <2>2. CASE p \in diff
    <3>1. new_of(p) \in after(p)
      <4>1. new_of(p) \in added
        BY <2>2 DEF added
      <4> QED BY <1>9, <4>1
    <3>2. new_of(p).value = upg'[p]
      BY <1>6, <1>9, <1>10, <2>2
    <3>3. \A o \in after(p): o.module <= m
      <4> SUFFICES ASSUME NEW o \in after(p) PROVE o.module <= m
        OBVIOUS
      <4>1. m \in Nat /\ (o.module \in Records!Loaded => o.module \in Nat)
        BY <1>25
      <4>2. CASE o \in added
        <5>1. o.module = m
          BY <1>9, <1>12, <4>2
        <5> QED BY <4>1, <5>1
      <4>3. CASE o \in record.fields
        <5>1. o.module \in Records!Loaded /\ o.module < m
          BY <1>11, <4>3
        <5> QED BY <4>1, <5>1
      <4> QED BY <4>2, <4>3 DEF Records!Told
    <3>4. new_of(p).module = m
      BY <1>9
    <3> QED BY <3>1, <3>2, <3>3, <3>4
  <2>3. CASE p \notin diff
    <3>1. more(p) = {}
      BY <1>7, <1>12, <2>1, <2>3
    <3>2. after(p) = Records!Told(p)
      BY <3>1
    <3>3. p \in DOMAIN upg /\ upg'[p] = upg[p]
      BY <1>6, <1>10, <2>3
    <3>4. LastIs(p, upg[p])
      BY <1>2, <3>3 DEF Generating, LastTells
    <3> QED BY <3>2, <3>3, <3>4 DEF LastIs
  <2> QED BY <2>2, <2>3
<1>20. MemoryTold'
  <2>1. Records!log_model(Records!Loaded)' = local
    BY <1>1, <1>4 DEF Records!log_model, local, Records!Property
  <2> QED BY <1>10, <2>1 DEF MemoryTold
<1>21. CreatedFirst'
  <2> SUFFICES ASSUME NEW r \in record'.fields, NEW o \in record'.fields,
                      r.field = o.field, r.mode = "create", o.module # r.module
               PROVE  o.mode = "modify" /\ o.module > r.module
    BY DEF CreatedFirst
  <2>1. \A x \in added: x.module = m
    BY <1>9, <1>12
  <2>2. CASE r \in record.fields /\ o \in record.fields
    BY <1>2, <2>2 DEF Generating, CreatedFirst
  <2>3. CASE r \in record.fields /\ o \in added
    <3>1. PICK p \in diff: o = new_of(p) /\ p \in Records!Property /\ p = <<o.field, o.attr>>
      BY <1>12, <2>3
    <3>2. r.attr \in Attr
      BY <1>2, <2>3 DEF RecordsTyped
    <3>3. <<p[1], r.attr>> \in DOMAIN upg
      <4>1. p[1] = r.field
        BY <3>1
      <4> QED BY <1>11, <2>3, <4>1
    <3>4. how(p) = "modify" /\ o.mode = how(p)
      BY <1>9, <3>1, <3>2, <3>3
    <3>5. o.module > r.module
      <4>1. r.module \in Records!Loaded /\ r.module < m /\ o.module = m
        BY <1>11, <2>1, <2>3
      <4>2. r.module \in Nat /\ m \in Nat
        BY <1>25, <4>1
      <4> QED BY <4>1, <4>2
    <3> QED BY <3>4, <3>5
  <2>4. CASE r \in added /\ o \in record.fields
    <3>1. PICK p \in diff: r = new_of(p) /\ p \in Records!Property /\ p = <<r.field, r.attr>>
      BY <1>12, <2>4
    <3>2. o.attr \in Attr
      BY <1>2, <2>4 DEF RecordsTyped
    <3>3. <<p[1], o.attr>> \in DOMAIN upg
      <4>1. p[1] = o.field
        BY <3>1
      <4> QED BY <1>11, <2>4, <4>1
    <3>4. how(p) = "modify" /\ r.mode = how(p)
      BY <1>9, <3>1, <3>2, <3>3
    <3> QED BY <3>4
  <2> QED BY <1>10, <2>1, <2>2, <2>3, <2>4
<1>22. IdsTold'
  <2> SUFFICES ASSUME NEW a \in Records!Loaded', NEW x \in defs'[a].loads
               PROVE  [module |-> a, xmlid |-> x] \in record'.xmlids
    BY DEF IdsTold
  <2>1. CASE a \in Records!Loaded
    BY <1>1, <1>2, <1>10, <2>1 DEF Generating, IdsTold
  <2>2. CASE a = m
    <3>1. x \in defs[m].loads \intersect imd
      BY <1>1, <1>2, <2>2 DEF IdsExist, Records!ToLoad
    <3> QED BY <1>10, <2>2, <3>1 DEF Records!log_xml_id
  <2> QED BY <1>4, <2>1, <2>2
<1>23. covered' = {}
  BY <1>1, <1>2 DEF Generating
<1>24. Records!RecordsTellModels'
  BY <1>23 DEF Records!RecordsTellModels
<1> QED BY <1>13, <1>14, <1>15, <1>16, <1>17, <1>19, <1>20, <1>21, <1>22, <1>23, <1>24 DEF RecordsInd, Generating

\* The wizard starts, ends and fails, modules are installed without it.
LEMMA RecordsOthers ==
  ASSUME RecordsInd,
         Records!generate \/ Records!RegistryLoaded \/ Records!Done \/ Records!Fails
           \/ \E S \in SUBSET Records!Module: Records!install_modules(S)
  PROVE  RecordsInd'
<1>1. RecordsTyped /\ IdsExist /\ (phase # "idle" => Generating) /\ Records!RecordsTellModels
  BY DEF RecordsInd
<1>2. MaxSteps["records"] \in Nat
  BY AddonsParameters DEF Records!UpgradeRecordsParameters
<1>3. DOMAIN Records!Nothing = {} /\ Records!Nothing \in [DOMAIN Records!Nothing -> AttrValue]
  BY DEF Records!Nothing
<1>4. Records!Spend => steps' \in 0..MaxSteps["records"]
  <2>1. steps \in 0..MaxSteps["records"]
    BY <1>1 DEF RecordsTyped
  <2> QED BY <1>2, <2>1 DEF Records!Spend
<1>5. CASE Records!generate
  <2>1. /\ phase = "idle" /\ record' = Records!NoRecord /\ phase' = "loading" /\ upg' = Records!Nothing
        /\ state' = [m \in Records!Module |-> IF m \in Records!Loaded THEN "to install" ELSE state[m]]
        /\ covered' = {} /\ defs' = defs /\ imd' = imd /\ Records!ToLoad = {} /\ Records!Spend
    BY <1>5 DEF Records!generate
  <2>2. record'.fields = {} /\ record'.xmlids = {} /\ DOMAIN upg' = {} /\ upg' \in [DOMAIN upg' -> AttrValue]
    BY <1>3, <2>1 DEF Records!NoRecord
  <2>3. state' \in [Records!Module -> {"installed", "uninstalled", "to install"}]
    BY <1>1, <2>1 DEF RecordsTyped
  <2>4. \A m \in Records!Module: /\ state'[m] # "installed"
                                  /\ (state'[m] # "uninstalled" => state[m] # "uninstalled")
    BY <2>1 DEF Records!Loaded
  <2>5. RecordsTyped'
    <3>1. steps' \in 0..MaxSteps["records"]
      BY <1>4, <2>1
    <3>2. record'.xmlids \subseteq [module: Records!Module, xmlid: XmlId] /\ DOMAIN upg' \subseteq Records!Property
      BY <2>2
    <3> QED BY <1>1, <2>1, <2>2, <2>3, <3>1, <3>2 DEF RecordsTyped, Records!Module, Records!Property, Records!Modes
  <2>6. IdsExist'
    <3> SUFFICES ASSUME NEW m \in Records!Module, state'[m] # "uninstalled" PROVE defs'[m].loads \subseteq imd'
      BY DEF IdsExist, Records!Module
    <3>1. state[m] # "uninstalled"
      BY <2>4
    <3> QED BY <1>1, <2>1, <3>1 DEF IdsExist
  <2>7. Records!Loaded' = {}
    BY <2>4 DEF Records!Loaded, Records!Module
  <2>8. InOrder' /\ IdsTold'
    BY <2>7 DEF InOrder, IdsTold
  <2>9. RecordedLoaded' /\ OneEach' /\ CreatedFirst'
    BY <2>2 DEF RecordedLoaded, OneEach, CreatedFirst
  <2>10. LastTells'
    BY <2>2 DEF LastTells
  <2>11. MemoryTold'
    <3>1. DOMAIN Records!log_model(Records!Loaded)' = {}
      BY <2>7 DEF Records!log_model
    <3> QED BY <3>1 DEF MemoryTold
  <2>12. Records!RecordsTellModels'
    BY <2>1 DEF Records!RecordsTellModels
  <2> QED BY <2>1, <2>5, <2>6, <2>8, <2>9, <2>10, <2>11, <2>12 DEF RecordsInd, Generating
<1>6. CASE Records!RegistryLoaded
  <2>1. UNCHANGED <<defs, state, imd, record, upg, covered, steps>> /\ phase' = "loaded" /\ phase = "loading"
    BY <1>6 DEF Records!RegistryLoaded
  <2>2. RecordsTyped'
    BY <1>1, <2>1 DEF RecordsTyped, Records!Module, Records!Property, Records!Modes
  <2>3. IdsExist'
    BY <1>1, <2>1 DEF IdsExist, Records!Module
  <2>4. Records!Loaded' = Records!Loaded /\ Records!ToLoad' = Records!ToLoad
    BY <2>1 DEF Records!Loaded, Records!ToLoad, Records!Module
  <2>5. Generating
    BY <1>1, <2>1
  <2>6. InOrder' /\ RecordedLoaded' /\ OneEach' /\ CreatedFirst' /\ IdsTold' /\ covered' = {}
    BY <2>1, <2>4, <2>5 DEF Generating, InOrder, RecordedLoaded, OneEach, CreatedFirst, IdsTold
  <2>7. LastTells'
    BY <2>1, <2>5 DEF Generating, LastTells, LastIs, Records!Told
  <2>8. MemoryTold'
    <3>1. Records!log_model(Records!Loaded)' = Records!log_model(Records!Loaded)
      BY <2>1, <2>4 DEF Records!log_model, Records!Property
    <3> QED BY <2>1, <2>5, <3>1 DEF Generating, MemoryTold
  <2>9. Records!RecordsTellModels'
    BY <2>6 DEF Records!RecordsTellModels
  <2> QED BY <2>2, <2>3, <2>6, <2>7, <2>8, <2>9 DEF RecordsInd, Generating
<1>7. CASE Records!Done
  <2>1. UNCHANGED <<defs, state, imd, record, steps>> /\ phase' = "idle" /\ phase = "loaded"
        /\ covered' = Records!Loaded /\ upg' = Records!Nothing
    BY <1>7 DEF Records!Done
  <2>2. DOMAIN upg' \subseteq Records!Property /\ upg' \in [DOMAIN upg' -> AttrValue] /\ covered' \subseteq Records!Module
    BY <1>3, <2>1 DEF Records!Loaded
  <2>3. RecordsTyped'
    BY <1>1, <2>1, <2>2 DEF RecordsTyped, Records!Module, Records!Property, Records!Modes
  <2>4. IdsExist'
    BY <1>1, <2>1 DEF IdsExist, Records!Module
  <2>5. Generating
    BY <1>1, <2>1
  <2> DEFINE memory == Records!log_model(Records!Loaded)
  <2>6. Records!log_model(covered)' = memory
    BY <2>1 DEF Records!log_model, Records!Property
  <2>7. \A p: Records!Told(p)' = Records!Told(p)
    BY <2>1 DEF Records!Told
  <2>8. ASSUME NEW p \in DOMAIN memory
        PROVE  Records!Told(p) # {} /\ Records!Last(Records!Told(p)).value = memory[p]
    <3>1. p \in DOMAIN upg /\ upg[p] = memory[p]
      BY <2>5 DEF Generating, MemoryTold
    <3>2. PICK r \in Records!Told(p): r.value = upg[p] /\ \A o \in Records!Told(p): o.module <= r.module
      BY <2>5, <3>1 DEF Generating, LastTells, LastIs
    <3> DEFINE told_of == Records!Told(p)
    <3>3. \A a, b \in told_of: a.module \in Nat /\ (a.module = b.module => a = b)
      <4>1. \A a \in Records!Module: a \in Nat
        BY AddonsParameters DEF Records!UpgradeRecordsParameters, Records!Module
      <4>2. \A a \in record.fields: a.module \in Records!Module
        BY <1>1 DEF RecordsTyped
      <4> QED BY <2>5, <4>1, <4>2 DEF Records!Told, Generating, OneEach
    <3> HIDE DEF told_of
    <3>4. Records!Last(told_of) = CHOOSE x \in told_of: \A o \in told_of: o.module <= x.module
      BY DEF Records!Last
    <3>5. \E x \in told_of: \A o \in told_of: o.module <= x.module
      BY <3>2 DEF told_of
    <3>6. Records!Last(told_of) \in told_of /\ \A o \in told_of: o.module <= Records!Last(told_of).module
      BY <3>4, <3>5, Zenon
    <3>7. r \in told_of /\ \A o \in told_of: o.module <= r.module
      BY <3>2 DEF told_of
    <3>8. r.module = Records!Last(told_of).module
      <4>1. r.module <= Records!Last(told_of).module /\ Records!Last(told_of).module <= r.module
        BY <3>6, <3>7
      <4>2. r.module \in Nat /\ Records!Last(told_of).module \in Nat
        BY <3>3, <3>6, <3>7
      <4> QED BY <4>1, <4>2
    <3>9. r = Records!Last(told_of)
      BY <3>3, <3>6, <3>7, <3>8
    <3> QED BY <3>1, <3>2, <3>9 DEF told_of
  <2>9. Records!RecordsTellModels'
    <3>1. \A p \in DOMAIN memory: Records!Told(p)' # {} /\ Records!Last(Records!Told(p)').value = memory[p]
      BY <2>7, <2>8
    <3>2. CreatedFirst' /\ \A m \in covered': \A x \in defs'[m].loads: [module |-> m, xmlid |-> x] \in record'.xmlids
      BY <2>1, <2>5 DEF Generating, CreatedFirst, IdsTold
    <3> QED BY <2>6, <3>1, <3>2 DEF Records!RecordsTellModels, CreatedFirst, Records!Last
  <2> QED BY <2>1, <2>3, <2>4, <2>9 DEF RecordsInd
<1>8. ASSUME UNCHANGED <<defs, record, covered>> PROVE Records!RecordsTellModels'
  <2>1. Records!log_model(covered)' = Records!log_model(covered)
    BY <1>8 DEF Records!log_model, Records!Property
  <2>2. \A p: Records!Told(p)' = Records!Told(p)
    BY <1>8 DEF Records!Told
  <2> QED BY <1>1, <1>8, <2>1, <2>2 DEF Records!RecordsTellModels, Records!Last
<1>9. CASE Records!Fails
  <2>1. UNCHANGED <<defs, state, imd, record, covered>> /\ phase' = "idle" /\ upg' = Records!Nothing /\ Records!Spend
    BY <1>9 DEF Records!Fails
  <2>2. DOMAIN upg' \subseteq Records!Property /\ upg' \in [DOMAIN upg' -> AttrValue] /\ steps' \in 0..MaxSteps["records"]
    BY <1>3, <1>4, <2>1
  <2>3. RecordsTyped'
    BY <1>1, <2>1, <2>2 DEF RecordsTyped, Records!Module, Records!Property, Records!Modes
  <2>4. IdsExist'
    BY <1>1, <2>1 DEF IdsExist, Records!Module
  <2> QED BY <1>8, <2>1, <2>3, <2>4 DEF RecordsInd
<1>10. ASSUME NEW S \in SUBSET Records!Module, Records!install_modules(S) PROVE RecordsInd'
  <2> DEFINE set == S \union Records!ToLoad
  <2>1. UNCHANGED <<defs, record, upg, phase, covered>> /\ phase = "idle" /\ Records!Spend
        /\ state' = [m \in Records!Module |-> IF m \in set THEN "installed" ELSE state[m]]
        /\ imd' = imd \union UNION {defs[m].loads: m \in set}
    BY <1>10 DEF Records!install_modules
  <2>2. set \subseteq Records!Module
    BY DEF Records!ToLoad
  <2> HIDE DEF set
  <2>3. imd' \subseteq XmlId
    <3>1. \A m \in Records!Module: defs[m].loads \subseteq XmlId
      BY <1>1 DEF RecordsTyped
    <3>2. imd \subseteq XmlId
      BY <1>1 DEF RecordsTyped
    <3> QED BY <2>1, <2>2, <3>1, <3>2
  <2>4. state' \in [Records!Module -> {"installed", "uninstalled", "to install"}]
    BY <1>1, <2>1 DEF RecordsTyped
  <2>5. steps' \in 0..MaxSteps["records"]
    BY <1>4, <2>1
  <2>6. RecordsTyped'
    BY <1>1, <2>1, <2>3, <2>4, <2>5 DEF RecordsTyped, Records!Module, Records!Property, Records!Modes
  <2>7. IdsExist'
    <3> SUFFICES ASSUME NEW m \in Records!Module, state'[m] # "uninstalled" PROVE defs'[m].loads \subseteq imd'
      BY DEF IdsExist, Records!Module
    <3>1. CASE m \in set
      BY <2>1, <3>1
    <3>2. CASE m \notin set
      BY <1>1, <2>1, <3>2 DEF IdsExist
    <3> QED BY <3>1, <3>2
  <2> QED BY <1>8, <2>1, <2>6, <2>7 DEF RecordsInd
<1> QED BY <1>5, <1>6, <1>7, <1>9, <1>10

LEMMA RecordsStep ==
  ASSUME RecordsInd, [Records!Next]_(Records!vars)
  PROVE  RecordsInd'
<1>1. CASE \E m \in Records!Module: Records!init_models(m)
  BY <1>1, ModuleLoads
<1>2. CASE Records!generate \/ Records!RegistryLoaded \/ Records!Done \/ Records!Fails
             \/ \E S \in SUBSET Records!Module: Records!install_modules(S)
  BY <1>2, RecordsOthers
<1>3. CASE UNCHANGED Records!vars
  <2>1. UNCHANGED <<defs, state, imd, record, upg, phase, covered, steps>>
    BY <1>3 DEF Records!vars
  <2>2. RecordsTyped'
    BY <2>1 DEF RecordsInd, RecordsTyped, Records!Module, Records!Property, Records!Modes
  <2>3. IdsExist'
    BY <2>1 DEF RecordsInd, IdsExist, Records!Module
  <2>4. Records!log_model(covered)' = Records!log_model(covered) /\ \A p: Records!Told(p)' = Records!Told(p)
    BY <2>1 DEF Records!log_model, Records!Property, Records!Told
  <2>5. Records!RecordsTellModels'
    BY <2>1, <2>4 DEF RecordsInd, Records!RecordsTellModels, Records!Last
  <2>6. ASSUME phase' # "idle" PROVE Generating'
    <3>1. Records!Loaded' = Records!Loaded /\ Records!ToLoad' = Records!ToLoad
      BY <2>1 DEF Records!Loaded, Records!ToLoad, Records!Module
    <3>2. Generating
      BY <2>1, <2>6 DEF RecordsInd
    <3>3. InOrder' /\ RecordedLoaded' /\ OneEach' /\ CreatedFirst' /\ IdsTold' /\ covered' = {}
      BY <2>1, <3>1, <3>2 DEF Generating, InOrder, RecordedLoaded, OneEach, CreatedFirst, IdsTold
    <3>4. LastTells'
      BY <2>1, <2>4, <3>2 DEF Generating, LastTells, LastIs
    <3>5. MemoryTold'
      <4>1. Records!log_model(Records!Loaded)' = Records!log_model(Records!Loaded)
        BY <2>1, <3>1 DEF Records!log_model, Records!Property
      <4> QED BY <2>1, <3>2, <4>1 DEF Generating, MemoryTold
    <3> QED BY <3>3, <3>4, <3>5 DEF Generating
  <2> QED BY <2>2, <2>3, <2>5, <2>6 DEF RecordsInd
<1> QED BY <1>1, <1>2, <1>3 DEF Records!Next

LEMMA RecordsTold == RecordsInd => Records!TypeOK /\ Records!RecordsTellModels
<1> SUFFICES ASSUME RecordsInd PROVE Records!TypeOK
  BY DEF RecordsInd
<1>1. RecordsTyped
  BY DEF RecordsInd
<1>2. upg \in UNION {[P -> AttrValue]: P \in SUBSET Records!Property}
  BY <1>1 DEF RecordsTyped
<1> QED BY <1>1, <1>2 DEF RecordsTyped, Records!TypeOK
==============================================================================
