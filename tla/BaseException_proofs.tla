------------------------- MODULE BaseException_proofs -------------------------
(***************************************************************************)
(* Proofs about BaseException, for any documents, rules, users and bounds. *)
(*                                                                         *)
(* The decisions of a request are made on its snapshot.  They hold when it *)
(* commits because, as long as a document is not marked stale, what the    *)
(* request read of it is still what is committed (SnapshotCurrent), and    *)
(* because the detection let it go on only when it found nothing           *)
(* (ConfirmableFound).                                                     *)
(***************************************************************************)
EXTENDS BaseException, TLAPS

Working == {"detect", "confirm", "ignore"}

SnapshotCurrent ==
  \A u \in User: req[u].pc \in Working =>
     /\ req[u].snap \in Snapshot
     /\ \A d \in req[u].docs \ req[u].stale:
           /\ req[u].snap.fails[d] = fails[d]
           /\ req[u].snap.exception_ids[d] = exception_ids[d]
           /\ req[u].snap.ignore_exception[d] = ignore_exception[d]

ConfirmableFound ==
  \A u \in User: req[u].pc = "confirm" => \A d \in req[u].docs: Found(req[u], d) = {}

IInv == TypeOK /\ SnapshotCurrent /\ ConfirmableFound

-----------------------------------------------------------------------------
\* Touch replaces one request and marks documents of the others.
Touched(u, docs, r) ==
  /\ req' \in [User -> Request]
  /\ u \in User => req'[u] = r
  /\ \A v \in User: v # u =>
        /\ req'[v].pc = req[v].pc
        /\ req'[v].docs = req[v].docs
        /\ req'[v].snap = req[v].snap
        /\ req[v].pc \in Working =>
              req'[v].stale = req[v].stale \union (docs \intersect req[v].docs)

LEMMA TouchOthers ==
  ASSUME NEW u, NEW docs \in SUBSET Document, NEW r \in Request,
         req \in [User -> Request], Touch(u, docs, r)
  PROVE  Touched(u, docs, r)
<1>1. ASSUME NEW v \in User PROVE
        [req[v] EXCEPT !.stale = @ \union (docs \intersect req[v].docs)] \in Request
  BY DEF Request
<1>2. req' \in [User -> Request]
  BY <1>1 DEF Touch
<1>3. ASSUME NEW v \in User, v # u
      PROVE  \/ req'[v] = req[v] /\ req[v].pc \notin Working
             \/ req'[v] = [req[v] EXCEPT !.stale = @ \union (docs \intersect req[v].docs)]
  BY <1>3 DEF Touch, Working, Request
<1>4. ASSUME NEW v \in User, v # u
      PROVE  /\ req'[v].pc = req[v].pc
             /\ req'[v].docs = req[v].docs
             /\ req'[v].snap = req[v].snap
             /\ req[v].pc \in Working =>
                   req'[v].stale = req[v].stale \union (docs \intersect req[v].docs)
  <2>1. req[v] \in Request
    OBVIOUS
  <2> QED BY <1>3, <1>4, <2>1 DEF Request
<1>5. u \in User => req'[u] = r
  BY DEF Touch
<1> QED BY <1>2, <1>4, <1>5 DEF Touched

\* What is found depends on the snapshot of the request alone.
LEMMA FoundSame ==
  ASSUME NEW q, NEW p, p.docs = q.docs, p.snap = q.snap, NEW d
  PROVE  Found(p, d) = Found(q, d)
BY DEF Found, FailsOn

\* A step that touches the documents it changes keeps the snapshots of the
\* other requests current.
LEMMA OthersCurrent ==
  ASSUME NEW u, NEW docs \in SUBSET Document, NEW r \in Request,
         IInv, Touch(u, docs, r),
         \A d \in Document \ docs: /\ fails'[d] = fails[d]
                                   /\ exception_ids'[d] = exception_ids[d]
                                   /\ ignore_exception'[d] = ignore_exception[d],
         u \in User => /\ r.pc \in Working =>
                             /\ r.snap \in Snapshot
                             /\ \A d \in r.docs \ r.stale:
                                  /\ r.snap.fails[d] = fails'[d]
                                  /\ r.snap.exception_ids[d] = exception_ids'[d]
                                  /\ r.snap.ignore_exception[d] = ignore_exception'[d]
                       /\ r.pc = "confirm" => \A d \in r.docs: Found(r, d) = {}
  PROVE  SnapshotCurrent' /\ ConfirmableFound'
<1>0. req \in [User -> Request]
  BY DEF IInv, TypeOK
<1>1. /\ req' \in [User -> Request]
      /\ u \in User => req'[u] = r
      /\ \A v \in User: v # u =>
            /\ req'[v].pc = req[v].pc
            /\ req'[v].docs = req[v].docs
            /\ req'[v].snap = req[v].snap
            /\ req[v].pc \in Working =>
                  req'[v].stale = req[v].stale \union (docs \intersect req[v].docs)
  <2>1. Touched(u, docs, r)
    BY <1>0, TouchOthers, Zenon
  <2> QED BY <2>1, Zenon DEF Touched
<1>2. SnapshotCurrent'
  <2> SUFFICES ASSUME NEW v \in User, req'[v].pc \in Working
               PROVE  /\ req'[v].snap \in Snapshot
                      /\ \A d \in req'[v].docs \ req'[v].stale:
                            /\ req'[v].snap.fails[d] = fails'[d]
                            /\ req'[v].snap.exception_ids[d] = exception_ids'[d]
                            /\ req'[v].snap.ignore_exception[d] = ignore_exception'[d]
    BY DEF SnapshotCurrent, Snapshot
  <2>1. CASE v = u
    BY <1>1, <2>1
  <2>2. CASE v # u
    <3>1. req[v] \in Request /\ req[v].pc \in Working
      BY <1>0, <1>1, <2>2
    <3>2. req'[v].docs \ req'[v].stale \subseteq (req[v].docs \ req[v].stale) \intersect (Document \ docs)
      BY <1>1, <2>2, <3>1 DEF Request
    <3> QED BY <1>1, <2>2, <3>1, <3>2 DEF IInv, SnapshotCurrent
  <2> QED BY <2>1, <2>2
<1>3. ConfirmableFound'
  <2> SUFFICES ASSUME NEW v \in User, req'[v].pc = "confirm", NEW d \in req'[v].docs
               PROVE  Found(req'[v], d) = {}
    BY DEF ConfirmableFound, Found, FailsOn
  <2>1. CASE v = u
    BY <1>1, <2>1
  <2>2. CASE v # u
    <3>1. Found(req'[v], d) = Found(req[v], d)
      BY <1>1, <2>2, FoundSame
    <3> QED BY <1>1, <2>2, <3>1 DEF IInv, ConfirmableFound
  <2> QED BY <2>1, <2>2
<1> QED BY <1>2, <1>3
-----------------------------------------------------------------------------
\* A step that only replaces one request touches no document.
LEMMA ReplaceIsTouch ==
  ASSUME NEW u \in User, NEW r, req \in [User -> Request], req' = [req EXCEPT ![u] = r]
  PROVE  Touch(u, {}, r)
<1>1. ASSUME NEW v \in User, v # u
      PROVE  req'[v] = [req[v] EXCEPT !.stale = @ \union ({} \intersect req[v].docs)]
  <2>1. req[v] \in Request /\ req'[v] = req[v]
    BY <1>1
  <2>2. req[v].stale \union ({} \intersect req[v].docs) = req[v].stale
    OBVIOUS
  <2>3. [req[v] EXCEPT !.stale = req[v].stale] = req[v]
    BY <2>1 DEF Request
  <2> QED BY <2>1, <2>2, <2>3
<1>2. ASSUME NEW v \in User, v # u PROVE req'[v] = req[v]
  BY <1>2
<1>3. req'[u] = r
  OBVIOUS
<1>4. req' = [v \in User |-> req'[v]]
  OBVIOUS
<1>5. ASSUME NEW v \in User
      PROVE req'[v] = IF v = u THEN r
                      ELSE IF req[v].pc \in {"idle", "raised"} THEN req[v]
                      ELSE [req[v] EXCEPT !.stale = @ \union ({} \intersect req[v].docs)]
  BY <1>1, <1>2, <1>3
<1> QED BY <1>4, <1>5 DEF Touch

LEMMA NowType ==
  ASSUME TypeOK PROVE Now \in Snapshot
BY DEF TypeOK, Now, Snapshot

LEMMA IdleType == Idle \in Request
BY DEF Idle, Request

\* A request that starts, or starts again, reads what is committed.
LEMMA ReadIsCurrent ==
  ASSUME IInv, NEW u \in User, NEW r \in Request,
         req' = [req EXCEPT ![u] = r], UNCHANGED document,
         r.pc \in Working => r.pc # "confirm" /\ r.snap = Now
  PROVE  /\ req' \in [User -> Request]
         /\ SnapshotCurrent'
         /\ ConfirmableFound'
<1>1. Touch(u, {}, r)
  BY ReplaceIsTouch DEF IInv, TypeOK
<1>2. req' \in [User -> Request]
  BY DEF IInv, TypeOK
<1>3. r.pc \in Working =>
        /\ r.snap \in Snapshot
        /\ \A d \in r.docs \ r.stale: /\ r.snap.fails[d] = fails'[d]
                                      /\ r.snap.exception_ids[d] = exception_ids'[d]
                                      /\ r.snap.ignore_exception[d] = ignore_exception'[d]
  BY NowType DEF IInv, Now, document
<1>4. r.pc = "confirm" => \A d \in r.docs: Found(r, d) = {}
  BY DEF Working
<1>5. \A d \in Document \ {}: /\ fails'[d] = fails[d]
                              /\ exception_ids'[d] = exception_ids[d]
                              /\ ignore_exception'[d] = ignore_exception[d]
  BY DEF document
<1> QED BY <1>1, <1>2, <1>3, <1>4, <1>5, OthersCurrent

LEMMA BeginInv ==
  ASSUME IInv, NEW u \in User, NEW pc \in {"detect", "ignore"},
         NEW docs \in SUBSET Document, Begin(u, pc, docs)
  PROVE  IInv'
<1> DEFINE r == [pc |-> pc, docs |-> docs, snap |-> Now, stale |-> {}]
<1>1. r \in Request
  BY NowType DEF IInv, Request
<1>2. r.pc # "confirm" /\ r.snap = Now
  OBVIOUS
<1>3. req' = [req EXCEPT ![u] = r] /\ UNCHANGED document
  BY DEF Begin
<1>4. req' \in [User -> Request] /\ SnapshotCurrent' /\ ConfirmableFound'
  <2> HIDE DEF r
  <2> QED BY <1>1, <1>2, <1>3, ReadIsCurrent
<1>5. asks' \in 0..MaxAsks
  BY ExceptionParameters DEF IInv, TypeOK, Begin
<1>6. TypeOK'
  BY <1>3, <1>4, <1>5 DEF IInv, TypeOK, document
<1> QED BY <1>4, <1>6 DEF IInv

\* Requests that give up, or are shown their exceptions.
LEMMA EndInv ==
  ASSUME IInv, NEW u \in User, req' = [req EXCEPT ![u] = Idle],
         UNCHANGED <<document, asks>>
  PROVE  IInv'
<1>1. Idle.pc \notin Working
  BY DEF Idle, Working
<1>2. req' \in [User -> Request] /\ SnapshotCurrent' /\ ConfirmableFound'
  BY <1>1, IdleType, ReadIsCurrent
<1>3. TypeOK'
  BY <1>2 DEF IInv, TypeOK, document
<1> QED BY <1>2, <1>3 DEF IInv

LEMMA ConflictInv ==
  ASSUME IInv, NEW u \in User, NEW pc \in {"detect", "ignore"}, Conflict(u, pc)
  PROVE  IInv'
<1> DEFINE r == [req[u] EXCEPT !.pc = pc, !.snap = Now, !.stale = {}]
<1>1. CASE req' = [req EXCEPT ![u] = Idle]
  BY <1>1, EndInv DEF Conflict
<1>2. CASE req' = [req EXCEPT ![u] = r]
  <2>1. req[u] \in Request
    BY DEF IInv, TypeOK
  <2>2. r \in Request
    BY <2>1, NowType DEF IInv, Request
  <2>3. r.pc # "confirm" /\ r.snap = Now
    BY <2>1 DEF Request
  <2>4. UNCHANGED <<document, asks>>
    BY DEF Conflict
  <2>5. req' \in [User -> Request] /\ SnapshotCurrent' /\ ConfirmableFound'
    <3> HIDE DEF r
    <3> QED BY <1>2, <2>2, <2>3, <2>4, ReadIsCurrent
  <2>6. TypeOK'
    BY <2>4, <2>5 DEF IInv, TypeOK, document
  <2> QED BY <2>5, <2>6 DEF IInv
<1> QED BY <1>1, <1>2 DEF Conflict

-----------------------------------------------------------------------------
\* The second transaction leaves the documents it does not write as they were,
\* and adds what was found to the others.
LEMMA SecondTransaction ==
  ASSUME IInv, NEW u \in User, req[u].pc \in Working, NEW d \in Document
  PROVE  LET q == req[u]
             exc == (exception_ids[d] \ ToRemove(q, d)) \union ToAdd(q, d)
         IN  /\ exc \in SUBSET ExcRule
             /\ ToAdd(q, d) \union ToRemove(q, d) = {} => exc = exception_ids[d]
             /\ d \in q.docs \ q.stale => Found(q, d) \subseteq exc
<1>1. exception_ids[d] \in SUBSET ExcRule /\ Found(req[u], d) \in SUBSET ExcRule
  BY DEF IInv, TypeOK, Found
<1>2. d \in req[u].docs \ req[u].stale => Recorded(req[u], d) = exception_ids[d]
  BY DEF IInv, SnapshotCurrent, Recorded
<1> QED BY <1>1, <1>2 DEF ToAdd, ToRemove

LEMMA DetectInv ==
  ASSUME IInv, NEW u \in User, detect_exceptions(u)
  PROVE  IInv'
<1> DEFINE q == req[u]
           exc == [d \in Document |->
                     (exception_ids[d] \ ToRemove(q, d)) \union ToAdd(q, d)]
           written == {d \in q.docs: ToAdd(q, d) \union ToRemove(q, d) # {}}
           raise == \/ \E d \in q.docs: ToAdd(q, d) # {}
                    \/ must_raise_exception_after_detection(q.docs, exc)
                    \/ \E d \in q.docs: Found(q, d) # {}
           r == [q EXCEPT !.pc = IF raise THEN "raised" ELSE "confirm",
                          !.stale = @ \union written]
<1>1. /\ q.pc = "detect"
      /\ exception_ids' = exc
      /\ Touch(u, written, r)
      /\ UNCHANGED <<fails, ignore_exception, confirmed, asks>>
  BY DEF detect_exceptions
<1>2. q \in Request /\ q.pc \in Working
  BY <1>1 DEF IInv, TypeOK, Working
<1>3. written \in SUBSET Document
  BY <1>2 DEF Request
<1>4. /\ r \in Request
      /\ r.docs = q.docs /\ r.snap = q.snap
      /\ r.stale = q.stale \union written
      /\ r.pc = IF raise THEN "raised" ELSE "confirm"
  <2> HIDE DEF raise, written
  <2> QED BY <1>2, <1>3 DEF Request
<1>5. exception_ids' \in [Document -> SUBSET ExcRule]
  BY <1>1, <1>2, SecondTransaction
<1>6. ASSUME NEW d \in Document \ written
      PROVE  exception_ids'[d] = exception_ids[d]
  <2>1. ToAdd(q, d) \union ToRemove(q, d) = {}
    BY <1>6 DEF ToAdd, ToRemove
  <2> QED BY <1>1, <1>2, <2>1, SecondTransaction
<1>7. r.pc = "confirm" => \A d \in r.docs: Found(r, d) = {}
  <2>1. r.pc = "confirm" => ~raise
    <3> HIDE DEF raise, r
    <3> QED BY <1>4
  <2>2. ASSUME NEW d \in r.docs PROVE Found(r, d) = Found(q, d)
    <3> HIDE DEF r, q
    <3>1. r.docs = q.docs /\ r.snap = q.snap
      BY <1>4, Zenon
    <3> QED BY <3>1, FoundSame, Zenon
  <2> QED BY <1>4, <2>1, <2>2
<1>8. /\ q.snap \in Snapshot
      /\ \A d \in q.docs \ q.stale: /\ q.snap.fails[d] = fails[d]
                                    /\ q.snap.exception_ids[d] = exception_ids[d]
                                    /\ q.snap.ignore_exception[d] = ignore_exception[d]
  BY <1>2 DEF IInv, SnapshotCurrent
<1>9. /\ r.snap \in Snapshot
      /\ \A d \in r.docs \ r.stale: /\ r.snap.fails[d] = fails'[d]
                                    /\ r.snap.exception_ids[d] = exception_ids'[d]
                                    /\ r.snap.ignore_exception[d] = ignore_exception'[d]
  <2>1. \A d \in r.docs \ r.stale: d \in q.docs \ q.stale /\ d \in Document \ written
    <3> HIDE DEF r, written
    <3> QED BY <1>2, <1>4 DEF Request
  <2> HIDE DEF r, q, written, exc, raise
  <2> QED BY <1>1, <1>4, <1>6, <1>8, <2>1
<1>10. \A d \in Document \ written: /\ fails'[d] = fails[d]
                                    /\ exception_ids'[d] = exception_ids[d]
                                    /\ ignore_exception'[d] = ignore_exception[d]
  <2> HIDE DEF r, q, written, exc, raise
  <2> QED BY <1>1, <1>6
<1>11. SnapshotCurrent' /\ ConfirmableFound'
  <2> HIDE DEF r, q, written, exc, raise
  <2> QED BY <1>1, <1>3, <1>4, <1>7, <1>9, <1>10, OthersCurrent
<1>12. req' \in [User -> Request]
  <2> HIDE DEF r, q, written, exc, raise
  <2>1. req \in [User -> Request]
    BY DEF IInv, TypeOK
  <2>2. Touched(u, written, r)
    BY <1>1, <1>3, <1>4, <2>1, TouchOthers, Zenon
  <2> QED BY <2>2 DEF Touched
<1>13. TypeOK'
  BY <1>1, <1>5, <1>12 DEF IInv, TypeOK
<1> QED BY <1>11, <1>13 DEF IInv

\* The commits and the edits, which write documents and mark them stale.
LEMMA WriteInv ==
  ASSUME IInv, NEW u, NEW docs \in SUBSET Document, Touch(u, docs, Idle),
         fails' \in [Document -> SUBSET ExcRule],
         ignore_exception' \in [Document -> BOOLEAN],
         confirmed' \in [Document -> BOOLEAN],
         asks' \in 0..MaxAsks,
         UNCHANGED exception_ids,
         \A d \in Document \ docs: fails'[d] = fails[d] /\ ignore_exception'[d] = ignore_exception[d]
  PROVE  IInv'
<1>1. Idle.pc \notin Working /\ Idle.pc # "confirm"
  BY DEF Idle, Working
<1>2. SnapshotCurrent' /\ ConfirmableFound'
  BY <1>1, IdleType, OthersCurrent
<1>3. req \in [User -> Request]
  BY DEF IInv, TypeOK
<1>4. req' \in [User -> Request]
  <2>1. Touched(u, docs, Idle)
    BY <1>3, IdleType, TouchOthers, Zenon
  <2> QED BY <2>1 DEF Touched
<1>5. TypeOK'
  BY <1>4 DEF IInv, TypeOK
<1> QED BY <1>2, <1>5 DEF IInv

LEMMA StepInv ==
  ASSUME IInv, [Next]_vars PROVE IInv'
<1>1. ASSUME NEW u \in User, UserStep(u) PROVE IInv'
  <2>1. CASE detect_exceptions(u)
    BY <2>1, DetectInv
  <2>2. CASE CommitConfirm(u)
    <3>1. req[u].docs \in SUBSET Document
      BY DEF IInv, TypeOK, Request
    <3>2. confirmed' \in [Document -> BOOLEAN]
      BY <2>2 DEF CommitConfirm, IInv, TypeOK
    <3> QED BY <2>2, <3>1, <3>2, WriteInv DEF CommitConfirm, IInv, TypeOK
  <2>3. CASE ConfirmConflict(u)
    BY <2>3, ConflictInv DEF ConfirmConflict
  <2>4. CASE Rejected(u)
    BY <2>4, EndInv DEF Rejected
  <2>5. CASE IgnoreRefused(u)
    BY <2>5, EndInv DEF IgnoreRefused
  <2>6. CASE CommitIgnore(u)
    <3>1. req[u].docs \in SUBSET Document
      BY DEF IInv, TypeOK, Request
    <3>2. ignore_exception' \in [Document -> BOOLEAN]
      BY <2>6 DEF CommitIgnore, IInv, TypeOK
    <3>3. \A d \in Document \ req[u].docs: ignore_exception'[d] = ignore_exception[d]
      BY <2>6 DEF CommitIgnore, IInv, TypeOK
    <3> QED BY <2>6, <3>1, <3>2, <3>3, WriteInv DEF CommitIgnore, IInv, TypeOK
  <2>7. CASE IgnoreConflict(u)
    BY <2>7, ConflictInv DEF IgnoreConflict
  <2> QED BY <1>1, <2>1, <2>2, <2>3, <2>4, <2>5, <2>6, <2>7 DEF UserStep
<1>2. ASSUME NEW u \in User, NEW docs \in SUBSET Document,
             button_confirm(u, docs) \/ action_ignore_exceptions(u, docs)
      PROVE  IInv'
  BY <1>2, BeginInv DEF button_confirm, action_ignore_exceptions
<1>3. ASSUME NEW d \in Document, NEW failing \in SUBSET ExcRule, Edit(d, failing)
      PROVE  IInv'
  <2>1. fails' \in [Document -> SUBSET ExcRule] /\ \A c \in Document \ {d}: fails'[c] = fails[c]
    BY <1>3 DEF Edit, IInv, TypeOK
  <2>2. asks' \in 0..MaxAsks
    BY <1>3, ExceptionParameters DEF Edit, IInv, TypeOK
  <2>3. /\ Touch(None, {d}, Idle)
        /\ UNCHANGED <<exception_ids, ignore_exception, confirmed>>
    BY <1>3 DEF Edit
  <2> QED BY <2>1, <2>2, <2>3, WriteInv DEF IInv, TypeOK
<1>4. CASE UNCHANGED vars
  BY <1>4 DEF vars, IInv, TypeOK, SnapshotCurrent, ConfirmableFound, Found, FailsOn
<1> QED BY <1>1, <1>2, <1>3, <1>4 DEF Next

LEMMA InitInv == Init => IInv
<1> SUFFICES ASSUME Init PROVE IInv
  OBVIOUS
<1>1. TypeOK
  BY IdleType, ExceptionParameters DEF Init, TypeOK
<1>2. \A u \in User: req[u].pc = "idle"
  BY DEF Init, Idle
<1> QED BY <1>1, <1>2 DEF IInv, SnapshotCurrent, ConfirmableFound, Working

LEMMA Invariance == Spec => []IInv
BY InitInv, StepInv, PTL DEF Spec

-----------------------------------------------------------------------------
\* The variables keep their types.
THEOREM ExceptionTypeCorrect == Spec => []TypeOK
<1>1. IInv => TypeOK
  BY DEF IInv
<1> QED BY <1>1, Invariance, PTL

\* A document is only confirmed with a failing rule when somebody ignored its
\* exceptions (detect_exceptions, _check_exception).
THEOREM ConfirmationIsValid == Spec => ConfirmedOnlyIfValid
<1>1. ASSUME IInv, [Next]_vars
      PROVE  [\A d \in Document: ~confirmed[d] /\ confirmed'[d]
                                   => ignore_exception[d] \/ fails[d] = {}]_vars
  <2> SUFFICES ASSUME NEW d \in Document, ~confirmed[d], confirmed'[d]
               PROVE  ignore_exception[d] \/ fails[d] = {}
    OBVIOUS
  <2>1. PICK u \in User: CommitConfirm(u)
    BY <1>1 DEF Next, UserStep, vars, document, Begin, Conflict, detect_exceptions,
                ConfirmConflict, Rejected, IgnoreRefused, CommitIgnore, IgnoreConflict,
                button_confirm, action_ignore_exceptions, Edit
  <2>2. d \in req[u].docs \ req[u].stale
    BY <2>1 DEF CommitConfirm, IInv, TypeOK
  <2>3. Found(req[u], d) = {}
    BY <1>1, <2>1, <2>2 DEF CommitConfirm, IInv, ConfirmableFound
  <2>4. /\ req[u].snap.fails[d] = fails[d]
        /\ req[u].snap.ignore_exception[d] = ignore_exception[d]
    BY <1>1, <2>1, <2>2 DEF CommitConfirm, IInv, SnapshotCurrent, Working
  <2>5. fails[d] \in SUBSET ExcRule
    BY <1>1 DEF IInv, TypeOK
  <2> QED BY <2>3, <2>4, <2>5 DEF Found, FailsOn
<1> QED BY <1>1, Invariance, PTL DEF Spec, ConfirmedOnlyIfValid

\* Exceptions are not ignored while a blocking one is recorded
\* (action_ignore_exceptions).
THEOREM BlockingIsNotIgnored == Spec => IgnoreRefusesBlocking
<1>1. ASSUME IInv, [Next]_vars
      PROVE  [\A d \in Document: ~ignore_exception[d] /\ ignore_exception'[d]
                                   => exception_ids[d] \intersect Blocking = {}]_vars
  <2> SUFFICES ASSUME NEW d \in Document, ~ignore_exception[d], ignore_exception'[d]
               PROVE  exception_ids[d] \intersect Blocking = {}
    OBVIOUS
  <2>1. PICK u \in User: CommitIgnore(u)
    BY <1>1 DEF Next, UserStep, vars, document, Begin, Conflict, detect_exceptions,
                ConfirmConflict, Rejected, IgnoreRefused, CommitConfirm, IgnoreConflict,
                button_confirm, action_ignore_exceptions, Edit
  <2>2. d \in req[u].docs \ req[u].stale
    BY <2>1 DEF CommitIgnore, IInv, TypeOK
  <2>3. req[u].snap.exception_ids[d] = exception_ids[d]
    BY <1>1, <2>1, <2>2 DEF CommitIgnore, IInv, SnapshotCurrent, Working
  <2> QED BY <2>1, <2>2, <2>3 DEF CommitIgnore, IgnorableIn
<1> QED BY <1>1, Invariance, PTL DEF Spec, IgnoreRefusesBlocking

\* A request that is replaced, alone, by one that is not refused.
LEMMA ReplacedNotRaised ==
  ASSUME IInv, NEW u \in User, req[u].pc # "raised",
         NEW v \in User, NEW r, r.pc # "raised", req' = [req EXCEPT ![v] = r]
  PROVE  req'[u].pc # "raised"
BY DEF IInv, TypeOK

LEMMA TouchedNotRaised ==
  ASSUME IInv, NEW u \in User, req[u].pc # "raised",
         NEW v, NEW docs \in SUBSET Document, NEW r \in Request,
         u = v => r.pc # "raised", Touch(v, docs, r)
  PROVE  req'[u].pc # "raised"
<1>1. req \in [User -> Request]
  BY DEF IInv, TypeOK
<1>2. Touched(v, docs, r)
  BY <1>1, TouchOthers, Zenon
<1> QED BY <1>2 DEF Touched

LEMMA OnlyDetectionRaises ==
  ASSUME IInv, Next, NEW u \in User, req[u].pc # "raised", req'[u].pc = "raised"
  PROVE  detect_exceptions(u)
<1>0. \A v \in User: req[v] \in Request /\ req[v].docs \in SUBSET Document
  BY DEF IInv, TypeOK, Request
<1>i. Idle.pc # "raised" /\ Idle \in Request
  BY IdleType DEF Idle
<1>1. ASSUME NEW v \in User, UserStep(v) PROVE detect_exceptions(u)
  <2>1. CASE detect_exceptions(v)
    <3> DEFINE q == req[v]
               exc == [d \in Document |->
                         (exception_ids[d] \ ToRemove(q, d)) \union ToAdd(q, d)]
               written == {d \in q.docs: ToAdd(q, d) \union ToRemove(q, d) # {}}
               raise == \/ \E d \in q.docs: ToAdd(q, d) # {}
                        \/ must_raise_exception_after_detection(q.docs, exc)
                        \/ \E d \in q.docs: Found(q, d) # {}
               r == [q EXCEPT !.pc = IF raise THEN "raised" ELSE "confirm",
                              !.stale = @ \union written]
    <3>1. Touch(v, written, r)
      BY <2>1 DEF detect_exceptions
    <3>2. written \in SUBSET Document
      BY <1>0
    <3>3. r \in Request
      <4> HIDE DEF raise, written
      <4> QED BY <1>0, <3>2 DEF Request
    <3>4. u = v
      <4> HIDE DEF r, written
      <4> QED BY <3>1, <3>2, <3>3, TouchedNotRaised
    <3> QED BY <2>1, <3>4
  <2>2. CASE CommitConfirm(v)
    BY <1>0, <1>i, <2>2, TouchedNotRaised DEF CommitConfirm
  <2>3. CASE CommitIgnore(v)
    BY <1>0, <1>i, <2>3, TouchedNotRaised DEF CommitIgnore
  <2>4. CASE Rejected(v) \/ IgnoreRefused(v)
    BY <1>i, <2>4, ReplacedNotRaised DEF Rejected, IgnoreRefused
  <2>5. ASSUME NEW pc \in {"detect", "ignore"}, Conflict(v, pc) PROVE FALSE
    <3> DEFINE r == [req[v] EXCEPT !.pc = pc, !.snap = Now, !.stale = {}]
    <3>1. r.pc # "raised"
      BY <1>0 DEF Request
    <3>2. req' = [req EXCEPT ![v] = r] \/ req' = [req EXCEPT ![v] = Idle]
      BY <2>5 DEF Conflict
    <3> QED BY <1>i, <3>1, <3>2, ReplacedNotRaised
  <2> QED BY <1>1, <2>1, <2>2, <2>3, <2>4, <2>5 DEF UserStep, ConfirmConflict, IgnoreConflict
<1>2. ASSUME NEW v \in User, NEW pc \in {"detect", "ignore"}, NEW docs, Begin(v, pc, docs)
      PROVE  FALSE
  BY <1>2, ReplacedNotRaised DEF Begin
<1>3. ASSUME NEW d \in Document, NEW failing, Edit(d, failing)
      PROVE  FALSE
  BY <1>3, <1>i, TouchedNotRaised DEF Edit
<1> QED BY <1>1, <1>2, <1>3 DEF Next, button_confirm, action_ignore_exceptions

\* What a refused confirmation found is committed (detect_exceptions).
THEOREM FindingsAreStored == Spec => StoredBeforeRollback
<1>1. ASSUME IInv, [Next]_vars
      PROVE  [\A u \in User: req[u].pc # "raised" /\ req'[u].pc = "raised"
                => \A d \in req[u].docs \ req[u].stale:
                      Found(req[u], d) \subseteq exception_ids'[d]]_vars
  <2> SUFFICES ASSUME NEW u \in User, req[u].pc # "raised", req'[u].pc = "raised", Next,
                      NEW d \in req[u].docs \ req[u].stale
               PROVE  Found(req[u], d) \subseteq exception_ids'[d]
    BY <1>1 DEF vars
  <2>1. detect_exceptions(u)
    BY <1>1, OnlyDetectionRaises
  <2>2. d \in Document
    BY <1>1 DEF IInv, TypeOK, Request
  <2> QED BY <1>1, <2>1, <2>2, SecondTransaction DEF detect_exceptions, Working
<1> QED BY <1>1, Invariance, PTL DEF Spec, StoredBeforeRollback
==============================================================================
