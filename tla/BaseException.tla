----------------------------- MODULE BaseException -----------------------------
(***************************************************************************)
(* base_exception: documents are checked by rules before they are          *)
(* confirmed.  What the check finds is stored by a second transaction that *)
(* commits, so that it survives the rollback of the first one.             *)
(*                                                                         *)
(* A request works on the snapshot of its transaction; when a document was *)
(* updated since, the update of the request fails and the server runs it   *)
(* again.  The confirmation stands for the models that use base_exception. *)
(***************************************************************************)
EXTENDS Naturals

CONSTANTS Document,
          ExcRule,  \* the active rules of the model
          Blocking, \* those that cannot be ignored
          User,
          MaxAsks,  \* bound: what users start
          None

ASSUME ExceptionParameters ==
  /\ Blocking \subseteq ExcRule
  /\ MaxAsks \in Nat

VARIABLES fails,         \* the rules that fail on the data of a document
          exception_ids, \* the exceptions recorded on it
          ignore_exception,
          confirmed,
          req,           \* the request each user waits for
          asks

vars == <<fails, exception_ids, ignore_exception, confirmed, req, asks>>
document == <<fails, exception_ids, ignore_exception, confirmed>>

\* What a request read of the documents.
Snapshot == [fails: [Document -> SUBSET ExcRule],
             exception_ids: [Document -> SUBSET ExcRule],
             ignore_exception: [Document -> BOOLEAN]]

Request == [pc: {"idle", "detect", "confirm", "ignore", "raised"},
            docs: SUBSET Document,   \* the records of the request
            snap: Snapshot \union {None},
            stale: SUBSET Document]  \* updated by others since

Idle == [pc |-> "idle", docs |-> {}, snap |-> None, stale |-> {}]

TypeOK ==
  /\ fails \in [Document -> SUBSET ExcRule]
  /\ exception_ids \in [Document -> SUBSET ExcRule]
  /\ ignore_exception \in [Document -> BOOLEAN]
  /\ confirmed \in [Document -> BOOLEAN]
  /\ req \in [User -> Request]
  /\ asks \in 0..MaxAsks

Init == /\ fails \in [Document -> SUBSET ExcRule]
        /\ exception_ids = [d \in Document |-> {}]
        /\ ignore_exception = [d \in Document |-> FALSE]
        /\ confirmed = [d \in Document |-> FALSE]
        /\ req = [u \in User |-> Idle]
        /\ asks = 0

Now == [fails |-> fails, exception_ids |-> exception_ids,
        ignore_exception |-> ignore_exception]

\* The rows of docs are updated, by request r of u or by another one (u = None):
\* the other requests that read them are stale.
Touch(u, docs, r) ==
  req' = [v \in User |-> IF v = u THEN r
                         ELSE IF req[v].pc \in {"idle", "raised"} THEN req[v]
                         ELSE [req[v] EXCEPT !.stale = @ \union (docs \intersect req[v].docs)]]

Begin(u, pc, docs) ==
  /\ asks < MaxAsks
  /\ asks' = asks + 1
  /\ req[u].pc = "idle"
  /\ docs # {}
  /\ req' = [req EXCEPT ![u] = [pc |-> pc, docs |-> docs, snap |-> Now, stale |-> {}]]
  /\ UNCHANGED document

\* The update of a stale document fails; the request is run again, or given up.
Conflict(u, pc) ==
  /\ req[u].stale # {}
  /\ \/ req' = [req EXCEPT ![u] = [@ EXCEPT !.pc = pc, !.snap = Now, !.stale = {}]]
     \/ req' = [req EXCEPT ![u] = Idle]
  /\ UNCHANGED <<document, asks>>

-----------------------------------------------------------------------------
(* _get_exceptions, on what request q read.                                *)

\* Mutant: nothing is detected on records of which one is ignored.
FailsOn_AnyIgnored(q, d, e) ==
  /\ e \in q.snap.fails[d]
  /\ \A c \in q.docs: ~q.snap.ignore_exception[c]

\* Rules are only evaluated on records that are not ignored.
FailsOn(q, d, e) == e \in q.snap.fails[d] /\ ~q.snap.ignore_exception[d]

Recorded(q, d) == q.snap.exception_ids[d]
\* Mutant: a rule that is archived is evaluated too.
Found_Archived(q, d) == {e \in ExcRule: FailsOn(q, d, e)} \union
                        (IF q.snap.ignore_exception[d] THEN {} ELSE {None})

Found(q, d) == {e \in ExcRule: FailsOn(q, d, e)}
ToAdd(q, d) == IF d \in q.docs THEN Found(q, d) \ Recorded(q, d) ELSE {}
ToRemove(q, d) == IF d \in q.docs THEN Recorded(q, d) \ Found(q, d) ELSE {}

\* On what the second transaction sees after its writes, exc.
must_raise_exception_after_detection(docs, exc) ==
  \/ \E d \in docs: exc[d] # {} /\ ~ignore_exception[d]
  \/ \E d \in docs: exc[d] \intersect Blocking # {}

\* Mutant: the exceptions are written by the request's own transaction.
detect_exceptions_SameCursor(u) ==
  LET q == req[u]
      exc == [d \in Document |->
                (exception_ids[d] \ ToRemove(q, d)) \union ToAdd(q, d)]
      raise == \/ \E d \in q.docs: ToAdd(q, d) # {}
               \/ must_raise_exception_after_detection(q.docs, exc)
               \/ \E d \in q.docs: Found(q, d) # {}
  IN  /\ q.pc = "detect"
      /\ exception_ids' = IF raise THEN exception_ids ELSE exc
      /\ Touch(u, {}, [q EXCEPT !.pc = IF raise THEN "raised" ELSE "confirm"])
      /\ UNCHANGED <<fails, ignore_exception, confirmed, asks>>

\* Mutant: the second transaction writes on every document it checked.
detect_exceptions_Rewrites(u) ==
  LET q == req[u]
      exc == [d \in Document |->
                (exception_ids[d] \ ToRemove(q, d)) \union ToAdd(q, d)]
      raise == must_raise_exception_after_detection(q.docs, exc)
  IN  /\ q.pc = "detect"
      /\ exception_ids' = exc
      /\ Touch(u, q.docs, [q EXCEPT !.pc = IF raise THEN "raised" ELSE "confirm",
                                    !.stale = @ \union q.docs])
      /\ UNCHANGED <<fails, ignore_exception, confirmed, asks>>

\* The second transaction starts now, and commits: for the request itself too,
\* the documents it wrote are stale.  Then an exception is raised, by the
\* detection or (ValidationError) by _check_exception.
detect_exceptions(u) ==
  LET q == req[u]
      exc == [d \in Document |->
                (exception_ids[d] \ ToRemove(q, d)) \union ToAdd(q, d)]
      written == {d \in q.docs: ToAdd(q, d) \union ToRemove(q, d) # {}}
      raise == \/ \E d \in q.docs: ToAdd(q, d) # {}
               \/ must_raise_exception_after_detection(q.docs, exc)
               \/ \E d \in q.docs: Found(q, d) # {}
  IN  /\ q.pc = "detect"
      /\ exception_ids' = exc
      /\ Touch(u, written, [q EXCEPT !.pc = IF raise THEN "raised" ELSE "confirm",
                                     !.stale = @ \union written])
      /\ UNCHANGED <<fails, ignore_exception, confirmed, asks>>

-----------------------------------------------------------------------------
(* Requests.                                                               *)

button_confirm(u, docs) ==
  /\ \A d \in docs: ~confirmed[d]
  /\ Begin(u, "detect", docs)

CommitConfirm(u) ==
  /\ req[u].pc = "confirm"
  /\ req[u].stale = {}
  /\ confirmed' = [d \in Document |-> confirmed[d] \/ d \in req[u].docs]
  /\ Touch(u, req[u].docs, Idle)
  /\ UNCHANGED <<fails, exception_ids, ignore_exception, asks>>

ConfirmConflict(u) == req[u].pc = "confirm" /\ Conflict(u, "detect")

\* The transaction is rolled back, the user sees the exceptions.
Rejected(u) ==
  /\ req[u].pc = "raised"
  /\ req' = [req EXCEPT ![u] = Idle]
  /\ UNCHANGED <<document, asks>>

\* Mutant: blocking exceptions are ignored with the others.
IgnorableIn_All(q) == TRUE

IgnorableIn(q) == \A d \in q.docs: q.snap.exception_ids[d] \intersect Blocking = {}

action_ignore_exceptions(u, docs) ==
  /\ \A d \in docs: ~confirmed[d]
  /\ Begin(u, "ignore", docs)

\* UserError: some of them are blocking.
IgnoreRefused(u) ==
  /\ req[u].pc = "ignore"
  /\ ~IgnorableIn(req[u])
  /\ req' = [req EXCEPT ![u] = Idle]
  /\ UNCHANGED <<document, asks>>

CommitIgnore(u) ==
  /\ req[u].pc = "ignore"
  /\ IgnorableIn(req[u])
  /\ req[u].stale = {}
  /\ ignore_exception' = [d \in Document |-> ignore_exception[d] \/ d \in req[u].docs]
  /\ Touch(u, req[u].docs, Idle)
  /\ UNCHANGED <<fails, exception_ids, confirmed, asks>>

IgnoreConflict(u) ==
  /\ req[u].pc = "ignore"
  /\ IgnorableIn(req[u])
  /\ Conflict(u, "ignore")

\* A user changes the data of a document, in one transaction.
Edit(d, failing) ==
  /\ asks < MaxAsks
  /\ asks' = asks + 1
  /\ ~confirmed[d]
  /\ fails' = [fails EXCEPT ![d] = failing]
  /\ Touch(None, {d}, Idle)
  /\ UNCHANGED <<exception_ids, ignore_exception, confirmed>>

-----------------------------------------------------------------------------
UserStep(u) == \/ detect_exceptions(u) \/ CommitConfirm(u) \/ ConfirmConflict(u)
               \/ Rejected(u) \/ IgnoreRefused(u) \/ CommitIgnore(u) \/ IgnoreConflict(u)

Next == \/ \E u \in User: \/ UserStep(u)
                          \/ \E docs \in SUBSET Document:
                                button_confirm(u, docs) \/ action_ignore_exceptions(u, docs)
        \/ \E d \in Document: \E failing \in SUBSET ExcRule: Edit(d, failing)

Spec == Init /\ [][Next]_vars

FairSpec == Spec /\ \A u \in User: WF_vars(UserStep(u))

-----------------------------------------------------------------------------
(* Properties.                                                             *)

\* A document is only confirmed with a failing rule when somebody ignored its
\* exceptions, whatever was confirmed with it and whoever edits meanwhile.
ConfirmedOnlyIfValid ==
  [][\A d \in Document: ~confirmed[d] /\ confirmed'[d]
                           => ignore_exception[d] \/ fails[d] = {}]_vars

\* The exceptions of a document are never ignored while a blocking one is
\* recorded on it, not even one that another request has just stored.
IgnoreRefusesBlocking ==
  [][\A d \in Document: ~ignore_exception[d] /\ ignore_exception'[d]
                           => exception_ids[d] \intersect Blocking = {}]_vars

\* The rollback of a refused confirmation keeps what the check found, on the
\* documents that nobody updated since they were read.
StoredBeforeRollback ==
  [][\A u \in User: req[u].pc # "raised" /\ req'[u].pc = "raised"
       => \A d \in req[u].docs \ req[u].stale:
             Found(req[u], d) \subseteq exception_ids'[d]]_vars

\* A request ends: what its second transaction writes on its own documents
\* does not make it fail and start again for ever.
RequestsEnd == \A u \in User: req[u].pc # "idle" ~> req[u].pc = "idle"

\* A rule that "can not be ignored" holds on every document that is confirmed.
BlockingNeverConfirmed ==
  [][\A d \in Document: ~confirmed[d] /\ confirmed'[d]
                           => fails[d] \intersect Blocking = {}]_vars
==============================================================================
