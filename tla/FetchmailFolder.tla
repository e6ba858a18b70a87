---------------------------- MODULE FetchmailFolder ----------------------------
(***************************************************************************)
(* fetchmail_attach_from_folder: messages of an IMAP folder are attached   *)
(* to the records they match, and marked, archived or deleted on the       *)
(* server, which no rollback undoes; one commit ends the whole fetch.      *)
(* mail_cleanup tidies the same folder before a fetch of its server.       *)
(* Nothing keeps two fetches of the folder apart: the scheduled one and    *)
(* those that users start.                                                 *)
(***************************************************************************)
EXTENDS Naturals, FiniteSets

CONSTANTS Message,  \* messages that arrive, each with its Message-Id
          Fetcher,  \* who fetches: the scheduled action Cron and users
          Cron,
          Matches,  \* how many records match: by address, by domain
          Config,   \* configurations of folder and server to consider; bounds:
                    \* messages that come and who fetches
          MaxFaults \* bound: failures

\* The age of a message: since yesterday, older, beyond the days of mail_cleanup.
Age == 0..2
Flags == [seen: BOOLEAN, flagged: BOOLEAN, deleted: BOOLEAN, age: Age]

FetchmailParameters ==
  /\ Cron \in Fetcher
  /\ Matches \in [Message -> [exact: Nat, domain: Nat]]
  /\ Config \subseteq
       [match_algorithm: {"odoo_standard", "email_exact", "email_domain"},
        delete_matching: BOOLEAN, flag_nonmatching: BOOLEAN, archive_path: BOOLEAN,
        match_first: BOOLEAN, fetch_unseen_only: BOOLEAN, fetch_last_day_only: BOOLEAN,
        seen: {"on_fetch", "all", "matching", "none"},
        cleanup: {"none", "read", "move"}, purge: BOOLEAN,
        messages: SUBSET Message, fetchers: SUBSET Fetcher]
  /\ MaxFaults \in Nat

VARIABLES conf,     \* the configuration, never changed
          new,      \* messages that have not arrived yet
          box,      \* the flags of each message that is in the folder
          kept,     \* messages with a copy in the archive or clean-up folder
          purged,   \* messages that mail_cleanup removed for their age
          attached, \* committed attachments of each message to a record
          fetch,    \* the fetch of each fetcher
          risked,   \* for the properties: messages whose copy the server refused,
                    \* which were marked although the answer did not arrive, or
                    \* whose attachment was not committed when the process died
          raced,    \* for the properties: messages that one fetch attached while
                    \* the snapshot of another was open
          faults

vars == <<conf, new, box, kept, purged, attached, fetch, risked, raced, faults>>

Idle == [pc |-> "idle", todo |-> {}, uid |-> {}, matched |-> FALSE, done |-> {}, known |-> {}]

TypeOK ==
  /\ conf \in Config
  /\ new \subseteq Message
  /\ DOMAIN box \subseteq Message \ new /\ \A m \in DOMAIN box: box[m] \in Flags
  /\ kept \subseteq Message /\ purged \subseteq Message
  /\ risked \subseteq Message /\ raced \subseteq Message
  /\ attached \in [Message -> Nat]
  /\ fetch \in [Fetcher ->
       [pc: {"idle", "select", "next", "fetched", "attached", "archive", "commit"},
        todo: SUBSET Message, uid: SUBSET Message, matched: BOOLEAN,
        done: SUBSET Message, known: SUBSET Message]]
  /\ faults \in 0..MaxFaults

Init == /\ conf \in Config
        /\ new = Message /\ box = [m \in {} |-> {}]
        /\ kept = {} /\ purged = {}
        /\ attached = [m \in Message |-> 0]
        /\ fetch = [f \in Fetcher |-> Idle]
        /\ risked = {} /\ raced = {}
        /\ faults = 0

\* Flags of the messages in S change; messages marked as deleted go.  What
\* another fetch expunged is not marked any more.
Mark(S, changes) == [m \in DOMAIN box |-> IF m \in S THEN changes[m] ELSE box[m]]
Expunged(b) == [m \in {x \in DOMAIN b: ~b[x].deleted} |-> b[m]]
Present(m) == {m} \intersect DOMAIN box

Fault == faults < MaxFaults /\ faults' = faults + 1

\* The fetch of f goes on as r.
Goes(f, r) == fetch' = [fetch EXCEPT ![f] = r]

-----------------------------------------------------------------------------
(* The mail server.                                                        *)

Arrive(m) ==
  /\ m \in new \intersect conf.messages
  /\ new' = new \ {m}
  /\ box' = [x \in DOMAIN box \union {m} |-> IF x = m
              THEN [seen |-> FALSE, flagged |-> FALSE, deleted |-> FALSE, age |-> 0]
              ELSE box[x]]
  /\ UNCHANGED <<conf, kept, purged, attached, fetch, risked, raced, faults>>

GrowOld(m) ==
  /\ m \in DOMAIN box /\ box[m].age < 2
  /\ box' = [box EXCEPT ![m].age = @ + 1]
  /\ UNCHANGED <<conf, new, kept, purged, attached, fetch, risked, raced, faults>>

-----------------------------------------------------------------------------
(* mail_cleanup: fetch_mail of a server begins with                        *)
(* _cleanup_fetchmail_server and _purge_fetchmail_server, each message in  *)
(* a try of its own.                                                       *)

\* The transaction sees what was attached when it began.
Started == [Idle EXCEPT !.pc = "select", !.known = {m \in Message: attached[m] > 0}]

Expired == {m \in DOMAIN box: box[m].age = 2 /\ ~box[m].seen}

\* An expired message is marked as read, and moved if its copy succeeds.
fetch_mail(f) ==
  /\ f \in conf.fetchers /\ fetch[f].pc = "idle"
  /\ LET read == IF conf.cleanup = "none" THEN {} ELSE Expired
         old == IF conf.purge THEN {m \in DOMAIN box: box[m].age = 2} ELSE {}
         move == IF conf.cleanup = "move" THEN read ELSE {}
     IN  \E moved \in SUBSET move:
           /\ IF moved = move THEN UNCHANGED faults ELSE Fault
           /\ box' = Expunged(Mark(read \union old, [m \in DOMAIN box |->
                       [box[m] EXCEPT !.seen = @ \/ m \in read,
                                      !.deleted = @ \/ m \in moved \union old]]))
           /\ kept' = kept \union moved
           /\ purged' = purged \union old
  /\ Goes(f, Started)
  /\ UNCHANGED <<conf, new, attached, risked, raced>>

\* The button "Fetch folder now" fetches the folder at once.
fetch_folder(f) ==
  /\ f \in conf.fetchers \ {Cron} /\ fetch[f].pc = "idle"
  /\ Goes(f, Started)
  /\ UNCHANGED <<conf, new, box, kept, purged, attached, risked, raced, faults>>

-----------------------------------------------------------------------------
(* FetchmailServerFolder.fetch_mail and retrieve_imap_folder.              *)

\* Mutant: only unread messages are searched.
get_criteria_Unseen(m) == ~box[m].deleted /\ ~box[m].seen

get_criteria(m) == /\ ~box[m].deleted
                   /\ conf.fetch_unseen_only => ~box[m].seen
                   /\ conf.fetch_last_day_only => box[m].age = 0

get_message_uids(f) ==
  /\ fetch[f].pc = "select"
  /\ Goes(f, [fetch[f] EXCEPT !.pc = "next", !.todo = {m \in DOMAIN box: get_criteria(m)}])
  /\ UNCHANGED <<conf, new, box, kept, purged, attached, risked, raced, faults>>

\* The folder cannot be connected to, created or opened: logged, and the
\* connection is left without closing the folder.
GeneralFailure(f) ==
  /\ fetch[f].pc = "select" \/ (fetch[f].pc = "next" /\ fetch[f].todo = {})
  /\ Fault
  /\ Goes(f, [fetch[f] EXCEPT !.pc = "commit", !.todo = {}])
  /\ UNCHANGED <<conf, new, box, kept, purged, attached, risked, raced>>

\* A savepoint begins, and RFC822 marks the message as read.  For a message that
\* another fetch expunged the answer is empty, which is an error about it.
fetch_msg(f, m) ==
  /\ fetch[f].pc = "next" /\ m \in fetch[f].todo
  /\ Goes(f, IF m \in DOMAIN box THEN [fetch[f] EXCEPT !.pc = "fetched", !.uid = {m}, !.todo = @ \ {m}]
             ELSE [fetch[f] EXCEPT !.todo = @ \ {m}])
  /\ box' = Mark({m}, [x \in Present(m) |-> [box[x] EXCEPT !.seen = @ \/ conf.seen = "on_fetch"]])
  /\ UNCHANGED <<conf, new, kept, purged, attached, risked, raced, faults>>

\* Mutant: messages are not looked up by their Message-Id.
check_message_already_present_Off(f, m) == FALSE

check_message_already_present(f, m) == m \in fetch[f].known \union fetch[f].done

\* EmailExact and EmailDomain: the domain counts when no address matches.
search_matches(m) ==
  IF conf.match_algorithm = "email_domain" /\ Matches[m].exact = 0
  THEN Matches[m].domain ELSE Matches[m].exact

find_match(m) ==
  \/ conf.match_algorithm = "odoo_standard"
  \/ search_matches(m) = 1
  \/ search_matches(m) > 1 /\ conf.match_first

apply_matching(f, m) ==
  /\ fetch[f].pc = "fetched" /\ m \in fetch[f].uid
  /\ LET matched == ~check_message_already_present(f, m) /\ find_match(m)
     IN  Goes(f, [fetch[f] EXCEPT !.pc = "attached", !.matched = matched,
                                  !.done = IF matched THEN @ \union {m} ELSE @])
  /\ UNCHANGED <<conf, new, box, kept, purged, attached, risked, raced, faults>>

\* Mutant: messages that match nothing are deleted too.
Updated_DeletesAll(f, m) ==
  [box[m] EXCEPT !.seen = @ \/ conf.seen = "all" \/ (fetch[f].matched /\ conf.seen = "matching"),
                 !.deleted = @ \/ conf.delete_matching,
                 !.flagged = @ \/ (~fetch[f].matched /\ conf.flag_nonmatching)]

Updated(f, m) ==
  [box[m] EXCEPT !.seen = @ \/ conf.seen = "all" \/ (fetch[f].matched /\ conf.seen = "matching"),
                 !.deleted = @ \/ (fetch[f].matched /\ conf.delete_matching),
                 !.flagged = @ \/ (~fetch[f].matched /\ conf.flag_nonmatching)]

NextMessage(f) == [fetch[f] EXCEPT !.pc = "next", !.uid = {}, !.matched = FALSE]

update_msg(f, m) ==
  /\ fetch[f].pc = "attached" /\ m \in fetch[f].uid
  /\ box' = Mark({m}, [x \in Present(m) |-> Updated(f, x)])
  /\ Goes(f, IF conf.archive_path /\ ~conf.delete_matching
             THEN [fetch[f] EXCEPT !.pc = "archive"] ELSE NextMessage(f))
  /\ UNCHANGED <<conf, new, kept, purged, attached, risked, raced, faults>>

Deleted(m) == Mark({m}, [x \in Present(m) |-> [box[x] EXCEPT !.deleted = TRUE]])

\* Copy, mark as deleted and expunge; whether the copy was made is not looked
\* at.  Messages that match nothing are archived too.
archive_msg(f, m) ==
  /\ fetch[f].pc = "archive" /\ m \in fetch[f].uid
  /\ \/ kept' = kept \union Present(m) /\ UNCHANGED <<faults, risked>>
     \/ Fault /\ risked' = risked \union {m} /\ UNCHANGED kept
  /\ box' = Expunged(Deleted(m))
  /\ Goes(f, NextMessage(f))
  /\ UNCHANGED <<conf, new, purged, attached, raced>>

RollbackToSavepoint(f, m) == fetch[f].done \ {m}

\* An error about one message: logged, and the next one is fetched.  In the
\* middle of an archiving the copy may have been made.
MessageError(f, m) ==
  /\ m \in fetch[f].uid
  /\ Fault
  /\ Goes(f, [NextMessage(f) EXCEPT !.done = RollbackToSavepoint(f, m)])
  /\ \/ UNCHANGED <<box, kept, risked>>
     \/ /\ fetch[f].pc = "archive" /\ kept' = kept \union Present(m)
        /\ UNCHANGED <<box, risked>>
     \/ /\ fetch[f].pc = "archive" /\ kept' = kept \union Present(m)
        /\ box' = Deleted(m)
        /\ risked' = risked \union {m}
     \/ /\ fetch[f].pc = "attached"
        /\ box' = Mark({m}, [x \in Present(m) |-> Updated(f, x)])
        /\ risked' = risked \union {m}
        /\ UNCHANGED kept
  /\ UNCHANGED <<conf, new, purged, attached, raced>>

\* The server does not give a message.
FetchFails(f, m) ==
  /\ fetch[f].pc = "next" /\ m \in fetch[f].todo
  /\ Fault
  /\ Goes(f, [fetch[f] EXCEPT !.todo = @ \ {m}])
  /\ UNCHANGED <<conf, new, box, kept, purged, attached, risked, raced>>

\* Closing the folder expunges it.
close(f) ==
  /\ fetch[f].pc = "next" /\ fetch[f].todo = {}
  /\ box' = Expunged(box)
  /\ Goes(f, [fetch[f] EXCEPT !.pc = "commit"])
  /\ UNCHANGED <<conf, new, kept, purged, attached, risked, raced, faults>>

Commit(f) ==
  /\ fetch[f].pc = "commit"
  /\ attached' = [m \in Message |-> attached[m] + IF m \in fetch[f].done THEN 1 ELSE 0]
  /\ raced' = IF \E g \in Fetcher \ {f}: fetch[g].pc # "idle"
              THEN raced \union fetch[f].done ELSE raced
  /\ Goes(f, Idle)
  /\ UNCHANGED <<conf, new, box, kept, purged, risked, faults>>

Crash(f) ==
  /\ fetch[f].pc # "idle"
  /\ Fault
  /\ Goes(f, Idle)
  /\ risked' = risked \union fetch[f].done
  /\ UNCHANGED <<conf, new, box, kept, purged, attached, raced>>

GoOn(f) == \/ get_message_uids(f) \/ close(f) \/ Commit(f)
           \/ \E m \in Message: fetch_msg(f, m) \/ apply_matching(f, m) \/ update_msg(f, m) \/ archive_msg(f, m)

Next == \/ \E m \in Message: Arrive(m) \/ GrowOld(m)
        \/ \E f \in Fetcher:
             \/ fetch_mail(f) \/ fetch_folder(f) \/ GoOn(f)
             \/ \E m \in Message: FetchFails(f, m) \/ MessageError(f, m)
             \/ GeneralFailure(f) \/ Crash(f)

\* The scheduled action runs again and again; a fetch of a user, once started,
\* goes on.
Step(f) == GoOn(f) \/ (f = Cron /\ fetch_mail(f))

Spec == Init /\ [][Next]_vars
FairSpec == Spec /\ \A f \in Fetcher: WF_vars(Step(f))

-----------------------------------------------------------------------------
\* A message that arrived is in the folder, in a folder it was moved to or
\* attached to a record, unless it grew too old.  What is done on the server no
\* rollback undoes (update_msg, _archive_msg): only the message itself for which
\* one of the three failures of risked happened can be lost.
NoMailLost ==
  \A m \in Message \ (new \union risked):
     \/ m \in DOMAIN box \union kept \union purged \/ attached[m] > 0
     \/ \E f \in Fetcher: m \in fetch[f].done

\* A message is attached once, however often it is fetched
\* (_check_message_already_present), and after errors and deaths too; unless a
\* fetch attached it while another was on, which does not see it.
AttachedOnce == \A m \in Message \ raced: attached[m] <= 1

\* A message that arrived and matches.
Attachable(m) == /\ m \notin new /\ find_match(m)
                 /\ ~conf.fetch_unseen_only /\ ~conf.fetch_last_day_only
Settled(m) == \/ attached[m] > 0 \/ m \in purged \union risked
              \/ m \in kept /\ conf.cleanup = "move"

\* A message that matches is attached at the end, in spite of other failures,
\* unless the clean-up takes it first.  With fetch_unseen_only this is not so, as
\* a message is marked as read before what attaches it is known to succeed; nor
\* with fetch_last_day_only, when the failures last until it is older.  Both sides
\* stay true, so that []<> says what ~> does.
MatchingIsAttached == \A m \in Message: []<>(Attachable(m) => Settled(m))
==============================================================================
