# A TLA+ verification of server-tools

`server-tools` is a repository of about sixty Odoo addons.  This directory holds
TLA+ models of the ones whose correctness depends on the order in which
transactions, processes, remote systems and users act, the TLC configurations
that check them on small instances, and TLAPS proofs of their main properties
for every instance.

Contents: [inventory](#1-inventory), [the models](#2-the-models),
[the runs](#3-the-runs), [the proofs](#4-the-proofs),
[disagreements](#5-where-the-code-and-its-words-disagree),
[what is left out](#6-what-is-left-out), [plan](#7-plan).

## 1. Inventory

All addons extend Odoo's ORM and so share an environment, which the models make
explicit wherever it matters:

- **Transactions.**  A request, a job and a scheduled action each run in a
  PostgreSQL transaction at the REPEATABLE READ level.  It reads a *snapshot*;
  locking or updating a row that another transaction changed after the snapshot
  fails with a serialization error.  Odoo's server then runs a request again, on
  a new snapshot, a few times.
- **Other cursors.**  Several addons open a second cursor and commit it
  independently of the first one.  Two cursors of one process can conflict
  like those of two processes.
- **Processes.**  Several workers serve the same database, each with a registry
  of its own in memory.
- **Outside systems.**  A remote file store, an IMAP server, a disk: no rollback
  undoes what was done there.

### Components with state, concurrency or failures

| component | state it keeps | operations | who interacts | what is hard | what makes it correct |
|---|---|---|---|---|---|
| `attachment_queue` | `attachment.queue` records: `pending`, `done`, `failed`; their jobs in `queue_job` | `create`, `run_as_job`, `button_manual_run`, `button_reschedule` and its wizard, `set_done`, status bar | job runners, users; a mail on failure | a late job, or a second one, races with a click; the state is read on an old snapshot; a failure must survive the rollback of what failed; retries | processed by one worker at a time, at most once per request, never partly; a pending record has a job; it is served |
| `attachment_synchronize` | remote folders, the records made from their files, tasks | import scheduler, button of a task, what follows an import (delete, move, rename); export | `attachment_queue`, the remote, partners who upload | remote changes are not transactional; scheduler and button import together; a task fails | a failure loses at most the file at hand, none is imported twice; avoided duplicates stay out; the scheduler goes on |
| `base_cron_exclusion` | pairs of scheduled actions | the lock around `_process_job` | Odoo's cron workers, users who trigger or edit a job | crossed NOWAIT locks, jobs that become active in between, failures with rows locked | exclusive jobs never overlap, every lock is given back, due jobs run |
| `auditlog` | rules in the database, patches of ORM methods in every process, the logs | `create`, `write`, `subscribe`, `unsubscribe`, `unlink`, `_register_hook`; the patched methods | the registry signalling of Odoo | patches change at once, rows at commit, the other processes later; failures | what a rule asks for is logged by every process |
| `base_exception` | exceptions found on a document, `ignore_exception`; rules | `detect_exceptions`, `action_ignore_exceptions`, the confirmation of the models that use it | users who edit and confirm the same documents | a second transaction commits on the rows the first one reads and will update, which is then rolled back | nothing invalid is confirmed, blocking exceptions are not ignored, what was found is kept |
| `module_auto_update` | saved checksums of module directories, module states | `upgrade_changed_checksum` | deployments, users in the Apps menu | commits between all steps: it may die, or partly fail, anywhere | no change is skipped, success is not announced too early, every change is applied |
| `auditlog`, what is logged | logs, lines, HTTP requests and sessions | the patched `create`, `read`, `write`, `unlink`, the clean-up | the ORM, web requests, cron | a rolled back transaction takes rows with it that caches still know | lines tell the values the records had and have; a log names a request that exists |
| `session_db` | sessions in a table, a connection per process | save, get, delete, rotate, vacuum, retry of a statement | concurrent requests of a session | a statement is tried again though it was done | a session reads as the operation that returned last left it |
| `auto_backup` | files on a disk or a server | back up, clean up, tell the chatter | cron | one configuration of several fails; death between two steps | what is told is true; complete backups are kept as long as asked |
| `fetchmail_attach_from_folder`, `mail_cleanup` | messages in IMAP folders | search, match, attach, flag, move, delete | IMAP server, cron, users who fetch a folder | the server is changed before the commit; nothing keeps two fetches apart | a message is attached before it disappears, once, and in the end |
| `tracking_manager`, `tracking_manager_domain` | changes collected during a transaction | prepare and finalize tracking of one2many fields, entries of properties | ORM | savepoints, a cache of what is tracked, removal from a list by indexes computed before | the chatter tells the net changes |
| `database_cleanup` | lines of wizards; tables, columns, models, modules, external ids | find, purge one line or all | upgrades, administrators | lines are old when they are purged; one purge deletes what another line names | nothing the deployed code uses goes |
| `database_size` | a measurement per model and day | measure, vacuum | cron, settings | tables, relations and contents shared by models | everything counts once; rows stay as long as the settings say |
| `upgrade_analysis` | records of what each module defines; lines of a comparison | generate, compare in passes, write files | a second database | greedy matching over several passes; renamed and merged modules | no change is left untold |
| `excel_import_export` | templates, actions, a sheet | compute instructions, export, import | users, spreadsheets | row shifts, ends of lists, actions that templates share | what is exported comes back |
| `base_url` | URL keys per record and language, redirections, the note that a name changed | make, reuse, redirect, edit, delete | users, ORM | keys that one record gave up are taken over by another; languages are refreshed one by one | an old key leads to its record; a main key tells the name or is marked |
| `base_multi_image` | the images of records of several models, in one table | read, replace and remove the main image, delete an owner, the hooks | ORM, installation | records of two models have one id; hooks insert rows without an order | the main image is the one written last |
| `base_time_window` | weekly windows | the constraints on create and write | ORM | a query that sees neither concurrent nor unsent writes | the windows of a record do not overlap |
| `autovacuum_message_attachment` | rules | search, delete in batches | cron, users | batches commit while the search stays on an old snapshot; errors | what a rule selects goes, and nothing else |
| `jsonifier` | exports and their lines, a cache of parsers | `get_json_parser`, `jsonify` | users, ORM | a cache whose key is made of dates; paths and languages merged into one tree | the JSON has the value of every line |

### Components that compute

`base_time_parameter`, `base_sequence_option` and `base_partition` look something up
or loop over records in one transaction, without state of their own.

### Components that are glue

The other addons are a hook, a decorator, a form, a SQL statement or assets.
`PROJECT.json` names each with the reason why a model would show nothing.

## 2. The models

Names of actions are the names of the methods they model, where there is one;
names in CamelCase are steps inside a method, or of the environment.  Each
definition's source lines are in the `map` of `PROJECT.json`; definitions of the
environment (PostgreSQL, `queue_job`, Odoo's cron and registry) are marked
external there and follow how the code in `src/` relies on them.  Definitions
with a `\* Mutant:` comment are faulty variants that no specification uses; they
show that each property can fail.

### ProcessingLog, AttachmentQueue

`ProcessingLog` is the promise of the queue: each request (a creation or a
reopening) is processed at most once, atomically, and only while the attachment
is open.  It has neither jobs nor transactions.

`AttachmentQueue` is the code.  Per attachment it has the committed `state`, the
history counters `effects` (committed effects of `_run`) and `requests`, and the
`rowLock`; `job` holds the `queue.job` rows.  `tx[w]` is the transaction of a
worker: the step it is at (`pc`), the state its snapshot shows, whether the row
was updated since (`stale`), and its uncommitted writes.  A job or a manual run goes through

    begin --LockNowait--> locked --RunBody--> ran --RunOk--> commit --CommitJob-->
        \-- Busy               \-- SkipDone     \-- RunFails, RunRetryable,
                                                    FailureMailRaises, ...

`LockNowait` and `Busy` are the two outcomes of `FOR UPDATE NOWAIT` (lines
104-119), `SkipDone` and `RunBody` the test of the state (120), `FailureWritten`
what follows the rollback of the savepoint (122-151), `CommitFailure` and
`RetryJob` the commit that precedes the re-raise (139) and what `queue_job`
makes of it.  `Crash` may happen at any step and leaves the job "started", from
where `RequeueDeadJob` takes it back.

The refinement mapping is `status <- state, processed <- effects`: commits map
to `Process`, `Fail`, `Reopen` or `Close`, all other steps to stutters.

### AttachmentImport

One process per scheduler or user session imports tasks one after the other
(`NextTask`), lists the folder (`get_files`), and for each file reads it and
creates the record (`CreateRecord`), changes the remote
(`manage_file_after_import`) and commits (`CommitFile`).  A *version* is one
upload, so that a new file under an old name is told from the old one.  `rows`
counts committed records per version.  `snap` holds the names the transaction of
the run can see: records are committed on cursors of their own, which that
snapshot does not show.  An error of the remote, or a file that another process
took away, leads to `raised`.  The remote may fail before it does what it is asked
(`RemoteError`) or after, so that its answer is lost (`AnswerLost`); in the second case,
and when a process dies before its commit, the record is rolled back and the remote
is not.  The ghost `interrupted` has the versions for which one of these happened.

### CronExclusion

`cr[w]` is a cron worker's round: the jobs that are ready, the job acquired (row
locked on `cron_cr`), the rows still to lock on `lock_cr`, and the rows updated
since its snapshot, on which the lock statement fails.  `FinishJob` (Odoo
reschedules and commits) and `CloseLocks` (the `finally` of the addon) are two
steps, because between them the job's own row is free while those it excludes
are still locked.

### AuditlogRule

`rules` are committed rows, `patched[w]` the registry of process `w`: per model
and method the patch, with the `log_type` it captured.  `sequence` and `seen`
are Odoo's registry signalling.  A request changes `patched` of its own process
at once (`patch_methods`, `revert_methods`), its row at `Commit`, and the
sequence at `SignalChanges`, if `_update_registry` was called.  A process that
sees the sequence moved loads `NewRegistry`.  `deploy` says which processes run
and whether forms that were opened before a subscription (`mayClear`) and
requests that fail (`mayFail`) are considered.

### ModuleAutoUpdate

A version number stands for the files of a module and for their checksum.
`disk`, `db` (the files the database was made by) and `saved` are compared by
the steps of `upgrade_changed_checksum`, each of which ends with a commit:
`MarkChanged`, `ensure_module_state`, `UpgradeModule` for each module,
`save_installed_checksums`, and `Complete` or `IncompleteUpgradeError`.
`Meanwhile` names what deployments and users do during a run.

### BaseException

A document has the set of rules that fail on its data, the recorded
`exception_ids`, `ignore_exception` and `confirmed`, which stands for whatever
the model that uses the mixin does after the check.  A request holds the
snapshot it works on and the documents that others, *or its own second cursor*,
updated since.  `detect_exceptions` is the transaction of the second cursor,
with the decision to raise; `CommitConfirm` fails (`ConfirmConflict`) on a stale
document and runs again.

### The components of `MCAddons`

The following components interact with no other, so each is a module and all of
them are parts of one run.  The variable `part` names one of them and never
changes; a behaviour is one of that component, and a property says "when it is
that component, then ...".

`Addons` composes sixteen of them, those about which there are theorems.  Variables
keep the names they have in the modules; where two modules have one of the same
name (`db`, `tx`, `faults` and others), it is one variable.  `Unused(p)` says that
what part `p` has no use for is `None`, `Only(p)` that it stays so.  Constants keep
their names as well, unless two modules mean different things by one: what
`AuditLog` calls `Value` is `Datum` here, the `Record`s of `BaseUrl` are `Named`,
and so on, each with a word in the module.  Bounds of one name are a function of
the part.  `MCAddons` extends it by three more parts (`noupdate`, `report`, `json`), of which
TLC alone can say something; `x1` to `x9` stand for their variables.

`AuditLog` follows the rows one web client causes: `tx` is the open transaction and
holds the records, logs, requests and sessions that are not committed, and
`Commit`, `Retry` (the server runs the web request again) and `autovacuum` publish,
drop or remove them.  `tx.pending` has the records created in the transaction whose
computed field the ORM has not flushed: the code reads records with an empty cache that
recomputes nothing (`ThrowAwayCache`), so it finds that field empty, in the log of the
creation too (`InDatabase`); `Flush` is whatever else makes the ORM write it.  The
values a line tells are compared with what the record had and has.

`FetchmailFolder` takes a fetch apart into the calls to the server: search, mark,
fetch, match, attach, mark again, archive, delete, commit.  `fetch[f]` is the fetch of
the scheduled action (`fetch_mail`, after the clean-up of `mail_cleanup`) or of a user
("Fetch mails" of the server, and "Fetch folder now", `fetch_folder`); they overlap in
any way, each with the snapshot `known` of what was attached when it began.  Each call may fail
before or after the server has done it, the server may refuse to hand out a
message (`FetchFails`), and the process may die.  `box`, `kept`
and `purged` are the folder, the archive, and what was expunged; `attached` is
what is committed.  Two ghosts: `risked` has the messages for which something
happened that the code cannot undo (a copy was refused, the answer of a mark was lost,
the process died before the commit), `raced` those that one fetch attached while another one was open.
`NoMailLost` excuses the first, `AttachedOnce` the second.

`UpgradeRecords` initialises modules one after the other and records what each
changed; `UpgradeAnalysis` compares old and new records, pass by pass, with the
removal of what a pass has matched; `UpgradeNoupdate` takes the records of data
files apart and writes what to load.  `ChangesBringUpToDate` loads these over the
old records and compares with the new.

`ExcelTemplate` is the life of templates: their lines, the instruction computed from
the lines and back, and the actions and menus they make.  `ExcelReport` fills a
sheet, field after field with the shifts of `insert_rows`, lets the user change
cells and add lines, and reads it back.  The file is an .xlsx one; of the head nothing
comes back (section 5).

`DatabaseCleanup` has what is deployed (`code`), what is in the database (`db`) and
the lines of the wizards (`lines`).  Deployments, other wizards and purges make
lines out of date.

`SessionStore` has one call per thread; `with_cursor` is the failure of a connection, before or after the
server did the statement, and the next try.  `mode` says whether threads share a
connection and a lock or processes have none.

`TrackingManager` is a transaction with savepoints: `write`, `create` and `unlink`
of lines note their changes in `pre`, the hooks tell them (`told`), and
`cache` is the configuration as the process last read it.  `TrackingValues` is
`_mail_track` on one record, for fields in every order.

`DatabaseBackup` runs through the configurations, the local ones first, with the
file each leaves (complete or not), the message, and the clean-up.
`DatabaseSize` measures a day and vacuums.

`BaseUrl` has the names of the records in each language (`name`), the note
`url_need_refresh`, and the rows of `url.url`.  `update_url_key` is the whole method
for one language: mark, redirect, reuse or add.  Two ghosts say for which key which
record was found by it, and which keys users edited by hand.

`AttachmentExport` is `attachment_queue` and the remote: the transactions are those
of `AttachmentQueue`, and between reading the state and the commit the file is
opened, written and finished on the remote, each with its failure.  The task's
button exports all pending records in one transaction.  `closed` is a ghost: the records that users
called done.

`TimeWindow` has in `tx` the transaction of each user: what it sees (`cache`), what
its queries find (`sent`), and the rows others wrote since it began (`changed`).
The ghost `excused` has the pairs that the constraint could not compare.

`BaseMultiImage` is the table of images shared by the models, with the column that
each owner had before (`single`); the ghost `shown` is the main image written last.

`Vacuum` is the scheduled action over its rules: `seen` and `passed` are the snapshot on
which they are searched, `todo` what is left to delete.  `stuck` are records that
cannot be deleted, `broken` rules whose search raises, which ends the run (`SearchFails`).

`Jsonifier` makes the parser of an export (`update_dict`, `LangParser`), keeps it in
`cache` under a key that has the dates of the lines and not the export, and folds it
over a record and its relations (`jsonify_record`).  The ghost `shared` has the dates
of transactions that wrote several lines.

## 3. The runs

`tlc -config <run>.cfg <module>`; `addons` takes about two and a half minutes (1.2 million states), every other run less than about one.

| run | module | checks | instance |
|---|---|---|---|
| `aq_core` | `MCAttachmentQueue` | `TypeOK`, `ProcessingIsExclusive`, `DecisionIsFresh`, `OncePerRequest`, `RefinesLog` | 2 attachments, 3 jobs, 2 runners, 1 user, every operation, 2 requests of users, 1 fault |
| `aq_live` | `MCAttachmentQueue` | `PendingHasJob`, `PendingIsServed`, `JobsEnd` | 1 attachment, 2 jobs, 2 runners, 1 user, 2 requests, 1 fault, 2 tries; no status bar, mails are sent |
| `imp_core` | `MCAttachmentImport` | `TypeOK`, `OnlyInterruptedLost`, `ImportedOnce`, `NoDuplicateName` | 2 processes on 2 tasks and 2 names, or 1 process, a task in any of 10 configurations, 2 versions; 3 runs, 1 fault |
| `imp_crash` | `MCAttachmentImport` | violates `NoFileLost` | 1 task, 1 file, 1 fault |
| `imp_scheduler` | `MCAttachmentImport` | violates `SchedulerContinues` | 2 tasks |
| `cron_core` | `MCCronExclusion` | `TypeOK`, `ExclusiveJobsApart`, `NothingLeftLocked`, `DueJobsRunAlone` | 3 jobs, 2 workers, 1 user, 3 due times, 2 acts of users or deaths |
| `audit_core` | `MCAuditlogRule` | `TypeOK`, `NothingMissed`, `InSync`, `RuleReachesWorkers` | 2 rules, 2 methods, 2 log types, 3 requests; 2 quiet processes, or 1 with failures and edits |
| `audit_flags` | `MCAuditlogRule` | violates `NothingMissed` | 1 rule, 2 processes, cleared flags |
| `exc_core` | `MCBaseException` | `TypeOK`, `ConfirmedOnlyIfValid`, `IgnoreRefusesBlocking`, `StoredBeforeRollback`, `RequestsEnd` | 2 documents, a plain and a blocking rule, 2 users, 3 requests or edits |
| `exc_blocking` | `MCBaseException` | violates `BlockingNeverConfirmed` | 1 document, 1 user |
| `mau_core` | `MCModuleAutoUpdate` | `TypeOK`, `SavedIsUpgraded`, `CompleteMeansUpgraded`, `ChangesAreUpgraded` | 3 modules in a chain, 2 faults, 5 deployments or acts of users |
| `addons` | `MCAddons` | `TypeOK`, `LogsAreTrue`, `RemoteIsSafe`, `RecordsCoexist`, `LastReturnedIsRead`, `NothingNeededGoes`, `AnalysisTellsChanges`, `ChatterTellsChanges` of `Addons`; `OthersTypeOK`, `OutputTellsInput`, `DueIsDone` | 19 parts, see below |

What the properties of `addons` mean for the parts:

| property | parts | says |
|---|---|---|
| `LogsAreTrue` | `audit` | the lines of a log tell the values before and after, but for a computed field that was not stored yet; a log names an HTTP request that exists, and this a session, also after a rollback and the clean-up |
| `RemoteIsSafe` | `mail`, `remote` | no message disappears without having been attached or kept, except for what `risked` names, and none is attached twice, except by fetches that overlap; a record that is done has its whole file on the remote |
| `DueIsDone` | `mail`, `vacuum` | a message that matches is attached in the end; what a rule of the vacuum selects does not stay, unless it selects what cannot be deleted or a search raises |
| `RecordsCoexist` | `urls`, `windows`, `images` | an old key leads to its record and a main key tells the name or is marked; the windows of a record do not overlap; the main image is the one written last |
| `AnalysisTellsChanges` | `records`, `analysis` | records tell what the modules define; no two records that match are left; every line of a comparison about a module that a record names is written somewhere |
| `OutputTellsInput` | `templates`, `report`, `json`, `size`, `noupdate` | loading the noupdate changes over the old records gives the new ones; on a day every table, relation and index, and every content that belongs to a measured model, counts once, up to rounding to megabytes; the input of a template is what its lines say, and comes back from them; an export overwrites nothing; the import leaves the lines the file shows; JSON has the value of every line of its export |
| `LastReturnedIsRead` | `store` | with threads, a session is read as what returned last left it |
| `NothingNeededGoes` | `cleanup`, `backup`, `templates`, `vacuum`, `size` | a purge takes nothing the deployed code uses; a folder keeps a complete backup; a backup told as successful is complete and stays for the days to keep; an action of several templates stays when one gives it up; the vacuum deletes only what is old enough; a measurement stays as long as the limits of the code say (not in every case those of its help, section 5) |
| `ChatterTellsChanges` | `manager`, `chatter` | the messages tell the net changes of lines and of fields |

**Why the bounds are enough to be interesting.**  Two actors are needed for
every race and two suffice for a first overlap; a third job lets a second
request of an attachment overlap with the job of the first one and with another
attachment's.  Two tries make both outcomes of a retry happen.  One fault after
any step is the question a crash asks; `mau_core` needs two, to die again while
it recovers.  Three scheduled actions with exclusions entered from both sides
give a worker two rows to lock, and so a failure after the first.  In `addons` two
threads, messages, templates or modules and two values of each kind meet; two
messages are for the scheduled fetch alone, in six configurations, and one for it and a
user who fetch at once, in four: fetches get in each other's way about one message; two
faults let a failure be followed by one of its repair; the inputs of the comparing
parts are all pairs of a few records that stay, change, move to another module and disappear.  Three
requests let a rule be created, subscribed and changed.  `CHECK_DEADLOCK FALSE`
is set because every model stops when its bounds are used up and nobody asks for
anything.

**Bounds.**  `MaxAsks` (what users, deployments, restarts start), `MaxFaults`,
`MaxRetries` (the real `max_retries`), `MaxRuns`, `MaxUploads`, `MaxDue`, and in `addons` `MaxOps`,
`MaxCalls`, `MaxSteps`, `MaxTime`, `MaxDay`, `MaxLines`, and the `messages` and
`fetchers` of a configuration of `FetchmailFolder`: each
is a guard, and each is a constant about which the proofs assume at most that it is
a natural number (`MaxRetries`: positive).

**Symmetry** is used by `aq_core` only, for attachments, jobs and runners, which
no definition tells apart.  That run checks invariants and `RefinesLog`, a safety
property whose mapping is symmetric; no liveness is checked under symmetry.

**Fairness.**

- `aq_live`: every transaction that can take a step takes one (a process is
  alive or dead, and death is a step of its own), the job runner starts pending
  jobs and takes back those of dead workers, which is its purpose.  Nothing
  makes users act or the system fail.  A lock conflict postpones a job without
  counting the try: it ends because the bounded number of users and faults can
  only keep the row for so long.
- `cron_core`: `DueJobsRunAlone` is about one worker, the other staying idle.  It
  goes on with its round and starts another when something is due; a user's manual run ends.  One worker only: with two the
  property is false in principle, since two workers can make each other's locks
  fail again and again.  Nothing in the code prevents that; only different
  timing does.
- `audit_core`: requests end, and every running process serves some request
  after the sequence moved.  The second is the only moment it looks.
- `exc_core`: requests take their steps.  That the server runs a conflicting
  request again is a choice between that and giving up, so the property does not
  rest on giving up.  In particular a request whose own second cursor made its
  documents stale ends, because the second run finds nothing to write.
- `addons`: the scheduled fetch and the vacuum run again and again, and a fetch that a
  user started goes on (`WF` of their steps).  A run of the vacuum that ends in an
  error is followed by another: Odoo may deactivate an action that keeps failing, and what
  a broken rule keeps from being deleted is left out of the property anyway.  The other parts have no fairness and no liveness.
- `mau_core`: `upgrade_changed_checksum` is called again after it died or
  failed, as a deployment script does.

## 4. The proofs

`tlapm <module>` checks each; they hold for any sets of attachments, jobs,
workers, rules, modules, documents and any bounds, under the named assumptions
of the modules and those below.  Each proof has the same shape: an inductive
invariant that TLC was used to debug, one lemma or step per action, one temporal
step.

| theorem | says | assumes |
|---|---|---|
| `LogOncePerRequest` | `[]OncePerRequest` of `ProcessingLog` | |
| `TypeCorrect`, `ExclusiveProcessing`, `FreshDecision` | `TypeOK`, `ProcessingIsExclusive`, `DecisionIsFresh` | |
| `Refinement`, `OncePerRequestThm` | `AttachmentQueue` implements `ProcessingLog`; effects at most once per request | |
| `NoLostPending` | `PendingHasJob` | `MailMayRaise = FALSE`, no status bar |
| `ImportTypeCorrect` | `TypeOK` | |
| `NothingElseLost` | `OnlyInterruptedLost` | `OneReader` (several processes only import files of one version) |
| `RemovedImportedOnce` | `ImportedOnce` | `OneReader` |
| `NameImportedOnce` | `NoDuplicateName` | `OneImport`: where duplicates are avoided, one process imports for one task |
| `CronTypeCorrect`, `CronMutualExclusion`, `CronLocksReleased` | `TypeOK`, `ExclusiveJobsApart`, `NothingLeftLocked` | `NoAutoExclusion`, enforced by `_check_auto_exclusion` |
| `AuditTypeCorrect` | `TypeOK` | |
| `ProcessesAgree`, `EverythingIsLogged` | `InSync`, `NothingMissed` | no failing request and no edit that takes something from a subscribed rule |
| `UpdateTypeCorrect`, `NoChangeIsSkipped`, `CompleteIsTrue` | `TypeOK`, `SavedIsUpgraded`, `CompleteMeansUpgraded` | nothing deployed, no mark cancelled during a run |
| `ExceptionTypeCorrect`, `ConfirmationIsValid`, `BlockingIsNotIgnored`, `FindingsAreStored` | `TypeOK`, `ConfirmedOnlyIfValid`, `IgnoreRefusesBlocking`, `StoredBeforeRollback` | |
| `AddonsTypeCorrect` | `TypeOK` of `Addons` | `AddonsParameters`, as for all that follow |
| `LogsTellTruth` | `LogsAreTrue` | |
| `RemoteStaysSafe` | `RemoteIsSafe` | |
| `RecordsStayApart` | `RecordsCoexist` | |
| `SessionsReadBack` | `LastReturnedIsRead` | |
| `ChatterIsComplete` | `ChatterTellsChanges` | |
| `AnalysisIsComplete` | `AnalysisTellsChanges` | in it `NamesAreFinal`, see section 5 |
| `NeededStays` | `NothingNeededGoes` | in it `NamesakesGoTogether` and `BlacklistedKeepFields`, see section 5 |

`AddonsParameters` (in `Addons`) is the conjunction of what each module assumes about
its constants; TLC evaluates it in the run `addons`.  It says what Odoo or the form of
the data gives: bounds are natural numbers, `None` is no value, finitely many owners of
images, a largest sequence among those entered (`ImageParameters`; the code puts
others behind it), records numbered in the order they were made (`VacuumParameters`),
rules as wizards can enter them, a purge of models in codes whose dependencies are
closed (`DatabaseCleanupParameters`: what a deployed module depends on is deployed, and
a model comes with the module that defines it), databases as lists of records
(`UpgradeAnalysisParameters`), finitely many lines and fields (`TrackingParameters`,
`TrackingValuesParameters`), properties of modules numbered in the order of loading
(`UpgradeRecordsParameters`).  That a day, a bound or a lifetime is
positive is stated where zero means "no limit" or "never" to the code.

**Why the invariants have to be stronger.**

- *AttachmentQueue* (`Ind`).  Exclusion follows from `LockHeld`: `rowLock` says
  exactly who is between locking a row and ending.  That the decision is fresh
  needs `SnapCurrent`: a snapshot that is not stale shows the committed state, and
  who holds a row is not stale.  The same fact makes the refinement go through: a
  commit maps to `Process` only if the *committed* state is still open.  `Shape`
  says what a transaction may have written at each step, `JobOwned` that no two
  workers have one job.  `PendingHasJob` is proved from `Ind` step by step: the
  only steps that take a job away from a record also close or fail the record.
- *AttachmentImport* (`IInv`, `Once`).  `ReadCurrent`: the file a process is about
  to remove is the version it read, or another process removed it.  So removing
  a version puts it in the hands of who read it, until that commits or is interrupted
  (`OnlyInterruptedLost`).  `Once`: where
  importing removes the file, a version is in its folder, with one process, or in
  one record.  `AllFresh`: what a process has still to import has no record yet, or was
  imported by it; with one process this lets `NoDuplicateName` hold although
  `snap` is older than the records.
- *CronExclusion* (`CronInd`).  `Pairing` is the argument for the crossed locks:
  of two workers whose jobs exclude each other, one still has the other's job
  among the rows it wants, and `OwnRow` says that this row is locked.  It is kept
  because a job that was acquired stays active (`OwnRow`), so the later snapshot
  shows it.  `Held` says which rows a worker or a user can hold at each step.
- *AuditlogRule* (`IInv`).  The registry of a process is ahead of the row by
  exactly the request it serves (`WritersAhead`), requests about one rule do not
  overlap (`OneRequestPerRule`), and a process whose patches of a rule differ from
  the row writes that rule, has not seen the sequence, or is about to be told by
  another process (`Explained`).
- *ModuleAutoUpdate* (`IInv`).  Every module that is "installed" during a run was
  made by the files on disk (`RunLeavesUpgraded`), so what is saved at its end is
  true.  At the start of a run that rests on `SavedIsTrue`: an unchanged checksum
  tells that the database is right, for modules that are marked too, since their
  mark can be cancelled between runs.  `SavedIsOld` keeps a new deployment from
  matching an old checksum.
- *BaseException* (`IInv`).  A document that is not stale reads the same in the
  snapshot and in the database (`SnapshotCurrent`), and a request that reached
  `confirm` found nothing on its documents (`ConfirmableFound`).

The theorems about `Addons` rest on one invariant, `AddonsInd`: for each part, the
invariant of its module, in `AddonsRecords_proofs` (the parts that are about records,
from `StoreInd` on) and `Addons_proofs` (those whose steps span transactions, servers
or files).  `StepOfPart` says that a step is one of the part or changes nothing of it.
`AddonsTyped` adds the types that `AddonsInd` does not imply (`AuditTypes`, `MailTypes`,
`ImageTypes`, `StoreTypes`, `BackupTypes`: every step keeps them).

- *SessionStore* (`StoreInd`).  With threads, who is between the two ends of a call holds
  the lock (`LockOwned`), so nobody else changes the rows (`OnlyOwnerChanges`), and
  what it will return is what it left there, however often the statement was tried.
- *AuditLog* (`AuditInd`).  What a log tells is about neighbours in time, and the code
  finds them by their ids: ids order logs in time (`RowsOK`), and no log is later
  than the row of its request, so that the clean-up, which goes by time, never takes
  a request before its logs (`HaveRequests`).  Both hold of the database and of the
  open transaction separately, and the remembered request is one that the transaction
  itself made (so that a rollback takes only what nothing else names).  Of a record
  whose computed field is not in the database yet, no full log tells a value of that
  field (`PendingOK`), so that the next one may begin with the empty one.
- *AttachmentExport* (`RemoteInd`).  That a record is done follows, before the commit, from a
  whole file already being there (`TransferTrue`); no other worker overwrites it,
  because who transfers has the record locked, and a record that is done is in the
  snapshot of whoever locks it.  Where files have one name, the last record to write
  it leaves a file that is whole for itself.
- *FetchmailFolder* (`MailInd`).  A message that left the folder, *or is marked as
  deleted and will leave it at any later expunge, by whichever fetch*, is `Safe`: attached,
  copied, finished in an open fetch, or excused (`MailLocated`).  The message a fetch
  is at may still be rolled back and so does not count as finished.  What is attached is
  known to every fetch that is open, unless it is in `raced` (`MailCounted`).
- *BaseUrl* (`UrlInd`).  Keys are unique in a language, redirections included, so that a
  key that one record gives up can only go to one other.
- *TimeWindow* (`WindowInd`).  A transaction sees the committed rows but those in
  `changed` (`SeesCommitted`), and no two rows that it wrote overlap unless they are
  excused (`OwnRowsApart`); pairs of two transactions are excused at the commit.  Two
  windows that the constraint lets pass have no instant in common (`ApartMeansApart`).
- *BaseMultiImage* (`ImageInd`).  `Shows`: the first image by sequence and id is the
  one `shown`.  Images of a record change one at a time, and a table with finitely many
  rows gives a new id that is larger than all others.
- *DatabaseBackup* (`BackupInd`).  A message of success in the chatter tells of a file
  that is there and whole, or of a day past the days to keep (`Tells`).  In the
  run it is about the file of today (`WholeToday`), which a clean-up cannot take,
  and the folders still to do have no file of today.
- *DatabaseCleanup* (`CleanupInd`).  `Consistent`: a model of the deployed code that
  is not in `ir.model` has lost its table and records as well, and rows of fields the
  code has are as the code has them; only thus can the purge of one kind
  (modules, which take models along; fields, which take columns) not reach what the code
  uses of another.  Every line
  of a wizard names something useless (`Useless`), unless a deployment or another purge came after it
  was found (`stale`): that a purge keeps what the code uses follows for lines that are not.
- *Vacuum* (`VacuumInd`).  What a run has still to delete was old enough on the day of its
  search and stays so.  *DatabaseSize* (`SizeInd`): a measurement is of a day that has
  come.  *ExcelTemplate* (`TemplateInd`): an operation changes one template.
- *TrackingManager* (`ManagerInd`).  The first values kept of a line are those it had when
  the hooks last ran, and a line without them is as it was then (`LinesKnown`), however
  often it was written; the messages gathered so far are those of the lines made and
  removed since, each once (`DataTells`).  Outside a transaction nothing is gathered.  So what
  a run tells is the net change, and a rollback needs no more than dropping it all.
- *TrackingValues* (`ChatterInd`).  `_mail_track` is one step, and the proof follows its
  lists: popping the index of one placeholder leaves the entries of the plain
  fields in any order they came in (`PlainPopped`), those of the properties are others
  (`AppendedApart`), and the filter takes the hidden ones alone (`FilterTells`).  It is by
  `Cardinality(properties) <= 1` that the indexes stay right.
- *UpgradeRecords* (`RecordsInd`).  While modules are loaded, `Generating`: the last
  record of a property tells its value in memory (`LastTells`, `MemoryTold`), records
  are of modules already loaded, which come before those to load (`InOrder`), and only the
  first one of a field creates it (`CreatedFirst`).
- *UpgradeAnalysis* (`ComparisonInd`).  A pass takes both records of a match out, so that
  nothing it has gone over matches under its keys (`PassedOver`), and later passes only
  remove; matches in the pass that goes on are of records still to do.  Every line
  is a general one or names a module under its last name (`ReportLine`), so that the
  writing of files, which passes over old names, drops none about a module that is listed (`Keys`).

**Only model-checked.**

- Liveness (`PendingIsServed`, `JobsEnd`, `DueJobsRunAlone`, `RuleReachesWorkers`,
  `ChangesAreUpgraded`, `RequestsEnd`, `DueIsDone`): the prover does not handle fairness
  and `ENABLED`.
- `OutputTellsInput`: it is about what folds and recursive definitions compute for any
  input, which needs induction over data.  `Jsonifier` declares RECURSIVE operators, with which no theorem can be stated.
- `OthersTypeOK`: the types of the parts that are not in `Addons`, of the sums of
  sizes (folds), and of the templates, whose records the proof cannot tell from
  `None` since their instructions come from no set.

`TrackingManager`, `TrackingValues`, `DatabaseSize` and `ExcelTemplate` define for
themselves what they need of lists and orders instead of extending `SequencesExt`:
every obligation about `Addons` carries the definitions of all instances, and with
that module in each the proofs take twice the time.

## 5. Where the code and its words disagree

Runs that TLC finds violated; the code is cited in `PROJECT.json`, "findings".

- `imp_crash`: `run_import` commits after each file in order not to lose it, but
  `_manage_file_after_import` runs before that commit.  A call of the remote that
  raises after it was carried out, or a process that dies in between, loses a file that
  is deleted, or leaves a moved one without a record.
  `imp_core` shows that only the file at hand is lost, and by nothing else.
- `imp_scheduler`: the handler that should let the scheduler continue calls
  `_logger.warning` with keywords it does not take.  The error leaves the loop.
- `audit_flags`: a flag that is cleared on a subscribed rule leaves the patch,
  so setting it again notifies nobody, and a process that loaded its registry in
  between never logs.
- `exc_blocking`: documents with `ignore_exception` are left out before the
  rules are evaluated, blocking ones included, although these "can not be
  ignored".

Observed while modelling, and kept as options of the models or as notes of the
hazards rather than as runs:

- A failure mail that raises (`MailMayRaise`) or a click on "Pending" in the
  status bar leaves an attachment pending with no job; `PendingHasJob` holds
  without the two.
- `avoid_duplicated_files` compares with the snapshot of the run: two tasks, or
  two processes, import the same name; so `NoDuplicateName` is checked with one
  process and one task.
- Two processes may read the same upload while a partner replaces the file; the
  second removes an upload nobody read.  `imp_core` lets one version of a file
  exist when two processes import.
- `method_direct_trigger` does not go through `_process_job`: a job that users
  trigger is excluded by its own row only.
- `upgrade_changed_checksum` saves the checksum of the files found *after* the
  upgrade; files deployed meanwhile are never upgraded (`"deploy"` in
  `Meanwhile` violates `SavedIsUpgraded`, and so does `"cancel"`).

Observed in the components of `MCAddons`, where the models follow the code and
the properties say how far it can be relied on:

- *tracking_manager.*  A line that moves to another owner is told to the new one
  only (`models.py:52`).  `_mail_track` removes entries by ascending index, so
  with two changed properties fields it removes the wrong ones or fails
  (`models.py:192`).  `tracking_manager_domain` zips the changes strictly with
  the entries: with a domain and a changed properties field it raises
  (`models.py:90`).  `IrModel.write` clears the cache before the row is written,
  so that the old configuration can be read back into it (`ir_model.py:161`).
- *auto_backup.*  The second local configuration of a run copies the first file,
  which is opened in text mode, and so always fails (`db_backup.py:157`).
  `cleanup_log` names a message subtype that does not exist (`db_backup.py:256`):
  a failing clean-up takes the messages of the run with it.  Configurations that
  share a directory clean up each other's files; a change of format leaves the
  files of the other one.
- *auditlog.*  The full log of a creation has a stored computed field that was not
  flushed yet as empty, since it is read with a `ThrowAwayCache`, which has nothing to
  recompute (`rule.py:73`, `rule.py:350`); the comment there (`rule.py:340`) speaks of values
  that exist in the cache only.  `LogTellsValues` lets exactly these lines differ.
- *database_size.*  The addon says that the same content may count for several
  models (`readme/USAGE.md:18`, the help at `ir_model_size.py:76`); the code counts it for
  the model of its oldest attachment only, as its comment says (`ir_model_size.py:247`), and
  `EverythingCountsOnce` states that.  With 0 days for daily measurements, which the
  help says keeps them forever (`res_config_settings.py:16`), and a monthly limit, the
  purge removes every measurement beyond the monthly limit (`ir_model_size.py:290`):
  `KeptForRetention` names this case `LimitedByMonth`.  Setting the days to "0 = kept forever"
  (`res_config_settings.py:16`) deletes the parameter, and the default of 366
  applies.  A relation of a model without a table raises (`ir_model_size.py:207`).
- *fetchmail_attach_from_folder.*  A message that is attached already counts as
  one that does not match: it is flagged, and archived.  With `fetch_unseen_only`
  a message is marked as read before it is attached, so that it is not fetched
  again after a failure; with `fetch_last_day_only` one that fails for a day is never
  looked at again (line 208).  The result of a copy is not looked at before the
  original is deleted.  Nothing locks a folder: the scheduled fetch and a user's button
  (`views/fetchmail_server.xml:49`), or two users, each look a message up in
  their own snapshot (`_check_message_already_present`, line 375) and attach it twice.  One may delete what
  the other is about to fetch, which is then an error about that message.
- *session_db.*  A request that saves its session after another one deleted it
  creates it again (`pg_session_store.py:110`).  Between worker processes no lock
  is held: a statement that is tried again can undo what another process did in between.
- *upgrade_analysis.*  A module that is a new name of one and an old name of another
  is looked up under the one name and listed under the other: it passes the first check, and
  its lines are then in neither the log nor a file (`upgrade_analysis.py:242`).  `NamesAreFinal`
  assumes that there is none.  Only modules that some record names are written about
  (`upgrade_analysis.py:181`): a line about the new name of a module that has no record
  itself is dropped, so `ChangesAreTold` is about the modules in `Keys`.
  `match_updates` removes what the pass for moved records
  would find, except with renamed models.  In a noupdate file, a new template of
  another module raises and ends the generation.
- *excel_import_export.*  `_CONT_` after a field without lines begins in row 1,
  over the headings (`xlsx_export.py:217`); an `_EXTEND_` further right shifts
  the lines of a field beside it; lines with only zeros end an import early.
  Cells of a row field with the same text share one list of values, so that each line is
  in the file once per such cell (`xlsx_export.py:116`), and is imported as often.
  From an .xlsx file no field of the head is imported: `_process_worksheet` takes the value of
  the cell (`xlsx_import.py:212`), `_get_cell_value` asks that for its value again, and the
  error is caught, which leaves False (line 217).
  `NothingOverwritten` is therefore about templates with room for their lines
  (`Roomy`), `ImportReadsLines` about imports that mirror an export (`Mirrored`).
  `remove_export_action` searches by the model the template has *now*
  (`xlsx_template.py:478`), and may remove an action of templates of that model:
  `LeavesSharedAction` assumes that templates keep the model of their action.
- *base_url.*  Refreshing a language whose URL is manual clears the note of the record
  (`abstract_url.py:171`) without marking the other languages (line 159), against the
  comment there: their keys stay old.  `_reuse_url` keeps a manual redirection manual,
  so that it is never refreshed.
- *attachment_synchronize, export.*  Records whose files have one name overwrite each
  other on the remote.  `run_export` stops at the first locked record and rolls back
  the states of records whose files are already there.
- *base_time_window.*  The constraint does not flush before its query, so windows
  that are changed together, for example by one write of the same hours, may overlap,
  and so may windows of concurrent transactions.  The override that the README asks
  for, `@api.constrains("partner_id")`, replaces the watched fields of the mixin (Odoo
  takes those of the override): a write of hours alone is not checked.  The README
  names `_overlap_check_field`, the code `_time_window_overlap_check_field`
  (`time_window_mixin.py:20`).
- *base_multi_image.*  `save_directly_to_table` leaves `%%(id)s` in its statement
  (`hooks.py:111`), which PostgreSQL refuses: uninstalling fails when images go back to a
  column.  Rows that the hook inserts have no sequence, and come after images added later.
- *jsonifier.*  The key of the cache of parsers does not name the export
  (`ir_exports.py:91`): two exports with equally many lines that one transaction wrote,
  as the installation of a module does, share a parser.  A relation in lines of two languages
  shows those of the last one only (`models.py:165`), where the README of the addon
  shows both merged.
- *autovacuum_message_attachment.*  A record that cannot be deleted keeps its batch,
  up to 999 others, and all later ones for ever; what was deleted of the batch
  before the error is committed, because the error is caught inside the block of
  the cursor (`autovacuum_mixin.py:31`).  What an earlier rule of the run
  deleted is found again and may end the later rule until the next run.  The search of a rule is
  in no `try` (`autovacuum_mixin.py:39`): a filter that cannot be evaluated (line 52) ends every run,
  and no later rule ever deletes anything.
- *base_time_parameter.*  A parameter whose value is 0 or False counts as missing
  (`base_time_parameter.py:72`), and the error is formatted with a tuple for named
  placeholders (line 82).
- *database_cleanup.*  `purge_fields` looks at the model of a field, not at the
  others that share its table (`purge_fields.py:113`): see `NamesakesGoTogether`.  Nor
  does it look at the blacklist that protects columns (`purge_columns.py`), so that it
  drops those of fields the code no longer has: `BlacklistedKeepFields` assumes
  that there are none.
  The lines of a wizard are not looked up again when they are purged, so
  `KeepsUsed` excludes lines that a later deployment made wrong.

## 6. What is left out

- Of the modelled addons: duplicating a task of `attachment_synchronize`; editing rules
  and their cache in `base_exception`, and the three ways of evaluating a rule
  (a rule fails on a document or not); the directory hash and the wizard of
  `module_auto_update`; the wizards that attach a mail by hand and that install
  modules; the conversions of values and the CSV files of `excel_import_export`;
  the format of the lines `upgrade_analysis` writes; resolvers, functions and the
  strict mode of `jsonifier`; the storages of `base_multi_image` and its way back to a
  field at uninstallation; dates of weekdays in `base_time_window`.
- Rendering of templates, file contents, mails, access rights and translations:
  no property depends on them, except that a template that cannot be rendered
  keeps the file (`manage_file_after_import`) and that sending a mail may raise.
- A process that dies between the commit of a rule and its signal
  (`AuditlogRule!Restart` excludes it): that window is Odoo's, whose
  `signal_changes` follows the commit.
- The wait of `detect_exceptions` for a row its own request has locked: PostgreSQL
  sees one of the two transactions waiting only, so the process hangs.  It needs a
  flush of the document before the check, which depends on the caller.
- `base_time_parameter`, `base_sequence_option`, `base_partition`: lookups and loops
  without state, which unit tests cover.  `attachment_queue_email` maps a message to
  records whose creation `AttachmentQueue` models; `scheduler_error_mailer` sends one
  mail between two steps of Odoo's scheduler.  For the others see `PROJECT.json`.

## 7. Plan

1. Editing and archiving rules in `BaseException`, with the cache of rules.
2. The wizards that attach a mail by hand and that install modules for
   `upgrade_analysis`.
