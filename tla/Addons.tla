-------------------------------- MODULE Addons --------------------------------
(***************************************************************************)
(* Components that interact with no other, in one specification: part says *)
(* which of them a behaviour is about.  Variables keep the names they have *)
(* in the modules of the components, and those of the same name are one    *)
(* variable; what a part does not use stays None.                          *)
(***************************************************************************)
EXTENDS Naturals

CONSTANTS
  None,
  MaxSteps, MaxFaults, MaxDay,   \* bounds, by part
  \* auditlog: Logged are the records of the model it logs, Secret the fields it masks
  Logged, Input, Main, Computed, Secret, Datum, False, LogType, Capture,
  \* fetchmail_attach_from_folder and mail_cleanup: Letters are the messages of the
  \* folder, Cron among the Fetcher is its scheduled action
  Letters, Fetcher, Cron, Matches, Config,
  \* the exports of attachment_synchronize
  Attachment, Worker, FileName, MaxAsks,
  \* base_url: Named are the records with a name and urls
  Named, Context, Name, Slug, Custom,
  \* base_time_window: Scheduled are the records that own windows
  Id, Scheduled, User, Hours, Watch, EndOfDay,
  \* base_multi_image: WithImages are the models that inherit the mixin
  WithImages, OwnerId, Picture, DefaultSequence, Sequence,
  \* session_db
  Thread, Sid, Payload, MaxCalls,
  \* autovacuum_message_attachment: Target are the messages or attachments
  Target, Born, Rules, CanBeStuck, CanBeBroken, BatchSize,
  \* auto_backup: Disks are the backups kept on the server's own disk
  Backup, Disks, Format, days_to_keep, MaxTime,
  \* database_cleanup: Addon names the module that declares an element
  Code, Addon, Depends, Blacklist, KnownTables, Foreign,
  \* the templates of excel_import_export: Instructions are what their text may hold
  Template, Model, Instructions, Default,
  \* database_size: Gauged are the models it measures, StoredIn gives their tables
  Gauged, StoredIn, Relations, Indexes, Contents, World, Settings, Unit, Month,
  \* tracking_manager: Master are the owners of the lines Detail; DetailConfig are
  \* configurations; PlainField and PropertiesField are fields by type
  Master, Detail, DetailField, inverse_name, Trackable, Details, DetailValue, DetailConfig,
  PlainField, PropertiesField, PropertyName, PropertyValue, Domains,
  \* upgrade_analysis: Loadable is the number of modules, Definition what one may set
  Loadable, ModelField, Attr, AttrValue, NoAttr, Definition, XmlId,
  Comparable, renamed_modules, merged_modules, renamed_models, merged_models,
  IgnoreField, IgnoreModule, Installed, WriteFiles, NotWritable

VARIABLES
  part,
  db, tx, conf, count, windows, rows, edited, steps, day, run, faults,    \* of several parts
  rule, http, ops,                                                        \* audit
  new, box, kept, purged, attached, fetch, risked, raced,                 \* mail
  state, job, remote, closed,                                             \* remote
  name, url_need_refresh, urls, found,                                    \* urls
  watched, excused,                                                       \* windows
  installed, live, single, shown,                                         \* images
  mode, old, call, owner, last,                                           \* store
  passes, stuck, broken,                                                  \* vacuum
  now, files, posted, told,                                               \* backup
  code, lines, stale,                                                     \* cleanup
  tpl, results,                                                           \* templates
  world, sizes, taken,                                                    \* size
  cache, pre, since,                                                      \* manager
  tracked, initial, domains, result,                                      \* chatter
  defs, imd, record, upg, phase, covered,                                 \* records
  input, write_files, pass, todo                                          \* analysis

vars ==
  <<part, db, tx, conf, count, windows, rows, edited, steps, day, run, faults, rule, http, ops,
    new, box, kept, purged, attached, fetch, risked, raced, state, job, remote, closed,
    name, url_need_refresh, urls, found, watched, excused, installed, live, single, shown,
    mode, old, call, owner, last, passes, stuck, broken, now, files, posted, told, code, lines, stale,
    tpl, results, world, sizes, taken, cache, pre, since, tracked, initial, domains, result,
    defs, imd, record, upg, phase, covered, input, write_files, pass, todo>>

Audit == INSTANCE AuditLog WITH Record <- Logged, Hidden <- Secret, Value <- Datum,
                          NoRecord <- None, MaxOps <- MaxSteps["audit"]
Mail == INSTANCE FetchmailFolder WITH Message <- Letters, MaxFaults <- MaxFaults["mail"]
Remote == INSTANCE AttachmentExport WITH MaxFaults <- MaxFaults["remote"]
Urls == INSTANCE BaseUrl WITH Record <- Named, MaxSteps <- MaxSteps["urls"]
Windows == INSTANCE TimeWindow WITH Owner <- Scheduled, MaxSteps <- MaxSteps["windows"]
Images == INSTANCE BaseMultiImage WITH Models <- WithImages, MaxSteps <- MaxSteps["images"]
Store == INSTANCE SessionStore WITH MaxFaults <- MaxFaults["store"]
Cleaner == INSTANCE Vacuum WITH Record <- Target, MaxDay <- MaxDay["vacuum"], MaxFaults <- MaxFaults["vacuum"]
Dump == INSTANCE DatabaseBackup WITH Local <- Disks, MaxFaults <- MaxFaults["backup"]
Cleanup == INSTANCE DatabaseCleanup WITH Owner <- Addon, MaxSteps <- MaxSteps["cleanup"]
Templates == INSTANCE ExcelTemplate WITH Input <- Instructions, MaxSteps <- MaxSteps["templates"]
Size == INSTANCE DatabaseSize WITH Models <- Gauged, TableOf <- StoredIn, MaxDay <- MaxDay["size"]
Manager == INSTANCE TrackingManager WITH
  Owner <- Master, Line <- Detail, Field <- DetailField, Lines <- Details,
  Value <- DetailValue, Config <- DetailConfig, MaxOps <- MaxSteps["manager"]
Chatter == INSTANCE TrackingValues WITH Plain <- PlainField, Properties <- PropertiesField,
                          Key <- PropertyName, Value <- PropertyValue
Records == INSTANCE UpgradeRecords WITH N <- Loadable, Field <- ModelField, Value <- AttrValue,
                          Empty <- NoAttr, MaxSteps <- MaxSteps["records"]
Comparison == INSTANCE UpgradeAnalysis WITH Input <- Comparable

ASSUME AddonsParameters ==
  /\ Audit!AuditLogParameters /\ Mail!FetchmailParameters /\ Remote!ExportParameters
  /\ Urls!UrlParameters /\ Windows!WindowParameters /\ Images!ImageParameters
  /\ Store!SessionStoreParameters /\ Cleaner!VacuumParameters /\ Dump!BackupParameters
  /\ Cleanup!DatabaseCleanupParameters /\ Cleanup!NamesakesGoTogether
  /\ Cleanup!BlacklistedKeepFields
  /\ Templates!ExcelTemplateParameters /\ Size!DatabaseSizeParameters
  /\ Manager!TrackingParameters /\ Chatter!TrackingValuesParameters
  /\ Records!UpgradeRecordsParameters /\ Comparison!UpgradeAnalysisParameters
  /\ Comparison!NamesAreFinal

-----------------------------------------------------------------------------
\* The variables that p does not use are None, and stay so.
Unused(p) ==
  /\ IF p \in {"audit", "vacuum", "cleanup", "manager"} THEN TRUE ELSE db = None
  /\ IF p \in {"audit", "remote", "windows", "manager"} THEN TRUE ELSE tx = None
  /\ IF p \in {"mail", "size", "manager"} THEN TRUE ELSE conf = None
  /\ IF p \in {"remote", "store"} THEN TRUE ELSE count = None
  /\ IF p \in {"windows", "templates"} THEN TRUE ELSE windows = None
  /\ IF p \in {"images", "store"} THEN TRUE ELSE rows = None
  /\ IF p \in {"urls", "templates"} THEN TRUE ELSE edited = None
  /\ IF p \in {"urls", "windows", "images", "cleanup", "templates", "records"} THEN TRUE ELSE steps = None
  /\ IF p \in {"vacuum", "size"} THEN TRUE ELSE day = None
  /\ IF p \in {"vacuum", "backup"} THEN TRUE ELSE run = None
  /\ IF p \in {"mail", "vacuum", "backup"} THEN TRUE ELSE faults = None
  /\ IF p \in {"audit", "manager"} THEN TRUE ELSE ops = None
  /\ IF p = "audit" THEN TRUE ELSE rule = None /\ http = None
  /\ IF p \in {"mail", "analysis"} THEN TRUE ELSE new = None
  /\ IF p = "mail" THEN TRUE ELSE /\ box = None /\ kept = None /\ purged = None
                                  /\ attached = None /\ fetch = None /\ risked = None
                                  /\ raced = None
  /\ IF p \in {"remote", "records"} THEN TRUE ELSE state = None
  /\ IF p \in {"remote", "analysis"} THEN TRUE ELSE job = None
  /\ IF p = "remote" THEN TRUE ELSE remote = None /\ closed = None
  /\ IF p = "urls" THEN TRUE ELSE /\ name = None /\ url_need_refresh = None
                                  /\ urls = None /\ found = None
  /\ IF p = "windows" THEN TRUE ELSE watched = None /\ excused = None
  /\ IF p = "images" THEN TRUE ELSE installed = None /\ live = None /\ single = None /\ shown = None
  /\ IF p \in {"store", "analysis"} THEN TRUE ELSE old = None
  /\ IF p = "store" THEN TRUE ELSE /\ mode = None /\ call = None /\ owner = None /\ last = None
  /\ IF p = "vacuum" THEN TRUE ELSE passes = None /\ stuck = None /\ broken = None
  /\ IF p \in {"backup", "chatter"} THEN TRUE ELSE now = None
  /\ IF p \in {"backup", "manager", "analysis"} THEN TRUE ELSE told = None
  /\ IF p = "backup" THEN TRUE ELSE files = None /\ posted = None
  /\ IF p \in {"cleanup", "analysis"} THEN TRUE ELSE lines = None
  /\ IF p = "cleanup" THEN TRUE ELSE code = None /\ stale = None
  /\ IF p = "templates" THEN TRUE ELSE tpl = None /\ results = None
  /\ IF p = "size" THEN TRUE ELSE world = None /\ sizes = None /\ taken = None
  /\ IF p = "manager" THEN TRUE ELSE cache = None /\ pre = None /\ since = None
  /\ IF p = "chatter" THEN TRUE ELSE /\ tracked = None /\ initial = None
                                     /\ domains = None /\ result = None
  /\ IF p = "records" THEN TRUE ELSE /\ defs = None /\ imd = None /\ record = None
                                     /\ upg = None /\ phase = None /\ covered = None
  /\ IF p = "analysis" THEN TRUE ELSE /\ input = None /\ write_files = None
                                      /\ pass = None /\ todo = None

Only(p) ==
  /\ UNCHANGED part
  /\ IF p \in {"audit", "vacuum", "cleanup", "manager"} THEN TRUE ELSE UNCHANGED db
  /\ IF p \in {"audit", "remote", "windows", "manager"} THEN TRUE ELSE UNCHANGED tx
  /\ IF p \in {"mail", "size", "manager"} THEN TRUE ELSE UNCHANGED conf
  /\ IF p \in {"remote", "store"} THEN TRUE ELSE UNCHANGED count
  /\ IF p \in {"windows", "templates"} THEN TRUE ELSE UNCHANGED windows
  /\ IF p \in {"images", "store"} THEN TRUE ELSE UNCHANGED rows
  /\ IF p \in {"urls", "templates"} THEN TRUE ELSE UNCHANGED edited
  /\ IF p \in {"urls", "windows", "images", "cleanup", "templates", "records"} THEN TRUE ELSE UNCHANGED steps
  /\ IF p \in {"vacuum", "size"} THEN TRUE ELSE UNCHANGED day
  /\ IF p \in {"vacuum", "backup"} THEN TRUE ELSE UNCHANGED run
  /\ IF p \in {"mail", "vacuum", "backup"} THEN TRUE ELSE UNCHANGED faults
  /\ IF p \in {"audit", "manager"} THEN TRUE ELSE UNCHANGED ops
  /\ IF p = "audit" THEN TRUE ELSE UNCHANGED <<rule, http>>
  /\ IF p \in {"mail", "analysis"} THEN TRUE ELSE UNCHANGED new
  /\ IF p = "mail" THEN TRUE ELSE UNCHANGED <<box, kept, purged, attached, fetch, risked, raced>>
  /\ IF p \in {"remote", "records"} THEN TRUE ELSE UNCHANGED state
  /\ IF p \in {"remote", "analysis"} THEN TRUE ELSE UNCHANGED job
  /\ IF p = "remote" THEN TRUE ELSE UNCHANGED <<remote, closed>>
  /\ IF p = "urls" THEN TRUE ELSE UNCHANGED <<name, url_need_refresh, urls, found>>
  /\ IF p = "windows" THEN TRUE ELSE UNCHANGED <<watched, excused>>
  /\ IF p = "images" THEN TRUE ELSE UNCHANGED <<installed, live, single, shown>>
  /\ IF p \in {"store", "analysis"} THEN TRUE ELSE UNCHANGED old
  /\ IF p = "store" THEN TRUE ELSE UNCHANGED <<mode, call, owner, last>>
  /\ IF p = "vacuum" THEN TRUE ELSE UNCHANGED <<passes, stuck, broken>>
  /\ IF p \in {"backup", "chatter"} THEN TRUE ELSE UNCHANGED now
  /\ IF p \in {"backup", "manager", "analysis"} THEN TRUE ELSE UNCHANGED told
  /\ IF p = "backup" THEN TRUE ELSE UNCHANGED <<files, posted>>
  /\ IF p \in {"cleanup", "analysis"} THEN TRUE ELSE UNCHANGED lines
  /\ IF p = "cleanup" THEN TRUE ELSE UNCHANGED <<code, stale>>
  /\ IF p = "templates" THEN TRUE ELSE UNCHANGED <<tpl, results>>
  /\ IF p = "size" THEN TRUE ELSE UNCHANGED <<world, sizes, taken>>
  /\ IF p = "manager" THEN TRUE ELSE UNCHANGED <<cache, pre, since>>
  /\ IF p = "chatter" THEN TRUE ELSE UNCHANGED <<tracked, initial, domains, result>>
  /\ IF p = "records" THEN TRUE ELSE UNCHANGED <<defs, imd, record, upg, phase, covered>>
  /\ IF p = "analysis" THEN TRUE ELSE UNCHANGED <<input, write_files, pass, todo>>

Init ==
  \/ part = "audit" /\ Audit!Init /\ Unused("audit")
  \/ part = "mail" /\ Mail!Init /\ Unused("mail")
  \/ part = "remote" /\ Remote!Init /\ Unused("remote")
  \/ part = "urls" /\ Urls!Init /\ Unused("urls")
  \/ part = "windows" /\ Windows!Init /\ Unused("windows")
  \/ part = "images" /\ Images!Init /\ Unused("images")
  \/ part = "store" /\ Store!Init /\ Unused("store")
  \/ part = "vacuum" /\ Cleaner!Init /\ Unused("vacuum")
  \/ part = "backup" /\ Dump!Init /\ Unused("backup")
  \/ part = "cleanup" /\ Cleanup!Init /\ Unused("cleanup")
  \/ part = "templates" /\ Templates!Init /\ Unused("templates")
  \/ part = "size" /\ Size!Init /\ Unused("size")
  \/ part = "manager" /\ Manager!Init /\ Unused("manager")
  \/ part = "chatter" /\ Chatter!Init /\ Unused("chatter")
  \/ part = "records" /\ Records!Init /\ Unused("records")
  \/ part = "analysis" /\ Comparison!Init /\ Unused("analysis")

Next ==
  \/ part = "audit" /\ Audit!Next /\ Only("audit")
  \/ part = "mail" /\ Mail!Next /\ Only("mail")
  \/ part = "remote" /\ Remote!Next /\ Only("remote")
  \/ part = "urls" /\ Urls!Next /\ Only("urls")
  \/ part = "windows" /\ Windows!Next /\ Only("windows")
  \/ part = "images" /\ Images!Next /\ Only("images")
  \/ part = "store" /\ Store!Next /\ Only("store")
  \/ part = "vacuum" /\ Cleaner!Next /\ Only("vacuum")
  \/ part = "backup" /\ Dump!Next /\ Only("backup")
  \/ part = "cleanup" /\ Cleanup!Next /\ Only("cleanup")
  \/ part = "templates" /\ Templates!Next /\ Only("templates")
  \/ part = "size" /\ Size!Next /\ Only("size")
  \/ part = "manager" /\ Manager!Next /\ Only("manager")
  \/ part = "chatter" /\ Chatter!mail_track /\ Only("chatter")
  \/ part = "records" /\ Records!Next /\ Only("records")
  \/ part = "analysis" /\ Comparison!Next /\ Only("analysis")

Spec == Init /\ [][Next]_vars

-----------------------------------------------------------------------------
\* The variables of a part have the types of its module: what is stored, what a
\* transaction, run or call is at, and what a wizard or a cache has found.  Those
\* of excel_import_export and database_size are in OthersTypeOK of MCAddons.
TypeOK ==
  /\ part = "audit" => Audit!TypeOK
  /\ part = "mail" => Mail!TypeOK
  /\ part = "remote" => Remote!TypeOK
  /\ part = "urls" => Urls!TypeOK
  /\ part = "windows" => Windows!TypeOK
  /\ part = "images" => Images!TypeOK
  /\ part = "store" => Store!TypeOK
  /\ part = "vacuum" => Cleaner!TypeOK
  /\ part = "backup" => Dump!TypeOK
  /\ part = "cleanup" => Cleanup!TypeOK
  /\ part = "manager" => Manager!TypeOK
  /\ part = "chatter" => Chatter!TypeOK
  /\ part = "records" => Records!TypeOK
  /\ part = "analysis" => Comparison!TypeOK

\* auditlog: the lines tell the values the records had and have, and logs and
\* requests name requests and sessions that exist, whatever was rolled back or
\* cleaned up.
LogsAreTrue == part = "audit" => Audit!LogTellsValues /\ Audit!LogsHaveRequests

\* What was done on a server agrees with the database.
\* fetchmail_attach_from_folder: no message is attached twice, unless two fetches
\* of the folder were on at once, and none is lost but by a failure between the
\* server and the commit.
\* attachment_synchronize: a record that is done has its file on the remote.
RemoteIsSafe ==
  /\ part = "mail" => Mail!NoMailLost /\ Mail!AttachedOnce
  /\ part = "remote" => Remote!DoneIsExported

\* Records that share keys, a week or a table do not get in each other's way.
\* base_url: old keys lead to their records, and main keys tell their names.
\* base_time_window: windows of a record do not overlap.
\* base_multi_image: a record shows the image it was given last.
RecordsCoexist ==
  /\ part = "urls" => Urls!OldKeysLead /\ Urls!FreshUnlessMarked
  /\ part = "windows" => Windows!WindowsApart
  /\ part = "images" => Images!MainIsLastWritten

\* session_db: a get returns what the last operation on the session left.
LastReturnedIsRead == part = "store" => Store!LastReturnedIsRead

\* database_cleanup, auto_backup: purging takes nothing that the deployed code
\* uses; a folder keeps a complete backup, and a backup the chatter calls
\* successful is complete and stays for the days that are kept.
\* excel_import_export: an action that templates share stays with the others
\* when one of them gives it up.
\* autovacuum_message_attachment: what the vacuum deletes is old enough.
\* database_size: a measurement stays as long as the settings say, except that a
\* monthly limit alone is one for every day.
NothingNeededGoes ==
  /\ [][/\ part = "cleanup" => Cleanup!KeepsUsed
        /\ part = "backup" => Dump!KeepsBackup
        /\ part = "templates" => Templates!LeavesSharedAction
        /\ part = "vacuum" => Cleaner!OnlyOldGo]_vars
  /\ [](/\ part = "backup" => Dump!SuccessIsWhole
        /\ part = "size" => Size!KeptForRetention)

\* upgrade_analysis: the records tell what each module defines; the comparison
\* of two databases leaves nothing unmatched that matches and tells every change.
AnalysisTellsChanges ==
  /\ part = "records" => Records!RecordsTellModels
  /\ part = "analysis" => Comparison!NothingLeftToMatch /\ Comparison!ChangesAreTold

\* tracking_manager, tracking_manager_domain: the chatter of a record tells the
\* net changes of its lines and the changes of its fields.
ChatterTellsChanges ==
  /\ [][part = "manager" => Manager!HooksTell]_vars
  /\ [](part = "chatter" => Chatter!ValuesTellChanges)
===============================================================================
