SPECIFICATION MCSpec
CONSTANTS
  None = None
  MaxSteps <- MCMaxSteps
  MaxFaults <- MCMaxFaults
  MaxDay <- MCMaxDay
  Logged = {"r1"}
  Input = {"f", "g"}
  Main = "f"
  Computed = "c"
  Secret = {"g"}
  Datum = {0, 1}
  False = 0
  LogType = {"full", "fast"}
  Capture = {TRUE, FALSE}
  Letters = {"m1", "m2"}
  Fetcher = {"cron", "user"}
  Cron = "cron"
  Matches <- MCMatches
  Config <- MCConfig
  Attachment = {"a", "b"}
  Worker = {"u", "v"}
  FileName <- MCFileName
  MaxAsks = 2
  Named = {"r", "s"}
  Context = {"en", "fr"}
  Name = {"A", "B"}
  Slug <- MCSlug
  Custom = {}
  Id = {1, 2}
  Scheduled = {"p", "q"}
  User = {"u", "v"}
  Hours <- MCHours
  Watch = {{"hours"}, {"owner"}, {"hours", "owner"}}
  EndOfDay = 4
  WithImages = {"m", "n"}
  OwnerId = {1}
  Picture = {"p", "q"}
  DefaultSequence = 10
  Sequence = {10, 11}
  Thread = {"t1", "t2"}
  Sid = {"s1", "s2"}
  Payload = {"p", "q"}
  MaxCalls = 2
  Target = {1, 2, 3}
  Born <- MCBorn
  Rules <- MCRules
  CanBeStuck = {{}, {2}}
  CanBeBroken = {{}, {2}}
  BatchSize = 2
  Backup = {"l1", "l2", "r"}
  Disks = {"l1", "l2"}
  Format <- MCFormat
  days_to_keep <- MCdays_to_keep
  MaxTime = 3
  Code <- MCCode
  Addon <- MCAddon
  Depends <- MCDepends
  Blacklist <- MCBlacklist
  KnownTables = {"k"}
  Foreign <- MCForeign
  Template = {"a", "b"}
  Model = {"m", "n"}
  Instructions <- MCInstructions
  Default = "value or none"
  Gauged <- MCGauged
  StoredIn <- MCStoredIn
  Relations <- MCRelations
  Indexes <- MCIndexes
  Contents <- MCContents
  World <- MCWorld
  Settings <- MCSettings
  Unit = 2
  Month = 3
  Master = {"o", "p"}
  Detail = {"l"}
  DetailField = {"owner", "f"}
  inverse_name = "owner"
  Trackable = {"owner", "f"}
  Details = "lines"
  DetailValue = {"0", "1"}
  DetailConfig <- MCDetailConfig
  PlainField = {"a"}
  PropertiesField = {"p", "q"}
  PropertyName = {"k"}
  PropertyValue = {v}
  Domains <- MCDomains
  Loadable = 3
  ModelField = {"f"}
  Attr = {"type", "required"}
  AttrValue = {0, 1, 2}
  NoAttr = 0
  Definition <- MCDefinition
  XmlId = {"x"}
  Comparable <- MCComparable
  renamed_modules <- MCrenamed_modules
  merged_modules <- MCmerged_modules
  renamed_models <- MCrenamed_models
  merged_models <- NoMap
  IgnoreField = {"id"}
  IgnoreModule = {"upgrade_analysis"}
  Installed = {"b", "c"}
  WriteFiles = {TRUE, FALSE}
  NotWritable = {"b"}
CHECK_DEADLOCK FALSE
INVARIANTS
  TypeOK LogsAreTrue RemoteIsSafe RecordsCoexist LastReturnedIsRead
  OthersTypeOK AnalysisTellsChanges OutputTellsInput
PROPERTIES
  NothingNeededGoes DueIsDone ChatterTellsChanges
