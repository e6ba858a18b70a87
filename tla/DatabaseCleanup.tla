---------------------------- MODULE DatabaseCleanup ----------------------------
(***************************************************************************)
(* database_cleanup: wizards that look in the database for what the code   *)
(* no longer knows, and purge what the user picks.  A wizard keeps the     *)
(* lines it found; they may be purged much later, one by one or together,  *)
(* and other wizards and upgrades run in between.                          *)
(***************************************************************************)
EXTENDS Naturals, FiniteSets

CONSTANTS Code,     \* codes that get deployed: see DatabaseCleanupParameters
          Owner,    \* the module of each model
          Depends,  \* <<module, module it depends on>>
          Blacklist, KnownTables, \* columns and tables in use without a field or a model
          Foreign,  \* <<table, table it has a foreign key to>>
          MaxSteps  \* bound: upgrades and wizard steps

\* The modules on disk that can load, with those they depend on, the models of
\* the registry, all of these modules, tables of many2many fields.  column: not a
\* computed field that is not stored; relation: a model of the registry, if any.
DatabaseCleanupParameters ==
  /\ MaxSteps \in Nat /\ \A x \in Blacklist: x = <<x[1], x[2]>>
  /\ \A c \in Code: /\ DOMAIN c = {"modules", "models", "relations"}
                    /\ \A d \in Depends: d[1] \in c.modules => d[2] \in c.modules
                    /\ \A m \in DOMAIN c.models:
                         /\ m \in DOMAIN Owner /\ Owner[m] \in c.modules
                         /\ \A f \in c.models[m].fields:
                              /\ DOMAIN f = {"name", "column", "stored", "index", "relation"}
                              /\ f.stored => f.column
                              /\ f.relation \in DOMAIN Owner => f.relation \in DOMAIN c.models

\* Of two models that share a table, both or none have a field of a given name
\* gone.  The wizard of the columns looks at all models of a table, that of the
\* fields only at the model of the field (purge_fields.py:113), whose column it
\* drops: without this assumption it drops the column of the other model's field.
Names(c, m) == {f.name: f \in c.models[m].fields}
NamesakesGoTogether ==
  \A c, d \in Code: \A m, n \in DOMAIN c.models: 
    (m # n /\ c.models[m].table = c.models[n].table /\ n \in DOMAIN d.models) =>
      (Names(c, m) \intersect Names(d, n)) \subseteq Names(c, n)

\* The same of columns that are in use without a field: none of them belongs to
\* a field that is gone, for the wizard of the fields does not look for them.
BlacklistedKeepFields ==
  \A c, d \in Code: \A m \in DOMAIN c.models \intersect DOMAIN d.models: \A n \in Names(d, m):
    <<c.models[m].table, n>> \in Blacklist => n \in Names(c, m)

Kinds == {"modules", "models", "fields", "columns", "tables", "data", "menus", "indexes"}

VARIABLES code,  \* what is deployed
          db,    \* the database
          lines, \* per wizard, the lines it found that are not purged
          stale, \* wizards whose lines are older than the deployed code
          steps

vars == <<code, db, lines, stale, steps>>

InEnv(m) == m \in DOMAIN code.models
TableOf(c, m) == c.models[m].table

-----------------------------------------------------------------------------
(* Deploying code: what the ORM creates for the models of the registry.    *)

FieldRows(c) == UNION {{[model |-> m, name |-> f.name, stored |-> f.stored,
                         index |-> f.index, relation |-> f.relation]: f \in c.models[m].fields}:
                       m \in DOMAIN c.models}
Auto(c) == {m \in DOMAIN c.models: c.models[m].auto}
ColumnsOf(c) == UNION {{<<TableOf(c, m), f.name>>: f \in {x \in c.models[m].fields: x.stored}}: m \in Auto(c)}
TablesOf(c) == {TableOf(c, m): m \in Auto(c)} \union c.relations
InUse(c) == {x \in Blacklist: x[1] \in TablesOf(c)}

\* A record, a data entry that names it and a menu for each model, and what
\* modules create without a field or a model.
Loaded(d, c) ==
  [modules |-> d.modules \union c.modules,
   models |-> d.models \union DOMAIN c.models,
   fields |-> {f \in d.fields: ~\E g \in FieldRows(c): g.model = f.model /\ g.name = f.name}
              \union FieldRows(c),
   columns |-> d.columns \union ColumnsOf(c) \union InUse(c),
   tables |-> d.tables \union TablesOf(c) \union KnownTables,
   records |-> d.records \union DOMAIN c.models,
   data |-> d.data \union DOMAIN c.models,
   menus |-> d.menus \union DOMAIN c.models,
   attachments |-> d.attachments \union DOMAIN c.models,
   indexes |-> d.indexes]

Empty == [modules |-> {}, models |-> {}, fields |-> {}, columns |-> {}, tables |-> {}, records |-> {},
          data |-> {}, menus |-> {}, attachments |-> {}, indexes |-> {}]

Init == /\ code \in Code
        /\ db = Loaded(Empty, code)
        /\ lines = [k \in Kinds |-> {}]
        /\ stale = {}
        /\ steps = 0

\* A homebrew upgrade: the database keeps what the former code left.
Deploy(c) ==
  /\ c # code
  /\ code' = c
  /\ db' = Loaded(db, c)
  /\ stale' = {k \in Kinds: lines[k] # {}}
  /\ UNCHANGED lines

\* A record goes without its data entry.
LoseRecord(m) ==
  /\ m \in db.records
  /\ db' = [db EXCEPT !.records = @ \ {m}]
  /\ UNCHANGED <<code, lines, stale>>

-----------------------------------------------------------------------------
(* What the wizards find.                                                  *)

orphaned_modules == db.modules \ code.modules
orphaned_models == {m \in db.models: ~InEnv(m)}
\* A field of a model that is not in the registry: the wizard fails.
orphaned_fields == {f \in db.fields: f.name \notin Names(code, f.model)}

\* Mutant: each model of a table by itself.
Sharing_First(m) == {m}
\* Models that share the table of a model.
Sharing(m) == {n \in db.models: InEnv(n) /\ code.models[n].auto /\ TableOf(code, n) = TableOf(code, m)}

get_orphaned_columns(m) ==
  LET known == UNION {{f.name: f \in {x \in code.models[n].fields: x.column}}: n \in Sharing(m)}
  IN {x \in db.columns: x[1] = TableOf(code, m) /\ x[2] \notin known /\ x \notin Blacklist}

known_tables == KnownTables \union {TableOf(code, m): m \in {x \in db.models: InEnv(x)}} \union code.relations

\* Data entries of unknown models or of records that are gone.
dangling_data == {m \in db.data: ~InEnv(m) \/ m \notin db.records}
dangling_menus == {m \in db.menus: ~InEnv(m)}
missing_indexes == {f \in db.fields: /\ f.index /\ InEnv(f.model)
                                     /\ <<TableOf(code, f.model), f.name>> \in db.columns \ db.indexes}

Found ==
  [modules |-> orphaned_modules,
   models |-> orphaned_models,
   fields |-> IF \A f \in db.fields: InEnv(f.model) THEN orphaned_fields ELSE {},
   columns |-> UNION {{<<m, x[2]>>: x \in get_orphaned_columns(m)}: m \in {y \in Auto(code): y \in db.models}},
   tables |-> db.tables \ known_tables,
   data |-> dangling_data,
   menus |-> dangling_menus,
   indexes |-> missing_indexes]

\* Opening a wizard; one that finds nothing is an error.
find(kind) ==
  /\ Found[kind] # {}
  /\ lines' = [lines EXCEPT ![kind] = Found[kind]]
  /\ stale' = stale \ {kind}
  /\ UNCHANGED <<code, db>>

-----------------------------------------------------------------------------
(* What purge does with the lines S.                                       *)

DropTables(d, T) ==
  [d EXCEPT !.tables = @ \ T,
            !.columns = {x \in @: x[1] \notin T},
            !.indexes = {x \in @: x[1] \notin T},
            !.records = {m \in @: ~(InEnv(m) /\ TableOf(code, m) \in T)}]

DropColumns(d, X) == [d EXCEPT !.columns = @ \ X, !.indexes = @ \ X]

\* ir.model.fields.unlink: the columns of stored fields go with them, where the
\* model is known.
ColumnOf(f) == <<TableOf(code, f.model), f.name>>
UnlinkFields(d, F) ==
  DropColumns([d EXCEPT !.fields = @ \ F], {ColumnOf(f): f \in {x \in F: x.stored /\ InEnv(x.model)}})

\* ir.model.unlink drops the table of a model, which the addon keeps it from
\* doing for models that the registry does not have; the fields follow.
UnlinkModels(d, M) ==
  LET known == {m \in M: InEnv(m)}
      own == {f \in d.fields: f.model \in M}
  IN [DropTables(d, {TableOf(code, m): m \in known}) EXCEPT
        !.models = @ \ M, !.fields = @ \ own]

purge_models(S) ==
  LET M == S \intersect db.models
      relations == {f \in db.fields: f.relation \in M}
  IN UnlinkModels([UnlinkFields(db, relations) EXCEPT !.attachments = @ \ M], M)

\* The column of a field that is not stored is dropped by the addon itself.
purge_fields(S) ==
  LET F == S \intersect db.fields
      force_drop == {f \in F: ~f.stored /\ code.models[f.model].auto}
  IN DropColumns(UnlinkFields(db, F), {ColumnOf(f): f \in force_drop})

purge_columns(S) == DropColumns(db, {<<TableOf(code, x[1]), x[2]>>: x \in S})

\* Uninstalled with what depends on it, then removed.
Downstream(M) == M \union {d[1]: d \in {x \in Depends: x[2] \in M}}
purge_modules(S) ==
  LET gone == Downstream(S \intersect db.modules)
      owned == {m \in DOMAIN Owner: Owner[m] \in gone}
  IN [UnlinkModels(db, owned \intersect db.models) EXCEPT
        !.modules = @ \ S, !.data = @ \ owned]

purge_data(S) == [db EXCEPT !.data = @ \ S]
purge_menus(S) == [db EXCEPT !.menus = @ \ S]
create_indexes(S) == [db EXCEPT !.indexes = @ \union {ColumnOf(f): f \in S}]

\* Steps that raise: the model of a column or a field is no longer known, a
\* table is gone or another one that is not among the lines points to it, a
\* column to index is gone or has its index.
Raises(kind, S) ==
  CASE kind = "columns" -> \E x \in S: ~InEnv(x[1])
    [] kind = "fields" -> \E f \in S: ~InEnv(f.model)
    [] kind = "tables" -> \E t \in S: t \notin db.tables \/ \E k \in Foreign:
                            k[2] = t /\ k[1] \in db.tables \ S
    [] kind = "indexes" -> \E f \in S: ~InEnv(f.model) \/ ColumnOf(f) \notin db.columns \ db.indexes
    [] OTHER -> FALSE

Purged(kind, S) ==
  CASE kind = "modules" -> purge_modules(S)
    [] kind = "models" -> purge_models(S)
    [] kind = "fields" -> purge_fields(S)
    [] kind = "columns" -> purge_columns(S)
    [] kind = "tables" -> DropTables(db, S)
    [] kind = "data" -> purge_data(S)
    [] kind = "menus" -> purge_menus(S)
    [] kind = "indexes" -> create_indexes(S)

\* Some lines or all of them.  The wizards of columns and of fields commit after
\* each column, so an error leaves a smaller S done, which is another step here.
purge(kind, S) ==
  /\ S # {}
  /\ ~Raises(kind, S)
  /\ db' = Purged(kind, S)
  /\ lines' = [lines EXCEPT ![kind] = @ \ S]
  /\ UNCHANGED <<code, stale>>

Step == \/ \E c \in Code: Deploy(c)
        \/ \E m \in db.records: LoseRecord(m)
        \/ \E k \in Kinds: find(k) \/ \E S \in SUBSET lines[k]: purge(k, S)

Next == steps < MaxSteps /\ Step /\ steps' = steps + 1

Spec == Init /\ [][Next]_vars

-----------------------------------------------------------------------------
TypeOK ==
  /\ code \in Code
  /\ db.models \subseteq DOMAIN Owner
  /\ db.data \union db.menus \union db.records \subseteq DOMAIN Owner
  /\ \A f \in db.fields: f.model \in db.models
  /\ \A x \in db.columns: x[1] \in db.tables
  /\ db.indexes \subseteq db.columns
  /\ stale \subseteq Kinds

\* What the deployed code uses, of what is in a database.
Used(d) ==
  {<<"module", m>>: m \in d.modules \intersect code.modules}
  \union {<<"model", m>>: m \in {x \in d.models: InEnv(x)}}
  \union {<<"field", f.model, f.name>>: f \in {x \in d.fields: InEnv(x.model) /\ x.name \in Names(code, x.model)}}
  \union {<<"column", x>>: x \in d.columns \intersect (ColumnsOf(code) \union InUse(code))}
  \union {<<"table", t>>: t \in d.tables \intersect (TablesOf(code) \union KnownTables)}
  \union {<<"record", m>>: m \in {x \in d.records: InEnv(x)}}
  \union {<<"data", m>>: m \in {x \in d.data \intersect d.records: InEnv(x)}}
  \union {<<"menu", m>>: m \in {x \in d.menus: InEnv(x)}}

\* Purging lines that were found with the code that is deployed takes nothing
\* that this code uses, whatever other wizards have purged since the lines were
\* found, in any order and in any portion: models that share a table, fields
\* that refer to a purged model, tables that keep others from going.
KeepsUsed ==
  \A k \in Kinds: lines'[k] # lines[k] /\ k \notin stale => Used(db) \subseteq Used(db')

OnlyOrphansGo == [][KeepsUsed]_vars

=============================================================================
