---------------------------- MODULE TrackingManager ----------------------------
(***************************************************************************)
(* tracking_manager on a model of owners with a one2many field of lines,   *)
(* and tracking_manager_domain: what is done to lines is noted during the  *)
(* transaction and told in the chatter of their owners when the precommit  *)
(* hooks run: at each flush of the cursor, at savepoints and at commit.    *)
(***************************************************************************)
EXTENDS Naturals, Sequences, FiniteSets, Functions

CONSTANTS Owner, Line,
          Field,      \* fields of the lines, with
          inverse_name, \* the many2one field to the owner
          Trackable,  \* those that are not readonly, related or one2many
          Lines,      \* the one2many field of the owners
          Value,      \* values of the other fields
          None,       \* no owner, no line, no cache or no transaction
          Config,     \* configurations to try
          MaxOps      \* bound: operations on lines, owners and configuration

VARIABLES conf,  \* active_custom_tracking of both models, custom_tracking of
                 \* their fields, and whether Lines has a tracking_domain
          cache, \* the configuration the ormcache was filled from, or None
          db,    \* the lines, ids used, and owners inside the tracking_domain
          pre,   \* hook and data in cr.precommit
          told,  \* messages of the last run of the hooks, by their place in its data
          tx,    \* what rollbacks go back to, or None outside a transaction
          since, \* for the property: the lines at the last run of the hooks and
                 \* new lines as created, which are new, and what was removed
          ops    \* operations so far

vars == <<conf, cache, db, pre, told, tx, since, ops>>

ValueOf(f) == IF f = inverse_name THEN Owner \union {None} ELSE Value
Record == {r \in [Field -> UNION {ValueOf(f): f \in Field}]: \A f \in Field: r[f] \in ValueOf(f)}

\* A database has finitely many lines.
TrackingParameters ==
  /\ IsFiniteSet(Line)
  /\ inverse_name \in Field
  /\ Trackable \subseteq Field
  /\ Config \subseteq [active: SUBSET {"owner", "line"}, custom: SUBSET (Field \union {Lines}),
                      rule: BOOLEAN, domain: BOOLEAN]
  /\ None \notin Record
  /\ MaxOps \in Nat

NoData == [hook |-> FALSE, before |-> [l \in {} |-> None], data |-> <<>>]
From(line) == [line |-> line, fresh |-> {}, gone |-> {}]

Init == /\ conf \in Config
        /\ \E line \in [Line -> Record \union {None}], open \in SUBSET Owner:
             db = [line |-> line, used |-> {l \in Line: line[l] # None}, open |-> open]
        /\ cache = None
        /\ pre = NoData
        /\ told = <<>>
        /\ tx = None
        /\ since = From(db.line)
        /\ ops = 0

Change == [field: Field, old: UNION {ValueOf(f): f \in Field},
           new: UNION {ValueOf(f): f \in Field}]
Message == [owner: Owner, mode: {"create", "update", "unlink"}, record: Line,
            changes: SUBSET Change]
Database == [line: [Line -> Record \union {None}], used: SUBSET Line, open: SUBSET Owner]

TypeOK == /\ conf \in Config
          /\ cache \in Config \union {None}
          /\ db \in Database
          /\ pre.hook \in BOOLEAN
          /\ pre.before \in UNION {[L -> Record]: L \in SUBSET Line}
          /\ Range(told) \subseteq Message /\ pre.data \in Seq(Message)
          /\ tx = None \/ tx \in [start: Database, point: Database \union {None}]
          /\ since.line \in [Line -> Record \union {None}]
          /\ ops \in 0..MaxOps

-----------------------------------------------------------------------------
(* What is tracked.  The methods are cached: is_tracked_by_o2m,            *)
(* _get_model_tracked_by_o2m and _get_custom_tracked_fields_per_model.     *)

Known == IF cache = None THEN conf ELSE cache

is_tracked_by_o2m == "owner" \in Known.active /\ Lines \in Known.custom

\* The custom fields of the lines' model if it is tracked itself.
get_fields_to_track ==
  IF "line" \in Known.active THEN Known.custom \ {Lines} ELSE Trackable

\* Base.write asks is_tracked_by_o2m before it writes: it fills the cache
\* that IrModel.write has just cleared from what is written over.
write_active(model) ==
  /\ cache' = conf
  /\ conf' = [conf EXCEPT !.active = IF model \in @ THEN @ \ {model} ELSE @ \union {model}]

\* IrModelFields.write does not go through Base.write.
write_custom_tracking(f) ==
  /\ cache' = None
  /\ conf' = [conf EXCEPT !.custom = IF f \in @ THEN @ \ {f} ELSE @ \union {f}]

\* The button: by default no one2many field, but those of some models.
update_custom_tracking(model) ==
  /\ cache' = None
  /\ conf' = [conf EXCEPT !.custom =
       IF model = "line" THEN (@ \intersect {Lines}) \union Trackable
       ELSE (@ \ {Lines}) \union (IF conf.rule THEN {Lines} ELSE {})]

Configure == /\ tx = None
             /\ ops < MaxOps
             /\ ops' = ops + 1
             /\ \/ \E model \in {"owner", "line"}:
                     write_active(model) \/ update_custom_tracking(model)
                \/ \E f \in Field \union {Lines}: write_custom_tracking(f)
             /\ conf' \in Config
             /\ UNCHANGED <<db, pre, told, tx, since>>

-----------------------------------------------------------------------------
(* What is done to lines.                                                  *)

\* Mutant: a line without an owner is told as well.
notify_owner_Always(l, values, mode, changes) ==
  <<[owner |-> values[inverse_name], mode |-> mode, record |-> l, changes |-> changes]>>

notify_owner(l, values, mode, changes) ==
  IF values[inverse_name] = None THEN <<>>
  ELSE <<[owner |-> values[inverse_name], mode |-> mode, record |-> l, changes |-> changes]>>

\* Mutant: a second write overwrites the initial values.
prepare_o2m_tracking_Again(lines) ==
  IF ~is_tracked_by_o2m \/ get_fields_to_track = {} THEN pre
  ELSE [pre EXCEPT !.hook = TRUE, !.before =
          [l \in DOMAIN @ \union lines |-> IF l \in lines THEN db.line[l] ELSE @[l]]]

\* The first values stay: setdefault.
prepare_o2m_tracking(lines) ==
  IF ~is_tracked_by_o2m \/ get_fields_to_track = {} THEN pre
  ELSE [pre EXCEPT !.hook = TRUE, !.before =
          [l \in DOMAIN @ \union lines |-> IF l \in DOMAIN @ THEN @[l] ELSE db.line[l]]]

track_create_unlink(l, values, mode) ==
  IF ~is_tracked_by_o2m THEN pre
  ELSE [pre EXCEPT !.hook = TRUE, !.data = @ \o notify_owner(l, values, mode, {})]

Operation == /\ tx # None
             /\ ops < MaxOps
             /\ ops' = ops + 1
             /\ UNCHANGED <<conf, told, tx>>

write(lines, f, v) ==
  /\ Operation
  /\ lines # {} /\ \A l \in lines: db.line[l] # None
  /\ pre' = prepare_o2m_tracking(lines)
  /\ cache' = Known
  /\ db' = [db EXCEPT !.line = [l \in Line |-> IF l \in lines THEN [@[l] EXCEPT ![f] = v] ELSE @[l]]]
  /\ UNCHANGED since

create(l, values) ==
  /\ Operation
  /\ l \notin db.used
  /\ pre' = track_create_unlink(l, values, "create")
  /\ cache' = Known
  /\ db' = [db EXCEPT !.line[l] = values, !.used = @ \union {l}]
  /\ since' = [since EXCEPT !.line[l] = values, !.fresh = @ \union {l}]

unlink(l) ==
  /\ Operation
  /\ db.line[l] # None
  /\ pre' = track_create_unlink(l, db.line[l], "unlink")
  /\ cache' = Known
  /\ db' = [db EXCEPT !.line[l] = None]
  /\ since' = [since EXCEPT !.gone = @ \union {[owner |-> db.line[l][inverse_name], record |-> l]}]

\* The owner enters or leaves the tracking_domain.
write_owner(o) ==
  /\ Operation
  /\ db' = [db EXCEPT !.open = IF o \in @ THEN @ \ {o} ELSE @ \union {o}]
  /\ UNCHANGED <<cache, pre, since>>

-----------------------------------------------------------------------------
(* The hooks, and what runs or drops them.                                 *)

get_changes(before, now) ==
  {[field |-> f, old |-> before[f], new |-> now[f]]:
     f \in {g \in get_fields_to_track: before[g] # now[g]}}

\* A dictionary of lines is gone through in the order it happens to have.
InSomeOrder(S) == CHOOSE s \in [1..Cardinality(S) -> S]: IsInjective(s)

\* The changes of lines that still exist, to those who own them now.
Updates == LET changed == {l \in DOMAIN pre.before:
                             db.line[l] # None /\ get_changes(pre.before[l], db.line[l]) # {}}
               told_of(l) == notify_owner(l, db.line[l], "update", get_changes(pre.before[l], db.line[l]))
           IN  InSomeOrder(UNION {Range(told_of(l)): l \in changed})

\* tracking_manager_domain keeps what is told to owners in the domain.
Shown(owner) == conf.domain => owner \in db.open
post_message(data) == Restrict(data, {i \in DOMAIN data: Shown(data[i].owner)})

\* A hook that was added more than once finds no data after the first run.
finalize_o2m_tracking ==
  /\ told' = IF pre.hook THEN post_message(pre.data \o Updates) ELSE <<>>
  /\ pre' = NoData
  /\ since' = From(db.line)

Begin == /\ tx = None
         /\ tx' = [start |-> db, point |-> None]
         /\ UNCHANGED <<conf, cache, db, pre, told, since, ops>>

Commit == /\ tx # None
          /\ finalize_o2m_tracking
          /\ tx' = None
          /\ UNCHANGED <<conf, cache, db, ops>>

Flush == /\ tx # None
         /\ finalize_o2m_tracking
         /\ UNCHANGED <<conf, cache, db, tx, ops>>

Savepoint == /\ tx # None
             /\ finalize_o2m_tracking
             /\ tx' = [tx EXCEPT !.point = db]
             /\ UNCHANGED <<conf, cache, db, ops>>

\* cr.clear() and cr.rollback() clear the hooks and their data.
GoBack(to) == /\ db' = to
              /\ pre' = NoData
              /\ since' = From(to.line)
              /\ UNCHANGED <<conf, cache, told, ops>>

RollbackToSavepoint == /\ tx # None
                       /\ tx.point # None
                       /\ GoBack(tx.point)
                       /\ tx' = [tx EXCEPT !.point = None]

Rollback == /\ tx # None
            /\ GoBack(tx.start)
            /\ tx' = None

Next == \/ Configure
        \/ \E lines \in SUBSET Line, f \in Field: \E v \in ValueOf(f): write(lines, f, v)
        \/ \E l \in Line: unlink(l) \/ \E values \in Record: create(l, values)
        \/ \E o \in Owner: write_owner(o)
        \/ Begin \/ Commit \/ Flush \/ Savepoint \/ RollbackToSavepoint \/ Rollback

Spec == Init /\ [][Next]_vars

-----------------------------------------------------------------------------
Net(l) == {[field |-> f, old |-> since.line[l][f], new |-> db.line[l][f]]:
             f \in {g \in get_fields_to_track: since.line[l][g] # db.line[l][g]}}

ToldOf(mode) == {m \in Range(told'): m.mode = mode}
Audience(S) == {x \in S: x.owner # None /\ Shown(x.owner)}

\* However often lines are written, a run of the hooks tells each owner once
\* which of its lines were made and removed since the last run, and of the lines
\* it owns now the net change of the tracked fields: nothing of what came back
\* to its value, was rolled back, or was removed after it was changed.
TellsNetChanges ==
  IF ~is_tracked_by_o2m THEN told' = <<>>
  ELSE /\ IsInjective(told')
       /\ ToldOf("update") = Audience({[owner |-> db.line[l][inverse_name], mode |-> "update",
                                        record |-> l, changes |-> Net(l)]:
                l \in {x \in Line: since.line[x] # None /\ db.line[x] # None /\ Net(x) # {}}})
       /\ {[owner |-> m.owner, record |-> m.record]: m \in ToldOf("create")}
            = Audience({[owner |-> since.line[l][inverse_name], record |-> l]: l \in since.fresh})
       /\ {[owner |-> m.owner, record |-> m.record]: m \in ToldOf("unlink")} = Audience(since.gone)

\* Every run of the precommit hooks tells the owners what happened to their
\* lines (_tm_prepare_o2m_tracking, _tm_finalize_o2m_tracking).
HooksTell == Commit \/ Flush \/ Savepoint => TellsNetChanges

OwnersAreTold == [][HooksTell]_vars
================================================================================
