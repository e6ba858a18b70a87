---------------------------- MODULE UpgradeAnalysis ----------------------------
(***************************************************************************)
(* upgrade_analysis, second half: the records of an old (remote) and a new *)
(* (local) database are compared, fields first, then external ids, then    *)
(* models, and what changed is reported per module.  Pass by pass each old *)
(* record takes the first new record that is like it in some keys.         *)
(***************************************************************************)
EXTENDS Naturals, Sequences, FiniteSetsExt

CONSTANTS Input,           \* pairs of databases to compare
          renamed_modules, merged_modules,  \* apriori: old names to new names
          renamed_models, merged_models,
          IgnoreField,     \* create_date, write_uid, ...
          IgnoreModule,    \* modules that are never reported on
          Installed,       \* modules of the new database
          WriteFiles,      \* values of write_files to consider
          NotWritable      \* modules whose migration directory is read-only

\* A database: lists of records, as they are read.
UpgradeAnalysisParameters ==
  /\ \A i \in Input: DOMAIN i = {"old", "new"}
  /\ \A i \in Input: \A d \in {i.old, i.new}:
       /\ DOMAIN d = {"fields", "xmlids", "models"}
       /\ \A k \in DOMAIN d: d[k] \in Seq({d[k][j]: j \in DOMAIN d[k]})
  /\ WriteFiles \subseteq BOOLEAN
  /\ NotWritable \subseteq Installed

VARIABLES input, write_files, \* what is analysed, and how
          job,     \* what is compared: "fields", "xmlids", "models", then "done"
          pass,    \* number of the pass
          todo,    \* positions of the old records this pass has not tried
          old, new, \* positions of the records that are not matched yet
          lines,   \* the report: module, what it is about and what changed
          told     \* lines that reached a file or the log of the analysis

vars == <<input, write_files, job, pass, todo, old, new, lines, told>>

-----------------------------------------------------------------------------
(* compare: names of the old version in the new one.                       *)

Mapped(map, name) == IF name \in DOMAIN map THEN map[name] ELSE name

module_map(module) ==
  IF module \in DOMAIN renamed_modules THEN renamed_modules[module]
  ELSE Mapped(merged_modules, module)
model_rename_map(model) == Mapped(renamed_models, model)
model_merge_map(model) == Mapped(merged_models, model)
model_map(model) ==
  IF model \in DOMAIN renamed_models THEN renamed_models[model] ELSE model_merge_map(model)

\* Some old name, when several models have the same new one.
inv_model_map(model) ==
  IF \E o \in DOMAIN renamed_models: renamed_models[o] = model
  THEN CHOOSE o \in DOMAIN renamed_models: renamed_models[o] = model ELSE model

\* Two records are alike in some of their keys.
compare_records(o, n, keys) ==
  \A key \in keys:
    CASE key = "module" -> module_map(o.module) = n.module
      [] key = "model" -> model_rename_map(o.model) = n.model
      [] key = "relation" -> model_map(o.relation) = n.relation
      [] key = "other_prefix" -> /\ o.module = o.prefix /\ n.module = n.prefix
                                 /\ o.model # "ir.ui.view"
      [] OTHER -> o[key] = n[key]

\* What a module becomes has that name for good: no new name is also an
\* old one, and the new database has none under an old name.
NamesAreFinal ==
  LET renamed == DOMAIN renamed_modules \union DOMAIN merged_modules
  IN  /\ \A m \in DOMAIN renamed_modules: renamed_modules[m] \notin renamed
      /\ \A m \in DOMAIN merged_modules: merged_modules[m] \notin renamed
      /\ \A i \in Input: \A j \in DOMAIN i.new.models: i.new.models[j].module \notin renamed

-----------------------------------------------------------------------------
(* compare_sets and compare_xml_sets: the passes.                          *)

Passes == [fields |-> <<{"module", "mode", "model", "field", "type"},
                        {"module", "mode", "model", "field"},
                        {"mode", "model", "field", "type"},
                        {"module", "model", "field"},
                        {"mode", "model", "field"}>>,
           xmlids |-> <<{"module", "model", "name"},
                        {"model", "name"},
                        {"model", "suffix", "other_prefix"}>>]

Old == input.old[job]
New == input.new[job]

Models(records) == {records[i].model: i \in DOMAIN records}

\* clean_records, and the fields of models that are gone.
clean_records(records) == {i \in DOMAIN records: records[i].field \notin IgnoreField}
obsolete_models(o, n) == {m \in Models(o): m \notin Models(n) /\ model_map(m) \notin Models(n)}
non_obsolete(o, n) == {i \in clean_records(o): o[i].model \notin obsolete_models(o, n)}

\* match_updates: of external ids that are alike, those that a module wrote
\* for another one are left out, except when their model was renamed.
Updates(records, left) ==
  {i \in left: /\ records[i].module # records[i].prefix
               /\ \E j \in left: compare_records(records[j], records[i], {"model", "name"})}

Init == /\ input \in Input /\ write_files \in WriteFiles
        /\ job = "fields" /\ pass = 1
        /\ old = clean_records(input.old.fields) /\ new = clean_records(input.new.fields)
        /\ todo = non_obsolete(input.old.fields, input.new.fields)
        /\ lines = {} /\ told = {}

Comparing == job \in {"fields", "xmlids"} /\ pass <= Len(Passes[job])

Line(module, about, text) == [module |-> module, about |-> about, text |-> text]

\* fieldprint: a change of module is reported for both of them.
fieldprint(o, n, key, text) ==
  IF key = "module"
  THEN {Line(module_map(o.module), o.field, text), Line(module_map(n.module), o.field, "moved here")}
  ELSE {Line(module_map(n.module), o.field, text)}

\* report_generic: required counts in one direction, and a change of the
\* table of a relation is reported by its columns too.
report_generic(o, n, keys) ==
  UNION {fieldprint(o, n, k, k): k \in
    {k \in keys \ {"required"}: o[k] # n[k]}
      \union {k \in keys \intersect {"required"}: n.required /\ ~o.required}}

ReportedKeys == {"relation", "stored", "computed", "required"}

report_field(o, n) ==
  report_generic(o, n, ReportedKeys \union
    (IF "module" \in Passes.fields[pass] THEN {} ELSE {"module"}) \union
    (IF "type" \in Passes.fields[pass] THEN {} ELSE {"type"}))

\* A direct match is reported when its domain was deleted or its definition or
\* noupdate changed; one in another module is reported for both.
report_xmlid(o, n) ==
  IF pass = 1
  THEN IF \/ o.definition \notin {"", n.definition}
          \/ o.domain \notin {"", "[]"} /\ n.domain = ""
          \/ o.noupdate # n.noupdate
       THEN {Line(module_map(n.module), n.name, "changed")} ELSE {}
  ELSE LET how == IF pass = 2 THEN "moved" ELSE "renamed"
       IN  {Line(module_map(o.module), o.name, how), Line(module_map(n.module), n.name, how)}

report(o, n) == IF job = "fields" THEN report_field(o, n) ELSE report_xmlid(o, n)

Found(i, left) == {j \in left: compare_records(Old[i], New[j], Passes[job][pass])}

\* Mutant: the list is changed while it is walked through, which leaves out
\* the record after each match.
rest_Skips(i, matched) ==
  IF matched THEN {k \in todo: k > i + 1} ELSE todo \ {i}

rest(i, matched) == todo \ {i}

\* search: the next old record takes the first new one that is like it.
match(i) ==
  /\ Comparing /\ i \in todo /\ \A k \in todo: i <= k
  /\ LET found == Found(i, new)
     IN  IF found = {}
         THEN UNCHANGED <<old, new, lines>>
         ELSE /\ new' = new \ {Min(found)}
              /\ old' = old \ {i}
              /\ lines' = lines \union report(Old[i], New[Min(found)])
  /\ todo' = rest(i, Found(i, new) # {})
  /\ UNCHANGED <<input, write_files, job, pass, told>>

\* Between the first and the second pass over external ids the updates go.
NextPass ==
  /\ Comparing /\ todo = {}
  /\ pass' = pass + 1
  /\ LET updates == job = "xmlids" /\ pass = 1
         left == IF updates THEN old \ Updates(Old, old) ELSE old
     IN  /\ old' = left
         /\ new' = IF updates THEN new \ Updates(New, new) ELSE new
         /\ todo' = IF job = "fields" THEN left \intersect non_obsolete(Old, New) ELSE left
  /\ UNCHANGED <<input, write_files, job, lines, told>>

-----------------------------------------------------------------------------
(* What no pass matched.                                                   *)

\* Computed fields that are not stored do not matter.
Matters(r) == r.field # "_order" /\ (r.stored \/ ~r.computed)

report_fields ==
  /\ job = "fields" /\ ~Comparing
  /\ lines' = lines
       \union {Line(module_map(Old[i].module), Old[i].field, "DEL"):
                 i \in {k \in old: Matters(Old[k])}}
       \union {Line(module_map(New[j].module), New[j].field, "NEW"):
                 j \in {k \in new: Matters(New[k])}}
  /\ job' = "xmlids" /\ pass' = 1
  /\ old' = DOMAIN input.old.xmlids /\ new' = DOMAIN input.new.xmlids /\ todo' = old'
  /\ UNCHANGED <<input, write_files, told>>

report_xmlids ==
  /\ job = "xmlids" /\ ~Comparing
  /\ lines' = lines
       \union {Line(module_map(Old[i].module), Old[i].name, "DEL"): i \in old}
       \union {Line(module_map(New[j].module), New[j].name, "NEW"): j \in new}
  /\ job' = "models"
  /\ UNCHANGED <<input, write_files, pass, todo, old, new, told>>

\* Of a model with records in several modules the last one counts.
ModuleOf(records, model) == records[Max({i \in DOMAIN records: records[i].model = model})].module

\* compare_model_sets: what became of an old model ...
old_model(r) ==
  LET gone == r.model \notin Models(New)
      target == model_map(r.model)
      text == CASE gone /\ target \notin Models(New) -> "obsolete"
                [] gone /\ target \in Models(New) /\ model_merge_map(r.model) \in Models(New) -> "merged"
                [] gone /\ target \in Models(New) /\ model_merge_map(r.model) \notin Models(New) -> "renamed"
                [] ~gone /\ module_map(r.module) # ModuleOf(New, r.model) -> "moved"
                [] OTHER -> "same"
  IN  IF text = "same" THEN {}
      ELSE {Line(module_map(r.module), r.model, text)} \union
           (IF text = "moved" THEN {} ELSE {Line("general", r.model, text)})

\* ... and where a new one comes from.
new_model(r) ==
  LET known == r.model \in Models(Old)
      text == CASE ~known /\ inv_model_map(r.model) \notin Models(Old) -> "new"
                [] ~known /\ inv_model_map(r.model) \in Models(Old) -> "renamed from"
                [] known /\ r.module # module_map(ModuleOf(Old, r.model)) -> "moved from"
                [] OTHER -> "same"
  IN  IF text = "same" THEN {}
      ELSE {Line(r.module, r.model, text)} \union
           (IF text = "moved from" THEN {} ELSE {Line("general", r.model, text)})

compare_model_sets ==
  /\ job = "models"
  /\ lines' = lines \union (UNION {old_model(Old[i]): i \in DOMAIN Old})
                    \union (UNION {new_model(New[j]): j \in DOMAIN New})
  /\ job' = "output"
  /\ UNCHANGED <<input, write_files, pass, todo, old, new, told>>

-----------------------------------------------------------------------------
(* analyze: the lines of each module go to a file of its own or to the log *)

affected_modules == UNION {{d[k][i].module: i \in DOMAIN d[k]}:
                             k \in {"fields", "xmlids", "models"}, d \in {input.old, input.new}}

Keys == ({"general"} \union affected_modules) \ IgnoreModule

\* Mutant: a module that is not installed is skipped before its new name is
\* looked for.
In_log_Skips(key) == key = "general" \/ (key \in Installed /\ ~write_files)
                                    \/ (key \in Installed /\ key \in NotWritable)

\* The log has what is not about one module, what is about a module that is
\* not there, and what cannot be written to a file.
In_log(key) == \/ key = "general"
               \/ module_map(key) \notin Installed
               \/ key \in Installed /\ (~write_files \/ key \in NotWritable)
In_file(key) == /\ key # "general" /\ module_map(key) \in Installed
                /\ key \in Installed /\ write_files /\ key \notin NotWritable

analyze ==
  /\ job = "output"
  /\ told' = {l \in lines: l.module \in Keys /\ (In_log(l.module) \/ In_file(l.module))}
  /\ job' = "done"
  /\ UNCHANGED <<input, write_files, pass, todo, old, new, lines>>

Next == \/ \E i \in todo: match(i)
        \/ NextPass \/ report_fields \/ report_xmlids \/ compare_model_sets \/ analyze

Spec == Init /\ [][Next]_vars

-----------------------------------------------------------------------------
TypeOK == /\ input \in Input /\ write_files \in WriteFiles
          /\ job \in {"fields", "xmlids", "models", "output", "done"}
          /\ pass \in 1..6
          /\ todo \subseteq old
          /\ \A l \in lines: DOMAIN l = {"module", "about", "text"}
          /\ told \subseteq lines

\* When a comparison is over, no record that is called deleted and no record
\* that is called new are alike in the keys of any pass: whatever took the
\* first match in an earlier pass, nothing is reported both as gone and as new
\* (compare_sets, compare_xml_sets).  Fields of models that are gone do not count.
NothingLeftToMatch ==
  job \in {"fields", "xmlids"} /\ ~Comparing =>
    \A p \in DOMAIN Passes[job], j \in new:
      \A i \in IF job = "fields" THEN old \intersect non_obsolete(Old, New) ELSE old:
        ~compare_records(Old[i], New[j], Passes[job][p])

\* Each line about a module that has records in either database is in a file
\* or in the log when the analysis is done.
ChangesAreTold ==
  job = "done" => \A l \in lines: l.module \in Keys => l \in told
==============================================================================
