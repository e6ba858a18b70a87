---------------------------- MODULE UpgradeNoupdate ----------------------------
(***************************************************************************)
(* upgrade_analysis, what analyze does last: per module a file with the    *)
(* changes to noupdate records, which an upgrade does not load by itself,  *)
(* and a file that tells what became of each module.                       *)
(***************************************************************************)
EXTENDS Sequences, SequencesExt

CONSTANTS Analysis,        \* what to analyse: see UpgradeNoupdateParameters
          renamed_modules, merged_modules, \* apriori: old names to new names
          ModelField,      \* fields that the models have in the new version
          Ignored          \* modules left out of the coverage file

\* The modules of the old and of the new version in order, and the records of
\* their data files: an id with the module it names or "", the noupdate flag
\* of its data node, its tag and the nodes inside it.
UpgradeNoupdateParameters ==
  \A a \in Analysis:
    /\ DOMAIN a = {"remote", "local", "unchanged"}
    /\ \A s \in {a.remote, a.local}: \A i \in DOMAIN s:
         DOMAIN s[i] = {"module", "records"} /\
         \A j \in DOMAIN s[i].records:
            DOMAIN s[i].records[j] = {"id", "noupdate", "tag", "values"}

VARIABLES analysis, \* what is analysed, never changed
          left,     \* modules of the new version left to do
          changes,  \* noupdate_changes.xml: per module, record and node
          failed,   \* the log has an error about the noupdate changes
          coverage  \* what the coverage file says of each module

vars == <<analysis, left, changes, failed, coverage>>

Names(modules) == {modules[i].module: i \in DOMAIN modules}
RecordsOf(modules, m) == modules[CHOOSE i \in DOMAIN modules: modules[i].module = m].records

Init == /\ analysis \in Analysis
        /\ left = [i \in DOMAIN analysis.local |-> analysis.local[i].module]
        /\ changes = [m \in {} |-> ""]
        /\ failed = FALSE
        /\ coverage = [m \in {} |-> ""]

-----------------------------------------------------------------------------
(* _parse_files.                                                           *)

Nothing == [update |-> [x \in {} |-> ""], noupdate |-> [x \in {} |-> ""]]

\* Functions as dictionaries: what g has replaces what f has (dict.update).
Over(f, g) == [x \in DOMAIN f \union DOMAIN g |-> IF x \in DOMAIN g THEN g[x] ELSE f[x]]

\* An id that names its own module stands without it.
Local(id, module) == IF id[1] = module THEN <<"", id[2]>> ELSE id

\* A record that occurs again, with another flag or not, is merged into the
\* first one, node by node (_update_node).
process_record_node(records, r, module) ==
  LET id == Local(r.id, module)
      kind == CASE id \in DOMAIN records.noupdate -> "noupdate"
                [] id \in DOMAIN records.update \ DOMAIN records.noupdate -> "update"
                [] OTHER -> "none"
      merged == [records[kind][id] EXCEPT !.values = Over(@, r.values)]
      fresh == IF r.noupdate THEN "noupdate" ELSE "update"
  IN  IF kind # "none"
      THEN [records EXCEPT ![kind] = Over(@, [x \in {id} |-> merged])]
      ELSE [records EXCEPT ![fresh] =
              Over(@, [x \in {id} |-> [tag |-> r.tag, values |-> r.values]])]

parse_files(files, module) ==
  FoldLeft(LAMBDA records, r: process_record_node(records, r, module), Nothing, files)

\* The files of the old modules that became this one are parsed again and
\* again, each time with those of one more module.
remote_records(m) ==
  LET Becomes(o) == IF o \in DOMAIN renamed_modules THEN renamed_modules[o]
                    ELSE IF o \in DOMAIN merged_modules THEN merged_modules[o] ELSE o
      sources == SelectSeq(analysis.remote, LAMBDA s: Becomes(s.module) = m)
      Add(acc, s) ==
        LET files == acc.files \o s.records
            more == parse_files(files, s.module)
        IN  [files |-> files, update |-> Over(acc.update, more.update),
             noupdate |-> Over(acc.noupdate, more.noupdate)]
  IN  FoldLeft(Add, [files |-> <<>>, update |-> Nothing.update, noupdate |-> Nothing.noupdate],
               sources)

HasRemote(m) ==
  \E o \in Names(analysis.remote):
     \/ o \in DOMAIN renamed_modules /\ renamed_modules[o] = m
     \/ o \notin DOMAIN renamed_modules /\ o \in DOMAIN merged_modules /\ merged_modules[o] = m
     \/ o \notin DOMAIN renamed_modules \union DOMAIN merged_modules /\ o = m

-----------------------------------------------------------------------------
(* _get_xml_diff.                                                          *)

Known(remote, id) == id \in DOMAIN remote.noupdate \union DOMAIN remote.update
Was(remote, id) == IF id \in DOMAIN remote.noupdate THEN remote.noupdate[id] ELSE remote.update[id]

\* A new template of another module has nothing to compare with: an error.
Breaks(remote, here) ==
  \E id \in DOMAIN here.noupdate:
     ~Known(remote, id) /\ id[1] # "" /\ here.noupdate[id].tag = "template"

\* Mutant: nodes that are gone are not emptied.
RecordDiff_KeepsGone(was, now) ==
  [k \in {x \in DOMAIN now: x \notin DOMAIN was \/ was[x] # now[x]} |-> now[k]]

\* Nodes that changed or are new, and empty nodes for fields that exist still
\* but are not set any more.
RecordDiff(was, now) ==
  LET gone == (DOMAIN was \ DOMAIN now) \intersect ModelField
      changed == {k \in DOMAIN now: k \notin DOMAIN was \/ was[k] # now[k]}
  IN  [k \in gone \union changed |-> IF k \in gone THEN "" ELSE now[k]]

Diff(remote, here, id) ==
  LET now == here.noupdate[id]
      was == IF Known(remote, id) THEN Was(remote, id).values ELSE [k \in {} |-> ""]
  IN  IF now.tag = "template" THEN (IF was # now.values THEN now.values ELSE [k \in {} |-> ""])
      ELSE RecordDiff(was, now.values)

\* Records that are new in their own module are loaded anyway.
get_xml_diff(remote, here) ==
  LET compared == {id \in DOMAIN here.noupdate: Known(remote, id) \/ id[1] # ""}
      Differs(id) == DOMAIN Diff(remote, here, id) # {}
  IN  [id \in {x \in compared: Differs(x)} |-> Diff(remote, here, id)]

generate_noupdate_changes ==
  /\ left # <<>> /\ ~failed
  /\ LET m == Head(left)
         remote == remote_records(m)
         here == parse_files(RecordsOf(analysis.local, m), m)
         broken == HasRemote(m) /\ Breaks(remote, here)
         diff == get_xml_diff(remote, here)
     IN  /\ failed' = broken
         /\ changes' = IF broken \/ ~HasRemote(m) \/ DOMAIN diff = {} THEN changes
                       ELSE Over(changes, [x \in {m} |-> diff])
  /\ left' = Tail(left)
  /\ UNCHANGED <<analysis, coverage>>

-----------------------------------------------------------------------------
(* generate_module_coverage_file, whether the changes failed or not.       *)

Presence(m) ==
  CASE m \notin Names(analysis.remote) -> "new"
    [] m \notin Names(analysis.local) -> "del"
    [] OTHER -> "both"

Status(m) ==
  LET old == Presence(m) # "new"
  IN  CASE old /\ m \in DOMAIN merged_modules -> <<"merged", merged_modules[m]>>
        [] old /\ m \in DOMAIN renamed_modules \ DOMAIN merged_modules ->
             <<"renamed to", renamed_modules[m]>>
        [] ~(old /\ m \in DOMAIN merged_modules \union DOMAIN renamed_modules)
             /\ \E o \in DOMAIN renamed_modules: renamed_modules[o] = m ->
             <<"renamed from", CHOOSE o \in DOMAIN renamed_modules: renamed_modules[o] = m>>
        [] OTHER -> IF m \in analysis.unchanged THEN <<"no changes", "">> ELSE <<"", "">>

generate_module_coverage_file ==
  /\ left = <<>> \/ failed
  /\ coverage = [m \in {} |-> ""]
  /\ coverage' = [m \in (Names(analysis.remote) \union Names(analysis.local)) \ Ignored |->
                    <<Presence(m), Status(m)>>]
  /\ UNCHANGED <<analysis, left, changes, failed>>

Next == generate_noupdate_changes \/ generate_module_coverage_file

Spec == Init /\ [][Next]_vars

-----------------------------------------------------------------------------
TypeOK == /\ analysis \in Analysis
          /\ \A i \in DOMAIN left: left[i] \in Names(analysis.local)
          /\ DOMAIN changes \subseteq Names(analysis.local)
          /\ failed \in BOOLEAN
          /\ DOMAIN coverage \subseteq Names(analysis.remote) \union Names(analysis.local)

\* What load_data makes of a record: the nodes of the file, over its own.
Loaded(m, id, was) ==
  IF m \in DOMAIN changes /\ id \in DOMAIN changes[m] THEN Over(was, changes[m][id]) ELSE was

\* Loading the file of a module brings every noupdate record that was there up
\* to date: each field the models still have gets what the new files say, or
\* nothing when they do not say anything (_get_xml_diff).  A module that is
\* done and the error in the log of the analysis are the only two outcomes.
ChangesBringUpToDate ==
  \A m \in Names(analysis.local):
    ~failed /\ HasRemote(m) /\ ~Contains(left, m) =>
      LET remote == remote_records(m)
          here == parse_files(RecordsOf(analysis.local, m), m)
      IN  \A id \in DOMAIN here.noupdate:
            Known(remote, id) /\ here.noupdate[id].tag = "record" =>
              LET was == Was(remote, id).values
                  is == Loaded(m, id, was)
                  Get(f, k) == IF k \in DOMAIN f THEN f[k] ELSE ""
              IN  \A k \in ModelField: Get(is, k) = Get(here.noupdate[id].values, k)
==============================================================================
