---------------------------- MODULE UpgradeRecords ----------------------------
(***************************************************************************)
(* upgrade_analysis, first half: the wizard that fills upgrade_record.     *)
(* All modules are initialised again in a patched registry; after each one *)
(* what it changed in the models is recorded under its name.               *)
(***************************************************************************)
EXTENDS Naturals, FiniteSets, FiniteSetsExt

CONSTANTS N,           \* modules, numbered in the order they are loaded
          Field, Attr, \* fields of models and their properties
          Value, Empty, \* values; an empty one makes no property
          Definition,  \* what a module may set: properties of fields
          XmlId,       \* external ids
          MaxSteps     \* bound: generations, installations and failures

Module == 1..N
Property == Field \X Attr

UpgradeRecordsParameters ==
  /\ N \in Nat
  /\ Definition \subseteq UNION {[P -> Value]: P \in SUBSET Property}
  /\ Empty \in Value
  /\ MaxSteps \in Nat

VARIABLES defs,   \* the code of each module: properties it sets, ids it loads
          state,  \* state of each module (ir.module.module)
          imd,    \* external ids that exist (ir.model.data)
          record, \* upgrade_record: properties per module and field, ids per module
          upg,    \* _upgrade_registry of the thread that runs the wizard
          phase,  \* where the wizard is
          covered, \* modules that the last complete generation went through
          steps

vars == <<defs, state, imd, record, upg, phase, covered, steps>>

Modes == {"create", "modify"}
NoRecord == [fields |-> {}, xmlids |-> {}]
Nothing == [p \in {} |-> Empty]

Init == /\ defs \in [Module -> [sets: Definition, loads: SUBSET XmlId]]
        /\ state \in [Module -> {"installed", "uninstalled"}]
        /\ imd = {x \in XmlId: \E m \in Module: state[m] = "installed" /\ x \in defs[m].loads}
        /\ record = NoRecord
        /\ upg = Nothing
        /\ phase = "idle"
        /\ covered = {}
        /\ steps = 0

TypeOK ==
  /\ defs \in [Module -> [sets: Definition, loads: SUBSET XmlId]]
  /\ state \in [Module -> {"installed", "uninstalled", "to install"}]
  /\ imd \subseteq XmlId
  /\ \A r \in record.fields: /\ r.module \in Module /\ r.field \in Field /\ r.mode \in Modes
                             /\ r.attr \in Attr /\ r.value \in Value \ {Empty}
  /\ record.xmlids \subseteq [module: Module, xmlid: XmlId]
  /\ upg \in UNION {[P -> Value]: P \in SUBSET Property}
  /\ phase \in {"idle", "loading", "loaded"}
  /\ covered \subseteq Module
  /\ steps \in 0..MaxSteps

Loaded == {m \in Module: state[m] = "installed"}
ToLoad == {m \in Module: state[m] = "to install"}

-----------------------------------------------------------------------------
(* upgrade_log.                                                            *)

\* The models in memory when the modules of S are loaded: of a property that
\* several set, the last one counts.  log_model keeps what is not empty.
log_model(S) ==
  LET setters(p) == {m \in S: p \in DOMAIN defs[m].sets}
      value(p) == defs[Max(setters(p))].sets[p]
  IN  [p \in {q \in Property: setters(q) # {} /\ value(q) # Empty} |-> value(p)]

\* Mutant: only properties that are new are recorded.
changed_NewOnly(local) == DOMAIN local \ DOMAIN upg

changed(local) == {p \in DOMAIN local: p \notin DOMAIN upg \/ upg[p] # local[p]}

\* One record per field that changed, and one attribute per property.
compare_registries(m, local) ==
  {[module |-> m, field |-> p[1], attr |-> p[2], value |-> local[p],
    mode |-> IF \E a \in Attr: <<p[1], a>> \in DOMAIN upg THEN "modify" ELSE "create"]:
     p \in changed(local)}

\* An id is logged before its record is loaded: only one that exists counts.
log_xml_id(m) == [module: {m}, xmlid: defs[m].loads \intersect imd]

-----------------------------------------------------------------------------
(* GenerateWizard.generate.                                                *)

Spend == steps < MaxSteps /\ steps' = steps + 1

\* The error about modules to install takes the truncation back.
generate ==
  /\ phase = "idle" /\ ToLoad = {}
  /\ Spend
  /\ record' = NoRecord
  /\ state' = [m \in Module |-> IF m \in Loaded THEN "to install" ELSE state[m]]
  /\ phase' = "loading"
  /\ upg' = Nothing
  /\ covered' = {}
  /\ UNCHANGED <<defs, imd>>

\* init_models logs the models before it makes them; the data follows, and
\* the module is committed.
init_models(m) ==
  /\ phase = "loading" /\ m \in ToLoad /\ \A o \in ToLoad: m <= o
  /\ LET local == log_model(Loaded \union {m})
     IN  /\ record' = [fields |-> record.fields \union compare_registries(m, local),
                       xmlids |-> record.xmlids \union log_xml_id(m)]
         /\ upg' = [p \in DOMAIN upg \union DOMAIN local |->
                      IF p \in DOMAIN local THEN local[p] ELSE upg[p]]
  /\ imd' = imd \union defs[m].loads
  /\ state' = [state EXCEPT ![m] = "installed"]
  /\ UNCHANGED <<defs, phase, covered, steps>>

RegistryLoaded ==
  /\ phase = "loading" /\ ToLoad = {}
  /\ phase' = "loaded"
  /\ UNCHANGED <<defs, state, imd, record, upg, covered, steps>>

\* The domains, definitions, noupdate flags and models are added, the wizard
\* is done and the request commits.
Done ==
  /\ phase = "loaded"
  /\ phase' = "idle"
  /\ upg' = Nothing
  /\ covered' = Loaded
  /\ UNCHANGED <<defs, state, imd, record, steps>>

\* A module cannot be loaded, or the process dies.
Fails ==
  /\ phase # "idle"
  /\ Spend
  /\ phase' = "idle"
  /\ upg' = Nothing
  /\ UNCHANGED <<defs, state, imd, record, covered>>

\* UpgradeInstallWizard.install_modules loads what is to be installed, the
\* rest of a generation that failed included; nothing is recorded.
install_modules(S) ==
  /\ phase = "idle"
  /\ S \subseteq {m \in Module: state[m] = "uninstalled"}
  /\ Spend
  /\ state' = [m \in Module |-> IF m \in S \union ToLoad THEN "installed" ELSE state[m]]
  /\ imd' = imd \union UNION {defs[m].loads: m \in S \union ToLoad}
  /\ UNCHANGED <<defs, record, upg, phase, covered>>

Next == \/ generate \/ RegistryLoaded \/ Done \/ Fails
        \/ \E m \in Module: init_models(m)
        \/ \E S \in SUBSET Module: install_modules(S)

Spec == Init /\ [][Next]_vars

-----------------------------------------------------------------------------
\* What the records say of a property: field_dump, in the order of modules.
Told(p) == {r \in record.fields: r.field = p[1] /\ r.attr = p[2]}
Last(S) == CHOOSE r \in S: \A o \in S: o.module <= r.module

\* After a complete generation the records tell the models of the modules it
\* covered: of each property the last record has the value it has in memory,
\* each field is created once, by the first module that has it, and an id is
\* recorded under every module that loads it (generate, compare_registries,
\* log_xml_id).  A failure in between leaves no generation that looks complete.
RecordsTellModels ==
  covered # {} =>
    /\ LET memory == log_model(covered)
       IN  \A p \in DOMAIN memory: Told(p) # {} /\ Last(Told(p)).value = memory[p]
    /\ \A r, o \in record.fields:
          r.field = o.field /\ r.mode = "create" /\ o.module # r.module
            => o.mode = "modify" /\ o.module > r.module
    /\ \A m \in covered: \A x \in defs[m].loads: [module |-> m, xmlid |-> x] \in record.xmlids
==============================================================================
