--------------------------- MODULE ModuleAutoUpdate ---------------------------
(***************************************************************************)
(* module_auto_update: upgrade_changed_checksum upgrades the installed     *)
(* modules whose files differ from the saved checksums, in steps that      *)
(* commit (mark, upgrade module by module, save checksums), so that it can *)
(* die, fail, or be overtaken by users and deployments in between.         *)
(*                                                                         *)
(* A version stands for the files of a module and their checksum: each     *)
(* deployment brings files that were never seen before.                    *)
(***************************************************************************)
EXTENDS Naturals

CONSTANTS Module,
          Depends,   \* <<m, n>>: m needs n, directly or not
          Meanwhile, \* what others may do during a run
          MaxFaults, \* bound: crashes and failed upgrades
          MaxAsks    \* bound: deployments and what users do

ASSUME UpdateParameters ==
  /\ Depends \subseteq Module \X Module
  /\ \A l, m, n \in Module: <<l, m>> \in Depends /\ <<m, n>> \in Depends => <<l, n>> \in Depends
  /\ \A m \in Module: <<m, m>> \notin Depends
  /\ Meanwhile \subseteq {"deploy", "mark", "cancel", "install", "uninstall"}
  /\ MaxFaults \in Nat
  /\ MaxAsks \in Nat

VARIABLES disk,    \* the version of a module's files
          state,   \* committed ir_module_module.state
          db,      \* the version the database of a module was made by, or 0
          saved,   \* committed module_auto_update.installed_checksums, or 0
          pc,      \* where the run of upgrade_changed_checksum is
          changed, \* the modules this run found changed
          faults, asks

vars == <<disk, state, db, saved, pc, changed, faults, asks>>

Installed == {m \in Module: state[m] = "installed"}
Partial == {m \in Module: state[m] = "to upgrade"}

TypeOK ==
  /\ disk \in [Module -> Nat \ {0}]
  /\ state \in [Module -> {"uninstalled", "installed", "to upgrade"}]
  /\ db \in [Module -> Nat]
  /\ saved \in [Module -> Nat]
  /\ pc \in {"idle", "marked", "upgrading", "upgraded", "saved"}
  /\ changed \in SUBSET Module
  /\ faults \in 0..MaxFaults
  /\ asks \in 0..MaxAsks

Init == /\ disk = [m \in Module |-> 1]
        /\ state = [m \in Module |-> "uninstalled"]
        /\ db = [m \in Module |-> 0]
        /\ saved = [m \in Module |-> 0]
        /\ pc = "idle"
        /\ changed = {}
        /\ faults = 0
        /\ asks = 0

-----------------------------------------------------------------------------
(* Deployments and users.                                                  *)

May(what) == /\ pc = "idle" \/ what \in Meanwhile
             /\ asks < MaxAsks
             /\ asks' = asks + 1

Deploy(m) ==
  /\ May("deploy")
  /\ disk' = [disk EXCEPT ![m] = @ + 1]
  /\ UNCHANGED <<state, db, saved, pc, changed, faults>>

\* A module and what it needs, as the Apps menu installs them.
Install(m) ==
  /\ May("install")
  /\ LET new == {n \in Module: state[n] = "uninstalled" /\ (n = m \/ <<m, n>> \in Depends)}
     IN  /\ m \in new
         /\ state' = [n \in Module |-> IF n \in new THEN "installed" ELSE state[n]]
         /\ db' = [n \in Module |-> IF n \in new THEN disk[n] ELSE db[n]]
  /\ UNCHANGED <<disk, saved, pc, changed, faults>>

\* A module and what needs it.
Uninstall(m) ==
  /\ May("uninstall")
  /\ state[m] = "installed"
  /\ LET gone == {n \in Module: n = m \/ <<n, m>> \in Depends}
     IN  /\ state' = [n \in Module |-> IF n \in gone THEN "uninstalled" ELSE state[n]]
         /\ db' = [n \in Module |-> IF n \in gone THEN 0 ELSE db[n]]
  /\ UNCHANGED <<disk, saved, pc, changed, faults>>

\* The modules of S and the installed ones that need them.
button_upgrade(S) ==
  [n \in Module |-> IF state[n] = "installed" /\ \E m \in S: n = m \/ <<n, m>> \in Depends
                    THEN "to upgrade" ELSE state[n]]

MarkByHand(m) ==
  /\ May("mark")
  /\ state[m] = "installed"
  /\ state' = button_upgrade({m})
  /\ UNCHANGED <<disk, db, saved, pc, changed, faults>>

button_upgrade_cancel(m) ==
  /\ May("cancel")
  /\ state[m] = "to upgrade"
  /\ state' = [state EXCEPT ![m] = "installed"]
  /\ UNCHANGED <<disk, db, saved, pc, changed, faults>>

-----------------------------------------------------------------------------
(* upgrade_changed_checksum.                                               *)

\* Mutant: a module without a saved checksum is not changed.
WithChangedChecksum_Saved == {m \in Installed: saved[m] # 0 /\ saved[m] # disk[m]}

WithChangedChecksum == {m \in Installed: saved[m] # disk[m]}

NothingToDo ==
  /\ pc = "idle"
  /\ WithChangedChecksum = {}
  /\ Partial = {}
  /\ UNCHANGED vars

\* Mark the changed modules, and commit.
MarkChanged ==
  /\ pc = "idle"
  /\ WithChangedChecksum # {} \/ Partial # {}
  /\ state' = button_upgrade(WithChangedChecksum)
  /\ changed' = WithChangedChecksum
  /\ pc' = "marked"
  /\ UNCHANGED <<disk, db, saved, faults, asks>>

Stop == pc' = "idle" /\ changed' = {}

ensure_module_state ==
  /\ pc = "marked"
  /\ IF \A m \in changed: state[m] = "to upgrade"
     THEN pc' = "upgrading" /\ UNCHANGED changed
     ELSE Stop
  /\ UNCHANGED <<disk, state, db, saved, faults, asks>>

\* Each module is upgraded and committed after those it needs.
UpgradeModule(m) ==
  /\ pc = "upgrading"
  /\ m \in Partial
  /\ \A n \in Module: <<m, n>> \in Depends => n \notin Partial
  /\ state' = [state EXCEPT ![m] = "installed"]
  /\ db' = [db EXCEPT ![m] = disk[m]]
  /\ UNCHANGED <<disk, saved, pc, changed, faults, asks>>

\* Odoo skips a module it cannot load, without an error, and those that need it.
EndUpgrade ==
  /\ pc = "upgrading"
  /\ \/ Partial = {} /\ UNCHANGED faults
     \/ faults < MaxFaults /\ faults' = faults + 1
  /\ pc' = "upgraded"
  /\ UNCHANGED <<disk, state, db, saved, changed, asks>>

\* Mutant: the modules that are not installed are dropped from the parameter.
save_installed_checksums_Raw ==
  /\ pc = "upgraded"
  /\ saved' = [m \in Installed |-> disk[m]]
  /\ pc' = "saved"
  /\ UNCHANGED <<disk, state, db, changed, faults, asks>>

\* Mutant: the checksums of the modules that are still marked are saved too.
save_installed_checksums_All ==
  /\ pc = "upgraded"
  /\ saved' = [m \in Module |-> IF state[m] # "uninstalled" THEN disk[m] ELSE 0]
  /\ pc' = "saved"
  /\ UNCHANGED <<disk, state, db, changed, faults, asks>>

\* The parameter is replaced: modules that are not installed are dropped.
save_installed_checksums ==
  /\ pc = "upgraded"
  /\ saved' = [m \in Module |-> IF m \in Installed THEN disk[m] ELSE 0]
  /\ pc' = "saved"
  /\ UNCHANGED <<disk, state, db, changed, faults, asks>>

Complete == pc = "saved" /\ Partial = {} /\ Stop
            /\ UNCHANGED <<disk, state, db, saved, faults, asks>>

IncompleteUpgradeError == pc = "saved" /\ Partial # {} /\ Stop
                          /\ UNCHANGED <<disk, state, db, saved, faults, asks>>

\* The process dies, or an upgrade raises.
Crash == /\ pc # "idle"
         /\ faults < MaxFaults
         /\ faults' = faults + 1
         /\ Stop
         /\ UNCHANGED <<disk, state, db, saved, asks>>

Run == \/ NothingToDo \/ MarkChanged \/ ensure_module_state
       \/ \E m \in Module: UpgradeModule(m)
       \/ EndUpgrade \/ save_installed_checksums \/ Complete \/ IncompleteUpgradeError

Next == \/ Run \/ Crash
        \/ \E m \in Module: \/ Deploy(m) \/ Install(m) \/ Uninstall(m)
                            \/ MarkByHand(m) \/ button_upgrade_cancel(m)

Spec == Init /\ [][Next]_vars
\* The method is called again until it has nothing to do.
FairSpec == Spec /\ WF_vars(Run)

-----------------------------------------------------------------------------
\* "all installed modules for which the hash has changed since the last
\* successful run": a checksum is only saved for files the database was made
\* by, so that no change is ever skipped.
SavedIsUpgraded == \A m \in Installed: saved[m] = disk[m] => db[m] = disk[m]

\* "Checksum upgrade complete." is only said when the database of every
\* installed module was made by the files on disk, whatever failed before,
\* was half done by a run that died, or was marked by hand.
CompleteMeansUpgraded == [][Complete => \A m \in Installed: db[m] = disk[m]]_vars

\* A module is eventually upgraded to the files on disk.
ChangesAreUpgraded ==
  \A m \in Module: m \in Installed /\ db[m] # disk[m] ~> db[m] = disk[m] \/ db[m] = 0
==============================================================================
