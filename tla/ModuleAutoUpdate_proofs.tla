----------------------- MODULE ModuleAutoUpdate_proofs -----------------------
(***************************************************************************)
(* Proofs about ModuleAutoUpdate, for any modules, dependencies and bounds,*)
(* when no files are deployed and no mark is cancelled during a run.       *)
(*                                                                         *)
(* The checksums are saved for the modules that are installed after the    *)
(* upgrade.  These were made by the files on disk because a run that has   *)
(* marked the changed modules leaves installed only modules that were not  *)
(* changed (RunLeavesUpgraded), and an unchanged checksum tells that the   *)
(* database is the right one, for marked modules too (SavedIsTrue): their  *)
(* mark may be cancelled between two runs.                                 *)
(***************************************************************************)
EXTENDS ModuleAutoUpdate, TLAPS

Undisturbed == "deploy" \notin Meanwhile /\ "cancel" \notin Meanwhile

SavedIsOld == \A m \in Module: saved[m] <= disk[m] /\ db[m] <= disk[m]

SavedIsTrue ==
  \A m \in Module: state[m] # "uninstalled" /\ saved[m] = disk[m] => db[m] = disk[m]

RunLeavesUpgraded == pc # "idle" => \A m \in Installed: db[m] = disk[m]

IInv == TypeOK /\ SavedIsOld /\ SavedIsTrue /\ RunLeavesUpgraded

-----------------------------------------------------------------------------
LEMMA InitInv == Init => IInv
BY UpdateParameters
   DEF Init, IInv, TypeOK, SavedIsOld, SavedIsTrue, RunLeavesUpgraded

LEMMA MarkType ==
  ASSUME TypeOK, NEW S
  PROVE  /\ button_upgrade(S) \in [Module -> {"uninstalled", "installed", "to upgrade"}]
         /\ \A m \in Module: /\ button_upgrade(S)[m] = "uninstalled" <=> state[m] = "uninstalled"
                             /\ button_upgrade(S)[m] = "installed" => state[m] = "installed" /\ m \notin S
BY DEF TypeOK, button_upgrade

-----------------------------------------------------------------------------
\* Deployments and users.
LEMMA OutsideInv ==
  ASSUME Undisturbed, IInv, NEW m \in Module,
         Deploy(m) \/ Install(m) \/ Uninstall(m) \/ MarkByHand(m) \/ button_upgrade_cancel(m)
  PROVE  IInv'
<1>0. asks' \in 0..MaxAsks
  <2>1. asks \in 0..MaxAsks /\ MaxAsks \in Nat
    BY UpdateParameters DEF IInv, TypeOK
  <2>2. asks < MaxAsks /\ asks' = asks + 1
    BY Zenon DEF Deploy, Install, Uninstall, MarkByHand, button_upgrade_cancel, May
  <2> QED BY <2>1, <2>2
<1>t. /\ disk \in [Module -> Nat \ {0}] /\ db \in [Module -> Nat] /\ saved \in [Module -> Nat]
      /\ state \in [Module -> {"uninstalled", "installed", "to upgrade"}]
      /\ \A n \in Module: saved[n] <= disk[n] /\ db[n] <= disk[n]
  BY DEF IInv, TypeOK, SavedIsOld
<1>n. \A n \in Module: /\ disk[n] \in Nat /\ disk[n] # 0 /\ db[n] \in Nat /\ saved[n] \in Nat
                       /\ saved[n] <= disk[n] /\ db[n] <= disk[n] /\ 0 <= disk[n]
                       /\ saved[n] # disk[n] + 1 /\ saved[n] <= disk[n] + 1 /\ db[n] <= disk[n] + 1
                       /\ disk[n] <= disk[n] /\ disk[n] + 1 \in Nat \ {0}
  <2> TAKE n \in Module
  <2>1. disk[n] \in Nat \ {0} /\ db[n] \in Nat /\ saved[n] \in Nat
    BY <1>t
  <2>2. saved[n] <= disk[n] /\ db[n] <= disk[n]
    BY <1>t
  <2> HIDE <1>t
  <2> QED BY <2>1, <2>2
<1>1. CASE Deploy(m)
  <2>1. pc = "idle"
    BY <1>1 DEF Deploy, May, Undisturbed
  <2>2. /\ UNCHANGED <<state, db, saved, pc, changed, faults>>
        /\ disk' = [disk EXCEPT ![m] = @ + 1]
    BY <1>1 DEF Deploy
  <2>3. /\ disk' \in [Module -> Nat \ {0}]
        /\ \A n \in Module: disk'[n] = IF n = m THEN disk[n] + 1 ELSE disk[n]
    BY <1>t, <1>n, <2>2
  <2>4. TypeOK'
    BY <1>0, <2>2, <2>3 DEF IInv, TypeOK
  <2>5. SavedIsOld'
    BY <1>n, <2>2, <2>3 DEF SavedIsOld
  <2>6. SavedIsTrue'
    <3> SUFFICES ASSUME NEW n \in Module, state'[n] # "uninstalled", saved'[n] = disk'[n]
                 PROVE  db'[n] = disk'[n]
      BY DEF SavedIsTrue
    <3>1. n # m
      BY <1>n, <2>2, <2>3
    <3> QED BY <2>2, <2>3, <3>1 DEF IInv, SavedIsTrue
  <2> QED BY <2>1, <2>2, <2>4, <2>5, <2>6 DEF IInv, RunLeavesUpgraded
<1>2. CASE Install(m)
  <2> DEFINE new == {n \in Module: state[n] = "uninstalled" /\ (n = m \/ <<m, n>> \in Depends)}
  <2>1. /\ state' = [n \in Module |-> IF n \in new THEN "installed" ELSE state[n]]
        /\ db' = [n \in Module |-> IF n \in new THEN disk[n] ELSE db[n]]
        /\ UNCHANGED <<disk, saved, pc, changed, faults>>
    BY <1>2 DEF Install
  <2> HIDE DEF new
  <2>2. TypeOK'
    BY <1>0, <1>t, <2>1 DEF IInv, TypeOK
  <2>3. SavedIsOld'
    BY <1>n, <2>1 DEF SavedIsOld
  <2>4. SavedIsTrue' /\ RunLeavesUpgraded'
    BY <2>1 DEF IInv, SavedIsTrue, RunLeavesUpgraded, Installed
  <2> QED BY <2>2, <2>3, <2>4 DEF IInv
<1>3. CASE Uninstall(m)
  <2> DEFINE gone == {n \in Module: n = m \/ <<n, m>> \in Depends}
  <2>1. /\ state' = [n \in Module |-> IF n \in gone THEN "uninstalled" ELSE state[n]]
        /\ db' = [n \in Module |-> IF n \in gone THEN 0 ELSE db[n]]
        /\ UNCHANGED <<disk, saved, pc, changed, faults>>
    BY <1>3 DEF Uninstall
  <2> HIDE DEF gone
  <2>2. TypeOK'
    BY <1>0, <1>t, <2>1 DEF IInv, TypeOK
  <2>3. SavedIsOld'
    BY <1>n, <2>1 DEF SavedIsOld
  <2>4. SavedIsTrue' /\ RunLeavesUpgraded'
    BY <2>1 DEF IInv, SavedIsTrue, RunLeavesUpgraded, Installed
  <2> QED BY <2>2, <2>3, <2>4 DEF IInv
<1>4. CASE MarkByHand(m)
  <2>1. TypeOK' /\ SavedIsOld'
    BY <1>0, <1>4, MarkType DEF MarkByHand, IInv, TypeOK, SavedIsOld
  <2>2. SavedIsTrue' /\ RunLeavesUpgraded'
    BY <1>4, MarkType DEF MarkByHand, IInv, SavedIsTrue, RunLeavesUpgraded, Installed
  <2> QED BY <2>1, <2>2 DEF IInv
<1>5. CASE button_upgrade_cancel(m)
  <2>1. pc = "idle"
    BY <1>5 DEF button_upgrade_cancel, May, Undisturbed
  <2>2. TypeOK' /\ SavedIsOld'
    BY <1>0, <1>5 DEF button_upgrade_cancel, IInv, TypeOK, SavedIsOld
  <2>3. SavedIsTrue' /\ RunLeavesUpgraded'
    BY <1>5, <1>t, <2>1 DEF button_upgrade_cancel, IInv, SavedIsTrue, RunLeavesUpgraded
  <2> QED BY <2>2, <2>3 DEF IInv
<1> QED BY <1>1, <1>2, <1>3, <1>4, <1>5

\* The steps of upgrade_changed_checksum.
LEMMA RunInv ==
  ASSUME IInv, Run \/ Crash
  PROVE  IInv'
<1>t. /\ disk \in [Module -> Nat \ {0}] /\ db \in [Module -> Nat] /\ saved \in [Module -> Nat]
      /\ state \in [Module -> {"uninstalled", "installed", "to upgrade"}]
      /\ \A n \in Module: saved[n] <= disk[n] /\ db[n] <= disk[n]
  BY DEF IInv, TypeOK, SavedIsOld
<1>n. \A n \in Module: /\ disk[n] \in Nat /\ disk[n] # 0 /\ db[n] \in Nat /\ saved[n] \in Nat
                       /\ saved[n] <= disk[n] /\ db[n] <= disk[n] /\ 0 <= disk[n]
                       /\ saved[n] # disk[n] + 1 /\ saved[n] <= disk[n] + 1 /\ db[n] <= disk[n] + 1
                       /\ disk[n] <= disk[n] /\ disk[n] + 1 \in Nat \ {0}
  <2> TAKE n \in Module
  <2>1. disk[n] \in Nat \ {0} /\ db[n] \in Nat /\ saved[n] \in Nat
    BY <1>t
  <2>2. saved[n] <= disk[n] /\ db[n] <= disk[n]
    BY <1>t
  <2> HIDE <1>t
  <2> QED BY <2>1, <2>2
<1>f. faults \in 0..MaxFaults /\ MaxFaults \in Nat
  BY UpdateParameters DEF IInv, TypeOK
<1>1. CASE NothingToDo
  BY <1>1 DEF NothingToDo, vars, IInv, TypeOK, SavedIsOld, SavedIsTrue, RunLeavesUpgraded, Installed
<1>2. CASE MarkChanged
  <2>1. WithChangedChecksum \subseteq Module
    BY DEF WithChangedChecksum, Installed
  <2>2. TypeOK' /\ SavedIsOld'
    BY <1>2, <2>1, MarkType DEF MarkChanged, IInv, TypeOK, SavedIsOld
  <2>3. SavedIsTrue'
    BY <1>2, MarkType DEF MarkChanged, IInv, SavedIsTrue
  <2>4. ASSUME NEW n \in Module, state'[n] = "installed" PROVE db'[n] = disk'[n]
    <3>1. state[n] = "installed" /\ n \notin WithChangedChecksum
      BY <1>2, <2>4, MarkType DEF MarkChanged, IInv
    <3> QED BY <1>2, <3>1 DEF WithChangedChecksum, Installed, MarkChanged, IInv, SavedIsTrue
  <2> QED BY <2>2, <2>3, <2>4 DEF IInv, RunLeavesUpgraded, Installed
<1>3. CASE ensure_module_state
  BY <1>3 DEF ensure_module_state, Stop, IInv, TypeOK, SavedIsOld, SavedIsTrue,
              RunLeavesUpgraded, Installed
<1>4. ASSUME NEW n \in Module, UpgradeModule(n) PROVE IInv'
  <2>1. /\ state' = [state EXCEPT ![n] = "installed"]
        /\ db' = [db EXCEPT ![n] = disk[n]]
        /\ UNCHANGED <<disk, saved, pc, changed, faults, asks>>
    BY <1>4 DEF UpgradeModule
  <2>2. TypeOK'
    BY <1>t, <2>1 DEF IInv, TypeOK
  <2>3. SavedIsOld'
    BY <1>n, <2>1 DEF SavedIsOld
  <2>4. SavedIsTrue' /\ RunLeavesUpgraded'
    BY <1>t, <2>1 DEF IInv, SavedIsTrue, RunLeavesUpgraded, Installed
  <2> QED BY <2>2, <2>3, <2>4 DEF IInv
<1>5. CASE EndUpgrade
  <2>1. /\ pc = "upgrading" /\ pc' = "upgraded"
        /\ UNCHANGED <<disk, state, db, saved, changed, asks>>
        /\ faults' = faults \/ (faults < MaxFaults /\ faults' = faults + 1)
    BY <1>5 DEF EndUpgrade
  <2>2. faults' \in 0..MaxFaults
    BY <1>f, <2>1
  <2> QED BY <2>1, <2>2 DEF IInv, TypeOK, SavedIsOld, SavedIsTrue, RunLeavesUpgraded, Installed
<1>6. CASE save_installed_checksums
  <2>1. /\ pc = "upgraded" /\ pc' = "saved"
        /\ saved' = [m \in Module |-> IF m \in Installed THEN disk[m] ELSE 0]
        /\ UNCHANGED <<disk, state, db, changed, faults, asks>>
    BY <1>6 DEF save_installed_checksums
  <2>2. TypeOK'
    BY <1>t, <2>1 DEF IInv, TypeOK
  <2>3. SavedIsOld'
    BY <1>n, <2>1 DEF SavedIsOld
  <2>4. SavedIsTrue' /\ RunLeavesUpgraded'
    BY <1>t, <2>1 DEF IInv, SavedIsTrue, RunLeavesUpgraded, Installed
  <2> QED BY <2>2, <2>3, <2>4 DEF IInv
<1>7. CASE Complete \/ IncompleteUpgradeError
  BY <1>7 DEF Complete, IncompleteUpgradeError, Stop, IInv, TypeOK, SavedIsOld, SavedIsTrue,
              RunLeavesUpgraded
<1>8. CASE Crash
  <2>1. /\ pc' = "idle" /\ changed' = {}
        /\ UNCHANGED <<disk, state, db, saved, asks>>
        /\ faults < MaxFaults /\ faults' = faults + 1
    BY <1>8 DEF Crash, Stop
  <2>2. faults' \in 0..MaxFaults
    BY <1>f, <2>1
  <2> QED BY <2>1, <2>2 DEF IInv, TypeOK, SavedIsOld, SavedIsTrue, RunLeavesUpgraded
<1> QED BY <1>1, <1>2, <1>3, <1>4, <1>5, <1>6, <1>7, <1>8 DEF Run

LEMMA StepInv ==
  ASSUME Undisturbed, IInv, [Next]_vars PROVE IInv'
<1>1. CASE UNCHANGED vars
  BY <1>1 DEF vars, IInv, TypeOK, SavedIsOld, SavedIsTrue, RunLeavesUpgraded, Installed
<1> QED BY <1>1, OutsideInv, RunInv DEF Next

LEMMA Invariance == ASSUME Undisturbed PROVE Spec => []IInv
<1>1. IInv /\ [Next]_vars => IInv'
  BY StepInv
<1> QED BY <1>1, InitInv, PTL DEF Spec

-----------------------------------------------------------------------------
\* The variables keep their types.
THEOREM UpdateTypeCorrect == ASSUME Undisturbed PROVE Spec => []TypeOK
<1>1. IInv => TypeOK
  BY DEF IInv
<1> QED BY <1>1, Invariance, PTL

\* A checksum is only saved for files the database was made by: no change is
\* ever skipped (_save_installed_checksums, _get_modules_with_changed_checksum).
THEOREM NoChangeIsSkipped == ASSUME Undisturbed PROVE Spec => []SavedIsUpgraded
<1>1. IInv => SavedIsUpgraded
  BY DEF IInv, SavedIsTrue, SavedIsUpgraded, Installed
<1> QED BY <1>1, Invariance, PTL

\* Success is only announced when every installed module is up to date.
THEOREM CompleteIsTrue == ASSUME Undisturbed PROVE Spec => CompleteMeansUpgraded
<1>1. IInv => [Complete => \A m \in Installed: db[m] = disk[m]]_vars
  BY DEF IInv, RunLeavesUpgraded, Complete
<1> QED BY <1>1, Invariance, PTL DEF CompleteMeansUpgraded
==============================================================================
