-------------------------------- MODULE Vacuum --------------------------------
(***************************************************************************)
(* autovacuum_message_attachment: a scheduled action deletes the messages  *)
(* or attachments that its rules select, in batches that are committed one *)
(* by one on a cursor of their own.  The rules are evaluated one after the *)
(* other, in the transaction of the action, which does not see what the    *)
(* batches and others delete.                                              *)
(***************************************************************************)
EXTENDS Naturals, Sequences, FiniteSets

CONSTANTS Record,     \* numbered, found from the last to the first
          Born,       \* the day on which each is created
          Rules,      \* [fits, filter, retention], in the order of the search
          CanBeStuck, \* the sets of records that cannot be deleted
          CanBeBroken, \* the sets of rules, by place, whose search raises
          BatchSize,  \* 1000
          MaxDay, MaxFaults \* bounds: days, processes that die

VacuumParameters ==
  /\ Record \subseteq Nat /\ Born \in [Record -> Nat]
  /\ Rules \in Seq({Rules[i]: i \in DOMAIN Rules})
  /\ \A i \in DOMAIN Rules: /\ Rules[i].fits \subseteq Record /\ Rules[i].filter \in BOOLEAN
                            /\ Rules[i].retention \in Nat \ {0}
  /\ BatchSize \in Nat \ {0} /\ MaxDay \in Nat /\ MaxFaults \in Nat

VARIABLES day,
          db,     \* the records that exist
          passes, \* those of documents that pass the filter of a rule
          stuck, broken, \* never changed
          run,    \* the scheduled action
          faults

vars == <<day, db, passes, stuck, broken, run, faults>>

\* seen and passed are the snapshot of the run, rules those left, and todo the
\* records to delete for the current one.
NoRun == [on |-> FALSE, seen |-> {}, passed |-> {}, rules |-> <<>>, todo |-> {}]

TypeOK ==
  /\ day \in 0..MaxDay /\ db \subseteq Record /\ passes \subseteq Record /\ stuck \in CanBeStuck /\ broken \in CanBeBroken
  /\ run.seen \subseteq Record /\ run.passed \subseteq Record /\ run.todo \subseteq run.seen
  /\ faults \in 0..MaxFaults

Init == /\ day = 0 /\ db = {i \in Record: Born[i] = 0}
        /\ passes = {} /\ stuck \in CanBeStuck /\ broken \in CanBeBroken
        /\ run = NoRun /\ faults = 0

-----------------------------------------------------------------------------
\* Mutant: the day of the limit is past.
Expired_OnTheDay(rule) == {i \in Record: day >= Born[i] + rule.retention}
Expired(rule) == {i \in Record: day > Born[i] + rule.retention}

\* The rules that name a model may filter its records by their documents.
Selected(rule, seen, passed) ==
  {i \in seen \intersect rule.fits \intersect Expired(rule): rule.filter => i \in passed}

\* What the rules select now, without records that cannot be deleted, and up to
\* a rule whose search raises.
Due == UNION {Selected(Rules[i], db, passes): i \in
                {j \in DOMAIN Rules: /\ Selected(Rules[j], db, passes) \intersect stuck = {}
                                     /\ broken \intersect 1..j = {}}}

autovacuum ==
  /\ ~run.on
  /\ run' = [on |-> TRUE, seen |-> db, passed |-> passes, rules |-> Rules, todo |-> {}]
  /\ UNCHANGED <<day, db, passes, stuck, broken, faults>>

\* The place of the next rule.
Place == Len(Rules) - Len(run.rules) + 1

NextRule ==
  /\ run.on /\ run.todo = {} /\ run.rules # <<>> /\ Place \notin broken
  /\ run' = [run EXCEPT !.rules = Tail(@), !.todo = Selected(Head(run.rules), run.seen, run.passed)]
  /\ UNCHANGED <<day, db, passes, stuck, broken, faults>>

\* Nothing catches what the search of a rule raises, such as the error of a
\* filter that cannot be evaluated: later rules are not looked at.
SearchFails ==
  /\ run.on /\ run.todo = {} /\ run.rules # <<>> /\ Place \in broken
  /\ run' = NoRun
  /\ UNCHANGED <<day, db, passes, stuck, broken, faults>>

Batch == {i \in run.todo: Cardinality({j \in run.todo: j > i}) < BatchSize}

DeleteBatch ==
  /\ run.on /\ run.todo # {}
  /\ Batch \intersect stuck = {}
  /\ db' = db \ Batch
  /\ run' = [run EXCEPT !.todo = @ \ Batch]
  /\ UNCHANGED <<day, passes, stuck, broken, faults>>

\* Mutant: an error ends the run.
Failed_EndsRun == NoRun
\* The rest of the rule waits for the next run.
Failed == [run EXCEPT !.todo = {}]

\* The error of one record ends the rule; it is caught before the cursor is left,
\* which commits what was deleted of the batch by then.  One that is gone may raise.
BatchFails ==
  /\ run.on /\ run.todo # {}
  /\ Batch \intersect stuck # {} \/ ~(Batch \subseteq db)
  /\ \E gone \in SUBSET (Batch \ stuck): db' = db \ gone
  /\ run' = Failed
  /\ UNCHANGED <<day, passes, stuck, broken, faults>>

End == /\ run.on /\ run.todo = {} /\ run.rules = <<>>
       /\ run' = NoRun
       /\ UNCHANGED <<day, db, passes, stuck, broken, faults>>

-----------------------------------------------------------------------------
NewDay == /\ day < MaxDay
          /\ day' = day + 1
          /\ db' = db \union {i \in Record: Born[i] = day + 1}
          /\ UNCHANGED <<passes, stuck, broken, run, faults>>

UserDeletes(i) == /\ db' = db \ {i} /\ i \in db \ stuck
                  /\ UNCHANGED <<day, passes, stuck, broken, run, faults>>

\* A document that a filter is about begins or ceases to pass.
Edit(i) == /\ i \in db /\ \E r \in DOMAIN Rules: Rules[r].filter /\ i \in Rules[r].fits
           /\ passes' = (passes \ {i}) \union ({i} \ passes)
           /\ UNCHANGED <<day, db, stuck, broken, run, faults>>

Crash == /\ run.on /\ faults < MaxFaults
         /\ run' = NoRun /\ faults' = faults + 1
         /\ UNCHANGED <<day, db, passes, stuck, broken>>

Vacuuming == autovacuum \/ NextRule \/ SearchFails \/ DeleteBatch \/ BatchFails \/ End

Next == Vacuuming \/ NewDay \/ Crash \/ \E i \in Record: UserDeletes(i) \/ Edit(i)

\* The scheduled action runs again and again.
Spec == Init /\ [][Next]_vars /\ WF_vars(Vacuuming)

-----------------------------------------------------------------------------
\* What a run deletes is old enough for one rule that fits and, if this has a
\* filter, passed it when the run began (autovacuum, batch_unlink).
OnlyOldGo ==
  run.on /\ db' \subseteq db =>
    \A i \in db \ db': \/ \E r \in DOMAIN Rules: /\ i \in Rules[r].fits /\ day > Born[i] + Rules[r].retention
                                                 /\ Rules[r].filter => i \in run.passed
                       \/ UserDeletes(i)

\* What a rule selects does not stay for ever, unless the rule selects a record
\* that cannot be deleted, or the search of it or of an earlier one raises: an
\* error of a deletion for another rule, a record that several rules select or
\* that is gone, and a process that dies only delay it (batch_unlink): []<>Rid(i)
\* of every record.
Rid(i) == i \notin Due

================================================================================
