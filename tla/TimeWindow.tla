------------------------------ MODULE TimeWindow ------------------------------
(***************************************************************************)
(* base_time_window: the weekly time windows of a record must not overlap. *)
(* A constraint looks for overlaps with an SQL query whenever certain      *)
(* fields are written, in the transaction of the write.  The query sees    *)
(* what was committed before the transaction, not what others write at the *)
(* same time, and of the transaction's own writes those that the ORM has   *)
(* sent to the database: the check does not flush the others.              *)
(***************************************************************************)
EXTENDS Naturals

CONSTANTS Id, Owner, User,
          Hours,    \* [from, to, days] that users enter
          Watch,    \* the sets of fields that the constraint may watch
          EndOfDay, \* 24 hours
          MaxSteps  \* bound: transactions and writes

WindowParameters ==
  /\ \A h \in Hours: h.from \in Nat /\ h.to \in Nat
  /\ \A w \in Watch: w \subseteq {"hours", "owner"}
  /\ EndOfDay \in Nat /\ MaxSteps \in Nat

VARIABLES watched, \* of the model that uses the mixin, never changed
          windows, \* committed rows
          tx,      \* the transaction of each user
          excused, \* ghost: pairs that no check could compare
          steps

vars == <<watched, windows, tx, excused, steps>>

\* cache is what the transaction sees, its own writes included, and sent what
\* its queries find; changed are the rows that others wrote since it began,
\* pairs the part of excused it adds.
Idle == [open |-> FALSE, cache |-> [i \in {} |-> {}], sent |-> [i \in {} |-> {}],
         mine |-> {}, changed |-> {}, pairs |-> {}]

Window == [owner: Owner, hours: Hours]

TypeOK ==
  /\ watched \in Watch
  /\ DOMAIN windows \subseteq Id /\ \A i \in DOMAIN windows: windows[i] \in Window
  /\ \A u \in User: /\ tx[u].mine \union tx[u].changed \subseteq Id
                    /\ DOMAIN tx[u].sent = DOMAIN tx[u].cache
                    /\ \A i \in DOMAIN tx[u].sent: tx[u].cache[i] \in Window /\ tx[u].sent[i].owner \in Owner
  /\ steps \in 0..MaxSteps

Init == /\ watched \in Watch
        /\ windows = [i \in {} |-> {}]
        /\ tx = [u \in User |-> Idle]
        /\ excused = {} /\ steps = 0

Step == steps < MaxSteps /\ steps' = steps + 1

Begin(u) ==
  /\ Step /\ ~tx[u].open
  /\ tx' = [tx EXCEPT ![u] = [Idle EXCEPT !.open = TRUE, !.cache = windows, !.sent = windows]]
  /\ UNCHANGED <<watched, windows, excused>>

-----------------------------------------------------------------------------
(* The constraints.                                                        *)

\* Mutant: only a window that begins inside the other.
Overlaps_BeginsInside(g, h) == g.from <= h.from /\ h.from < g.to

\* NUMRANGE(g) && NUMRANGE(h): without their ends, and empty when they are equal.
Overlaps(g, h) == g.from < g.to /\ h.from < h.to /\ g.from < h.to /\ h.from < g.to

\* The query for the window i, whose values are parameters.
Others(sent, i, window) ==
  {j \in DOMAIN sent \ {i}: /\ Overlaps(sent[j].hours, window.hours)
                            /\ sent[j].hours.days \intersect window.hours.days # {}
                            /\ sent[j].owner = window.owner}

check_window_no_overlaps(sent, rows, S) ==
  \A i \in S: /\ rows[i].hours.from <= rows[i].hours.to
              /\ rows[i].hours.days # {}
              /\ Others(sent, i, rows[i]) = {}

\* Watches the hours in every model.
under_twenty_four_hours(rows, S) ==
  \A i \in S: rows[i].hours.from < EndOfDay /\ rows[i].hours.to < EndOfDay

-----------------------------------------------------------------------------
\* The pairs with S that a query could not compare.
Unsent(S, sent, rows) == {{i, j}: i \in S, j \in {k \in DOMAIN rows: sent[k] # rows[k]}}

\* One call that writes some fields of the windows S, which become rows, after
\* which queries find sent: what the constraints refuse rolls the transaction
\* back, and is left out.
Write(u, S, rows, sent, fields) ==
  /\ Step /\ tx[u].open /\ S # {}
  /\ "hours" \in fields => under_twenty_four_hours(rows, S)
  /\ fields \intersect watched # {} => check_window_no_overlaps(sent, rows, S)
  /\ tx' = [tx EXCEPT ![u].cache = rows, ![u].sent = sent, ![u].mine = @ \union S,
              ![u].pairs = {p \in @: p \intersect S = {}} \union
                (IF fields \intersect watched # {} THEN Unsent(S, sent, rows)
                 ELSE {{i, j}: i \in S, j \in Id})]
  /\ UNCHANGED <<watched, windows, excused>>

\* Both fields are required, and the row is inserted at once.
create(u) ==
  \E i \in Id, w \in Window:
    LET With(rows) == [j \in DOMAIN rows \union {i} |-> IF j = i THEN w ELSE rows[j]] IN
    /\ i \notin DOMAIN windows /\ \A x \in User: i \notin DOMAIN tx[x].cache \union tx[x].mine
    /\ Write(u, {i}, With(tx[u].cache), With(tx[u].sent), {"hours", "owner"})

\* Days are sent to the database at once; the ORM may keep the other values in
\* its cache, and sends them all when it sends any.
Sent(u, rows) ==
  {rows, [i \in DOMAIN rows |-> [tx[u].sent[i] EXCEPT !.hours.days = rows[i].hours.days]]}

Update(u, S, rows, fields) == \E sent \in Sent(u, rows): Write(u, S, rows, sent, fields)

WriteHours(u, S) ==
  \E h \in Hours: Update(u, S, [i \in DOMAIN tx[u].cache |-> IF i \in S THEN [tx[u].cache[i] EXCEPT !.hours = h]
                                                           ELSE tx[u].cache[i]], {"hours"})
WriteOwner(u, S) ==
  \E o \in Owner: Update(u, S, [i \in DOMAIN tx[u].cache |-> IF i \in S THEN [tx[u].cache[i] EXCEPT !.owner = o]
                                                           ELSE tx[u].cache[i]], {"owner"})

\* Everything is sent before rows are deleted, and nothing is checked.
unlink(u, S) ==
  /\ Step /\ tx[u].open /\ S # {}
  /\ LET rows == [i \in DOMAIN tx[u].cache \ S |-> tx[u].cache[i]] IN
     tx' = [tx EXCEPT ![u].cache = rows, ![u].sent = rows, ![u].mine = @ \union S]
  /\ UNCHANGED <<watched, windows, excused>>

\* PostgreSQL lets the first of two transactions that write a row commit.
Commit(u) ==
  /\ tx[u].open /\ tx[u].mine \intersect tx[u].changed = {}
  /\ LET t == tx[u]
         kept == (DOMAIN windows \ t.mine) \union (DOMAIN t.cache \intersect t.mine)
     IN  /\ windows' = [i \in kept |-> IF i \in t.mine THEN t.cache[i] ELSE windows[i]]
         /\ tx' = [x \in User |-> IF x = u THEN Idle
                                  ELSE IF tx[x].open THEN [tx[x] EXCEPT !.changed = @ \union t.mine]
                                  ELSE tx[x]]
         /\ excused' = {p \in excused: p \intersect t.mine = {}} \union t.pairs
                       \union {{i, j}: i \in t.mine, j \in t.changed}
  /\ UNCHANGED <<watched, steps>>

Rollback(u) ==
  /\ tx[u].open
  /\ tx' = [tx EXCEPT ![u] = Idle]
  /\ UNCHANGED <<watched, windows, excused, steps>>

Next == \E u \in User:
          \/ Begin(u) \/ Commit(u) \/ Rollback(u) \/ create(u)
          \/ \E S \in SUBSET DOMAIN tx[u].cache: WriteHours(u, S) \/ WriteOwner(u, S) \/ unlink(u, S)

Spec == Init /\ [][Next]_vars

-----------------------------------------------------------------------------
\* No instant of a week is in two windows of a record, however they were
\* created, changed and moved, unless their transactions ran at the same time,
\* or one transaction changed both before the ORM sent the first, or one was
\* last written in fields that the constraint of the model does not watch
\* (check_window_no_overlaps).
WindowsApart ==
  \A i, j \in DOMAIN windows:
    (i # j /\ {i, j} \notin excused /\ windows[i].owner = windows[j].owner) =>
      LET g == windows[i].hours  h == windows[j].hours IN
      \A d \in g.days \intersect h.days, t \in 0..EndOfDay:
        ~(g.from <= t /\ t < g.to /\ h.from <= t /\ t < h.to)

===============================================================================
