------------------------------ MODULE DatabaseSize ------------------------------
(***************************************************************************)
(* database_size: a scheduled action measures the models once a day or     *)
(* more often, and the autovacuum removes old measurements, except, for    *)
(* longer, those of the first day of each month.                           *)
(***************************************************************************)
EXTENDS Integers, Sequences, FiniteSets, Functions

CONSTANTS Models,    \* the stored models, in the order of the registry
          TableOf,   \* their tables, which they may share
          Relations, \* of each many2many table, the models it belongs to
          Indexes,   \* of each index, its table
          Contents,  \* contents of attachments, each with the models it is
                     \* attached to, the oldest attachment first
          World,     \* what the database may hold: sizes and tuples of tables,
                     \* sizes of contents
          Settings,  \* purge_enable, retention_daily and retention_monthly
          Unit,      \* bytes in a megabyte
          Month,     \* days in a month
          MaxDay     \* bound: days

DatabaseSizeParameters ==
  /\ TableOf \in [Range(Models) -> STRING]
  /\ \A r \in DOMAIN Relations: Relations[r] # {}
  /\ \A w \in World: {TableOf[m]: m \in Range(Models)} = DOMAIN w.tuples
  /\ Settings \subseteq [enabled: BOOLEAN, daily: Nat, monthly: Nat]
  /\ Unit \in Nat \ {0} /\ Month \in Nat \ {0} /\ MaxDay \in Nat \ {0}

VARIABLES day, world,
          conf,  \* one of Settings, never changed
          sizes, \* ir_model_size: per day, what was measured of each model
          taken  \* for the properties: what the database held when it was
                 \* measured on each day

vars == <<day, world, conf, sizes, taken>>

NoDays == [d \in {} |-> {}]

Init == /\ day = 1
        /\ world \in World
        /\ conf \in Settings
        /\ sizes = NoDays
        /\ taken = NoDays

Table == {TableOf[m]: m \in Range(Models)}
Size == [model: Range(Models), table: Nat, relations: SUBSET DOMAIN Relations,
         relations_size: Nat, indexes_size: Nat, attachment_size: Nat, total_model_size: Nat]

TypeOK == /\ day \in 1..MaxDay /\ world \in World /\ conf \in Settings
          /\ DOMAIN taken \subseteq 1..day /\ DOMAIN sizes \subseteq DOMAIN taken
          /\ \A d \in DOMAIN sizes: sizes[d] \subseteq Size

-----------------------------------------------------------------------------
\* _normalize_size: whole megabytes.
Megabytes(size) == size \div Unit

SumOver(S, f(_)) == FoldFunction(+, 0, [x \in S |-> f(x)])

\* Of models that share a table, the last one of the registry.
table2model(t) == CHOOSE i \in DOMAIN Models:
                    /\ TableOf[Models[i]] = t
                    /\ \A j \in DOMAIN Models: TableOf[Models[j]] = t => j <= i
Measured == {Models[table2model(t)]: t \in Table}

\* Mutant: every model of a relation gets its table.
relation2model_All(m) == {r \in DOMAIN Relations: m \in Relations[r]}

\* The many2many tables of which m is the model with the most tuples; a model
\* that is not measured comes last; which one of equal ones does not matter.
relation2model(m) ==
  LET tuples(x) == IF x \in Measured THEN world.tuples[TableOf[x]] + 1 ELSE 0
      largest(S) == CHOOSE x \in S: \A y \in S: tuples(y) <= tuples(x)
  IN  {r \in DOMAIN Relations: m = largest(Relations[r])}

\* A content counts for the model of its oldest attachment.
unique_attachments(m) == {c \in DOMAIN Contents: Contents[c][1] = m}

SizeOf(m) ==
  LET OfAll(S) == SumOver(S, LAMBDA r: Megabytes(world.size[r]))
      table == Megabytes(world.size[TableOf[m]])
      relations == OfAll(relation2model(m))
      attachments == Megabytes(SumOver(unique_attachments(m), LAMBDA c: world.content[c]))
  IN  [model |-> m, table |-> table, relations |-> relation2model(m),
       relations_size |-> relations,
       indexes_size |-> OfAll({i \in DOMAIN Indexes: Indexes[i] = TableOf[m]}),
       attachment_size |-> attachments,
       total_model_size |-> table + relations + attachments]

\* Another measurement of the same day takes the place of the first.
measure == /\ sizes' = [d \in DOMAIN sizes \union {day} |->
                          IF d = day THEN {SizeOf(m): m \in Measured} ELSE sizes[d]]
           /\ taken' = [d \in DOMAIN taken \union {day} |-> IF d = day THEN world ELSE taken[d]]
           /\ UNCHANGED <<day, world, conf>>

FirstOfMonth(d) == d % Month = 1

\* Mutant: the first day of the month is not spared.
Expired_Any(d) == conf.daily # 0 /\ d + conf.daily < day

Expired(d) == \/ conf.daily # 0 /\ d + conf.daily < day /\ ~FirstOfMonth(d)
              \/ conf.monthly > conf.daily /\ d + conf.monthly < day

purge == /\ conf.enabled
         /\ sizes' = Restrict(sizes, {d \in DOMAIN sizes: ~Expired(d)})
         /\ UNCHANGED <<day, world, conf, taken>>

NextDay == /\ day < MaxDay
           /\ day' = day + 1
           /\ UNCHANGED <<world, conf, sizes, taken>>

Use == /\ world' \in World
       /\ UNCHANGED <<day, conf, sizes, taken>>

Next == measure \/ purge \/ NextDay \/ Use

Spec == Init /\ [][Next]_vars

-----------------------------------------------------------------------------
\* The sizes of a day add up to what the database held at its last measurement:
\* every table, many2many table and index counts once, whatever models share it,
\* and so does the content of attachments that belongs to a model that is
\* measured, but for the bytes that each model loses to whole megabytes (_measure).
EverythingCountsOnce ==
  \A d \in DOMAIN sizes:
    LET w == taken[d]
        Total(f(_)) == SumOver(sizes[d], f)
        OfAll(S) == SumOver(S, LAMBDA r: Megabytes(w.size[r]))
        related == {r \in DOMAIN Relations: Relations[r] \intersect Measured # {}}
        attachments == Total(LAMBDA s: s.attachment_size)
        bytes == SumOver({c \in DOMAIN Contents: Contents[c][1] \in Measured}, LAMBDA c: w.content[c])
    IN  /\ Total(LAMBDA s: s.total_model_size) = OfAll(Table \union related) + attachments
        /\ Total(LAMBDA s: s.indexes_size) = OfAll(DOMAIN Indexes)
        /\ bytes - Unit * attachments \in 0..Cardinality(Measured) * (Unit - 1)

\* Without a daily limit, for which the settings promise that measurements are
\* kept forever, the monthly limit is one for every day.
LimitedByMonth == conf.daily = 0 /\ conf.monthly # 0

\* A measurement stays for the days that are kept, which are all of them with a
\* limit of 0, and that of the first of a month for those that are kept of these,
\* again all with 0 (_purge); with the exception of LimitedByMonth, in which no
\* day is spared the monthly limit.
KeptForRetention ==
  \A d \in DOMAIN taken \ DOMAIN sizes:
    /\ conf.enabled
    /\ ~LimitedByMonth => conf.daily # 0 /\ d + conf.daily < day
    /\ FirstOfMonth(d) \/ LimitedByMonth => conf.monthly # 0 /\ d + conf.monthly < day
=================================================================================
