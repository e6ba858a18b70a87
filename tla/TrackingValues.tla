---------------------------- MODULE TrackingValues -----------------------------
(***************************************************************************)
(* _mail_track of tracking_manager and tracking_manager_domain: the values *)
(* that the chatter of a record tells after its tracked fields changed.    *)
(* A properties field has a value for each key of its definition.          *)
(***************************************************************************)
EXTENDS Naturals, Sequences, FiniteSets, Functions

CONSTANTS Plain, Properties, \* the tracked fields, by type
          Key,               \* names of properties
          Value, None,       \* None is the empty value, and "no such thing"
          Domains            \* fields with a tracking_domain to try, and
                             \* whether the record matches it

Field == Plain \union Properties

\* A model has finitely many fields, a properties field finitely many keys.
TrackingValuesParameters ==
  /\ IsFiniteSet(Field) /\ IsFiniteSet(Key)
  /\ Plain \intersect Properties = {}
  /\ None \notin Key
  /\ Domains \subseteq UNION {[F -> BOOLEAN]: F \in SUBSET Field}

VARIABLES tracked, \* the fields of tracked_fields
          initial, \* values of some fields before, as Odoo's mail keeps them
          now,     \* values of the record
          domains, \* one of Domains
          result   \* what _mail_track returns, or None before

vars == <<tracked, initial, now, domains, result>>

PropertyValues == UNION {[K -> Value \union {None}]: K \in SUBSET Key}
ValueOf(f) == IF f \in Properties THEN PropertyValues ELSE Value \union {None}
Values(F) == {r \in [F -> PropertyValues \union Value \union {None}]:
                \A f \in F: r[f] \in ValueOf(f)}

Init == /\ tracked \in SUBSET Field
        /\ initial \in UNION {Values(F): F \in SUBSET Field}
        /\ now \in Values(Field)
        /\ domains \in Domains
        /\ result = None

Entry == [field: Field, key: Key \union {None},
          old: PropertyValues \union Value \union {None},
          new: PropertyValues \union Value \union {None}]

TypeOK == /\ tracked \subseteq Field
          /\ domains \in Domains
          /\ result # None => /\ result.raised \in BOOLEAN
                              /\ result.changes \subseteq Field
                              /\ Range(result.values) \subseteq Entry

-----------------------------------------------------------------------------
Empty(v) == v = None \/ v = [k \in {} |-> None]

\* Neither untouched nor empty before and after.
Changed(f) == f \in DOMAIN initial /\ initial[f] # now[f] /\ ~(Empty(initial[f]) /\ Empty(now[f]))

\* The entries of Odoo's mail, which come by the sequences of the fields.
\* _create_tracking_values makes one for a properties field too.
super_mail_track(order) ==
  [i \in DOMAIN order |-> [field |-> order[i], key |-> None,
                           old |-> initial[order[i]], new |-> now[order[i]]]]

\* The indexes of the entries for properties fields.
keys_to_delete(entries) == {k \in DOMAIN entries: entries[k].field \in Properties}

Without(list, i) == SubSeq(list, 1, i - 1) \o SubSeq(list, i + 1, Len(list))

\* list.pop of one index after the other; a missing one raises.
PopAll(entries, keys) ==
  LET popped[n \in 0..Len(keys)] ==
        IF n = 0 THEN [list |-> entries, raised |-> FALSE]
        ELSE IF popped[n - 1].raised \/ keys[n] > Len(popped[n - 1].list)
        THEN [popped[n - 1] EXCEPT !.raised = TRUE]
        ELSE [popped[n - 1] EXCEPT !.list = Without(@, keys[n])]
  IN  popped[Len(keys)]

\* Mutant: the key need not be in the definition any more.
create_tracking_values_property_NoDefinition(f) ==
  {[field |-> f, key |-> k, old |-> initial[f][k],
    new |-> IF k \in DOMAIN now[f] THEN now[f][k] ELSE None]:
     k \in {x \in DOMAIN initial[f]: x \notin DOMAIN now[f] \/ initial[f][x] # now[f][x]}}

\* One entry for each property that was there before and is still defined.
create_tracking_values_property(f) ==
  {[field |-> f, key |-> k, old |-> initial[f][k], new |-> now[f][k]]:
     k \in {x \in DOMAIN initial[f] \intersect DOMAIN now[f]: initial[f][x] # now[f][x]}}

ExtraEntries ==
  UNION {create_tracking_values_property(f): f \in {g \in tracked \intersect Properties: Changed(g)}}

Returns(changes, values) == [raised |-> FALSE, changes |-> changes, values |-> values]
Raises == [raised |-> TRUE, changes |-> {}, values |-> <<>>]

\* tracking_manager_domain: the entries of fields whose domain the record does
\* not match go; the others stay at their places.  The set of changes is zipped
\* with the entries in the order Python has it in: there must be as many, but
\* it is not the change of the same field that goes.  Every entry must name its
\* field, as those of properties do not.
filter_domains(changes, entries) ==
  IF domains = [f \in {} |-> TRUE] \/ \A e \in Range(entries): e.key # None
  THEN {Returns(changes, entries)}
  ELSE IF Cardinality(changes) # Len(entries) \/ \E e \in Range(entries): e.key # None
  THEN {Raises}
  ELSE LET removed == {f \in DOMAIN domains \intersect tracked: ~domains[f]}
           kept == Restrict(entries, {i \in DOMAIN entries: entries[i].field \notin removed})
       IN  {Returns(C, kept): C \in {S \in SUBSET changes: Cardinality(S) = Cardinality(DOMAIN kept)}}

Orders(S) == Bijection(1..Cardinality(S), S)

\* Odoo's mail, the dictionary of tracked fields and the properties each have
\* an order of their own.
mail_track == /\ result = None
              /\ \E order \in Orders({f \in tracked: Changed(f)}), extra \in Orders(ExtraEntries):
                   LET entries == super_mail_track(order)
                   IN  \E keys \in Orders(keys_to_delete(entries)):
                         LET plain == PopAll(entries, keys)
                         IN  result' \in IF plain.raised THEN {Raises}
                               ELSE filter_domains({e.field: e \in Range(entries)}, plain.list \o extra)
              /\ UNCHANGED <<tracked, initial, now, domains>>

Spec == Init /\ [][mail_track]_vars

-----------------------------------------------------------------------------
\* With at most one properties field changed, and none when tracking domains
\* apply, the chatter tells each tracked field that changed, with the values
\* before and now, and of a properties field each property; the placeholder
\* entries are gone, and with them nothing else (_mail_track).
ValuesTellChanges ==
  LET changed == {f \in tracked: Changed(f)}
      properties == changed \intersect Properties
      Hidden(f) == f \in DOMAIN domains /\ ~domains[f]
  IN  result # None /\ Cardinality(properties) <= 1 /\ (domains = [f \in {} |-> TRUE] \/ properties = {})
        => /\ ~result.raised
           /\ \A f \in Plain: f \in changed /\ ~Hidden(f) <=>
                \E e \in Range(result.values): e.field = f /\ e.old = initial[f] /\ e.new = now[f]
           /\ \A f \in Properties, k \in Key:
                (\E e \in Range(result.values): e.field = f /\ e.key = k) <=>
                  /\ f \in properties
                  /\ k \in DOMAIN initial[f] \intersect DOMAIN now[f]
                  /\ initial[f][k] # now[f][k]
           /\ IsInjective(result.values)
           /\ \A e \in Range(result.values): e.field \in Properties => e.key # None
================================================================================
