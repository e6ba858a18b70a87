------------------------------- MODULE Jsonifier -------------------------------
(***************************************************************************)
(* jsonifier: the lines of an export, each a path of fields in a language,  *)
(* make a parser, which the process keeps in a cache and with which records *)
(* become JSON.  Resolvers and functions, which change the value of a leaf, *)
(* and the errors of the strict mode are left out.                          *)
(***************************************************************************)
EXTENDS Naturals, Sequences, SequencesExt

CONSTANTS Export,
          LineValue,  \* [names, lang] that users enter
          Field,      \* the fields of the records
          Related,    \* the records in each relational field
          NoLang,
          MaxLines,   \* bound: lines of an export
          MaxSteps    \* bound: operations

\* A step of a path is field:target, with =list after a target that collects
\* values.  A target is one or the other in all lines.
Steps == UNION {Range(l.names): l \in LineValue}
JsonifierParameters ==
  /\ DOMAIN Related \subseteq Field
  /\ \A s, t \in Steps: s.target = t.target => s.list = t.list
  /\ MaxLines \in Nat /\ MaxSteps \in Nat

VARIABLES lines,    \* the lines of each export, with their write_date
          language_agnostic,
          now,      \* the time of the transaction, which is its write_date
          before,   \* lines and language_agnostic at its beginning
          cache,    \* of get_json_parser
          written,  \* ghost: whether the transaction wrote a line
          shared,   \* ghost: the dates of several writes
          got,      \* the JSON that was returned
          steps

vars == <<lines, language_agnostic, now, before, cache, written, shared, got, steps>>

Nothing == <<>>
Empty == [k \in {} |-> Nothing]

TypeOK ==
  /\ \A e \in Export: /\ Len(lines[e]) <= MaxLines
                      /\ \A i \in DOMAIN lines[e]: /\ [names |-> lines[e][i].names, lang |-> lines[e][i].lang] \in LineValue
                                                   /\ lines[e][i].date \in 0..now
  /\ language_agnostic \in [Export -> BOOLEAN]
  /\ shared \subseteq 0..now /\ written \in BOOLEAN /\ steps \in 0..MaxSteps

\* The lines of one export were written before, each in a transaction.
Init == /\ \E n \in 0..MaxLines: \E L \in [1..n -> LineValue]:
             lines = [x \in Export |-> IF x # CHOOSE e \in Export: TRUE THEN <<>>
                       ELSE [i \in 1..n |-> [names |-> L[i].names, lang |-> L[i].lang, date |-> i]]]
        /\ language_agnostic = [e \in Export |-> FALSE]
        /\ now = MaxLines + 1 /\ before = [lines |-> lines, agnostic |-> language_agnostic]
        /\ cache = Empty
        /\ written = FALSE /\ shared = {} /\ got = Nothing /\ steps = 0

Step == steps < MaxSteps /\ steps' = steps + 1

-----------------------------------------------------------------------------
(* From lines to a parser, a sequence of nodes for each language.          *)

Leaf(step) == [step |-> step, leaf |-> TRUE, sub |-> <<>>]
Position(data, step) == {i \in DOMAIN data: data[i].step = step}

\* Mutant: a path begins its relational field again.
RECURSIVE update_dict_Again(_, _)
update_dict_Again(data, names) ==
  LET i == Position(data, Head(names))
      others == SelectSeq(data, LAMBDA n: n.step # Head(names))
  IN  IF Len(names) = 1 THEN Append(others, Leaf(Head(names)))
      ELSE Append(others, [step |-> Head(names), leaf |-> FALSE, sub |-> update_dict_Again(<<>>, Tail(names))])

\* A path below a leaf ends among the options of the leaf, which ignore it.
RECURSIVE update_dict(_, _)
update_dict(data, names) ==
  LET step == Head(names)  at == Position(data, step)
      node == IF Len(names) = 1 THEN Leaf(step)
              ELSE IF at = {} THEN [step |-> step, leaf |-> FALSE, sub |-> update_dict(<<>>, Tail(names))]
              ELSE LET n == data[CHOOSE i \in at: TRUE] IN
                   IF n.leaf THEN n ELSE [n EXCEPT !.sub = update_dict(@, Tail(names))]
  IN  IF at = {} THEN Append(data, node) ELSE [i \in DOMAIN data |-> IF i \in at THEN node ELSE data[i]]

\* partition: the languages in the order of their first lines.
Langs(L) == FoldLeft(LAMBDA known, l: IF l.lang \in Range(known) THEN known ELSE Append(known, l.lang), <<>>, L)

LangParser(L, lang) ==
  FoldLeft(LAMBDA data, l: update_dict(data, l.names), <<>>, SelectSeq(L, LAMBDA l: l.lang = lang))

Parser(L, agnostic) ==
  [langs |-> [i \in DOMAIN Langs(L) |-> [lang |-> Langs(L)[i], nodes |-> LangParser(L, Langs(L)[i])]],
   language_agnostic |-> agnostic]

-----------------------------------------------------------------------------
(* From records to JSON, a function of targets.                            *)

Value(rec, field, lang) == [value |-> <<rec, field, lang>>, items |-> <<>>]
Items(S) == [value |-> <<>>, items |-> S]

With(json, key, v) == [k \in DOMAIN json \union {key} |-> IF k = key THEN v ELSE json[k]]

add_json_key(json, step, v) ==
  IF ~step.list THEN With(json, step.target, v)
  ELSE With(json, step.target, Items(Append(IF step.target \in DOMAIN json THEN json[step.target].items ELSE <<>>, v)))

\* Fields that do not exist and paths through others than relations are skipped.
Usable(node) == node.step.field \in Field /\ (~node.leaf => node.step.field \in DOMAIN Related)

RECURSIVE jsonify_record(_, _, _, _)
jsonify_record(nodes, rec, lang, root) ==
  FoldLeft(LAMBDA json, n:
             IF ~Usable(n) THEN json
             ELSE LET f == n.step.field IN
                  add_json_key(json, n.step,
                    IF n.leaf THEN Value(rec, f, lang)
                    ELSE Items([i \in DOMAIN Related[f] |-> jsonify_record(n.sub, Related[f][i], lang, Empty)])),
           root, nodes)

\* The language of a line, none for an agnostic export, or the user's.
LangOf(lang, agnostic) == IF lang # NoLang THEN lang ELSE IF agnostic THEN "source" ELSE "user"

\* Mutant: every language begins with an empty result.
jsonify_Anew(parser) ==
  FoldLeft(LAMBDA json, p: jsonify_record(p.nodes, "root", LangOf(p.lang, parser.language_agnostic), Empty),
           Empty, parser.langs)
jsonify(parser) ==
  FoldLeft(LAMBDA json, p: jsonify_record(p.nodes, "root", LangOf(p.lang, parser.language_agnostic), json),
           Empty, parser.langs)

-----------------------------------------------------------------------------
(* The cache, and what users do.                                           *)

Dates(e) == [i \in DOMAIN lines[e] |-> lines[e][i].date]

\* Mutant: the dates of the lines are left out, or only their number is used.
Key_NoDates(e) == <<language_agnostic[e], Len(lines[e])>>
Key(e) == <<language_agnostic[e], Dates(e)>>

\* The key does not name the export.
get_json_parser(e) == IF Key(e) \in DOMAIN cache THEN cache[Key(e)] ELSE Parser(lines[e], language_agnostic[e])

Jsonify(e) ==
  /\ Step
  /\ cache' = With(cache, Key(e), get_json_parser(e))
  /\ got' = [export |-> e, json |-> jsonify(get_json_parser(e))]
  /\ UNCHANGED <<lines, language_agnostic, now, before, written, shared>>

\* A write gives a line the time of the transaction.
Wrote == written' = TRUE /\ shared' = IF written THEN shared \union {now} ELSE shared
Change(e, L) ==
  /\ Step
  /\ lines' = [lines EXCEPT ![e] = L]
  /\ got' = Nothing
  /\ UNCHANGED <<language_agnostic, now, before, cache>>

Dated(l) == [names |-> l.names, lang |-> l.lang, date |-> now]
Add(e, l) == Len(lines[e]) < MaxLines /\ Change(e, Append(lines[e], Dated(l))) /\ Wrote
Edit(e, i, l) == Change(e, [lines[e] EXCEPT ![i] = Dated(l)]) /\ Wrote
Delete(e, i) == Change(e, RemoveAt(lines[e], i)) /\ UNCHANGED <<written, shared>>

Toggle(e) ==
  /\ Step
  /\ language_agnostic' = [language_agnostic EXCEPT ![e] = ~@]
  /\ got' = Nothing
  /\ UNCHANGED <<lines, now, before, cache, written, shared>>

Commit ==
  /\ Step
  /\ now' = now + 1 /\ before' = [lines |-> lines, agnostic |-> language_agnostic]
  /\ written' = FALSE /\ got' = Nothing
  /\ UNCHANGED <<lines, language_agnostic, cache, shared>>

\* The cache keeps what the transaction computed.
Rollback ==
  /\ Step
  /\ now' = now + 1 /\ lines' = before.lines /\ language_agnostic' = before.agnostic
  /\ written' = FALSE /\ got' = Nothing
  /\ UNCHANGED <<before, cache, shared>>

Next == \/ \E e \in Export: \/ Jsonify(e) \/ Toggle(e)
                            \/ \E l \in LineValue: Add(e, l) \/ \E i \in DOMAIN lines[e]: Edit(e, i, l)
                            \/ \E i \in DOMAIN lines[e]: Delete(e, i)
        \/ Commit \/ Rollback

Spec == Init /\ [][Next]_vars

-----------------------------------------------------------------------------
\* The lines l and m want different values in one place, one continues the
\* path of the other, or they go through one relation in two languages.
Clash(l, m) ==
  LET common == IF l.lang # m.lang THEN 0
                ELSE CHOOSE k \in 0..Len(l.names):
                       /\ k <= Len(m.names) /\ \A i \in 1..k: l.names[i] = m.names[i]
                       /\ k < Len(l.names) /\ k < Len(m.names) => l.names[k + 1] # m.names[k + 1]
  IN  IF common < Len(l.names) /\ common < Len(m.names)
      THEN l.names[common + 1].target = m.names[common + 1].target /\ ~l.names[common + 1].list
      ELSE Len(l.names) # Len(m.names)

\* The value of a path is in the place of its targets.
RECURSIVE Told(_, _, _, _)
Told(json, names, rec, lang) ==
  LET s == Head(names)
      In(v) == IF Len(names) = 1 THEN v = Value(rec, s.field, lang)
               ELSE \A i \in DOMAIN Related[s.field]: Told(v.items[i], Tail(names), Related[s.field][i], lang)
  IN  /\ s.target \in DOMAIN json
      /\ IF s.list THEN \E i \in DOMAIN json[s.target].items: In(json[s.target].items[i])
         ELSE In(json[s.target])

\* The JSON of a record has the value of every line of the export, in its
\* language and where it wants it, and no other keys, unless lines clash or
\* one transaction wrote several lines, whose date does not tell the parsers
\* apart (get_json_parser, jsonify).
LinesAreTold ==
  got # Nothing =>
    LET L == lines[got.export] IN
    Range(Dates(got.export)) \intersect shared = {} =>
      /\ DOMAIN got.json \subseteq {L[i].names[1].target: i \in DOMAIN L}
      /\ \A i \in DOMAIN L:
           (\A j \in DOMAIN L: ~Clash(L[i], L[j])) =>
             Told(got.json, L[i].names, "root", LangOf(L[i].lang, language_agnostic[got.export]))

================================================================================
