------------------------------- MODULE MCAddons -------------------------------
(***************************************************************************)
(* Small instances of components that interact with no other: those of     *)
(* Addons, and more, for whose variables x1 to x9 stand.                   *)
(***************************************************************************)
EXTENDS Addons, Sequences, TLC

VARIABLES x1, x2, x3, x4, x5, x6, x7, x8, x9

more == <<x1, x2, x3, x4, x5, x6, x7, x8, x9>>

NoMap == [n \in {} |-> ""]

-----------------------------------------------------------------------------
(* Values of the constants of Addons.                                      *)

MCMaxSteps == [audit |-> 3, urls |-> 6, windows |-> 5, images |-> 5, cleanup |-> 6, templates |-> 5,
               manager |-> 3, records |-> 2]
MCMaxFaults == [mail |-> 2, remote |-> 1, store |-> 2, vacuum |-> 1, backup |-> 2]
MCMaxDay == [vacuum |-> 3, size |-> 5]

\* m1 is from the address of one record, m2 from the domain of two.
Folder == [match_algorithm |-> "email_exact", delete_matching |-> FALSE, flag_nonmatching |-> TRUE,
           archive_path |-> FALSE, match_first |-> FALSE, fetch_unseen_only |-> FALSE, fetch_last_day_only |-> FALSE,
           seen |-> "on_fetch", cleanup |-> "none", purge |-> FALSE]
Domain == [Folder EXCEPT !.match_algorithm = "email_domain", !.match_first = TRUE,
                         !.archive_path = TRUE, !.seen = "all"]
Moving == [Folder EXCEPT !.match_algorithm = "odoo_standard", !.seen = "matching", !.cleanup = "move"]
Unread == [Folder EXCEPT !.fetch_unseen_only = TRUE, !.fetch_last_day_only = TRUE, !.seen = "none",
                         !.cleanup = "read", !.purge = TRUE, !.delete_matching = TRUE]
Deleting == [Folder EXCEPT !.delete_matching = TRUE]
Archiving == [Folder EXCEPT !.archive_path = TRUE]
Load(c, messages, fetchers) == c @@ ("messages" :> messages) @@ ("fetchers" :> fetchers)

\* Two messages for the scheduled fetch, one for it and a user at once.
MCConfig ==
  {Load(c, {"m1", "m2"}, {"cron"}): c \in {Folder, Deleting, Archiving, Domain, Moving, Unread}}
  \union {Load(c, {"m1"}, {"cron", "user"}): c \in {Deleting, Moving, Unread}}
  \union {Load(Domain, {"m2"}, {"cron", "user"})}
MCMatches == [m \in {"m1", "m2"} |-> IF m = "m1" THEN [exact |-> 1, domain |-> 1]
                                     ELSE [exact |-> 0, domain |-> 2]]

\* Two records with a file of the same name.
MCFileName == [n \in {"a", "b"} |-> "f"]

\* Two records, two languages and two names.
MCSlug == [n \in {"A", "B"} |-> n]

\* Windows that touch, that overlap, that are in each other, and that end too late.
On(from, to, days) == [from |-> from, to |-> to, days |-> days]
MCHours == {On(0, 2, {"mo"}), On(1, 3, {"mo", "tu"}), On(2, 3, {"mo"}), On(2, 4, {"mo"})}

\* Two rules that select one record, a record that may not be deleted.
VacuumRule(fits, filter) == [fits |-> fits, filter |-> filter, retention |-> 1]
MCRules == <<VacuumRule({1, 2, 3}, FALSE), VacuumRule({1, 3}, TRUE)>>
MCBorn == [i \in 1..3 |-> i \div 3]

\* Two local folders and a remote one; one keeps all.
MCFormat == [b \in {"l1", "l2", "r"} |-> IF b = "r" THEN "dump" ELSE "zip"]
MCdays_to_keep == [b \in {"l1", "l2", "r"} |-> IF b = "l2" THEN 0 ELSE 1]

Stored(field) ==
  [name |-> field, column |-> TRUE, stored |-> TRUE, index |-> FALSE, relation |-> "none"]
ToO == [Stored("z") EXCEPT !.relation = "o"]
ModelOf(table, fields) == [table |-> table, auto |-> TRUE, fields |-> fields]

\* The models b and c share a table; o, to which they refer, is from module m1.
MCCode ==
  {[modules |-> {"base", "m1", "m2"}, relations |-> {"rel"},
    models |-> ("b" :> ModelOf("t", {Stored("y"), ToO})) @@ ("c" :> ModelOf("t", {Stored("x"), ToO}))
               @@ ("o" :> ModelOf("o", {Stored("p")}))],
   [modules |-> {"base"}, relations |-> {},
    models |-> ("b" :> ModelOf("t", {[Stored("y") EXCEPT !.column = FALSE, !.stored = FALSE]}))
               @@ ("c" :> ModelOf("t", {[Stored("x") EXCEPT !.index = TRUE]}))]}
MCAddon == ("b" :> "base") @@ ("c" :> "base") @@ ("o" :> "m1")
MCDepends == {<<"m1", "base">>, <<"m2", "m1">>}
\* A column that is in use without a field.
MCBlacklist == {<<"t", "w">>}
MCForeign == {<<"rel", "o">>}

Text(field, cond, style) ==
  [name |-> field, cond |-> cond, style |-> style,
   style_cond |-> [test |-> "", styles |-> <<>>], sum |-> FALSE]
Place(field) == [field |-> field, cont |-> FALSE, extend |-> FALSE, no_delete |-> FALSE]

\* A head and an extended field with styles and conditions; an import that
\* deletes nothing.
Instruction ==
  [exports |-> <<[key |-> [name |-> "1"], value |->
     <<[key |-> Place(<<"_HEAD_">>), value |-> <<[key |-> [cell |-> "B1"], value |-> Text("name", "", "bold")]>>],
       [key |-> [Place(<<"lines">>) EXCEPT !.extend = TRUE],
        value |-> <<[key |-> [cell |-> "A3"], value |->
                       [Text("qty", "zero", "red") EXCEPT !.sum = TRUE,
                          !.style_cond = [test |-> "big", styles |-> <<"blue">>]]],
                    [key |-> [cell |-> "B3"], value |-> Text("price", "", "")]>>]>>]>>,
   imports |-> <<[key |-> [name |-> "1"], value |->
     <<[key |-> [Place(<<"lines">>) EXCEPT !.no_delete = TRUE],
        value |-> <<[key |-> [cell |-> "A3"], value |-> Text("qty", "", "")]>>]>>]>>]
MCInstructions == {Instruction}

\* The models m and o share a table; both relations have the model n.
MCGauged == <<"m", "n", "o">>
MCStoredIn == [m \in {"m", "n", "o"} |-> IF m = "n" THEN "u" ELSE "t"]
MCRelations == ("r" :> {"m", "n"}) @@ ("q" :> {"n", "o"})
MCIndexes == [i \in {"i"} |-> "t"]
MCContents == ("c" :> <<"o", "n">>) @@ ("d" :> <<"n", "o">>) @@ ("e" :> <<"m", "n">>)
Held(c, d, e) == ("c" :> c) @@ ("d" :> d) @@ ("e" :> e)
Sizes(t, u, r) == ("t" :> t) @@ ("u" :> u) @@ ("r" :> r) @@ ("q" :> 3) @@ ("i" :> 2)
MCWorld ==
  {[size |-> Sizes(5, 3, 2), tuples |-> ("t" :> 1) @@ ("u" :> 2), content |-> Held(3, 4, 2)],
   [size |-> Sizes(6, 0, 4), tuples |-> ("t" :> 0) @@ ("u" :> 0), content |-> Held(1, 1, 5)]}
Retention(enabled, daily, monthly) == [enabled |-> enabled, daily |-> daily, monthly |-> monthly]
MCSettings == {Retention(TRUE, 1, 0), Retention(TRUE, 1, 3), Retention(TRUE, 0, 2),
               Retention(TRUE, 2, 1), Retention(FALSE, 1, 0)}

\* Four configurations; with the first lines are not tracked themselves.
Tracking(active, custom, domain) ==
  [active |-> active, custom |-> {"lines"} \union custom, domain |-> domain, rule |-> TRUE]
MCDetailConfig ==
  {Tracking({"owner"}, {"f"}, TRUE), Tracking({"owner", "line"}, {"f"}, TRUE),
   Tracking({"owner", "line"}, {}, TRUE), Tracking({"line"}, {"f"}, TRUE)}
MCDomains == {[f \in {} |-> TRUE], [f \in {"a", "p"} |-> f = "p"]}

\* Three modules that define and override one field.
Type == <<"f", "type">>
Required == <<"f", "required">>
MCDefinition == {[p \in {Type} |-> 1], [p \in {Required} |-> 0], NoMap,
                 [p \in {Type, Required} |-> IF p = Type THEN 2 ELSE 1]}

FieldRow(module, op, model, type, required) ==
  [module |-> module, mode |-> op, model |-> model, field |-> "f", type |-> type,
   relation |-> "", stored |-> TRUE, computed |-> FALSE, required |-> required]
XmlRow(module, model, prefix, suffix, noupdate) ==
  [module |-> module, model |-> model, name |-> prefix \o "." \o suffix, prefix |-> prefix,
   suffix |-> suffix, noupdate |-> noupdate, definition |-> "", domain |-> ""]
ModelRow(module, model) == [module |-> module, model |-> model]

Pairs(S) == {q \in [1..2 -> S]: q[1] # q[2]}

\* Fields and ids that stay, change, move to another module and disappear.
FieldInputs ==
  {[old |-> [fields |-> o, xmlids |-> <<>>, models |-> <<ModelRow("a", "m"), ModelRow("b", "n")>>],
    new |-> [fields |-> n, xmlids |-> <<>>, models |-> <<ModelRow("c", "m"), ModelRow("c", "k")>>]]:
   o \in Pairs({FieldRow("a", "create", "m", "char", FALSE), FieldRow("b", "modify", "m", "char", TRUE),
                FieldRow("b", "create", "n", "text", FALSE), FieldRow("c", "modify", "m", "char", TRUE)}),
   n \in Pairs({FieldRow("c", "create", "m", "char", TRUE), FieldRow("b", "modify", "m", "text", TRUE),
                FieldRow("c", "create", "k", "text", FALSE), FieldRow("c", "modify", "m", "char", TRUE)})}
XmlInputs ==
  {[old |-> [fields |-> <<>>, xmlids |-> o, models |-> <<ModelRow("a", "m"), ModelRow("d", "n")>>],
    new |-> [fields |-> <<>>, xmlids |-> n, models |-> <<ModelRow("c", "m"), ModelRow("b", "n")>>]]:
   o \in Pairs({XmlRow("a", "v", "a", "x", TRUE), XmlRow("b", "v", "a", "x", FALSE),
                XmlRow("b", "n", "b", "y", TRUE), XmlRow("b", "n", "a", "y", TRUE)}),
   n \in Pairs({XmlRow("c", "v", "a", "x", FALSE), XmlRow("b", "v", "b", "x", FALSE),
                XmlRow("b", "k", "b", "y", FALSE), XmlRow("c", "k", "b", "y", TRUE),
                XmlRow("c", "k", "c", "y", FALSE)})}
MCComparable == FieldInputs \union XmlInputs

\* Module a is renamed to c, e merged into c and model n renamed to k.
MCrenamed_modules == [m \in {"a"} |-> "c"]
MCmerged_modules == [m \in {"e"} |-> "c"]
MCrenamed_models == [m \in {"n"} |-> "k"]

-----------------------------------------------------------------------------
(* The other parts.                                                        *)

V1 == [k \in {"f", "g"} |-> "1"]
V2 == [k \in {"f"} |-> "2"]
V3 == [k \in {"g", "h"} |-> "2"]
DataRecord(module, id, noupdate, tag, values) ==
  [id |-> <<module, id>>, noupdate |-> noupdate, tag |-> tag, values |-> values]

\* Lists of records: one, two with the same id, or a record and a template.
DataFiles ==
  {<<>>} \union {<<DataRecord("", "x", n, "record", r)>>: n \in BOOLEAN, r \in {V1, V2}}
  \union {<<DataRecord("", "x", TRUE, "record", V1), DataRecord(m, "x", FALSE, "record", r)>>:
            r \in {V2, V3}, m \in {"a", "c"}}
  \union {<<DataRecord("", "x", FALSE, "record", V1), DataRecord("b", "t", TRUE, "template", V3)>>}

Noupdate == INSTANCE UpgradeNoupdate WITH
  analysis <- x1, left <- x2, changes <- x3, failed <- x4, coverage <- x5,
  Analysis <- {[remote |-> <<[module |-> "a", records |-> r], [module |-> "b", records |-> s]>>,
                local |-> <<[module |-> "c", records |-> t], [module |-> "n", records |-> <<>>]>>,
                unchanged |-> {"n"}]:
               r \in DataFiles, t \in DataFiles,
               s \in {<<>>, <<DataRecord("", "x", TRUE, "record", V3)>>}},
  renamed_modules <- [m \in {"a"} |-> "c"], merged_modules <- [m \in {"b"} |-> "c"],
  ModelField <- {"f", "g"}, Ignored <- {"upgrade_analysis"}

-----------------------------------------------------------------------------
Cell(row, column, field) == [row |-> row, column |-> column, name |-> field, sum |-> FALSE, zero |-> FALSE]
PQ == <<Cell(3, 1, "p"), Cell(3, 2, "q")>>
ExportField(field, cells) ==
  [field |-> field, cont |-> FALSE, extend |-> FALSE, max |-> 0, cells |-> cells]
ImportField(field, cells) == [field |-> field, no_delete |-> FALSE, max |-> 0, cells |-> cells]
HeadCells == {[cell |-> <<1, 2>>, field |-> "h"]}
File == (<<1, 1>> :> 90) @@ (<<2, 1>> :> 90)
GZero == <<[Cell(3, 3, "p") EXCEPT !.zero = TRUE]>>

Twice == <<Cell(3, 1, "p"), Cell(3, 2, "p"), Cell(3, 3, "q")>>

\* Two fields side by side, an extended field, one field below the other with
\* and without a total, a maximum, a text in two cells.
Layouts ==
  {[file |-> File, head |-> HeadCells, export |-> <<ExportField("f", PQ), ExportField("g", GZero)>>,
    import |-> <<ImportField("f", PQ), ImportField("g", GZero)>>],
   [file |-> File @@ (<<3, 1>> :> 90) @@ (<<4, 1>> :> 90), head |-> HeadCells,
    export |-> <<[ExportField("f", PQ) EXCEPT !.extend = TRUE]>>, import |-> <<ImportField("f", PQ)>>],
   [file |-> File @@ (<<5, 1>> :> 90), head |-> {},
    export |-> <<[ExportField("f", PQ) EXCEPT !.extend = TRUE],
                 [ExportField("g", <<Cell(3, 1, "p")>>) EXCEPT !.cont = TRUE, !.extend = TRUE]>>,
    import |-> <<[ImportField("f", PQ) EXCEPT !.no_delete = TRUE]>>],
   [file |-> File, head |-> HeadCells,
    export |-> <<ExportField("f", <<[Cell(3, 1, "p") EXCEPT !.sum = TRUE], Cell(3, 2, "q")>>),
                 [ExportField("g", <<Cell(3, 1, "p")>>) EXCEPT !.cont = TRUE]>>,
    import |-> <<[ImportField("f", PQ) EXCEPT !.max = 2]>>],
   [file |-> File @@ (<<5, 1>> :> 90), head |-> HeadCells,
    export |-> <<[ExportField("f", PQ) EXCEPT !.max = 1]>>, import |-> <<ImportField("f", PQ)>>],
   [file |-> File @@ (<<4, 1>> :> 90), head |-> {},
    export |-> <<[ExportField("f", Twice) EXCEPT !.extend = TRUE]>>, import |-> <<ImportField("f", Twice)>>]}

UpToTwo(S) == UNION {[1..n -> S]: n \in 0..2}

Report == INSTANCE ExcelReport WITH
  layout <- x1, doc <- x2, phase <- x3, sheet <- x4, clash <- x5, told <- x6,
  Layout <- Layouts,
  Document <- [head: {[h |-> 1], [h |-> 0]},
               lines: [f: UpToTwo({[p |-> 1, q |-> 2], [p |-> 0, q |-> 3], [p |-> 0, q |-> 0]}),
                       g: {<<>>, <<[p |-> 1]>>, <<[p |-> 0], [p |-> 1]>>}]],
  Value <- {7}

-----------------------------------------------------------------------------
\* Fields, a relation with two records, two languages, a list of values.
PathStep(field, target, list) == [field |-> field, target |-> target, list |-> list]
Of(field) == PathStep(field, field, FALSE)
Line(names, lang) == [names |-> names, lang |-> lang]

Json == INSTANCE Jsonifier WITH
  lines <- x1, language_agnostic <- x2, now <- x3, before <- x4, cache <- x5, written <- x6,
  shared <- x7, got <- x8, steps <- x9,
  Export <- {"e", "f"}, NoLang <- "", Field <- {"a", "b", "p"}, Related <- [f \in {"p"} |-> <<"r", "s">>],
  LineValue <- {Line(<<Of("a")>>, ""), Line(<<PathStep("a", "k", FALSE)>>, "fr"),
                Line(<<Of("p"), Of("a")>>, ""), Line(<<Of("p"), Of("b")>>, ""),
                Line(<<PathStep("p", "q", TRUE), Of("b")>>, "fr")},
  MaxLines <- 2, MaxSteps <- 3

ASSUME OtherParameters ==
  /\ Noupdate!UpgradeNoupdateParameters /\ Report!ExcelReportParameters
  /\ Json!JsonifierParameters

-----------------------------------------------------------------------------
\* The parts below use none of the variables of Addons.
Other(p) == part = p /\ Unused(p)

MCInit ==
  \/ /\ Init
     /\ x1 = None /\ x2 = None /\ x3 = None /\ x4 = None /\ x5 = None
     /\ x6 = None /\ x7 = None /\ x8 = None /\ x9 = None
  \/ Other("noupdate") /\ Noupdate!Init /\ x6 = None /\ x7 = None /\ x8 = None /\ x9 = None
  \/ Other("report") /\ Report!Init /\ x7 = None /\ x8 = None /\ x9 = None
  \/ Other("json") /\ Json!Init

MCNext ==
  \/ Next /\ UNCHANGED more
  \/ part = "noupdate" /\ Noupdate!Next /\ UNCHANGED <<vars, x6, x7, x8, x9>>
  \/ part = "report" /\ Report!Next /\ UNCHANGED <<vars, x7, x8, x9>>
  \/ part = "json" /\ Json!Next /\ UNCHANGED vars

\* The scheduled fetch of the mails and the vacuum run again and again.
MCSpec == /\ MCInit /\ [][MCNext]_<<vars, more>>
          /\ \A f \in Fetcher: WF_vars(part = "mail" /\ Mail!Step(f) /\ Only("mail") /\ UNCHANGED more)
          /\ WF_vars(part = "vacuum" /\ Cleaner!Vacuuming /\ Only("vacuum") /\ UNCHANGED more)

-----------------------------------------------------------------------------
\* The types of the other parts, and of those of Addons that TypeOK leaves out.
OthersTypeOK ==
  /\ part = "templates" => Templates!TypeOK
  /\ part = "size" => Size!TypeOK
  /\ part = "noupdate" => Noupdate!TypeOK
  /\ part = "report" => Report!TypeOK
  /\ part = "json" => Json!TypeOK

\* What scheduled actions have to do is done in the end.
\* fetchmail_attach_from_folder: a message that matches is attached.
\* autovacuum_message_attachment: what a rule selects does not stay.
DueIsDone ==
  /\ \A m \in Letters: []<>(part = "mail" /\ Mail!Attachable(m) => Mail!Settled(m))
  /\ \A i \in Target: []<>(part = "vacuum" => Cleaner!Rid(i))

\* excel_import_export: the input of a template tells its lines and gives them
\* back; the export overwrites nothing of it and the import of the file leaves
\* the lines the file shows.
\* jsonifier: the JSON of a record has the value of every line of the export.
\* database_size: nothing counts twice in the sizes of a day, and what belongs to a
\* model that is measured counts.
\* upgrade_analysis: loading the changes of noupdate records over the old ones
\* gives the new ones.
OutputTellsInput ==
  /\ part = "templates" => Templates!InstructionTellsInput
  /\ part = "report" => Report!NothingOverwritten /\ Report!ImportReadsLines
  /\ part = "json" => Json!LinesAreTold
  /\ part = "size" => Size!EverythingCountsOnce
  /\ part = "noupdate" => Noupdate!ChangesBringUpToDate
===============================================================================
