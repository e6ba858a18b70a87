----------------------------- MODULE ExcelTemplate -----------------------------
(***************************************************************************)
(* excel_import_export, the templates (xlsx_template.py): the instruction  *)
(* that a user or a data file gives is taken apart into lines that the     *)
(* user can edit, and the instruction that export and import follow is     *)
(* computed back from the lines; each template may have actions, a report  *)
(* menu and a field of its own on the common report wizard.                *)
(*                                                                         *)
(* A dictionary is the sequence of its pairs [key, value], in order.       *)
(***************************************************************************)
EXTENDS Naturals, Sequences, FiniteSets, Functions

CONSTANTS Template, Model, None,
          Input,     \* instructions: [exports, imports], see ExcelTemplateParameters
          Default,   \* the condition that stands where a field has none
          MaxSteps   \* bound: operations on templates

\* Sheets hold rows, by row field and marks, which hold cells; the text of a
\* cell, [cell], is in parts.  A sheet is named by a string, a number or its digits:
\* [name] or [name, digits].
ExcelTemplateParameters ==
  \A d \in Input:
    /\ DOMAIN d = {"exports", "imports"}
    /\ \A x \in {d.exports, d.imports}: \A i \in DOMAIN x: \A j \in DOMAIN x[i].value:
         /\ DOMAIN x[i].value[j].key = {"field", "cont", "extend", "no_delete"}
         /\ \A k \in DOMAIN x[i].value[j].value:
              DOMAIN x[i].value[j].value[k].value = {"name", "cond", "style", "style_cond", "sum"}

VARIABLES tpl,      \* the templates; None where there is none
          windows,  \* the actions bound to models: <<"export", model>>, <<"import", template>>
          results,  \* the wizard's result fields: template to relation
          edited,   \* templates whose lines were changed since the input was taken apart
          steps     \* operations so far

vars == <<tpl, windows, results, edited, steps>>

Init == /\ tpl = [t \in Template |-> None]
        /\ windows = {}
        /\ results = [t \in Template |-> None]
        /\ edited = {}
        /\ steps = 0

Live == {t \in Template: tpl[t] # None}

-----------------------------------------------------------------------------
(* From the input to the lines.                                            *)

\* Mutant: the style is looked for after its own mark is gone.
get_field_style_First(text) ==
  LET nested == text.style_cond.styles
  IN IF nested = <<>> THEN text
     ELSE [text EXCEPT !.style = nested[1], !.style_cond.styles = Tail(nested)]
\* common.py: a cell's text is cut at "${", "#{", "#?" and "@{".  Cutting the
\* default style takes the first style there is, and everywhere it occurs:
\* also out of the conditional style, [test, styles], that follows.
get_field_style(text) ==
  LET nested == text.style_cond.styles
      style == IF text.style # "" THEN text.style ELSE IF nested # <<>> THEN nested[1] ELSE ""
  IN [text EXCEPT !.style = style,
                  !.style_cond.styles = SelectSeq(nested, LAMBDA x: x # style)]

\* What the line keeps of the text: the export's condition has a default.
extract_field_name(text, kind) ==
  IF kind = "export"
  THEN [get_field_style(text) EXCEPT !.cond = IF @ = "" THEN Default ELSE @]
  ELSE text

SheetLine(sheet) == [type |-> "sheet", key |-> [name |-> sheet.name], value |-> None]
RowLine(key) == [type |-> "row", key |-> key, value |-> None]
DataLine(cell, kind) == [type |-> "data", key |-> cell.key, value |-> extract_field_name(cell.value, kind)]

\* A loop over a list: what add makes of base with one element after the other.
Loop(add(_, _), base, list) ==
  LET last == Len(list)
      upTo[n \in 0..last] == IF n = 0 THEN base ELSE add(upTo[n - 1], list[n])
  IN  upTo[last]

\* One line for a sheet, then for each row field one and one for each cell.
\* str(sheet) makes a number and its digits the same.
compute_input_instruction(sheets, kind) ==
  Loop(\o, <<>>, [i \in DOMAIN sheets |->
    <<SheetLine(sheets[i].key)>> \o
    Loop(\o, <<>>, [j \in DOMAIN sheets[i].value |->
      LET row == sheets[i].value[j] IN
      <<RowLine(row.key)>> \o [k \in DOMAIN row.value |-> DataLine(row.value[k], kind)]])])

\* create and write, where the input is given: both lists are made anew.
FromInput(r, input) ==
  IF input = None THEN r
  ELSE [r EXCEPT !.input = input,
                 !.exports = compute_input_instruction(input.exports, "export"),
                 !.imports = compute_input_instruction(input.imports, "import")]

-----------------------------------------------------------------------------
(* From the lines to the instruction.                                      *)

\* A dictionary that holds value under key: in place, or at the end.
Update(dict, key, value) ==
  IF \E i \in DOMAIN dict: dict[i].key = key
  THEN [i \in DOMAIN dict |-> IF dict[i].key = key THEN [key |-> key, value |-> value] ELSE dict[i]]
  ELSE Append(dict, [key |-> key, value |-> value])

Keys(dict) == {dict[i].key: i \in DOMAIN dict}
Get(dict, key) == dict[CHOOSE i \in DOMAIN dict: dict[i].key = key].value

\* The sheet and the row are those of the last lines that named one; a line
\* before its sheet or its row is a KeyError.
AddLine(s, line) ==
  LET rows == Get(s.dict, s.sheet)
      known == s.sheet \in Keys(s.dict)
  IN
  CASE s.error -> s
    [] ~s.error /\ line.type = "sheet" ->
         [s EXCEPT !.dict = Update(@, line.key, <<>>), !.sheet = line.key]
    [] ~s.error /\ line.type = "row" /\ known ->
         [s EXCEPT !.dict = Update(@, s.sheet, Update(rows, line.key, <<>>)), !.row = line.key]
    [] ~s.error /\ line.type = "data" /\ known /\ s.row \in Keys(rows) ->
         [s EXCEPT !.dict = Update(@, s.sheet,
                      Update(rows, s.row, Update(Get(rows, s.row), line.key, line.value)))]
    [] OTHER -> [s EXCEPT !.error = TRUE]

\* Keys of no sheet and of no row: what the two are before any line.
NoSheet == [name |-> ""]
NoRow == [field |-> <<>>, cont |-> FALSE, extend |-> FALSE, no_delete |-> FALSE]

compute_output_instruction(lines) ==
  Loop(AddLine, [dict |-> <<>>, sheet |-> NoSheet, row |-> NoRow, error |-> FALSE], lines)

-----------------------------------------------------------------------------
(* The field and the lines of an easy report.                              *)

result_field(t) == <<"results", t>>
\* Row fields are tuples: <<"order_line">>, or the result field of a template.
ResultRow(t) == [NoRow EXCEPT !.field = result_field(t)]
PlainText(name) == [name |-> name, cond |-> "", style |-> "", sum |-> FALSE,
                    style_cond |-> [test |-> "", styles |-> <<>>]]

HasResultRow(t, lines) ==
  \E i \in DOMAIN lines: lines[i].type = "row" /\ lines[i].key.field = result_field(t)

\* Lines that have no row of the result field are replaced.
update_result_export_ids(t, r) ==
  IF HasResultRow(t, r.exports) THEN r
  ELSE [r EXCEPT !.exports = <<SheetLine([name |-> "1"]), RowLine(ResultRow(t)),
                               [type |-> "data", key |-> [cell |-> "A1"], value |-> PlainText("id")]>>]

\* What create and write make of the lines: those of the input, then those of
\* the report model.
Given(t, r, input, result) ==
  LET a == FromInput(r, input)
  IN IF result = None THEN a ELSE update_result_export_ids(t, [a EXCEPT !.result = result])

\* Templates whose lines are not those of the input, after create or write.
Edited(t, r, input, result) ==
  (IF input = None THEN edited ELSE edited \ {t}) \union
  (IF result # None /\ ~HasResultRow(t, FromInput(r, input).exports) THEN {t} ELSE {})

Blank(model) == [res_model |-> model, input |-> None, exports |-> <<>>, imports |-> <<>>,
                 result |-> None, export_action |-> None, import_action |-> FALSE,
                 report_menu |-> FALSE]

create(t, model, input, result) ==
  /\ t \notin Live
  /\ tpl' = [tpl EXCEPT ![t] = Given(t, Blank(model), input, result)]
  /\ edited' = Edited(t, Blank(model), input, result)
  /\ results' = [results EXCEPT ![t] = IF result = None THEN @ ELSE result]
  /\ UNCHANGED windows

write(t, input, result) ==
  /\ t \in Live
  /\ input # None \/ result # None
  /\ tpl' = [tpl EXCEPT ![t] = Given(t, tpl[t], input, result)]
  /\ edited' = Edited(t, tpl[t], input, result)
  /\ results' = [results EXCEPT ![t] = IF result = None THEN @ ELSE result]
  /\ UNCHANGED windows

\* Another model, or another use of the template (_onchange_use_report_wizard).
SetModel(t, model) ==
  /\ t \in Live /\ model # tpl[t].res_model
  /\ tpl' = [tpl EXCEPT ![t].res_model = model]
  /\ UNCHANGED <<windows, results, edited>>

\* The user removes a line.
RemoveLine(t, i) ==
  /\ t \in Live /\ i \in DOMAIN tpl[t].exports
  /\ tpl' = [tpl EXCEPT ![t].exports = SubSeq(@, 1, i - 1) \o SubSeq(@, i + 1, Len(@))]
  /\ edited' = edited \union {t}
  /\ UNCHANGED <<windows, results>>

\* The report model is cleared: write does nothing more.
ClearResult(t) ==
  /\ t \in Live /\ tpl[t].result # None
  /\ tpl' = [tpl EXCEPT ![t].result = None]
  /\ UNCHANGED <<windows, results, edited>>

\* The field of the template goes with it, by its name, which is False when
\* the report model has been cleared before; actions and menu stay.
unlink(t) ==
  /\ t \in Live
  /\ tpl' = [tpl EXCEPT ![t] = None]
  /\ results' = [results EXCEPT ![t] = IF tpl[t].result = None THEN @ ELSE None]
  /\ edited' = edited \ {t}
  /\ UNCHANGED windows

-----------------------------------------------------------------------------
(* Actions and menus.  The form shows a button to add or to remove.        *)

\* One export action per model, shared by its templates.
add_export_action(t) ==
  /\ t \in Live /\ tpl[t].export_action = None
  /\ windows' = windows \union {<<"export", tpl[t].res_model>>}
  /\ tpl' = [tpl EXCEPT ![t].export_action = tpl[t].res_model]
  /\ UNCHANGED <<results, edited>>

\* Mutant: the action is searched with the model alone, and found on no other.
Sharers_None(t) == {}
\* Templates that the search finds with the action, once t has let it go.
Sharers(t) == {u \in Live \ {t}: tpl[u].res_model = tpl[t].res_model
                                 /\ tpl[u].export_action = tpl[t].export_action}

\* Removing a window action clears the links to it (ondelete "set null").
remove_export_action(t) ==
  /\ t \in Live /\ tpl[t].export_action # None
  /\ LET a == tpl[t].export_action IN
     IF Sharers(t) = {}
     THEN /\ windows' = windows \ {<<"export", a>>}
          /\ tpl' = [u \in Template |->
                       IF u \in Live THEN [tpl[u] EXCEPT !.export_action = IF @ = a THEN None ELSE @]
                                     ELSE None]
     ELSE tpl' = [tpl EXCEPT ![t].export_action = None] /\ UNCHANGED windows
  /\ UNCHANGED <<results, edited>>

add_import_action(t) ==
  /\ t \in Live /\ ~tpl[t].import_action
  /\ windows' = windows \union {<<"import", t>>}
  /\ tpl' = [tpl EXCEPT ![t].import_action = TRUE]
  /\ UNCHANGED <<results, edited>>

remove_import_action(t) ==
  /\ t \in Live /\ tpl[t].import_action
  /\ windows' = windows \ {<<"import", t>>}
  /\ tpl' = [tpl EXCEPT ![t].import_action = FALSE]
  /\ UNCHANGED <<results, edited>>

\* A report, a window action that opens the wizard, and a menu for it.
add_report_menu(t) ==
  /\ t \in Live /\ ~tpl[t].report_menu /\ tpl[t].result # None
  /\ tpl' = [tpl EXCEPT ![t].report_menu = TRUE]
  /\ UNCHANGED <<windows, results, edited>>

remove_report_menu(t) ==
  /\ t \in Live /\ tpl[t].report_menu
  /\ tpl' = [tpl EXCEPT ![t].report_menu = FALSE]
  /\ UNCHANGED <<windows, results, edited>>

Operation == \E t \in Template:
  \/ \E d \in Input \union {None}, r \in Model \union {None}:
       write(t, d, r) \/ \E m \in Model: create(t, m, d, r)
  \/ \E m \in Model: SetModel(t, m)
  \/ \E i \in 1 .. 10: RemoveLine(t, i)
  \/ ClearResult(t) \/ unlink(t)
  \/ add_export_action(t) \/ remove_export_action(t)
  \/ add_import_action(t) \/ remove_import_action(t)
  \/ add_report_menu(t) \/ remove_report_menu(t)

Next == steps < MaxSteps /\ Operation /\ steps' = steps + 1

Spec == Init /\ [][Next]_vars

-----------------------------------------------------------------------------
TypeOK ==
  /\ \A t \in Live: tpl[t].res_model \in Model /\ tpl[t].result \in Model \union {None}
  /\ \A t \in Live: tpl[t].export_action # None => <<"export", tpl[t].export_action>> \in windows
  /\ windows \subseteq ({"export"} \X Model) \union ({"import"} \X Template)
  /\ results \in [Template -> Model \union {None}]
  /\ edited \subseteq Live

\* What an instruction asks for: sheet, row field with its marks, cell, text.
Asked(sheets) ==
  UNION {UNION {{<<sheets[i].key.name, sheets[i].value[j].key,
                   sheets[i].value[j].value[k].key, sheets[i].value[j].value[k].value>>:
                   k \in DOMAIN sheets[i].value[j].value}:
                j \in DOMAIN sheets[i].value}: i \in DOMAIN sheets}

\* An instruction that says one thing of each cell: no sheet or row field twice,
\* and conditional styles behind a default style of their own.
Plain(sheets) ==
  /\ \A i, j \in DOMAIN sheets: i # j => sheets[i].key.name # sheets[j].key.name
  /\ \A x \in Asked(sheets): \/ x[4].style_cond.styles = <<>>
                             \/ x[4].style # "" /\ x[4].style \notin Range(x[4].style_cond.styles)

\* The text of each cell of the input with its condition.
WithDefault(asked) == {<<x[1], x[2], x[3], [x[4] EXCEPT !.cond = IF @ = "" THEN Default ELSE @]>>: x \in asked}

\* What export and import follow is what the input says, for every template
\* whose lines nobody has edited, through the taking apart into lines, the
\* parsing of each text and the putting together (_compute_input_*,
\* _extract_field_name, _compute_output_instruction).
InstructionTellsInput ==
  \A t \in Live \ edited:
    LET d == tpl[t].input
        exp == compute_output_instruction(tpl[t].exports)
        imp == compute_output_instruction(tpl[t].imports)
    IN d # None => /\ ~exp.error /\ ~imp.error
                   /\ Plain(d.exports) => Asked(exp.dict) = WithDefault(Asked(d.exports))
                   /\ Plain(d.imports) => Asked(imp.dict) = Asked(d.imports)

\* As long as templates keep the model of the export action they have, a step
\* takes the action from one template at most: removing it from a template
\* leaves the other templates of the model theirs (remove_export_action).
LeavesSharedAction ==
  (\A t \in Live: tpl[t].export_action \in {None, tpl[t].res_model}) =>
    Cardinality({t \in Live: /\ tpl[t].export_action # None
                             /\ tpl'[t] # None
                             /\ tpl'[t].export_action = None}) <= 1

=============================================================================
