------------------------------ MODULE ExcelReport ------------------------------
(***************************************************************************)
(* excel_import_export: a document is written into the sheet of a template *)
(* (xlsx_export.py), the sheet comes back, maybe edited, and is imported   *)
(* into the document or into a new one (xlsx_import.py).                   *)
(*                                                                         *)
(* One sheet.  A position is <<row, column>>, counted from 1; a cell that  *)
(* is not in the domain of the sheet is empty.  The values of fields are   *)
(* numbers, 0 standing for every falsy value.  The conditions that a       *)
(* template may put on a field are Python expressions: of those, only the  *)
(* default "value or ''" and "value or 0" are told apart.                  *)
(***************************************************************************)
EXTENDS Naturals, Sequences, FiniteSets, SequencesExt

CONSTANTS Layout,   \* templates: the file and the two instructions
          Document, \* documents: head fields, and lines per one2many field
          Value     \* what a user types into a cell

\* What a cell holds besides numbers of the document.
NoText == 99  \* the empty string: what it is stored in is an empty cell
Text == 90    \* a text of the template: a heading, the label of a total
Formula == 91 \* a sum that no spreadsheet program has computed yet
Total == 92   \* the same sum, once computed

ExcelReportParameters ==
  /\ Value \subseteq 1 .. 89
  /\ \A l \in Layout:
       /\ DOMAIN l = {"file", "head", "export", "import"}
       /\ \A i \in DOMAIN l.export: \A c, d \in Range(l.export[i].cells):
            c # d => c.column # d.column

VARIABLES layout,  \* the template, never changed
          doc,     \* the document
          phase,   \* "draft", "exported", "imported", "failed"
          sheet,   \* the cells of the file
          clash,   \* the export stored a line where something else was
          told     \* the lines that the file shows to its user

vars == <<layout, doc, phase, sheet, clash, told>>

Init == /\ layout \in Layout
        /\ doc \in Document
        /\ phase = "draft"
        /\ sheet = layout.file
        /\ clash = FALSE
        /\ told = doc.lines

Largest(S) == CHOOSE x \in S: \A y \in S: y <= x
Least(S) == CHOOSE x \in S: \A y \in S: x <= y
Row(p) == p[1]

\* cells with what f has stored over them.
Store(cells, f) ==
  [p \in {q \in DOMAIN cells \union DOMAIN f: q \in DOMAIN f => f[q] # NoText} |->
     IF p \in DOMAIN f THEN f[p] ELSE cells[p]]

-----------------------------------------------------------------------------
(* xlsx_export.py.                                                         *)

\* The condition of the field, "value or ''" unless the template has another.
Shown(value, c) == IF value = 0 /\ ~c.zero THEN NoText ELSE value

fill_head(cells) ==
  Store(cells, [p \in {h.cell: h \in layout.head} |->
    LET h == CHOOSE x \in layout.head: x.cell = p IN Shown(doc.head[h.field], [zero |-> FALSE])])

\* openpyxl: what is at the row or below moves down; up by one when there is
\* no line, and the row of the template goes.
insert_rows(cells, row, lines) ==
  LET moved == {p \in DOMAIN cells: Row(p) >= row}
      To(p) == <<Row(p) + lines - 1, p[2]>>
  IN [q \in {To(p): p \in moved} \union
            {p \in DOMAIN cells: Row(p) < row} |->
       IF \E p \in moved: To(p) = q THEN cells[CHOOSE p \in moved: To(p) = q] ELSE cells[q]]

\* Mutant: it starts at the last data row.
StartRow_Last(s, block, c) == IF block.cont THEN s.cont_row ELSE c.row
\* A row field that continues starts below the last data row so far.
StartRow(s, block, c) == IF block.cont THEN s.cont_row + 1 ELSE c.row

\* A sum goes below the last line.
Footer(block, lines) == {c \in Range(block.cells): c.sum /\ lines > 0}

\* The cells of a row field that have the same text share one list of values:
\* each of them adds the value of each line to it, and each is given all of it.
Times(block, c) == Cardinality({d \in Range(block.cells): [d EXCEPT !.row = c.row, !.column = c.column] = c})

\* One row field: s holds the cells, the last data row and whether a value has
\* been stored over something else.
fill_lines(s, block) ==
  LET lines == doc.lines[block.field]
      Count(c) == Len(lines) * Times(block, c)
      first == block.cells[1]
      At(c, i) == <<StartRow(s, block, c) + i - 1, c.column>>
      room == IF block.extend THEN insert_rows(s.cells, StartRow(s, block, first) + 1, Count(first))
                              ELSE s.cells
      values == [p \in UNION {{At(c, i): i \in 1 .. Count(c)}: c \in Range(block.cells)} |->
                   LET c == CHOOSE x \in Range(block.cells): x.column = p[2]
                   IN Shown(lines[(Row(p) - StartRow(s, block, c)) \div Times(block, c) + 1][c.name], c)]
      sums == [p \in {At(c, Count(c) + 1): c \in Footer(block, Len(lines))} |-> Formula]
      last == {Row(p): p \in DOMAIN values \union DOMAIN sums}
  IN [cells |-> Store(Store(room, values), sums),
      cont_row |-> Largest({s.cont_row} \union last),
      \* what the file has in the first row of a field is there to be filled
      clash |-> s.clash \/ \E p \in DOMAIN values \intersect DOMAIN room:
                  block.cont \/ p \notin DOMAIN layout.file \/ \A c \in Range(block.cells): Row(p) # c.row]

\* Whether a row field has more records than the template allows.
TooMany(block) == block.max > 0 /\ Len(doc.lines[block.field]) > block.max

\* One document (export_xlsx of several makes one file of each and zips them).
export_xlsx ==
  /\ phase = "draft"
  /\ IF \E i \in DOMAIN layout.export: TooMany(layout.export[i])
     THEN phase' = "failed" /\ UNCHANGED <<sheet, clash>>
     ELSE LET s == FoldLeft(fill_lines, [cells |-> fill_head(sheet), cont_row |-> 0, clash |-> FALSE],
                            layout.export)
          IN /\ phase' = "exported"
             /\ sheet' = s.cells
             /\ clash' = s.clash
  /\ UNCHANGED <<layout, doc, told>>

-----------------------------------------------------------------------------
(* The user.                                                               *)

\* Formulas that no program has computed read as empty (data_only).
Cell(p) == IF p \in DOMAIN sheet /\ sheet[p] # Formula THEN sheet[p] ELSE 0
IsEmpty(p) == p \notin DOMAIN sheet \/ sheet[p] = Formula

\* A program that saves the file computes its formulas.
Saved == [p \in DOMAIN sheet |-> IF sheet[p] = Formula THEN Total ELSE sheet[p]]
SaveFile ==
  /\ phase = "exported" /\ sheet' = Saved /\ sheet' # sheet
  /\ UNCHANGED <<layout, doc, phase, clash, told>>

\* Each line of the field is in one row of the file.
Once(block) == \A c \in Range(block.cells): Times(block, c) = 1

\* The user writes a value into the line of a row field, or a line below.
ChangeCell(block, c, i, value) ==
  /\ phase = "exported" /\ ~block.cont /\ Once(block)
  /\ i \in 1 .. Len(told[block.field])
  /\ told[block.field][i][c.name] # value
  /\ Cell(<<c.row + i - 1, c.column>>) = told[block.field][i][c.name]
  /\ sheet' = Store(sheet, (<<c.row + i - 1, c.column>> :> value))
  /\ told' = [told EXCEPT ![block.field][i][c.name] = value]
  /\ UNCHANGED <<layout, doc, phase, clash>>

AddLine(block, value) ==
  LET n == Len(told[block.field])
      new == {<<c.row + n, c.column>>: c \in Range(block.cells)}
  IN
  /\ phase = "exported" /\ ~block.cont /\ Once(block)
  /\ n < 3
  /\ new \intersect DOMAIN sheet = {}
  /\ sheet' = Store(sheet, [p \in new |-> value])
  /\ told' = [told EXCEPT ![block.field] =
                Append(@, [x \in {c.name: c \in Range(block.cells)} |-> value])]
  /\ UNCHANGED <<layout, doc, phase, clash>>

-----------------------------------------------------------------------------
(* xlsx_import.py.                                                         *)

LastRow == Largest({1} \union {Row(p): p \in DOMAIN sheet})

\* The first row that is empty in every column read there.  The row that
\* starts the sheet is never found: its index is 0, which is falsy.
get_end_row(block) ==
  LET After(c) == IF block.max > 0 THEN c.row + block.max ELSE LastRow + 1
      Tested(r) == {c \in Range(block.cells): r \in c.row .. After(c) - 1}
      empty == {r \in 1 .. LastRow + block.max:
                  Tested(r) # {} /\ \A c \in Tested(r): IsEmpty(<<r, c.column>>)}
  IN IF empty # {} /\ Least(empty) # 1 THEN Least(empty) ELSE After(Last(block.cells))

\* The lines of a row field, read column by column down to the end row, as
\* base_import puts them together: a row without any value is no line.  Of
\* columns for the same field the last one is read.
get_line_vals(block) ==
  LET end == get_end_row(block)
      rows == Largest({0} \union {end - c.row: c \in {x \in Range(block.cells): x.row < end}})
      Read(c, i) == IF c.row + i - 1 < end THEN Cell(<<c.row + i - 1, c.column>>) ELSE 0
      line == [i \in 1 .. rows |->
                 [name \in {c.name: c \in Range(block.cells)} |->
                    Read(Last(SelectSeq(block.cells, LAMBDA c: c.name = name)), i)]]
  IN SelectSeq(line, LAMBDA l: \E name \in DOMAIN l: l[name] # 0)

\* Mutant: the test for the mark _NODEL_ is the wrong way round.
delete_record_data_Marked(block, lines) == IF ~block.no_delete THEN lines ELSE <<>>
\* What is left of the lines: they are deleted first, unless the template says otherwise or gives the
\* field with a number of rows, "order_line[5]", which names no field.
delete_record_data(block, lines) == IF block.no_delete \/ block.max > 0 THEN lines ELSE <<>>

\* What the import makes of the lines of one field; a new document has none.
Imported(field, lines) ==
  LET blocks == {b \in Range(layout.import): b.field = field}
  IN IF blocks = {} THEN lines
     ELSE LET b == CHOOSE x \in blocks: TRUE
          IN delete_record_data(b, lines) \o get_line_vals(b)

\* In an .xlsx file a field of the head is never read: _get_cell_value asks the
\* value of the cell for its value, the error is caught and the field is
\* imported as False, whatever the file holds.
import_head(head) ==
  [field \in DOMAIN head |-> IF \E h \in layout.head: h.field = field THEN 0 ELSE head[field]]

import_xlsx ==
  /\ phase = "exported" /\ layout.import # <<>>
  /\ phase' = "imported"
  /\ doc' = [head |-> import_head(doc.head),
             lines |-> [f \in DOMAIN doc.lines |-> Imported(f, doc.lines[f])]]
  /\ UNCHANGED <<layout, sheet, clash, told>>

\* Into a new document.  The mark for no deletion is only taken off the name
\* of the field where lines are deleted: here it makes the field unknown.
import_xlsx_new ==
  /\ phase = "exported" /\ layout.import # <<>>
  /\ IF \E b \in Range(layout.import): b.no_delete
     THEN phase' = "failed" /\ UNCHANGED doc
     ELSE /\ phase' = "imported"
          /\ doc' = [head |-> import_head([f \in DOMAIN doc.head |-> 0]),
                     lines |-> [f \in DOMAIN doc.lines |-> Imported(f, <<>>)]]
  /\ UNCHANGED <<layout, sheet, clash, told>>

Next == \/ export_xlsx \/ SaveFile \/ import_xlsx \/ import_xlsx_new
        \/ \E b \in Range(layout.export), v \in Value:
             AddLine(b, v) \/ \E c \in Range(b.cells), i \in 1 .. 3: ChangeCell(b, c, i, v)

Spec == Init /\ [][Next]_vars

-----------------------------------------------------------------------------
TypeOK ==
  /\ layout \in Layout
  /\ phase \in {"draft", "exported", "imported", "failed"}
  /\ clash \in BOOLEAN
  /\ \A p \in DOMAIN sheet: Row(p) \in 1 .. 20 /\ sheet[p] \in 0 .. Total
  /\ \A f \in DOMAIN told: \A i \in 1 .. Len(told[f]): \A x \in DOMAIN told[f][i]:
       told[f][i][x] \in 0 .. 89

Columns(block) == {c.column: c \in Range(block.cells)}
Apart(i, j) == Columns(layout.export[i]) \intersect Columns(layout.export[j]) = {}

\* A template with room for its lines: a field that continues follows one with
\* lines; the others have columns of their own; a field with a text of the file
\* below it extends, with a free row for each field before it, and no text of
\* its cells is there more often than the one it extends by.
Roomy ==
  \A i \in DOMAIN layout.export: LET b == layout.export[i] IN
    /\ IF b.cont THEN \E j \in 1 .. i - 1: doc.lines[layout.export[j].field] # <<>>
                 ELSE \A j \in 1 .. i - 1: Apart(i, j)
    /\ \A p \in DOMAIN layout.file, c \in Range(b.cells):
         p[2] = c.column /\ Row(p) > c.row => b.extend /\ Row(p) > c.row + i - 1
    /\ \A c \in Range(b.cells): Times(b, c) <= Times(b, b.cells[1])

\* The export of a template with room stores no line over another one, over a
\* heading or over a total below: continuing and extending fields, their sums
\* and fields without lines place the lines of all of them apart (_fill_lines).
NothingOverwritten == phase = "exported" /\ Roomy /\ told = doc.lines => ~clash

\* The import reads a row field where the export writes it, each line once, with
\* the fields that the import deletes first, and a blank row ends the lines in
\* the file.
Mirrored(b) ==
  /\ b.max = 0 /\ ~b.no_delete
  /\ \E i \in DOMAIN layout.export: LET e == layout.export[i] IN
       /\ e.field = b.field /\ ~e.cont /\ Once(e)
       /\ e.cells = b.cells
       /\ \A c \in Range(e.cells): ~c.sum /\ c.row > 1
       /\ \A j \in DOMAIN layout.export: j # i => Apart(i, j)
       /\ \A j \in i + 1 .. Len(layout.export): ~layout.export[j].extend
  /\ \A c \in Range(b.cells): IsEmpty(<<c.row + Len(told[b.field]), c.column>>)

\* Importing a file gives the document the lines that the file shows, no more
\* and no fewer, whatever the document had before: when the import mirrors the
\* export and no line is blank, lines survive the export, the user's program
\* and the import, and those the user wrote or changed come with them.
ImportReadsLines ==
  phase = "imported" =>
    \A b \in Range(layout.import):
      (Mirrored(b) /\ \A i \in 1 .. Len(told[b.field]): \E x \in DOMAIN told[b.field][i]: told[b.field][i][x] # 0)
        => doc.lines[b.field] = told[b.field]

=============================================================================
