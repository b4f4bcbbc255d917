------------------------------- MODULE RowDiff -------------------------------
(* The text of a data buffer and back: what the grid shows of the loaded rows  *)
(* (ui/grid.lua), and the change set that the edited lines amount to           *)
(* (data/diff.lua).                                                            *)
(*                                                                             *)
(* The text of a cell is its value, a blank for an empty one, and "cut" for a  *)
(* text that was cut off to fit its column and ends in an ellipsis.  A line    *)
(* holds the text of the visible columns and the extmark that came to rest on  *)
(* it, the number of a loaded row or 0.                                        *)
EXTENDS RowChanges

CONSTANTS
  Width,     \* how wide each text is on the screen
  MaxCell    \* max_cell_width

Blank == ""
Cut   == "cut"

Visible(hidden) == Columns \ hidden

\* widths: a column is as wide as its widest cell, up to MaxCell; names are one
\* wide.
Fits(loaded, c, width) ==
  /\ width <= MaxCell
  /\ \E w \in {1} \cup {Width[loaded[i][c]] : i \in DOMAIN loaded} : width <= w

\* display and pad: a value is its own text, as far as it fits.
Fit(loaded, c, v) == IF Fits(loaded, c, Width[v]) THEN v ELSE Cut

Rendered(loaded, i, c) == Fit(loaded, c, loaded[i][c])

\* parse_value: the inverse of display, except for what was cut off.
Parse(txt) == txt

RenderRow(loaded, hidden, row) == [c \in Visible(hidden) |-> Fit(loaded, c, row[c])]

Render(loaded, hidden) ==
  [i \in DOMAIN loaded |-> [mark |-> i, cells |-> RenderRow(loaded, hidden, loaded[i])]]

-----------------------------------------------------------------------------
(* reconcile: which loaded row each line is.                                   *)

KeyOf(line) == IF "id" \in DOMAIN line.cells THEN line.cells.id ELSE Blank

\* Pass one: the first line that shows the key of a loaded row is that row.  The
\* code compares texts; the key fits its column (WidthAssumption of DataBuffer),
\* so the text is the key, and no two rows of the page are given up as ambiguous.
ClaimsByKey(loaded, lines, l, i) ==
  /\ KeyOf(lines[l]) # Blank
  /\ KeyOf(lines[l]) = loaded[i].id
  /\ \A m \in 1 .. l - 1 : KeyOf(lines[m]) # KeyOf(lines[l])

(* MUTANT of ClaimsByMark: marks are trusted also where a key has spoken. *)
ClaimsByMarkAlone(loaded, lines, l, i) ==
  /\ lines[l].mark = i
  /\ \A k \in DOMAIN loaded : ~ClaimsByKey(loaded, lines, l, k)

\* Pass two: of the others, the one its mark is on.
ClaimsByMark(loaded, lines, l, i) ==
  /\ lines[l].mark = i
  /\ \A k \in DOMAIN loaded : ~ClaimsByKey(loaded, lines, l, k)
  /\ \A m \in DOMAIN lines : ~ClaimsByKey(loaded, lines, m, i)

Claims(loaded, lines, l, i) ==
  ClaimsByKey(loaded, lines, l, i) \/ ClaimsByMark(loaded, lines, l, i)

RowOf(loaded, lines, l) ==
  LET claimed == {i \in DOMAIN loaded : Claims(loaded, lines, l, i)}
  IN  IF claimed = {} THEN 0 ELSE CHOOSE i \in claimed : TRUE

-----------------------------------------------------------------------------
(* compute: the changes, lines first and deleted rows last.                    *)

Edited(loaded, line, i) == {c \in DOMAIN line.cells : line.cells[c] # Rendered(loaded, i, c)}

\* A cell whose text was cut off may not be edited in place.
Truncated(loaded, i) == {c \in Columns : Rendered(loaded, i, c) = Cut}

UpdateOf(loaded, line, i) ==
  LET set == {c \in Edited(loaded, line, i) \ Truncated(loaded, i) :
                Parse(line.cells[c]) # loaded[i][c]}
  IN  IF set = {} THEN <<>>
      ELSE <<[op |-> "update",
              set |-> [c \in set |-> Parse(line.cells[c])],
              pk |-> [id |-> loaded[i].id],
              expect |-> [c \in set |-> loaded[i][c]]]>>

InsertOf(line) ==
  LET given == {c \in DOMAIN line.cells : line.cells[c] # Blank}
  IN  IF given = {} THEN <<>>
      ELSE <<[op |-> "insert", values |-> [c \in given |-> Parse(line.cells[c])]]>>

ChangeOf(loaded, line, i) ==
  IF i = 0 THEN InsertOf(line) ELSE UpdateOf(loaded, line, i)

\* A row that no line is.
DeleteOf(loaded, lines, i) ==
  IF \E l \in DOMAIN lines : RowOf(loaded, lines, l) = i THEN <<>>
  ELSE <<[op |-> "delete", pk |-> [id |-> loaded[i].id], expect |-> None]>>

Changes(loaded, lines) ==
  FlattenSeq([l \in DOMAIN lines |-> ChangeOf(loaded, lines[l], RowOf(loaded, lines, l))]
               \o [i \in DOMAIN loaded |-> DeleteOf(loaded, lines, i)])

HasErrors(loaded, lines) ==
  \E l \in DOMAIN lines :
    LET i == RowOf(loaded, lines, l)
    IN  i # 0 /\ Edited(loaded, lines[l], i) \cap Truncated(loaded, i) # {}
=============================================================================
