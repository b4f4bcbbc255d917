----------------------------- MODULE DataBuffer -----------------------------
(* A data buffer (ui/data.lua): one page of a table drawn as text, edited as   *)
(* any text, and written back as the changes that the edits amount to, while   *)
(* other clients change the same rows.                                         *)
(*                                                                             *)
(* Requests to the session are served in the order they were made and          *)
(* answered in that order (see Daemon); a request is a load of the page or a   *)
(* batch of changes.  The user types on while one is under way.  The header    *)
(* lines, the row count, highlights, validation against the declared types     *)
(* and the statements shown in the confirmation are left out.                  *)
EXTENDS RowDiff

CONSTANTS
  Tables,    \* what the table may hold at first
  PageSize,  \* ui.preview_limit
  NewLines,  \* the cells of the lines a user may type in whole
  Others,    \* changes other clients may make
  MaxSteps,  \* bound: edits and commands of the user
  MaxOthers, \* bound: changes by others
  MaxAsked   \* bound: requests of the buffer under way

ASSUME BufferAssumption ==
  /\ PageSize \in Nat \ {0} /\ MaxSteps \in Nat /\ MaxOthers \in Nat /\ MaxAsked \in Nat
  /\ \A t \in Tables : t \subseteq Rows /\ IsFiniteSet(t) /\ UniqueKeys(t)
  /\ NewLines \subseteq [id : Keys \cup {Blank}, a : Values \cup {Null, Blank}, b : Values \cup {Null, Blank}]
  /\ Others \subseteq [op : {"update"}, pk : Given, set : Given, expect : Given]
                      \cup [op : {"insert"}, values : Given]
                      \cup [op : {"delete"}, pk : Given, expect : Given]

\* A key fits its column: max_cell_width is 48 by default.  Of two keys that are
\* cut off to the same text a line could be either, and reconcile gives up both
\* (diff.lua:119): that is left out.
ASSUME WidthAssumption ==
  /\ Width \in [Keys \cup Values \cup {Null, Blank, Cut} -> Nat]
  /\ MaxCell \in Nat
  /\ \A k \in Keys \cup {Blank, Cut} : Width[k] <= MaxCell

VARIABLES
  table,       \* the rows in the database
  sandbox,     \* whether the connection rolls every batch back
  want,        \* view.filter, view.sort and view.offset
  rows,        \* view.rows, and the snapshot the edits are compared with
  hidden,      \* view.hidden
  lines,       \* the text of the buffer
  modified,    \* the buffer's flag
  asked,       \* requests of the buffer the session has not served yet
  answered,    \* replies the editor has not handled yet
  confirming,  \* the change set in the confirmation window, with the rows it was made from
  undo,        \* the last entry of the undo log, with the table before and after the batch
  unshown,     \* history: a batch was applied and the buffer not drawn since
  steps,       \* of MaxSteps
  others       \* of MaxOthers

vars == <<table, sandbox, want, rows, hidden, lines, modified, asked, answered,
          confirming, undo, unshown, steps, others>>
buffer == <<rows, lines, modified, unshown>>
session == <<table, sandbox, asked, answered>>

Nothing == [changes |-> <<>>]

Init ==
  /\ table \in Tables
  /\ sandbox \in BOOLEAN
  /\ want = [filter |-> FALSE, sort |-> "id", offset |-> 0]
  /\ rows \in Pages(table, want, PageSize)
  /\ hidden = {}
  /\ lines = Render(rows, hidden)
  /\ modified = FALSE /\ unshown = FALSE
  /\ asked = <<>> /\ answered = <<>>
  /\ confirming = Nothing /\ undo = Nothing
  /\ steps = 0 /\ others = 0

MayStep == steps < MaxSteps
Step == MayStep /\ steps' = steps + 1 /\ UNCHANGED others

-----------------------------------------------------------------------------
(* The user edits the text.  Marks move and vanish as Neovim sees fit.         *)

Typed(newLines) ==
  /\ Step
  /\ lines' = newLines
  /\ modified' = TRUE
  /\ UNCHANGED <<session, want, rows, hidden, confirming, undo, unshown>>

Texts(c) == IF c = "id" THEN Keys ELSE Values \cup {Null, Blank}

EditCell ==
  MayStep /\ \E l \in DOMAIN lines : \E c \in DOMAIN lines[l].cells : \E txt \in Texts(c) :
    /\ txt # lines[l].cells[c]
    /\ Typed([lines EXCEPT ![l].cells[c] = txt])

DeleteLine == MayStep /\ \E l \in DOMAIN lines : Typed(RemoveAt(lines, l))

OpenLine ==
  MayStep /\ \E l \in 1 .. Len(lines) + 1 : \E cells \in NewLines :
    Typed(InsertAt(lines, l, [mark |-> 0, cells |-> [c \in Visible(hidden) |-> cells[c]]]))

\* A line that is moved loses its mark, or the two lines trade them.
MoveLine ==
  MayStep /\ \E l \in 1 .. Len(lines) - 1 :
    LET a == lines[l]
        b == lines[l + 1]
    IN  \E marks \in {<<b.mark, a.mark>>, <<a.mark, b.mark>>, <<0, a.mark>>, <<b.mark, 0>>} :
          Typed([lines EXCEPT ![l] = [b EXCEPT !.mark = marks[1]],
                              ![l + 1] = [a EXCEPT !.mark = marks[2]]])

(* MUTANT of Duplicate: the copy keeps the mark. *)
DuplicateMarked(line) == line

\* paste_row: the text of the line again, as a new row.
Duplicate(line) == [line EXCEPT !.mark = 0]

PasteRow ==
  MayStep /\ \E l \in DOMAIN lines : l <= Len(rows) /\ Typed(InsertAt(lines, l + 1, Duplicate(lines[l])))

\* A line is parsed, one of its cells set, and the whole rendered again at the
\* widths of the loaded page; whether its mark survives is Neovim's affair.
Rebuilt(l, c, v) ==
  {[mark |-> m, cells |-> [d \in DOMAIN lines[l].cells |->
      Fit(rows, d, IF d = c THEN v ELSE Parse(lines[l].cells[d]))]] : m \in {0, lines[l].mark}}

SetNull ==
  MayStep /\ \E l \in DOMAIN lines : \E c \in DOMAIN lines[l].cells \cap Nullable :
    /\ l <= Len(rows)
    /\ \E line \in Rebuilt(l, c, Null) : Typed([lines EXCEPT ![l] = line])

\* The value inspector: the text to edit is that of the row loaded at this line
\* number; what is saved goes into the line as it is now.
InspectSave ==
  MayStep /\ \E l \in DOMAIN lines : \E c \in DOMAIN lines[l].cells :
    /\ l <= Len(rows)
    /\ \E v \in (Texts(c) \cup {rows[l][c]}) \ {Null, Blank} : \E line \in Rebuilt(l, c, v) :
         Typed([lines EXCEPT ![l] = line])

-----------------------------------------------------------------------------
(* The user changes the view.  Only reload asks whether there are unsaved      *)
(* edits, and sort, filter and page have set what they want before it does.    *)

Drawn(loaded, hide) ==
  /\ lines' = Render(loaded, hide)
  /\ modified' = FALSE
  /\ unshown' = FALSE

HideColumn ==
  /\ Step
  /\ \E c \in Visible(hidden) :
       /\ Cardinality(Visible(hidden)) > 1
       /\ hidden' = hidden \cup {c}
  /\ Drawn(rows, hidden')
  /\ UNCHANGED <<session, want, rows, confirming, undo>>

ShowColumns ==
  /\ Step
  /\ hidden' = {}
  /\ Drawn(rows, {})
  /\ UNCHANGED <<session, want, rows, confirming, undo>>

AskPage(w) == asked' = Append(asked, [kind |-> "load", want |-> w])

\* reload, after the view has been told what is wanted.
Reloads(w) ==
  /\ Step
  /\ want' = w
  /\ IF modified THEN UNCHANGED asked ELSE AskPage(w)
  /\ UNCHANGED <<buffer, hidden, table, sandbox, answered, confirming, undo>>

Reload == Reloads(want)
Sort   == \E c \in Columns \ {want.sort} : Reloads([want EXCEPT !.sort = c, !.offset = 0])
Filter == \E f \in BOOLEAN \ {want.filter} : Reloads([want EXCEPT !.filter = f, !.offset = 0])
ClearFilter == Reloads([filter |-> FALSE, sort |-> "id", offset |-> 0])
Page   == \E o \in {0, PageSize} \ {want.offset} : Reloads([want EXCEPT !.offset = o])

\* open on a buffer that exists.
Reopen ==
  /\ Step
  /\ \E f \in BOOLEAN : want' = [want EXCEPT !.filter = f]
  /\ AskPage(want')
  /\ UNCHANGED <<buffer, hidden, table, sandbox, answered, confirming, undo>>

-----------------------------------------------------------------------------
(* :w, and what the user says to the change set.                               *)

Pending == Changes(rows, lines)

Write ==
  /\ confirming = Nothing
  /\ modified
  /\ IF Pending # <<>>
     THEN /\ confirming' = [changes |-> Pending, rows |-> rows]
          /\ UNCHANGED modified
     ELSE /\ modified' = HasErrors(rows, lines)
          /\ UNCHANGED confirming
  /\ UNCHANGED <<session, want, rows, hidden, lines, undo, unshown, steps, others>>

UnderWay == Len(asked) + Len(answered)

Cancel ==
  /\ confirming # Nothing
  /\ confirming' = Nothing
  /\ UNCHANGED <<session, want, buffer, hidden, undo, steps, others>>

Confirm ==
  /\ confirming # Nothing
  /\ UnderWay < MaxAsked
  /\ asked' = Append(asked, [kind |-> "apply", changes |-> confirming.changes, rows |-> confirming.rows])
  /\ confirming' = Nothing
  /\ UNCHANGED <<table, sandbox, answered, want, buffer, hidden, undo, steps, others>>

-----------------------------------------------------------------------------
(* The session serves the requests, and others write to the table.             *)

Answer(reply) == answered' = Append(answered, reply)

\* The connection may fail either.
Failed(request) == [kind |-> request.kind, ok |-> FALSE]

ServeLoad ==
  LET request == Head(asked)
  IN  /\ request.kind = "load"
      /\ \/ \E page \in Pages(table, request.want, PageSize) :
              Answer([kind |-> "load", ok |-> TRUE, rows |-> page])
         \/ Answer(Failed(request))
      /\ UNCHANGED table

ServeApply ==
  LET request == Head(asked)
      result  == ApplyChanges(table, request.changes)
      after   == IF sandbox THEN table ELSE result.table
  IN  /\ request.kind = "apply"
      /\ \/ /\ result.ok
            /\ table' = after
            /\ Answer([kind |-> "apply", ok |-> TRUE, changes |-> request.changes,
                       before |-> table, after |-> after])
         \/ /\ Answer(Failed(request))
            /\ UNCHANGED table

Serve ==
  /\ asked # <<>>
  /\ asked' = Tail(asked)
  /\ ServeLoad \/ ServeApply
  /\ UNCHANGED <<sandbox, want, buffer, hidden, confirming, undo, steps, others>>

OtherWrites ==
  /\ others < MaxOthers
  /\ others' = others + 1
  /\ \E change \in Others :
       Run(table, change).ok /\ table' = Run(table, change).table /\ table' # table
  /\ UNCHANGED <<sandbox, asked, answered, want, buffer, hidden, confirming, undo, steps>>

-----------------------------------------------------------------------------
(* The editor handles the replies.                                             *)

\* The rows, and the reads of the key, the foreign keys and the columns that load
\* waits for after them, come back as one reply.
LoadBack ==
  LET reply == Head(answered)
  IN  /\ reply.kind = "load"
      /\ IF reply.ok
         THEN rows' = reply.rows /\ Drawn(reply.rows, hidden)
         ELSE UNCHANGED buffer
      /\ UNCHANGED <<asked, undo>>

(* MUTANT of AppliedBack: the flag is dropped whatever the answer is. *)
AppliedBackAlways ==
  LET reply == Head(answered)
  IN  /\ reply.kind = "apply"
      /\ modified' = FALSE
      /\ IF reply.ok
         THEN /\ undo' = [changes |-> reply.changes, before |-> reply.before, after |-> reply.after]
              /\ unshown' = TRUE
              /\ AskPage(want)
         ELSE UNCHANGED <<unshown, undo, asked>>
      /\ UNCHANGED <<rows, lines>>

AppliedBack ==
  LET reply == Head(answered)
  IN  /\ reply.kind = "apply"
      /\ IF reply.ok
         THEN /\ undo' = [changes |-> reply.changes, before |-> reply.before, after |-> reply.after]
              /\ modified' = FALSE
              /\ unshown' = TRUE
              /\ AskPage(want)
         ELSE UNCHANGED <<modified, unshown, undo, asked>>
      /\ UNCHANGED <<rows, lines>>

Handle ==
  /\ answered # <<>>
  /\ answered' = Tail(answered)
  /\ LoadBack \/ AppliedBack
  /\ UNCHANGED <<table, sandbox, want, hidden, confirming, steps, others>>

Next ==
  \/ EditCell \/ DeleteLine \/ OpenLine \/ MoveLine
  \/ PasteRow \/ SetNull \/ InspectSave
  \/ HideColumn \/ ShowColumns \/ Reload \/ Sort \/ Filter \/ ClearFilter \/ Page \/ Reopen
  \/ Write \/ Cancel \/ Confirm
  \/ Serve \/ OtherWrites \/ Handle

Spec == Init /\ [][Next]_vars

-----------------------------------------------------------------------------
(* Properties.                                                                 *)

\* A mark stands for a row of the page and no two lines share one; keys are keys.
TypeOK ==
  /\ UniqueKeys(table)
  /\ \A l \in DOMAIN lines :
       /\ lines[l].mark \in 0 .. Len(rows)
       /\ DOMAIN lines[l].cells = Visible(hidden)
       /\ \A m \in DOMAIN lines : lines[m].mark = lines[l].mark => m = l \/ lines[l].mark = 0

(* What :w means (data/diff.lua and apply_changes together).  While the page   *)
(* is what the table holds, and every line has a key of its own that no row    *)
(* off the page has, and nothing typed is NULL where it may not be or was cut  *)
(* off, the changes are taken, and then the table has the rows of the lines,   *)
(* with their texts in the columns on screen, whatever way the lines were      *)
(* moved, copied, retyped and marked; a row whose key stays keeps what is      *)
(* hidden or cut off; and the rows off the page are as they were.              *)
OffPage == table \ ToSet(rows)

Writable ==
  /\ ToSet(rows) \subseteq table
  /\ "id" \notin hidden
  /\ \A l \in DOMAIN lines :
       /\ lines[l].cells.id # Blank
       /\ \A m \in DOMAIN lines : lines[m].cells.id = lines[l].cells.id => m = l
       /\ \A r \in OffPage : r.id # lines[l].cells.id
       /\ \A c \in DOMAIN lines[l].cells \ Nullable : lines[l].cells[c] # Null
       /\ \A c \in DOMAIN lines[l].cells : lines[l].cells[c] = Cut =>
            RowOf(rows, lines, l) # 0 /\ Rendered(rows, RowOf(rows, lines, l), c) = Cut
  /\ ~HasErrors(rows, lines)

Holds(row, line) ==
  LET was == {r \in table : r.id = row.id}
  IN  \A c \in Columns :
        IF c \in DOMAIN line.cells /\ line.cells[c] # Cut
        THEN \/ row[c] = line.cells[c]
             \/ line.cells[c] = Blank /\ was = {} /\ row[c] = Default[c]
        ELSE \A r \in was : row[c] = r[c]

WriteMakesItSo ==
  Writable =>
    LET result == ApplyChanges(table, Pending)
    IN  /\ result.ok
        /\ OffPage \subseteq result.table
        /\ Cardinality(result.table) = Cardinality(OffPage) + Len(lines)
        /\ \A l \in DOMAIN lines : \E row \in result.table :
             row.id = lines[l].cells.id /\ Holds(row, lines[l])

(* No edit overwrites one it has not seen: the row that an update of a batch   *)
(* names held, when the batch ran, what the buffer showed of the cells it sets *)
(* when :w was typed, however long the confirmation stood open and whoever     *)
(* wrote in between (the expected values in the where clause of                *)
(* render_change).  There may be no such row: a row the batch inserts with a   *)
(* generated key may get one that another client has just freed.               *)
AppliedOnWhatWasSeen ==
  \A n \in DOMAIN Head(asked).changes :
    LET change == Head(asked).changes[n]
    IN  change.op = "update" =>
          \A r \in table, i \in DOMAIN Head(asked).rows :
            r.id = change.pk.id /\ Head(asked).rows[i].id = change.pk.id =>
              \A c \in DOMAIN change.set : r[c] = Head(asked).rows[i][c]

NoLostUpdate ==
  [][Serve /\ Head(asked).kind = "apply" /\ answered'[Len(answered')].ok => AppliedOnWhatWasSeen]_vars

(* The undo log puts a batch back: run right after a batch that deleted        *)
(* nothing, gave every new row its key and used no key that was there before   *)
(* and no empty one, the inverses leave the table as it was before it, also    *)
(* when the batch changed keys, and also when the connection was a sandbox and *)
(* the batch was rolled back, which the log does not know.  (A line with an    *)
(* empty key is told by its mark alone: one could take the key "" of a row     *)
(* that another client has deleted, and a later line of the batch update it.)  *)
NewKeys(change) ==
  IF change.op = "update"
  THEN {change.set[c] : c \in DOMAIN change.set \cap {"id"}}
  ELSE {change.values[c] : c \in DOMAIN change.values \cap {"id"}}

UndoRestores ==
  /\ undo # Nothing
  /\ \A n \in DOMAIN undo.changes :
       LET change == undo.changes[n]
       IN  /\ change.op # "delete"
           /\ change.op = "insert" => NewKeys(change) # {}
           /\ \A r \in undo.before : r.id \notin NewKeys(change)
           /\ Blank \notin NewKeys(change)
  => Undone(undo.after, undo.changes) = undo.before

(* The flag that reload and :q trust: a buffer that is not modified has no     *)
(* edit in it that :w would write, unless a batch has been applied and the     *)
(* page that shows it is still to come, or could not be loaded.                *)
FlagTellsUnsaved == ~modified /\ ~unshown => Pending = <<>> /\ ~HasErrors(rows, lines)

(* What diff.lua says its truncation rule is for: that no stored value is      *)
(* silently shortened to what fitted its column.                               *)
NothingShortened == \A r \in table : \A c \in Columns : r[c] # Cut
=============================================================================
