------------------------------ MODULE Readers ------------------------------
(***************************************************************************)
(* What a document of an export says to whoever reads it: for each format  *)
(* a reader written from the format's rules, against which the writers are *)
(* held.  A document that a format's rules do not allow is refused.        *)
(* Nothing here stands for code of the program.                            *)
(***************************************************************************)
EXTENDS Writers

TextOr(value, default) == IF value = None THEN default ELSE value[1]

(* What a value is expected to come back as. *)
Shown(row, columns, s) == [i \in DOMAIN row |-> Render(row[i], columns[i], s)]

(* XML, HTML and the sheets in a workbook: no control character but blanks, *)
(* and line ends are read as LF.                                           *)
Legal(text) == "CTRL" \notin ToSet(text)

LineEnds(text) ==
    LET next(i) == IF i < Len(text) THEN text[i + 1] ELSE "none"
    IN FlattenSeq([i \in DOMAIN text |->
         IF text[i] # "CR" THEN <<text[i]>> ELSE IF next(i) = "LF" THEN <<>> ELSE <<"LF">>])

Truth(text) == IF text \in {<<"true">>, <<"t">>, <<"1">>} THEN <<"true">> ELSE <<"false">>

(* A text with every occurrence of a pattern, from the left, replaced. *)
Collapsed(text, pattern, by) ==
    LET step(r, c) ==
          LET tail == Append(r.tail, c)
          IN IF IsSuffix(pattern, tail)
             THEN [out |-> r.out \o SubSeq(tail, 1, Len(tail) - Len(pattern)) \o by, tail |-> <<>>]
             ELSE [r EXCEPT !.tail = tail]
        end == FoldLeft(step, [out |-> <<>>, tail |-> <<>>], text)
    IN end.out \o end.tail

---------------------------------------------------------------------------
(* Delimited text: records of fields, a field being its text and whether   *)
(* it was quoted.  A backslash that escapes does so inside quotes, or      *)
(* anywhere in a file without quotes, where \N stays as it is (LOAD DATA).   *)

ReadDelimited(document, s) ==
    LET empty == [text |-> <<>>, quoted |-> FALSE]
        field(r) == [r EXCEPT !.fields = Append(@, r.field), !.field = empty, !.mode = "bare"]
        record(r) == LET f == field(r)
                     IN [f EXCEPT !.records = Append(@, f.fields), !.fields = <<>>]
        put(r, c) == [r EXCEPT !.field.text = Append(@, c)]
        bare(r, c) ==
            CASE c = Delimiter(s) -> field(r)
              [] c = "CR" -> r
              [] c = "LF" -> record(r)
              [] c = "BS" /\ s.quoting = "none" /\ s.escape = "backslash" ->
                   [r EXCEPT !.mode = "passing"]
              [] c = Quote(s) /\ s.quoting # "none" /\ r.field = empty ->
                   [r EXCEPT !.mode = "quoted", !.field.quoted = TRUE]
              [] OTHER -> put(r, c)
        step(r, c) ==
            CASE r.mode = "bare" -> bare(r, c)
              [] r.mode = "escaped" -> [put(r, c) EXCEPT !.mode = "quoted"]
              [] r.mode = "passing" ->
                   [(IF c = "N" THEN put(put(r, "BS"), c) ELSE put(r, c)) EXCEPT !.mode = "bare"]
              [] r.mode = "quoted" ->
                   IF c = "BS" /\ s.escape = "backslash" THEN [r EXCEPT !.mode = "escaped"]
                   ELSE IF c = Quote(s) THEN [r EXCEPT !.mode = "closing"]
                   ELSE put(r, c)
              [] r.mode = "closing" /\ c = Quote(s) /\ s.escape = "double" ->
                   [put(r, c) EXCEPT !.mode = "quoted"]
              [] OTHER -> bare([r EXCEPT !.mode = "bare"], c)
        text == IF s.bom /\ document # <<>> THEN Tail(document) ELSE document
        end == FoldLeft(step, [mode |-> "bare", field |-> empty, fields |-> <<>>,
                               records |-> <<>>], text)
    IN IF s.header /\ end.records # <<>> THEN Tail(end.records) ELSE end.records

DelimitedReads(document, rows, columns, s) ==
    LET records == ReadDelimited(document, s)
    IN /\ Len(records) = Len(rows)
       /\ \A r \in DOMAIN rows :
            [i \in DOMAIN records[r] |-> records[r][i].text]
              = [i \in DOMAIN columns |-> TextOr(Shown(rows[r], columns, s)[i], s.null_as)]

(* A field is quoted exactly when it is not NULL. *)
NullIsBare(document, rows, columns, s) ==
    LET records == ReadDelimited(document, s)
    IN \A r \in DOMAIN rows : \A i \in DOMAIN columns :
         s.quoting = "all" \/ (s.quoting = "non_numeric" /\ ~IsNumeric(columns[i]))
           => records[r][i].quoted = (rows[r][i] # None)

---------------------------------------------------------------------------
(* JSON *)

JsonKeeps(entry, value, column, s) ==
    LET r == Render(value, column, s)
    IN IF r = None THEN entry = <<"null">>
       ELSE /\ Len(entry) = 2
            /\ entry[2] = IF entry[1] = "bool" THEN Truth(r[1]) ELSE r[1]
            /\ entry[1] = "number" => ParsesAsJsonNumber(entry[2])

JsonReads(document, rows, columns, s) ==
    LET objects == SelectSeq(document, LAMBDA sym : sym[1] = "object")
        n == Len(rows)
        marks == IF s.format = "jsonl" THEN [i \in 1..(2 * n) |-> IF i % 2 = 1 THEN "object" ELSE "LF"]
                 ELSE IF n = 0 THEN <<"[", "]">>
                 ELSE [i \in 1..(2 * n + 1) |->
                         CASE i = 1 -> "[" [] i = 2 * n + 1 -> "]"
                           [] i % 2 = 0 -> "object" [] OTHER -> ","]
    IN /\ [i \in DOMAIN document |-> IF document[i] = "LF" THEN "LF" ELSE document[i][1]] = marks
       /\ Len(objects) = n
       /\ \A r \in 1..n :
            /\ DOMAIN objects[r][2] = {columns[i].name : i \in DOMAIN columns}
            /\ \A i \in DOMAIN columns :
                 JsonKeeps(objects[r][2][columns[i].name], rows[r][i], columns[i], s)

---------------------------------------------------------------------------
(* Markdown: every line of the table has one cell per column.  The inline  *)
(* markup of a cell is not looked into.                                    *)

Lines(document) ==
    LET chop(line) == IF line # <<>> /\ Last(line) = "CR" THEN Front(line) ELSE line
        step(r, c) == IF c = "LF" THEN [done |-> Append(r.done, chop(r.line)), line |-> <<>>]
                      ELSE [r EXCEPT !.line = Append(@, c)]
    IN FoldLeft(step, [done |-> <<>>, line |-> <<>>], document).done

Cells(line) ==
    LET bars == {i \in DOMAIN line : line[i] = "PIPE" /\ (i = 1 \/ line[i - 1] # "BS")}
    IN [i \in 1..(Cardinality(bars) - 1) |->
          LET from == CHOOSE b \in bars : Cardinality({x \in bars : x < b}) = i - 1
              to == CHOOSE b \in bars : Cardinality({x \in bars : x < b}) = i
          IN SubSeq(line, from + 2, to - 2)]

MarkdownReads(document, rows, columns, s) ==
    LET lines == Lines(document)
        plain(text) == Collapsed(text, <<"BS", "PIPE">>, <<"PIPE">>)
        kept(text) == Replace(SelectSeq(text, LAMBDA c : c # "CR"), "LF", <<"<br>">>)
    IN /\ Len(lines) = Len(rows) + 2
       /\ \A r \in DOMAIN rows :
            [i \in DOMAIN Cells(lines[r + 2]) |-> plain(Cells(lines[r + 2])[i])]
              = [i \in DOMAIN columns |->
                   LET shown == Shown(rows[r], columns, s)[i]
                   IN IF shown = None THEN s.null_as ELSE kept(shown[1])]

---------------------------------------------------------------------------
(* HTML and XML: elements balance, and between them the text is decoded.   *)
(* The prefix of xsi:nil would have to be declared at <rows>.              *)

Decode(text) ==
    LET entity(t, c, name) == Collapsed(t, <<"AMP">> \o name \o <<"SEMI">>, <<c>>)
        lt == entity(text, "LT", <<"l", "t">>)
        gt == entity(lt, "GT", <<"g", "t">>)
        quot == entity(gt, "QUOTE", <<"q", "u", "o", "t">>)
        apos == entity(quot, "APOS", <<"a", "p", "o", "s">>)
    IN entity(apos, "AMP", <<"a", "m", "p">>)

Marks == {"<table>", "<thead>", "</thead>", "<tbody>", "</tbody>", "</table>", "<tr>", "</tr>",
          "<td>", "<td null>", "</td>", "<th>", "</th>", "<rows>", "</rows>", "<row>", "</row>",
          "<nil>", "/>", "<", ">", "</>"}

(* The runs of text between marks that follow one of the marks given. *)
Between(document, opening) ==
    LET starts == {i \in DOMAIN document : document[i] \in opening}
        upto(i) == Min({j \in DOMAIN document : j > i /\ document[j] \in Marks})
        nth(n) == CHOOSE i \in starts : Cardinality({j \in starts : j < i}) = n - 1
    IN [n \in 1..Cardinality(starts) |->
          [mark |-> document[nth(n)], text |-> SubSeq(document, nth(n) + 1, upto(nth(n)) - 1)]]

MarkupReads(document, rows, columns, s) ==
    LET html == s.format = "html"
        cells == Between(document, IF html THEN {"<td>", "<td null>"} ELSE {">"})
        width == Len(columns)
        edge == IF html THEN <<"<table>", "</table>">> ELSE <<"<rows>", "</rows>">>
        row == IF html THEN "</tr>" ELSE "</row>"
    IN /\ document[1] = edge[1] /\ Last(document) = edge[2]
       /\ Len(SelectSeq(document, LAMBDA sym : sym = row)) = Len(rows)
       /\ Len(cells) = Len(rows) * width
       /\ Legal(document) /\ ToSet(document) \cap {"LT", "GT", "<nil>"} = {}
       /\ \A r \in DOMAIN rows : \A i \in DOMAIN columns :
            LET shown == Shown(rows[r], columns, s)[i]
                cell == cells[(r - 1) * width + i]
            IN IF shown = None
               THEN cell.mark = "<td null>" /\ Decode(LineEnds(cell.text)) = s.null_as
               ELSE cell.mark \in {"<td>", ">"} /\ Decode(LineEnds(cell.text)) = shown[1]

---------------------------------------------------------------------------
(* SQL: running the script inserts the rows, in order, inside its one      *)
(* transaction.                                                            *)

Literal(literal, s) ==
    CASE literal[1] = "null" -> None
      [] literal[1] = "bare" /\ (IsDigits(literal[2]) \/ literal[2] = Truth(literal[2])) ->
           Some(literal[2])
      [] literal[1] = "bare" -> <<"refused">>
      [] literal[1] = "quoted" ->
           LET apos == Collapsed(literal[2], <<"APOS", "APOS">>, <<"APOS">>)
           IN Some(IF MySql(s) THEN Collapsed(apos, <<"BS", "BS">>, <<"BS">>) ELSE apos)

SqlReads(document, rows, columns, s) ==
    LET inserts == SelectSeq(document, LAMBDA st : st.verb \notin {"begin", "commit"})
        replayed == FlattenSeq([i \in DOMAIN inserts |-> inserts[i].rows])
    IN /\ Cardinality({columns[i].name : i \in DOMAIN columns}) = Len(columns)
       /\ [r \in DOMAIN replayed |-> [i \in DOMAIN replayed[r] |-> Literal(replayed[r][i], s)]]
            = [r \in DOMAIN rows |-> Shown(rows[r], columns, s)]
       /\ \A i \in DOMAIN inserts : Len(inserts[i].rows) \in 1..Max({s.sql_batch, 1})
       /\ \A i \in DOMAIN document :
            /\ document[i].verb = "begin" <=> (s.sql_transaction /\ i = 1)
            /\ document[i].verb = "commit" <=> (s.sql_transaction /\ i = Len(document))

---------------------------------------------------------------------------
(* The grid: its bars stand one under the other.                           *)

GridReads(document, rows, columns, s) ==
    LET lines == Lines(document)
        plus == {i \in DOMAIN lines[2] : lines[2][i] = "PLUS"}
        bars == plus \cup {Len(lines[2]) + 2}
        cell(line, i) ==
            LET from == IF i = 1 THEN 1 ELSE 2 + CHOOSE b \in plus :
                                                   Cardinality({x \in plus : x < b}) = i - 2
                to == CHOOSE b \in bars : Cardinality({x \in bars : x < b}) = i - 1
            IN TrimEnd(SubSeq(line, from, Min({to - 2, Len(line)})))
    IN /\ Len(lines) = Len(rows) + 2
       /\ Cardinality(plus) = Len(columns) - 1
       /\ \A r \in DOMAIN rows : \A i \in DOMAIN columns :
            LET text == TextOr(Shown(rows[r], columns, s)[i], s.null_as)
            IN cell(lines[r + 2], i)
                 = TrimEnd(Replace(Replace(text, "LF", <<"BS", "n">>), "TAB", <<"BS", "t">>))
       /\ \A r \in DOMAIN rows : \A b \in plus \cap DOMAIN lines[r + 2] : lines[r + 2][b] = "PIPE"

---------------------------------------------------------------------------
(* XLSX: every value in a cell of its own.                                 *)

SheetReads(sheet, rows, columns, s) ==
    LET top == IF s.header THEN 1 ELSE 0
        filled == {at \in (DOMAIN rows) \X (DOMAIN columns) : rows[at[1]][at[2]] # None}
    IN /\ Cardinality(sheet) = Cardinality(filled) + top * Len(columns)
       /\ \A cell \in sheet : Legal(cell.text)
       /\ \A at \in filled :
            \E cell \in sheet :
              /\ cell.row = top + at[1]
              /\ cell.column = ColumnName(at[2] - 1)
              /\ LET text == Render(rows[at[1]][at[2]], columns[at[2]], s)[1]
                 IN CASE cell.kind = "text" -> Decode(LineEnds(cell.text)) = text
                      [] cell.kind = "bool" -> cell.text = Truth(text)
                      [] cell.kind = "number" -> cell.text = text /\ IsDigits(text)

---------------------------------------------------------------------------
(* What a document does not give back, by the writer's doing or because     *)
(* its format has no place for it.                                         *)

(* The absence of a value: only XML's is not read. *)
NilUnread(s) == s.format = "xml"

(* A text: control characters and carriage returns in XML, HTML and XLSX.  *)
(* A number: NaN where it is written bare, digits a double does not hold   *)
(* in JSON, and one that contains the delimiter under "non_numeric".       *)
TextUnread(text, column, s) ==
    \/ s.format \in {"xml", "html", "xlsx"} /\ ToSet(text) \cap {"CTRL", "CR"} # {}
    \/ s.format \in {"sql", "xlsx"} /\ IsNumeric(column) /\ text = <<"NaN">>
    \/ s.format \in {"json", "jsonl"} /\ IsNumeric(column) /\ "MANY" \in ToSet(text)
    \/ s.format \in {"csv", "tsv"} /\ s.quoting = "non_numeric" /\ IsNumeric(column)
         /\ Delimiter(s) \in ToSet(text)

(* The rows: one past the end of a sheet, two columns of one name where    *)
(* columns go by name, and anything in a file without quotes.              *)
RowsUnread(rows, columns, s) ==
    \/ s.format = "xlsx" /\ Len(rows) > MaxSheetRows
    \/ s.format \in {"json", "jsonl", "sql"}
         /\ Cardinality({columns[i].name : i \in DOMAIN columns}) < Len(columns)
    \/ s.format \in {"csv", "tsv"} /\ s.quoting = "none"

Unread(rows, columns, s) ==
    \/ RowsUnread(rows, columns, s)
    \/ \E r \in DOMAIN rows : \E i \in DOMAIN columns :
         LET shown == Shown(rows[r], columns, s)[i]
         IN IF shown = None THEN NilUnread(s) ELSE TextUnread(shown[1], columns[i], s)

---------------------------------------------------------------------------
Reads(document, rows, columns, s) ==
    CASE s.format \in {"csv", "tsv"} ->
           DelimitedReads(document, rows, columns, s)
      [] s.format \in {"json", "jsonl"} -> JsonReads(document, rows, columns, s)
      [] s.format = "markdown" -> MarkdownReads(document, rows, columns, s)
      [] s.format \in {"html", "xml"} -> MarkupReads(document, rows, columns, s)
      [] s.format = "sql" -> SqlReads(document, rows, columns, s)
      [] s.format = "text" -> GridReads(document, rows, columns, s)
      [] s.format = "xlsx" -> SheetReads(document[1], rows, columns, s)
=============================================================================
