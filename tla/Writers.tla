------------------------------ MODULE Writers ------------------------------
(***************************************************************************)
(* The writers of an export: each is fed a table row by row and produces   *)
(* one document (begin, one call per row, finish).                         *)
(*                                                                         *)
(* A text is a sequence of characters, a character a string: a letter or   *)
(* digit stands for itself, the others are named ("QUOTE", "LF", "BS" for  *)
(* the backslash, "SP").  A value is an option: None is SQL NULL, Some(t)  *)
(* a text.  A document is a sequence of symbols.  In delimited text,       *)
(* Markdown and the aligned grid every character is a symbol, since how    *)
(* the characters of the data mix with those of the format is the point;   *)
(* HTML and XML add one symbol per tag, JSON has one per object, SQL one   *)
(* per statement and XLSX is one symbol, the sheet.                        *)
(***************************************************************************)
EXTENDS Integers, Sequences, FiniteSets, SequencesExt, FiniteSetsExt

CONSTANT MaxSheetRows    \* the rows a sheet holds below its header

ASSUME SheetAssumption == MaxSheetRows \in Nat \ {0}

None == <<>>
Some(x) == <<x>>

Punctuation == {"SP", "COMMA", "SEMI", "TAB", "QUOTE", "APOS", "BS", "LF", "CR",
                "PIPE", "LT", "GT", "AMP", "DOT", "DASH", "UND", "HEX"}
Digits == {"0", "1", "2", "MANY"}      \* "MANY": more digits than a double holds

(* str::replace of a character, str::replacen(.., 1) and slice::join *)
Replace(text, c, by) ==
    FlattenSeq([i \in DOMAIN text |-> IF text[i] = c THEN by ELSE <<text[i]>>])

ReplaceFirst(text, c, by) ==
    [i \in DOMAIN text |->
        IF text[i] = c /\ \A j \in 1..(i - 1) : text[j] # c THEN by ELSE text[i]]

Join(parts, separator) ==
    FlattenSeq([i \in DOMAIN parts |->
                  IF i = 1 THEN parts[i] ELSE separator \o parts[i]])

(* str::parse::<f64> and serde_json's number: the latter takes no leading  *)
(* zero and no NaN, which is written as the one character "NaN" here, and  *)
(* keeps a double, so that of many digits some are lost.                   *)
IsDigits(text) == text # <<>> /\ \A i \in DOMAIN text : text[i] \in Digits \cup {"DOT"}
ParsesAsFloat(text) == text = <<"NaN">> \/ IsDigits(text)
ParsesAsJsonNumber(text) == IsDigits(text) /\ (Len(text) > 1 /\ text[1] = "0" => text[2] = "DOT")
ParsesAsJson(text) == ParsesAsJsonNumber(text) \/ text = <<"true">>
AsDouble(text) == Replace(text, "MANY", <<"NEAR">>)

---------------------------------------------------------------------------
(* What the settings imply, and the state every writer has: whether its    *)
(* opening was written, whether a row was, and what it still holds back.   *)

Delimiter(s) ==
    CASE s.delimiter # None -> s.delimiter[1]
      [] s.delimiter = None /\ s.format = "tsv" -> "TAB"
      [] OTHER -> IF s.decimal = "COMMA" THEN "SEMI" ELSE "COMMA"

Quote(s) == IF s.quote = None THEN "QUOTE" ELSE s.quote[1]

Newline(s) == IF s.crlf THEN <<"CR", "LF">> ELSE <<"LF">>

TreatsAsJson(column, s) == column.class = "json" \/ column.name \in s.json_columns

Make(s, columns) ==
    [opened |-> FALSE, first |-> TRUE, pending |-> <<>>,
     columns |-> IF s.format = "xlsx" THEN columns ELSE <<>>]

Fed(w, out) == [w |-> w, out |-> out]

Render(value, column, s) ==
    IF value = None THEN None
    ELSE LET text == value[1]
         IN CASE column.class = "binary" /\ s.binary = "omit" -> Some(<<>>)
              [] column.class = "binary" /\ s.binary = "base64" ->
                   Some(IF text # <<>> /\ text[1] = "HEX" THEN <<"B64">> \o Tail(text) ELSE text)
              [] column.class = "number" /\ s.decimal # "DOT" ->
                   Some(ReplaceFirst(text, "DOT", s.decimal))
              [] OTHER -> value

IsNumeric(column) == column.class = "number"

---------------------------------------------------------------------------
(* Delimited text *)

NeedsQuoting(text, numeric, s) ==
    CASE s.quoting = "all" -> TRUE
      [] s.quoting = "none" -> FALSE
      [] s.quoting = "non_numeric" -> ~numeric
      [] s.quoting = "minimal" ->
           \/ \E i \in DOMAIN text : text[i] \in {Delimiter(s), Quote(s), "LF", "CR"}
           \/ text # <<>> /\ "SP" \in {text[1], Last(text)}

\* mutant: the backslash is escaped after the quote
FieldEscapedTwice(text, numeric, s) ==
    LET q == Quote(s)
        escaped == IF s.escape = "double" THEN Replace(text, q, <<q, q>>)
                   ELSE Replace(Replace(text, q, <<"BS", q>>), "BS", <<"BS", "BS">>)
    IN IF NeedsQuoting(text, numeric, s) THEN <<q>> \o escaped \o <<q>> ELSE text

Field(text, numeric, s) ==
    LET q == Quote(s)
        escaped == IF s.escape = "double" THEN Replace(text, q, <<q, q>>)
                   ELSE Replace(Replace(text, "BS", <<"BS", "BS">>), q, <<"BS", q>>)
    IN IF NeedsQuoting(text, numeric, s) THEN <<q>> \o escaped \o <<q>> ELSE text

DelimitedBegin(w, columns, s) ==
    LET bom == IF s.bom THEN <<"BOM">> ELSE <<>>
        names == [i \in DOMAIN columns |-> Field(columns[i].name, FALSE, s)]
        header == IF s.header /\ ~w.opened THEN Join(names, <<Delimiter(s)>>) \o Newline(s)
                  ELSE <<>>
    IN Fed([w EXCEPT !.opened = @ \/ s.header], bom \o header)

\* mutant: NULL is quoted like any other field
DelimitedRowQuotingNull(w, columns, values, s) ==
    LET field(i) == LET r == Render(values[i], columns[i], s)
                    IN Field(IF r = None THEN s.null_as ELSE r[1], IsNumeric(columns[i]), s)
    IN Fed(w, Join([i \in DOMAIN values |-> field(i)], <<Delimiter(s)>>) \o Newline(s))

DelimitedRow(w, columns, values, s) ==
    LET field(i) == LET r == Render(values[i], columns[i], s)
                    IN IF r = None THEN s.null_as
                       ELSE Field(r[1], IsNumeric(columns[i]), s)
    IN Fed(w, Join([i \in DOMAIN values |-> field(i)], <<Delimiter(s)>>) \o Newline(s))

---------------------------------------------------------------------------
(* JSON: an array of objects, or one object per line *)

JsonEntry(value, column, s) ==
    LET r == Render(value, column, s)
    IN IF r = None THEN <<"null">>
       ELSE LET text == r[1]
            IN IF s.json_mode = "inline" /\ TreatsAsJson(column, s)
               THEN IF ParsesAsJson(text) THEN <<"json", AsDouble(text)>> ELSE <<"string", text>>
               ELSE
               CASE IsNumeric(column) ->
                      IF ParsesAsJsonNumber(text) THEN <<"number", AsDouble(text)>> ELSE <<"string", text>>
                 [] column.class = "bool" ->
                      CASE text \in {<<"true">>, <<"t">>, <<"1">>} -> <<"bool", <<"true">>>>
                        [] text \in {<<"false">>, <<"f">>, <<"0">>} -> <<"bool", <<"false">>>>
                        [] OTHER -> <<"string", text>>
                 [] OTHER -> <<"string", text>>

(* A map: of two columns with one name, the last is kept. *)
JsonObject(columns, values, s) ==
    [name \in {columns[i].name : i \in DOMAIN columns} |->
        LET last == CHOOSE i \in DOMAIN columns :
                      /\ columns[i].name = name
                      /\ \A j \in DOMAIN columns : columns[j].name = name => j <= i
        IN JsonEntry(values[last], columns[last], s)]

JsonBegin(w, s) ==
    IF s.format = "jsonl" \/ w.opened THEN Fed(w, <<>>)
    ELSE Fed([w EXCEPT !.opened = TRUE], <<<<"[">>>>)

JsonRow(w, columns, values, s) ==
    LET object == <<"object", JsonObject(columns, values, s)>>
    IN IF s.format = "jsonl" THEN Fed(w, <<object, <<"LF">>>>)
       ELSE Fed([w EXCEPT !.first = FALSE],
                IF w.first THEN <<object>> ELSE <<<<",">>, object>>)

JsonFinish(w, s) ==
    CASE s.format = "jsonl" -> Fed(w, <<>>)
      [] s.format = "json" /\ w.opened -> Fed(w, <<<<"]">>>>)
      [] OTHER -> Fed(w, <<<<"[">>, <<"]">>>>)

---------------------------------------------------------------------------
(* Markdown, HTML, XML *)

MarkdownCell(text) ==
    Replace(Replace(Replace(text, "PIPE", <<"BS", "PIPE">>), "LF", <<"<br>">>), "CR", <<>>)

MarkdownLine(cells, s) ==
    <<"PIPE", "SP">> \o Join(cells, <<"SP", "PIPE", "SP">>) \o <<"SP", "PIPE">> \o Newline(s)

MarkdownBegin(w, columns, s) ==
    IF w.opened THEN Fed(w, <<>>)
    ELSE Fed([w EXCEPT !.opened = TRUE],
             MarkdownLine([i \in DOMAIN columns |-> MarkdownCell(columns[i].name)], s)
             \o MarkdownLine([i \in DOMAIN columns |->
                                <<IF IsNumeric(columns[i]) THEN "---:" ELSE "---">>], s))

MarkdownRow(w, columns, values, s) ==
    LET cell(i) == LET r == Render(values[i], columns[i], s)
                   IN IF r = None THEN s.null_as ELSE MarkdownCell(r[1])
    IN Fed(w, MarkdownLine([i \in DOMAIN values |-> cell(i)], s))

HtmlEscape(text) ==
    Replace(Replace(Replace(Replace(text, "AMP", <<"AMP", "a", "m", "p", "SEMI">>),
                            "LT", <<"AMP", "l", "t", "SEMI">>),
                    "GT", <<"AMP", "g", "t", "SEMI">>),
            "QUOTE", <<"AMP", "q", "u", "o", "t", "SEMI">>)

HtmlBegin(w, columns) ==
    IF w.opened THEN Fed(w, <<>>)
    ELSE Fed([w EXCEPT !.opened = TRUE],
             <<"<table>", "<thead>">>
             \o FlattenSeq([i \in DOMAIN columns |->
                              <<"<th>">> \o HtmlEscape(columns[i].name) \o <<"</th>">>])
             \o <<"</thead>", "<tbody>">>)

HtmlRow(w, columns, values, s) ==
    LET cell(i) == LET r == Render(values[i], columns[i], s)
                   IN IF r = None THEN <<"<td null>">> \o HtmlEscape(s.null_as)
                      ELSE <<"<td>">> \o HtmlEscape(r[1])
    IN Fed(w, <<"<tr>">> \o FlattenSeq([i \in DOMAIN values |-> cell(i) \o <<"</td>">>])
              \o <<"</tr>">>)

XmlEscape(text) ==
    Replace(Replace(Replace(text, "AMP", <<"AMP", "a", "m", "p", "SEMI">>),
                    "LT", <<"AMP", "l", "t", "SEMI">>),
            "GT", <<"AMP", "g", "t", "SEMI">>)

(* The element of a column: never empty, never starting with a digit. *)
XmlTag(name) ==
    LET valid(c) == c \notin Punctuation \/ c \in {"UND", "DASH"}
        safe == [i \in DOMAIN name |-> IF valid(name[i]) THEN name[i] ELSE "UND"]
    IN IF name = <<>> THEN <<"column">>
       ELSE IF name[1] \in Digits \/ ~valid(name[1]) THEN <<"UND">> \o safe
       ELSE safe

XmlBegin(w) == IF w.opened THEN Fed(w, <<>>) ELSE Fed([w EXCEPT !.opened = TRUE], <<"<rows>">>)

XmlRow(w, columns, values, s) ==
    LET cell(i) == LET r == Render(values[i], columns[i], s)
                       tag == XmlTag(columns[i].name)
                   IN IF r = None THEN <<"<nil>">> \o tag \o <<"/>">>
                      ELSE <<"<">> \o tag \o <<">">> \o XmlEscape(r[1]) \o <<"</>">>
    IN Fed(w, <<"<row>">> \o FlattenSeq([i \in DOMAIN values |-> cell(i)]) \o <<"</row>">>)

---------------------------------------------------------------------------
(* SQL: insert statements of at most sql_batch rows *)

MySql(s) == s.sql_dialect \in {"mariadb", "mysql"}

QuoteLiteral(text, s) ==
    IF MySql(s)
    THEN Replace(Replace(text, "BS", <<"BS", "BS">>), "APOS", <<"APOS", "APOS">>)
    ELSE Replace(text, "APOS", <<"APOS", "APOS">>)

SqlLiteral(value, column, s) ==
    LET r == Render(value, column, s)
    IN IF r = None THEN <<"null">>
       ELSE IF \/ column.class = "number" /\ ParsesAsFloat(r[1])
               \/ column.class = "bool" /\ r[1] \in {<<"true">>, <<"false">>}
            THEN <<"bare", r[1]>>
            ELSE <<"quoted", QuoteLiteral(r[1], s)>>

Statement(verb, rows, conflict, set) ==
    [verb |-> verb, rows |-> rows, conflict |-> conflict, set |-> set]

SqlFlush(w, s) ==
    LET names == [i \in DOMAIN w.columns |-> w.columns[i].name]
        verb == CASE s.sql_mode = "replace" /\ MySql(s) -> "replace into"
                  [] s.sql_mode = "ignore" /\ MySql(s) -> "insert ignore into"
                  [] OTHER -> "insert into"
        conflict == CASE s.sql_mode = "upsert" /\ MySql(s) -> "on duplicate key update"
                      [] s.sql_mode = "upsert" /\ ~MySql(s) -> "on conflict do update"
                      [] s.sql_mode = "ignore" /\ ~MySql(s) -> "on conflict do nothing"
                      [] OTHER -> "error"
        set == IF s.sql_mode = "upsert"
               THEN SelectSeq(names, LAMBDA n : n \notin s.sql_key_columns) ELSE <<>>
    IN IF w.pending = <<>> THEN Fed(w, <<>>)
       ELSE Fed([w EXCEPT !.pending = <<>>], <<Statement(verb, w.pending, conflict, set)>>)

SqlBegin(w, columns, s) ==
    IF w.opened THEN Fed(w, <<>>)
    ELSE Fed([w EXCEPT !.opened = TRUE, !.columns = columns],
             IF s.sql_transaction THEN <<Statement("begin", <<>>, "error", <<>>)>> ELSE <<>>)

SqlRow(w, columns, values, s) ==
    LET row == [i \in DOMAIN values |-> SqlLiteral(values[i], columns[i], s)]
        held == [w EXCEPT !.pending = Append(@, row)]
    IN IF Len(held.pending) >= s.sql_batch \/ s.sql_batch = 0 THEN SqlFlush(held, s)
       ELSE Fed(held, <<>>)

SqlFinish(w, s) ==
    LET flushed == SqlFlush(w, s)
    IN Fed(flushed.w,
           flushed.out \o IF s.sql_transaction THEN <<Statement("commit", <<>>, "error", <<>>)>>
                          ELSE <<>>)

---------------------------------------------------------------------------
(* The aligned grid, which has to hold every row to know the widths *)

TextRow(w, columns, values, s) ==
    LET cell(i) == LET r == Render(values[i], columns[i], s)
                   IN Replace(Replace(IF r = None THEN s.null_as ELSE r[1],
                                      "LF", <<"BS", "n">>), "TAB", <<"BS", "t">>)
    IN Fed([w EXCEPT !.pending = Append(@, [i \in DOMAIN values |-> cell(i)])], <<>>)

Pad(text, width) == text \o [i \in 1..(width - Len(text)) |-> "SP"]

TrimEnd(text) ==
    LET kept == {i \in DOMAIN text : text[i] \notin {"SP", "TAB", "LF", "CR"}}
    IN SubSeq(text, 1, IF kept = {} THEN 0 ELSE Max(kept))

Widths(w) ==
    [i \in DOMAIN w.columns |->
        Max({Len(w.columns[i].name)} \cup {Len(w.pending[r][i]) : r \in DOMAIN w.pending})]

TextFinish(w, s) ==
    LET bar == <<"SP", "PIPE", "SP">>
        padded(cells) == Join([i \in DOMAIN cells |-> Pad(cells[i], Widths(w)[i])], bar)
        header == padded([i \in DOMAIN w.columns |-> w.columns[i].name])
        rule == Join([i \in DOMAIN w.columns |-> [j \in 1..Widths(w)[i] |-> "DASH"]],
                     <<"DASH", "PLUS", "DASH">>)
        lines == [r \in DOMAIN w.pending |-> TrimEnd(padded(w.pending[r])) \o Newline(s)]
    IN Fed(w, header \o Newline(s) \o rule \o Newline(s) \o FlattenSeq(lines))

---------------------------------------------------------------------------
(* XLSX: one sheet, assembled at the end *)

(* The letters of a column, as digits 0..25: A..Z, AA..AZ, BA.. *)
ColumnName(index) ==
    LET name[i \in 0..index] ==
          IF i < 26 THEN <<i>> ELSE Append(name[(i \div 26) - 1], i % 26)
    IN name[index]

XlsxCell(value, column, s) ==
    LET r == Render(value, column, s)
    IN IF r = None THEN None
       ELSE CASE column.class = "number" /\ ParsesAsFloat(r[1]) -> Some(<<"number", r[1]>>)
              [] column.class = "bool" /\ r[1] \in {<<"true">>, <<"t">>, <<"1">>} ->
                   Some(<<"bool", <<"true">>>>)
              [] column.class = "bool" /\ r[1] \in {<<"false">>, <<"f">>, <<"0">>} ->
                   Some(<<"bool", <<"false">>>>)
              [] OTHER -> Some(<<"text", r[1]>>)

(* Characters that XML 1.0 forbids are dropped. *)
XlsxEscape(text) ==
    SelectSeq(Replace(HtmlEscape(text), "APOS", <<"AMP", "a", "p", "o", "s", "SEMI">>),
              LAMBDA c : c # "CTRL")

(* Past the ceiling a row is dropped; the flag that says so is never read. *)
XlsxRow(w, columns, values, s) ==
    IF Len(w.pending) >= MaxSheetRows THEN Fed(w, <<>>)
    ELSE Fed([w EXCEPT !.pending =
                Append(@, [i \in DOMAIN values |-> XlsxCell(values[i], columns[i], s)])], <<>>)

Sheet(w, s) ==
    LET top == IF s.header THEN 1 ELSE 0
        at(i, r, cell) == [column |-> ColumnName(i - 1), row |-> r, kind |-> cell[1],
                           text |-> IF cell[1] = "text" THEN XlsxEscape(cell[2]) ELSE cell[2]]
        header == {at(i, 1, <<"text", w.columns[i].name>>) : i \in DOMAIN w.columns}
        line(r) == {at(i, top + r, w.pending[r][i][1])
                      : i \in {j \in DOMAIN w.pending[r] : w.pending[r][j] # None}}
    IN (IF s.header THEN header ELSE {}) \cup UNION {line(r) : r \in DOMAIN w.pending}

---------------------------------------------------------------------------
(* The writer a format calls for *)

Begin(w, columns, s) ==
    CASE s.format \in {"csv", "tsv"} -> DelimitedBegin(w, columns, s)
      [] s.format \in {"json", "jsonl"} -> JsonBegin(w, s)
      [] s.format = "markdown" -> MarkdownBegin(w, columns, s)
      [] s.format = "html" -> HtmlBegin(w, columns)
      [] s.format = "xml" -> XmlBegin(w)
      [] s.format = "sql" -> SqlBegin(w, columns, s)
      [] s.format = "xlsx" -> Fed([w EXCEPT !.columns = IF @ = <<>> THEN columns ELSE @], <<>>)
      [] s.format = "text" -> Fed([w EXCEPT !.columns = columns], <<>>)

Row(w, columns, values, s) ==
    CASE s.format \in {"csv", "tsv"} -> DelimitedRow(w, columns, values, s)
      [] s.format \in {"json", "jsonl"} -> JsonRow(w, columns, values, s)
      [] s.format = "markdown" -> MarkdownRow(w, columns, values, s)
      [] s.format = "html" -> HtmlRow(w, columns, values, s)
      [] s.format = "xml" -> XmlRow(w, columns, values, s)
      [] s.format = "sql" -> SqlRow(w, columns, values, s)
      [] s.format = "xlsx" -> XlsxRow(w, columns, values, s)
      [] s.format = "text" -> TextRow(w, columns, values, s)

Finish(w, s) ==
    CASE s.format \in {"json", "jsonl"} -> JsonFinish(w, s)
      [] s.format = "html" -> Fed(w, <<"</tbody>", "</table>">>)
      [] s.format = "xml" -> Fed(w, <<"</rows>">>)
      [] s.format = "sql" -> SqlFinish(w, s)
      [] s.format = "xlsx" -> Fed(w, <<Sheet(w, s)>>)
      [] s.format = "text" -> TextFinish(w, s)
      [] s.format \in {"csv", "tsv", "markdown"} -> Fed(w, <<>>)
=============================================================================
