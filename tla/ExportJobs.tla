---------------------------- MODULE ExportJobs ----------------------------
(* Small exports: one-row tables for what a writer does to a value, three- *)
(* row tables for batches, limits and partitions.                          *)
EXTENDS Writers

Column(name, class) == [name |-> <<name>>, class |-> class]
A == Column("a", "text")
N == Column("n", "number")

Plain ==
    [format |-> "csv", source |-> "table", filter |-> "none", adapter |-> "sqlite",
     destination |-> "stem", limit |-> None, batch_size |-> 2, columns |-> None,
     redact |-> {}, redact_with |-> <<"x", "x">>, compress |-> FALSE, overwrite |-> FALSE,
     manifest |-> FALSE, preview |-> FALSE, preview_rows |-> None,
     partition_by |-> None, partition_rows |-> None,
     delimiter |-> None, quote |-> None, quoting |-> "minimal", escape |-> "double",
     header |-> TRUE, crlf |-> FALSE, bom |-> FALSE, decimal |-> "DOT", null_as |-> <<>>,
     binary |-> "hex", json_mode |-> "inline", json_columns |-> {}, sql_mode |-> "insert",
     sql_batch |-> 2, sql_transaction |-> FALSE, sql_dialect |-> "postgres",
     sql_key_columns |-> {}]

(* Texts that meet every special character, in twos and threes. *)
Texts ==
    {<<>>, <<"a">>, <<"SP", "a">>, <<"QUOTE">>, <<"QUOTE", "QUOTE">>, <<"a", "QUOTE", "COMMA">>,
     <<"COMMA", "QUOTE">>, <<"BS", "QUOTE">>, <<"BS">>, <<"QUOTE", "BS">>, <<"a", "LF", "b">>,
     <<"LF", "QUOTE">>, <<"CR", "LF">>, <<"TAB", "a">>, <<"SEMI">>, <<"APOS", "BS", "APOS">>,
     <<"BS", "PIPE">>, <<"PIPE", "PIPE", "SP">>, <<"LT", "AMP", "GT">>,
     <<"AMP", "l", "t", "SEMI">>, <<"CTRL", "a">>, <<"true">>}

Numbers == {<<"1", "DOT", "1">>, <<"0", "1">>, <<"NaN">>, <<"1", "MANY">>}

DelimitedSpecs ==
    {[Plain EXCEPT !.format = f, !.quoting = q, !.escape = e] :
        f \in {"csv", "tsv"}, q \in {"minimal", "all", "non_numeric"}, e \in {"double", "backslash"}}
    \cup {[Plain EXCEPT !.quote = Some("APOS"), !.delimiter = Some("PIPE")],
          [Plain EXCEPT !.crlf = TRUE, !.bom = TRUE, !.header = FALSE],
          [Plain EXCEPT !.decimal = "COMMA", !.quoting = "non_numeric", !.delimiter = Some("COMMA")],
          [Plain EXCEPT !.decimal = "COMMA", !.null_as = <<"n">>, !.crlf = TRUE, !.bom = TRUE]}

OtherSpecs ==
    {[Plain EXCEPT !.format = f, !.null_as = <<"n">>] :
        f \in {"json", "jsonl", "markdown", "html", "xml", "text", "xlsx"}}
    \cup {[Plain EXCEPT !.format = "sql", !.sql_dialect = d, !.sql_transaction = t, !.sql_mode = m] :
            d \in {"postgres", "mysql"}, t \in BOOLEAN, m \in {"insert", "upsert"}}
    \cup {[Plain EXCEPT !.format = "xlsx", !.header = FALSE, !.decimal = "COMMA"],
          [Plain EXCEPT !.format = "markdown", !.crlf = TRUE]}

Cell(s, value, class) ==
    [spec |-> s, columns |-> <<Column("a", class), N>>,
     rows |-> <<<<value, IF value = None \/ s.format = "xml" THEN Some(<<"1">>) ELSE None>>>>]

CellJobs ==
    {Cell(s, Some(t), "text") : s \in DelimitedSpecs \cup OtherSpecs, t \in Texts}
    \cup {Cell(s, None, "text") : s \in DelimitedSpecs \cup OtherSpecs}
    \cup {Cell(s, Some(t), "number") : s \in DelimitedSpecs \cup OtherSpecs, t \in Numbers}
    \cup {Cell([s EXCEPT !.binary = b], Some(<<"HEX", "1">>), "binary") :
            s \in OtherSpecs, b \in {"hex", "base64", "omit"}}
    \cup {Cell(s, Some(t), class) :
            s \in OtherSpecs, t \in {<<"true">>, <<"t">>, <<"0">>, <<"a">>}, class \in {"bool", "json"}}

(* Rows by key: two values that give one name, NULL beside an empty text.  *)
Row3 == <<<<Some(<<"a">>), Some(<<"1">>)>>, <<Some(<<"b">>), None>>, <<Some(<<"a">>), Some(<<"2">>)>>>>
Same == <<<<Some(<<"SP", "a">>), Some(<<"1">>)>>, <<Some(<<"a">>), None>>>>
Nulls == <<<<None, Some(<<"1">>)>>, <<Some(<<>>), None>>, <<Some(<<"a">>), None>>>>

Table(s, rows) == [spec |-> s, columns |-> <<A, N>>, rows |-> rows]

FlowSpecs ==
    {[Plain EXCEPT !.adapter = a, !.batch_size = b, !.limit = l] :
        a \in {"postgres", "mariadb", "sqlite"}, b \in {1, 2, 3}, l \in {None, Some(2)}}
    \cup {[Plain EXCEPT !.partition_rows = Some(n), !.format = f] :
            n \in {0, 1, 2}, f \in {"json", "xml", "sql"}}
    \cup {[Plain EXCEPT !.partition_by = Some(<<"a">>), !.format = f] : f \in {"csv", "sql"}}
    \cup {[Plain EXCEPT !.format = f, !.sql_transaction = TRUE, !.sql_batch = 2] :
            f \in {"sql", "html", "text", "xlsx"}}

FlowJobs ==
    {Table(s, Row3) : s \in FlowSpecs}
    \cup {Table([Plain EXCEPT !.limit = Some(0)], Row3)}
    \cup {Table([Plain EXCEPT !.format = f], <<>>) : f \in {"json", "xlsx", "sql", "csv"}}
    \cup {Table([Plain EXCEPT !.partition_rows = Some(2)], <<>>),
          Table([Plain EXCEPT !.columns = Some(<<<<"n">>, <<"a">>>>), !.redact = {<<"a">>}], Row3),
          Table([Plain EXCEPT !.columns = Some(<<<<"z">>>>)], Row3),
          Table([Plain EXCEPT !.partition_by = Some(<<"z">>)], Row3),
          [Table([Plain EXCEPT !.format = "json"], Row3) EXCEPT !.columns = <<A, A>>],
          Table([Plain EXCEPT !.source = "none"], Row3),
          Table([Plain EXCEPT !.filter = "invalid"], Row3)}

(* Exports that meet what an earlier one left. *)
RepeatJobs ==
    {Table([Plain EXCEPT !.overwrite = o, !.manifest = m], Row3) : o, m \in BOOLEAN}
    \cup {Table([Plain EXCEPT !.compress = TRUE, !.overwrite = TRUE], Row3),
          Table([Plain EXCEPT !.destination = "named", !.format = "json"], Row3),
          Table([Plain EXCEPT !.destination = "named"], <<>>),
          Table([Plain EXCEPT !.preview = TRUE], Row3),
          Table([Plain EXCEPT !.preview = TRUE, !.preview_rows = Some(3)], Row3)}
    \cup {Table([Plain EXCEPT !.partition_by = Some(<<"a">>), !.overwrite = o, !.manifest = TRUE], rows) :
            o \in BOOLEAN, rows \in {Row3, Same, Nulls}}

Wide ==
    [spec |-> [Plain EXCEPT !.format = "xlsx"],
     columns |-> [i \in 1..28 |-> [name |-> [j \in 1..i |-> "c"], class |-> "text"]],
     rows |-> <<[i \in 1..28 |-> Some(<<"a">>)]>>]

AllJobs == CellJobs \cup FlowJobs \cup RepeatJobs \cup {Wide}

(* For the temporal run: each adapter, batches that end with the result    *)
(* and that do not, a limit, partitions, a second attempt.                 *)
FairJobs ==
    {Table([Plain EXCEPT !.adapter = a, !.batch_size = b], Row3) :
        a \in {"postgres", "mariadb"}, b \in {1, 2, 3}}
    \cup {Table([Plain EXCEPT !.limit = Some(2)], Row3),
          Table([Plain EXCEPT !.manifest = TRUE], Row3),
          Table([Plain EXCEPT !.partition_by = Some(<<"z">>)], Row3)}

FairRepeats ==
    {Table([Plain EXCEPT !.overwrite = o, !.partition_by = Some(<<"a">>)], rows) :
        o \in BOOLEAN, rows \in {Same, Nulls}}
    \cup {Table([Plain EXCEPT !.preview = TRUE], Row3), Table(Plain, <<>>)}

FairAll == FairJobs \cup FairRepeats

(* What the documentation says of a sheet that is full, of an empty text   *)
(* beside a NULL, of an absent value in XML and of LOAD DATA.              *)
TooLong == {Table([Plain EXCEPT !.format = "xlsx"], Row3)}
Empties == {Table(Plain, Nulls)}
Absent == {Table([Plain EXCEPT !.format = "xml"], Row3)}
LoadData == {Cell([Plain EXCEPT !.delimiter = Some("TAB"), !.quoting = "none", !.escape = "backslash",
                                !.null_as = <<"BS", "N">>, !.header = FALSE], Some(t), "text") : t \in Texts}
=============================================================================
