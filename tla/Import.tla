------------------------------- MODULE Import -------------------------------
(***************************************************************************)
(* The CSV import of the editor: a file is read into a header and rows,    *)
(* the header is matched with the columns of a table, and every row that   *)
(* has a value becomes an insert.  Texts are as in Writers.                *)
(***************************************************************************)
EXTENDS Integers, Sequences, FiniteSets, SequencesExt, FiniteSetsExt

(* readfile(): lines without their end, CR dropped before it, and no BOM.  *)
ReadFile(document) ==
    LET text == IF document # <<>> /\ document[1] = "BOM" THEN Tail(document) ELSE document
        chop(line) == IF line # <<>> /\ Last(line) = "CR" THEN Front(line) ELSE line
        step(r, c) == IF c = "LF" THEN [lines |-> Append(r.lines, chop(r.line)), line |-> <<>>]
                      ELSE [r EXCEPT !.line = Append(@, c)]
        end == FoldLeft(step, [lines |-> <<>>, line |-> <<>>], text)
    IN IF end.line = <<>> THEN end.lines ELSE Append(end.lines, end.line)

\* mutant: a quote inside quotes always ends them
SplitLineOnQuotes(line, separator) ==
    LET field(r) == [r EXCEPT !.fields = Append(@, r.current), !.current = <<>>]
        step(r, c) ==
            CASE c = "QUOTE" -> [r EXCEPT !.mode = IF @ = "quoted" THEN "bare" ELSE "quoted"]
              [] c = separator /\ r.mode = "bare" -> field(r)
              [] OTHER -> [r EXCEPT !.current = Append(@, c)]
    IN field(FoldLeft(step, [mode |-> "bare", current |-> <<>>, fields |-> <<>>], line)).fields

SplitLine(line, separator) ==
    LET field(r) == [r EXCEPT !.fields = Append(@, r.current), !.current = <<>>, !.mode = "bare"]
        put(r, c) == [r EXCEPT !.current = Append(@, c)]
        bare(r, c) ==
            CASE c = "QUOTE" /\ r.current = <<>> -> [r EXCEPT !.mode = "quoted"]
              [] c = separator -> field(r)
              [] OTHER -> put(r, c)
        step(r, c) ==
            CASE r.mode = "bare" -> bare(r, c)
              [] r.mode = "quoted" /\ c = "QUOTE" -> [r EXCEPT !.mode = "closing"]
              [] r.mode = "quoted" /\ c # "QUOTE" -> put(r, c)
              [] r.mode = "closing" /\ c = "QUOTE" -> [put(r, c) EXCEPT !.mode = "quoted"]
              [] OTHER -> bare([r EXCEPT !.mode = "bare"], c)
    IN field(FoldLeft(step, [mode |-> "bare", current |-> <<>>, fields |-> <<>>], line)).fields

(* The separators the guess may settle on: the order pairs() visits them   *)
(* in decides between two that are equally frequent, except the comma.     *)
Separators(line) ==
    LET count(c) == Cardinality({i \in DOMAIN line : line[i] = c})
        most == Max({count(c) : c \in {"COMMA", "SEMI", "TAB"}})
    IN IF count("COMMA") = most THEN {"COMMA"}
       ELSE {c \in {"SEMI", "TAB"} : count(c) = most}

(* Lines are joined until their quotes balance. *)
Records(lines, separator) ==
    LET quotes(text) == Cardinality({i \in DOMAIN text : text[i] = "QUOTE"})
        step(r, line) ==
            LET text == IF r.pending = <<>> THEN line ELSE r.pending[1] \o <<"LF">> \o line
            IN IF quotes(text) % 2 = 1 THEN [r EXCEPT !.pending = <<text>>]
               ELSE [pending |-> <<>>, records |-> Append(r.records, SplitLine(text, separator))]
        end == FoldLeft(step, [pending |-> <<>>, records |-> <<>>], lines)
    IN IF end.pending = <<>> THEN end.records
       ELSE Append(end.records, SplitLine(end.pending[1], separator))

(* The mapping as it is read back from the buffer it is shown in: a line   *)
(* that starts with the comment sign is no entry, and moves the later ones *)
(* up.  A blank target skips its column.                                   *)
Mapping(header, columns) ==
    LET shown == SelectSeq(header, LAMBDA name : name = <<>> \/ name[1] # "HASH")
    IN [i \in DOMAIN shown |-> IF shown[i] \in columns THEN shown[i] ELSE <<>>]

MappedTwice(mapping) ==
    \E i, j \in DOMAIN mapping : i # j /\ mapping[i] # <<>> /\ mapping[i] = mapping[j]

(* The inserts: an empty field is left to the database, an empty row is no *)
(* insert.                                                                 *)
Changes(rows, mapping) ==
    LET used(row) == {i \in DOMAIN mapping :
                        mapping[i] # <<>> /\ i \in DOMAIN row /\ row[i] # <<>>}
        insert(row) == [name \in {mapping[i] : i \in used(row)} |->
                          LET at == CHOOSE i \in used(row) : mapping[i] = name IN row[at]]
        filled == SelectSeq(rows, LAMBDA row : used(row) # {})
    IN [r \in DOMAIN filled |-> insert(filled[r])]
=============================================================================
