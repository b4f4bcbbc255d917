---------------------------- MODULE Interchange ----------------------------
(***************************************************************************)
(* A file an export wrote is imported into another table of the same       *)
(* columns: what the writer of one part of the program writes, the reader  *)
(* of another takes apart.  The inserts go out in batches, each of them a  *)
(* transaction of its own.                                                 *)
(***************************************************************************)
EXTENDS Export

Importer == INSTANCE Import

CONSTANT ImportBatch    \* rows per transaction of an import

ASSUME ImportAssumption == ImportBatch \in Nat \ {0}

VARIABLES import,   \* the job of the import buffer
          table     \* the rows inserted, oldest first

NoImport == [phase |-> "none"]

allVars == <<vars, import, table>>

(* start: the file is read, its columns matched by name; :w and "yes" go   *)
(* on with what it found.                                                  *)
Import(f) ==
    /\ export = Idle /\ Succeeded /\ import.phase = "none"
    /\ f \in Reported /\ f.path # None
    /\ outcome.job.spec.format \in {"csv", "tsv"} /\ disk[f.path[1]].state = "whole"
    /\ LET lines == Importer!ReadFile(Document(f))
           names == {c.name : c \in Range(outcome.job.columns)}
       IN IF lines = <<>> THEN import' = [phase |-> "refused"]
          ELSE \E separator \in Importer!Separators(lines[1]) :
                 LET records == Importer!Records(lines, separator)
                     mapping == Importer!Mapping(records[1], names)
                     changes == Importer!Changes(Tail(records), mapping)
                 IN import' = IF Importer!MappedTwice(mapping) \/ changes = <<>>
                              THEN [phase |-> "refused"]
                              ELSE [phase |-> "running", of |-> f, changes |-> changes, next |-> 1]
    /\ UNCHANGED <<vars, table>>

(* One batch is applied, and the next one follows. *)
Insert ==
    /\ import.phase = "running"
    /\ LET last == Min({import.next + ImportBatch - 1, Len(import.changes)})
       IN /\ table' = table \o SubSeq(import.changes, import.next, last)
          /\ import' = [import EXCEPT !.next = last + 1,
                                      !.phase = IF last = Len(import.changes) THEN "done" ELSE @]
    /\ UNCHANGED vars

(* A batch fails and is rolled back; the earlier ones are committed.       *)
InsertFails ==
    /\ import.phase = "running"
    /\ import' = [import EXCEPT !.phase = "failed"]
    /\ UNCHANGED <<vars, table>>

Transfer ==
    \/ Next /\ import.phase = "none" /\ UNCHANGED <<import, table>>
    \/ Succeeded /\ \E f \in Reported : Import(f)
    \/ Insert
    \/ InsertFails

InterchangeSpec ==
    /\ Init /\ import = NoImport /\ table = <<>>
    /\ [][Transfer]_allVars

---------------------------------------------------------------------------
(* The exports an import can take apart: comma, semicolon or tab between   *)
(* two columns at least, quotes doubled, a header of plain names, no       *)
(* number that holds the delimiter and stays bare, and no carriage return  *)
(* in the data, which readfile() drops before a newline.                   *)
Importable(job) ==
    LET s == job.spec
        columns == Chosen(s, job.columns)
        names == {columns[i].name : i \in DOMAIN columns}
    IN /\ s.header /\ ~Unread(Limited(job), columns, s) /\ s.escape = "double" /\ Quote(s) = "QUOTE"
       /\ Delimiter(s) \in {"COMMA", "SEMI", "TAB"}
       /\ Len(columns) >= 2 /\ Cardinality(names) = Len(columns)
       /\ \A name \in names : name # <<>> /\ Range(name) \cap Punctuation = {} /\ name[1] # "HASH"
       /\ \A r \in DOMAIN job.rows : \A i \in DOMAIN job.columns :
            job.rows[r][i] # None => "CR" \notin Range(job.rows[r][i][1])

(* What was exported is what arrives: an import that ran to its end has    *)
(* inserted the rows of the file, in order, a field that is empty left to  *)
(* the database and a row of nothing else left out; one that failed has    *)
(* inserted a first part of them.                                          *)
ImportedIsExported ==
    import.phase \in {"running", "failed", "done"} /\ Importable(outcome.job) =>
        LET s == outcome.job.spec
            columns == Chosen(s, outcome.job.columns)
            rows == Part(outcome.job, import.of.key)
            text(row, i) == TextOr(Render(row[i], columns[i], s), s.null_as)
            filled(row) == {i \in DOMAIN columns : text(row, i) # <<>>}
            sent == SelectSeq(rows, LAMBDA row : filled(row) # {})
            expected == [r \in DOMAIN sent |->
                           [name \in {columns[i].name : i \in filled(sent[r])} |->
                              text(sent[r], Position(columns, name))]]
        IN /\ IsPrefix(table, expected)
           /\ import.phase = "done" => table = expected
=============================================================================
