------------------------------- MODULE Export -------------------------------
(***************************************************************************)
(* Exports: a statement is streamed from the session in batches, and every *)
(* row is projected, redacted, assigned to a partition and fed to that     *)
(* partition's writer, whose bytes go to a file or, in a preview, to       *)
(* memory.  One export runs at a time, one after another on the same disk, *)
(* as a user who tries again would run them; the session may fail, a write *)
(* may fail and the daemon may be killed.                                  *)
(*                                                                         *)
(* A path is a record of what the name is made of.  The content of a file  *)
(* is known when its sink was finished (state "whole"); until then, and    *)
(* when two sinks wrote to it, nothing is said of it ("partial", "torn").  *)
(***************************************************************************)
EXTENDS Readers, Functions

CONSTANTS Jobs,        \* exports: [spec, columns, rows]
          Repeats,     \* bound: those that may follow, or be followed by, another
          MaxExports,  \* bound: exports run one after another
          SlugMax,     \* the length a partition's name is cut to
          PreviewRows  \* rows of a preview whose spec does not say

ASSUME ExportAssumption ==
    /\ Repeats \subseteq Jobs
    /\ MaxExports \in Nat \ {0} /\ SlugMax \in Nat \ {0} /\ PreviewRows \in Nat
    /\ \A job \in Jobs :
         /\ job.spec.batch_size \in Nat \ {0}
         /\ job.rows \in Seq(Range(job.rows))
         /\ \A most \in {job.spec.limit, job.spec.preview_rows, job.spec.partition_rows} :
              most = None \/ most[1] \in Nat

VARIABLES disk,       \* path -> [state, document]
          manifests,  \* path -> the outcome a manifest describes
          export,     \* the locals of run()
          outcome,    \* of the last export that returned
          exports,    \* how many were started
          found       \* the disk the current export found

vars == <<disk, manifests, export, outcome, exports, found>>

spec == export.job.spec

NoOutcome == [kind |-> "none"]
Refused(why) == [kind |-> "error", why |-> why]

Idle == [phase |-> "idle"]

---------------------------------------------------------------------------
(* build_sql: what is not a statement is refused before anything runs.     *)

SqlBuilds(s) ==
    \/ s.source = "sql"
    \/ s.source = "table" /\ s.filter \in {"none", "valid"}

(* The columns asked for, in the order asked for. *)
Projects(s, columns) ==
    s.columns = None \/ \A i \in DOMAIN s.columns[1] :
                          \E j \in DOMAIN columns : columns[j].name = s.columns[1][i]

Position(columns, name) ==
    Min({i \in DOMAIN columns : columns[i].name = name})

Projection(s, columns) ==
    IF s.columns = None THEN [i \in DOMAIN columns |-> i]
    ELSE [i \in DOMAIN s.columns[1] |-> Position(columns, s.columns[1][i])]

Chosen(s, columns) == [i \in DOMAIN Projection(s, columns) |-> columns[Projection(s, columns)[i]]]

Values(s, columns, row) ==
    [i \in DOMAIN Projection(s, columns) |->
        IF Chosen(s, columns)[i].name \in s.redact THEN Some(s.redact_with)
        ELSE row[Projection(s, columns)[i]]]

---------------------------------------------------------------------------
(* Names of files *)

Slug(text) ==
    LET kept(c) == c \notin Punctuation \/ c \in {"DASH", "UND", "DOT"}
        replaced == [i \in DOMAIN text |-> IF kept(text[i]) THEN text[i] ELSE "DASH"]
        solid == {i \in DOMAIN text : replaced[i] # "DASH"}
    IN IF solid = {} THEN <<"null">>
       ELSE LET trimmed == SubSeq(replaced, Min(solid), Max(solid))
            IN SubSeq(trimmed, 1, Min({SlugMax, Len(trimmed)}))

(* A destination with an extension names the file; one without is a stem.  *)
PartitionPath(s, key, index) ==
    LET named == s.destination = "named"
        extension == IF named \/ s.compress THEN "given" ELSE s.format
        path(part, ending) ==
            [to |-> s.destination, part |-> part, extension |-> ending, gz |-> s.compress]
    IN IF key = None /\ index = 0 /\ s.partition_rows = None THEN path(<<>>, extension)
       ELSE IF key # None THEN path(<<"key", Slug(key[1])>>, s.format)
       ELSE path(<<"index", index + 1>>, s.format)

---------------------------------------------------------------------------
(* stream_query of an adapter, as the export sees it: the rows of the next *)
(* batch, whether they are handed over at all, and whether it was the last *)

Batch(e) ==
    LET n == e.job.spec.batch_size
        rest == SubSeq(e.job.rows, e.fetched + 1, Len(e.job.rows))
    IN SubSeq(rest, 1, Min({n, Len(rest)}))

\* mutant: a short batch is not taken for the last one
LastBatchNever(e) == Len(Batch(e)) > e.job.spec.batch_size

LastBatch(e) == Len(Batch(e)) < e.job.spec.batch_size

HandedOver(e) ==
    \/ e.job.spec.adapter = "postgres"
    \/ Batch(e) # <<>>
    \/ e.fetched = 0

---------------------------------------------------------------------------
(* Files *)

\* mutant: the file is opened whatever is there
MayCreateAlways(s, path) == TRUE

(* Sink::new: false when the file is there and may not be replaced.        *)
MayCreate(s, path) == path \notin DOMAIN disk \/ s.overwrite

Written(path, state, document) ==
    disk' = [p \in DOMAIN disk \cup {path} |->
               IF p = path THEN [state |-> state, document |-> document] ELSE disk[p]]

SharesPath(e, key) ==
    \E other \in DOMAIN e.parts : other # key /\ e.parts[other].path = e.parts[key].path

---------------------------------------------------------------------------
Init ==
    /\ disk = [p \in {} |-> 0] /\ manifests = [p \in {} |-> 0]
    /\ export = Idle /\ outcome = NoOutcome /\ exports = 0 /\ found = disk

(* run, up to the statement being handed to the session *)
Start(job) ==
    /\ export = Idle /\ exports < MaxExports
    /\ exports = 0 \/ job \in Repeats
    /\ exports' = (IF job \in Repeats THEN exports + 1 ELSE MaxExports) /\ found' = disk
    /\ IF ~SqlBuilds(job.spec)
       THEN /\ outcome' = Refused("statement") /\ UNCHANGED export
       ELSE /\ outcome' = NoOutcome
            /\ export' = [phase |-> "fetch", job |-> job, fetched |-> 0, batch |-> <<>>,
                          last |-> FALSE, parts |-> <<>>, order |-> <<>>,
                          written |-> 0, index |-> 0, here |-> 0, error |-> FALSE,
                          files |-> <<>>]
    /\ UNCHANGED <<disk, manifests>>

(* The next batch arrives and is handed to the callback, which looks at    *)
(* the columns the first time.                                             *)
AfterBatch(last) == IF last THEN "finish" ELSE "fetch"

Fetch ==
    /\ export.phase = "fetch"
    /\ LET e == [export EXCEPT !.fetched = @ + Len(Batch(export)), !.last = LastBatch(export)]
       IN export' =
            CASE ~HandedOver(export) -> [e EXCEPT !.phase = "finish"]
              [] HandedOver(export) /\ ~Projects(spec, e.job.columns) ->
                   [e EXCEPT !.phase = "finish", !.error = TRUE]
              [] OTHER -> [e EXCEPT !.phase = IF Batch(export) = <<>> THEN AfterBatch(e.last) ELSE "rows",
                                    !.batch = Batch(export)]
    /\ UNCHANGED <<disk, manifests, outcome, exports, found>>

(* The statement fails, or the connection is lost. *)
FetchFails ==
    /\ export.phase = "fetch"
    /\ export' = [export EXCEPT !.phase = "finish", !.error = TRUE]
    /\ UNCHANGED <<disk, manifests, outcome, exports, found>>

LimitReached ==
    \/ spec.limit # None /\ export.written >= spec.limit[1]
    \/ spec.preview /\ export.written >= (IF spec.preview_rows = None THEN PreviewRows
                                          ELSE spec.preview_rows[1])

Columns(e) == Chosen(e.job.spec, e.job.columns)
RowValues(e) == Values(e.job.spec, e.job.columns, Head(e.batch))

(* The place of a row among the files of a fixed size *)
\* mutant: one row too many before the next file
TurnedLate(e) ==
    IF e.here > spec.partition_rows[1] THEN [e EXCEPT !.index = @ + 1, !.here = 1]
    ELSE [e EXCEPT !.here = @ + 1]

Turned(e) ==
    IF e.here >= spec.partition_rows[1] THEN [e EXCEPT !.index = @ + 1, !.here = 1]
    ELSE [e EXCEPT !.here = @ + 1]

(* The partition a row belongs to: by the value it shows, by the place, or *)
(* the only one.                                                           *)
Key(e) ==
    IF spec.partition_by # None
    THEN LET value == RowValues(e)[Position(Columns(e), spec.partition_by[1])]
         IN IF value = None THEN <<"n", "u", "l", "l">> ELSE value[1]
    ELSE IF spec.partition_rows # None THEN <<"#", e.index>>
    ELSE <<>>

RowPath(e) ==
    IF spec.partition_by # None THEN PartitionPath(spec, Some(Key(e)), Len(e.order))
    ELSE PartitionPath(spec, None, e.index)

(* A partition, with the opening of its document *)
Opened(path, columns, s) ==
    LET begun == Begin(Make(s, columns), columns, s)
    IN [writer |-> begun.w, document |-> begun.out, rows |-> 0, path |-> path, torn |-> FALSE]

FedRow(part, columns, values, s) ==
    LET fed == Row(part.writer, columns, values, s)
    IN [part EXCEPT !.writer = fed.w, !.document = @ \o fed.out, !.rows = @ + 1]

Keeping(parts, key, part) == [k \in DOMAIN parts \cup {key} |-> IF k = key THEN part ELSE parts[k]]

Failing(e) == [e EXCEPT !.phase = "finish", !.error = TRUE, !.batch = <<>>]

(* One row of the batch. *)
WriteRow ==
    /\ export.phase = "rows" /\ ~LimitReached
    /\ spec.partition_by # None => spec.partition_by[1] \in {c.name : c \in Range(Columns(export))}
    /\ LET e == IF spec.partition_by = None /\ spec.partition_rows # None THEN Turned(export) ELSE export
           key == Key(e)
           fresh == key \notin DOMAIN e.parts
           part == IF fresh THEN Opened(RowPath(e), Columns(e), spec) ELSE e.parts[key]
       IN IF fresh /\ ~spec.preview /\ ~MayCreate(spec, RowPath(e))
          THEN export' = Failing(e) /\ UNCHANGED disk
          ELSE /\ export' = [e EXCEPT !.parts = Keeping(@, key, FedRow(part, Columns(e), RowValues(e), spec)),
                                      !.order = IF fresh THEN Append(@, key) ELSE @,
                                      !.written = @ + 1,
                                      !.batch = Tail(@),
                                      !.phase = IF Len(e.batch) = 1 THEN AfterBatch(e.last) ELSE @]
               /\ IF fresh /\ ~spec.preview THEN Written(RowPath(e), "partial", <<>>)
                  ELSE UNCHANGED disk
    /\ UNCHANGED <<manifests, outcome, exports, found>>

(* The row that would be one too many ends the stream. *)
StopAtLimit ==
    /\ export.phase = "rows" /\ LimitReached
    /\ export' = [export EXCEPT !.phase = "finish", !.batch = <<>>]
    /\ UNCHANGED <<disk, manifests, outcome, exports, found>>

NoPartitionColumn ==
    /\ export.phase = "rows" /\ ~LimitReached
    /\ spec.partition_by # None
    /\ spec.partition_by[1] \notin {c.name : c \in Range(Columns(export))}
    /\ export' = Failing(export)
    /\ UNCHANGED <<disk, manifests, outcome, exports, found>>

(* The file cannot be created, or a write to one that is open fails.       *)
WriteFails ==
    /\ export.phase = "rows" /\ ~LimitReached /\ ~spec.preview
    /\ \/ export' = Failing(export)
       \/ \E key \in DOMAIN export.parts :
            export' = [Failing(export) EXCEPT !.parts[key].torn = TRUE]
    /\ UNCHANGED <<disk, manifests, outcome, exports, found>>

---------------------------------------------------------------------------
(* After the stream: an empty result still gets its one file.              *)

\* mutant: the file of an empty result is opened whatever was written
EmptyFileAlways ==
    /\ export.phase = "finish" /\ ~spec.preview /\ ~export.error
    /\ export' = [export EXCEPT !.order = <<<<>>>>,
                                !.parts = Keeping(@, <<>>, Opened(PartitionPath(spec, None, 0), Columns(export), spec))]
    /\ Written(PartitionPath(spec, None, 0), "partial", <<>>)
    /\ UNCHANGED <<manifests, outcome, exports, found>>

EmptyFile ==
    /\ export.phase = "finish" /\ export.order = <<>> /\ ~spec.preview /\ ~export.error
    /\ LET path == PartitionPath(spec, None, 0)
       IN IF MayCreate(spec, path)
          THEN /\ export' = [export EXCEPT !.order = <<<<>>>>,
                                           !.parts = Keeping(@, <<>>, Opened(path, Columns(export), spec))]
               /\ Written(path, "partial", <<>>)
               /\ UNCHANGED outcome
          ELSE /\ export' = Idle /\ outcome' = Refused("exists") /\ UNCHANGED disk
    /\ UNCHANGED <<manifests, exports, found>>

NextKey == export.order[Len(export.files) + 1]

Finishing ==
    /\ export.phase = "finish"
    /\ Len(export.files) < Len(export.order)

(* A partition's document is completed and its sink flushed.  Of a         *)
(* compressed file the trailer is written when the encoder is dropped,     *)
(* where a failure goes unnoticed.                                         *)
FinishFile ==
    /\ Finishing
    /\ LET part == export.parts[NextKey]
           document == part.document \o Finish(part.writer, spec).out
           report == [key |-> NextKey, rows |-> part.rows,
                      path |-> IF spec.preview THEN None ELSE Some(part.path)]
       IN /\ export' = [export EXCEPT !.files = Append(@, report),
                                      !.parts[NextKey].document = document]
          /\ IF spec.preview THEN UNCHANGED disk
             ELSE \/ Written(part.path,
                             IF part.torn \/ SharesPath(export, NextKey) THEN "torn" ELSE "whole",
                             document)
                  \/ spec.compress /\ Written(part.path, "partial", <<>>)
    /\ UNCHANGED <<manifests, outcome, exports, found>>

(* The end of a document cannot be written: the export returns at once,    *)
(* and the files not finished yet stay as they are.                        *)
FinishFails ==
    /\ Finishing /\ ~spec.preview
    /\ export' = Idle /\ outcome' = Refused("write")
    /\ UNCHANGED <<disk, manifests, exports, found>>

Finished ==
    /\ export.phase = "finish"
    /\ Len(export.files) = Len(export.order)
    /\ export.order # <<>> \/ spec.preview \/ export.error

Done(e) ==
    [kind |-> "ok", job |-> e.job, rows |-> e.written, files |-> e.files,
     preview |-> IF e.job.spec.preview /\ e.order # <<>> THEN Some(e.parts[e.order[1]].document) ELSE None]

Return ==
    /\ Finished
    /\ export' = Idle
    /\ IF export.error THEN outcome' = Refused("stream") /\ UNCHANGED manifests
       ELSE /\ outcome' = Done(export)
            /\ IF spec.manifest /\ ~spec.preview
               THEN manifests' = Keeping(manifests, export.files[1].path[1], Done(export))
               ELSE UNCHANGED manifests
    /\ UNCHANGED <<disk, exports, found>>

ManifestFails ==
    /\ Finished /\ ~export.error /\ spec.manifest /\ ~spec.preview
    /\ export' = Idle /\ outcome' = Refused("manifest")
    /\ UNCHANGED <<disk, manifests, exports, found>>

(* The daemon is killed. *)
Crash ==
    /\ export # Idle
    /\ export' = Idle /\ outcome' = NoOutcome
    /\ UNCHANGED <<disk, manifests, exports, found>>

---------------------------------------------------------------------------
Proceed == Fetch \/ WriteRow \/ StopAtLimit \/ NoPartitionColumn \/ EmptyFile \/ FinishFile \/ Return
Fail == FetchFails \/ WriteFails \/ FinishFails \/ ManifestFails \/ Crash

Next == (\E job \in Jobs : Start(job)) \/ Proceed \/ Fail

(* The loops of run() go on by themselves; who asks for exports need not.  *)
Spec == Init /\ [][Next]_vars /\ WF_vars(Proceed)

---------------------------------------------------------------------------
(* What the job asks for, without batches, partitions or writers.          *)

Limited(job) ==
    LET s == job.spec
        n == Len(job.rows)
        asked == IF s.limit = None THEN n ELSE Min({n, s.limit[1]})
        shown == IF ~s.preview THEN asked
                 ELSE Min({asked, IF s.preview_rows = None THEN PreviewRows ELSE s.preview_rows[1]})
    IN [r \in 1..shown |-> Values(s, job.columns, job.rows[r])]

(* Of the first rows, those that show the key in a column. *)
Taken(rows, at, key) ==
    LET taken[n \in 0..Len(rows)] ==
          IF n = 0 THEN <<>>
          ELSE IF TextOr(rows[n][at], <<"n", "u", "l", "l">>) = key THEN Append(taken[n - 1], rows[n])
          ELSE taken[n - 1]
    IN taken

Part(job, key) ==
    LET s == job.spec
        rows == Limited(job)
        at == Position(Chosen(s, job.columns), s.partition_by[1])
        size == s.partition_rows[1]
    IN IF s.partition_by # None THEN Taken(rows, at, key)[Len(rows)]
       ELSE IF s.partition_rows = None \/ key = <<>> THEN rows
       ELSE IF size = 0 THEN SubSeq(rows, key[2], key[2])
       ELSE SubSeq(rows, key[2] * size + 1, Min({(key[2] + 1) * size, Len(rows)}))

Succeeded == outcome.kind = "ok"
Reported == Range(outcome.files)
Alone(f) == \A g \in Reported : g.path = f.path => g = f
Document(f) == IF f.path = None THEN outcome.preview[1] ELSE disk[f.path[1]].document

(* The locals of run() stay in their ranges: no partition without a file   *)
(* to its name, no file finished twice, no row counted that was not read.  *)
TypeOK ==
    /\ exports \in 0..MaxExports
    /\ \A p \in DOMAIN disk : disk[p].state \in {"partial", "whole", "torn"}
    /\ export # Idle =>
         /\ export.phase \in {"fetch", "rows", "finish"}
         /\ Range(export.order) = DOMAIN export.parts
         /\ Len(export.files) <= Len(export.order)
         /\ export.written + Len(export.batch) <= export.fetched
         /\ \A k \in DOMAIN export.parts : spec.preview \/ export.parts[k].path \in DOMAIN disk
    /\ outcome.kind \in {"none", "error", "ok"}

(* An export that reports success has handed every row it was asked for to *)
(* a writer and counted it, exactly once: each file's count is that of its *)
(* own rows, and the counts add up to the one that is reported, whatever   *)
(* the size of the batches and whichever file a row goes to.  What a file  *)
(* then holds is ReadsBack: a full sheet drops what it counts.             *)
EveryRowCounted ==
    Succeeded =>
        LET job == outcome.job
        IN /\ outcome.rows = Len(Limited(job))
           /\ \A f \in Reported : f.rows = Len(Part(job, f.key))
           /\ MapThenSumSet(LAMBDA f : f.rows, Reported) = outcome.rows
           /\ Cardinality({f.key : f \in Reported}) = Len(outcome.files)

(* What such an export left on disk reads back, with the rules of its      *)
(* format, as the rows it was asked for: quoting, escaping, batching of    *)
(* inserts, alignment and cell addresses lose nothing.  Excepted are two   *)
(* partitions whose values give one file name, a compressed file whose     *)
(* trailer was lost, and rows with something Unread: control characters    *)
(* and carriage returns in XML, HTML and XLSX, a NULL in XML, NaN in SQL   *)
(* and XLSX, numbers of many digits and columns of one name in JSON, the   *)
(* latter in SQL too, more rows than a sheet holds, no quotes, and a       *)
(* delimiter in a number that is not quoted.                               *)
ReadsBack ==
    Succeeded =>
        \A f \in Reported :
            LET s == outcome.job.spec
                rows == Part(outcome.job, f.key)
                columns == Chosen(s, outcome.job.columns)
                reads == Unread(rows, columns, s) \/ Reads(Document(f), rows, columns, s)
            IN IF f.path = None THEN f.key = outcome.files[1].key => reads
               ELSE \/ ~Alone(f)
                    \/ s.compress /\ disk[f.path[1]].state = "partial"
                    \/ disk[f.path[1]].state = "whole" /\ reads

(* NULL is bare even where everything is quoted, and an empty text is not: *)
(* under quoting "all" and "non_numeric" the two are told apart.           *)
NullToldFromEmpty ==
    Succeeded =>
        \A f \in Reported :
            (/\ outcome.job.spec.format \in {"csv", "tsv"}
             /\ f.path # None /\ Alone(f) /\ disk[f.path[1]].state = "whole")
            => NullIsBare(Document(f), Part(outcome.job, f.key),
                          Chosen(outcome.job.spec, outcome.job.columns), outcome.job.spec)

(* A file of rows that was there when the export started is touched only   *)
(* by an export that may overwrite and is no preview, also by the          *)
(* partitions it meets late and by a second attempt after a failure.  A    *)
(* manifest is written over regardless; manifests are no part of disk.     *)
ExistingKept ==
    [][\A p \in DOMAIN disk :
          \/ disk'[p] = disk[p]
          \/ ~spec.preview /\ (spec.overwrite \/ p \notin DOMAIN found)]_vars

(* Every export ends, whatever batches its rows come in. *)
ExportEnds == (export # Idle) ~> (export = Idle)

---------------------------------------------------------------------------
(* What the documentation says and the code does not do.                   *)

(* The rows, columns and settings of a file that was completed.            *)
Completed(f) == f.path # None /\ Alone(f) /\ disk[f.path[1]].state = "whole"
Asked(f) == Part(outcome.job, f.key)
Headings == Chosen(outcome.job.spec, outcome.job.columns)

(* "The row count in the manifest is the number actually written":         *)
(* docs/src/export/export.md.                                              *)
CountIsWritten ==
    Succeeded =>
        \A f \in Reported :
            outcome.job.spec.format = "xlsx" /\ f.path # None =>
                LET top == IF outcome.job.spec.header THEN 1 ELSE 0
                IN Cardinality({cell.row : cell \in Document(f)[1]}) = f.rows + top

(* "An empty quoted field means an empty string; nothing at all means      *)
(* NULL.  So a table survives the round trip": docs/src/export/formats.md. *)
NullIsNotEmpty ==
    Succeeded =>
        \A f \in Reported :
            LET read == ReadDelimited(Document(f), outcome.job.spec)
            IN outcome.job.spec.format \in {"csv", "tsv"} /\ Completed(f) =>
                 \A r, q \in DOMAIN Asked(f) : \A i, j \in DOMAIN Headings :
                     Asked(f)[r][i] = None /\ Asked(f)[q][j] = Some(<<>>) => read[r][i] # read[q][j]

(* "`xsi:nil` is how XML says absent, and it survives a round trip":       *)
(* export/writers.rs.                                                      *)
NilSurvives ==
    Succeeded =>
        \A f \in Reported :
            outcome.job.spec.format = "xml" /\ Completed(f) =>
                MarkupReads(Document(f), Asked(f), Headings, outcome.job.spec)

(* The preset for LOAD DATA: "backslash escapes and `\N`",                 *)
(* docs/src/export/formats.md.                                             *)
BackslashEscapes ==
    Succeeded =>
        \A f \in Reported :
            outcome.job.spec.format = "csv" /\ outcome.job.spec.escape = "backslash" /\ Completed(f) =>
                DelimitedReads(Document(f), Asked(f), Headings, outcome.job.spec)
=============================================================================
