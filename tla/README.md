# A TLA+ model of dbclient

dbclient is a database client for Neovim. A Lua plugin (`lua/dbclient`) draws
buffers and talks over a pipe to a daemon, `dbclient-core serve` (Rust,
`rust/dbclient-core`), which holds the connections to PostgreSQL, MySQL/MariaDB
and SQLite. This directory states what must be true of the parts where that is
hard to see from a test, checks it with TLC on small instances, and proves part
of it with TLAPS for every size. Paths below are relative to `src/`.

Contents: [inventory](#inventory), [modules](#modules), [runs](#runs),
[proofs](#proofs), [disagreements](#disagreements-with-the-documentation),
[other observations](#other-observations),
[what is not modelled](#what-is-not-modelled), [plan](#plan).

## Inventory

| Part | Where | State it keeps | Operations | What makes it hard / what must hold |
|---|---|---|---|---|
| Database session | `session.rs`, `adapters/*.rs` | the connection, `in_transaction`, access level | query, stream_query, explain, begin, commit, rollback, apply_changes, metadata reads | two opinions about whether a transaction is open; every statement can fail. A batch of row changes is all or nothing; what is reported as applied is saved; a sandbox saves nothing it applied. All of it as long as the flag tells the truth |
| Daemon | `server.rs` | registry of sessions and tunnels under one lock, one thread, channel and `busy` counter per session | dispatch, open, close, cancel, shutdown | reader, session and helper threads interleave; panics; SIGTERM. Requests of a session are served in order and none is lost at a close or an exit; one session never blocks another |
| Tunnels | `tunnel.rs` | ssh children | open, close | partial failure. A session's tunnel lives as long as the session, and no longer |
| Daemon client | `lua/.../core/client.lua` | handle, pending callbacks, unread output | ensure, request, consume, stop, on_exit | two daemons alive at once, output cut anywhere, exits seen late. Each callback is called exactly once |
| Session manager | `session.lua` | sessions by id, active one, `in_transaction` copy, metadata cache | connect, disconnect, begin/commit/rollback, invalidate | answers arriving after the state they were asked in is gone; stale copy of the transaction state |
| Data buffer, row diff | `ui/data.lua`, `ui/grid.lua`, `data/diff.lua` | loaded rows, snapshot, page/sort/filter, session id | load, edit, write (diff, confirm, apply), page, sort | text may be edited in any way, also while a request is under way, and others write to the table. The changes are those that turn the loaded rows into the lines; no other client's change is overwritten unseen |
| Undo log | `undolog.lua` | inverses of applied batches | record, undo | what was recorded may not be what is in the database. Undoing a batch restores its rows |
| Trail | `trail.lua` | places and a position in them | push, back, forward, restore | places visited within 300 ms of a restore are not recorded. It behaves like a browser's history |
| Watch | `watch.lua` | a timer per buffer | start, tick, stop | late ticks after a stop |
| Change capture | `cdc.lua` | a process and a replication slot per session | start, stop | a slot must not be left behind |
| Import, replace, broadcast | `import.lua`, `replace.lua`, `broadcast.lua` | a job | execute | several requests with a wait after each, while other commands run. What is reported is what is saved |
| Migration, schema files | `migration.lua`, `ddl/migrate.lua`, `schemafiles.lua` | a plan of statements | generate, run | the order of the statements |
| SQL splitting | `sqlparse.rs` | none | split, blank, classify, preview | two lexers written apart; a wrong boundary runs half a statement. They see the same text; a preview selects what the write changes |
| Export | `export/*.rs`, `export/*.lua` | sinks, one per partition; files, a manifest | run, preview | batches, partitions, existing files, failure in the middle. Every row counted once; what is written reads back; nothing touched unasked |
| Errors, connections, views, completion, rendering | the rest | none shared | | text and layout |

How they interact: a Lua part calls `client.call` inside a coroutine; the client
writes one JSON line; the daemon's reader thread answers it, hands it to the
session's thread, or starts a helper thread; whichever thread it was writes the
reply as one line; the client's event loop cuts the output into lines and resumes
the coroutine. The Lua side is single-threaded, so what can interleave there is
callbacks and the user's keys; the Rust side has real threads, whose shared state
is the registry and `busy`, the session channels and stdout. The only state that
survives a daemon is the database, and on the Lua side everything that kept a
session id.

`PROJECT.json` lists the hazards one by one at the line where they bite.

## Modules

### `DbSession`: one session and its server

*Sources:* `session.rs`, `adapters/postgres.rs`, `mariadb.rs`, `sqlite.rs`.

| In the model | In the code |
|---|---|
| `backend`, `access` | which adapter, `AccessLevel` of the session |
| `flag` | the adapter's `in_transaction` |
| `db = [txn, dirty, durable]` | the server behind the connection: no transaction, an open one, an aborted one (PostgreSQL) or a lost connection; the writes in the transaction; those that are saved |
| `op` | the apply_changes call the session thread is inside, if any |
| `last` | the last answer |
| `origin`, `batches`, `refused`, `promised` | history only: how each write came about, and what callers were told |

One action per operation: `Begin`, `Commit`, `Rollback`, `Query`, `StreamQuery`,
`ExplainPlan`, `ExplainAnalyze`, `Inspect` (every read-only operation), and for apply_changes one
action per SQL statement (`ApplyStart`, `ApplyChange`, `ApplyEnd`), so that
`Reopen`, the session or the daemon ending and being opened again, can fall
between any two. The `Run...` operators say what the three servers do with each
kind of statement, failures included: a failed statement aborts a PostgreSQL
transaction, a MySQL deadlock ends it, a MySQL schema change commits it, a failed
SQLite COMMIT leaves it open, and a connection lost under a COMMIT may have
committed or not. They are external: modelled from how the adapters use them.

A statement is a class (read, write, a write behind a row-returning keyword, ddl,
begin, commit, rollback), since this is all that the access check, the adapters
and the servers tell apart. execute-script is a sequence of `Query` steps. A plain
explain on PostgreSQL sends its text unsplit by the simple protocol: `ExplainPlan`
runs one further statement of it, which stands for several.

*Properties.* `ApplyAllOrNothing`, `AppliedIsSaved`, `SandboxDiscardsApplied`,
`ExplainDiscards`, `ReadOnlyKeepsOut`, `FlagTracksServer` hold; each says
something about a sequence of operations, not about one. The flag can drift from
the server (a transaction statement typed as a query, a COMMIT that fails, a MySQL
deadlock), and three of them say so in their conditions: `ApplyAllOrNothing` and
`SandboxDiscardsApplied` are about batches that did not begin under a stale flag
(`trust` of an `origin` records what the flag was worth), `ExplainDiscards` about
analyses made while the flag was clear. What happens otherwise is shown by
`BatchInOneTransaction`, `SandboxRollsBack` and `AnalysisRollsBack`, which do not
hold. `ReadOnlyKeepsOut` names the two ways a write gets through a read-only session
(behind a keyword that returns rows, and behind an explained statement), and
`ReadOnlyRefuses` and `GuardedAccessSavesNothing` refute that there are none.
`FlagTracksServer` says which operations bring flag and server together again.

Worth knowing, and in the model though no document promises otherwise: after a
typed BEGIN an export on PostgreSQL commits the user's transaction, and an
EXPLAIN ANALYZE rolls it back, because each opens "its own" by the flag.

`AtomicBatches` is what the callers of apply_changes rely on: to them a batch is one
step. A batch is reported as saved, or as waiting in the transaction the user has
open, and all that wait are saved or gone together, for good. `DbSession`
implements it (`ImplementsAtomicBatches`, refinement mapping `Fates`: what became
of each reported batch, read off the server), for each of its statements, failures
and crashes; TLC checks it and `DbSessionProofs` proves it.

### `Daemon`: threads, registry, tunnels

*Sources:* `server.rs`, `tunnel.rs`, and `M.stop` of `core/client.lua` for SIGTERM.

| In the model | In the code |
|---|---|
| `sent`, `eof`, `read` | the requests in the pipe, its end, how far the reader is |
| `reader` | what the reader thread is in: reading, between the two halves of cancel_session, joining in close_session, in shutdown_all, gone, killed |
| `sessions`, `tunnels` | `Registry` |
| `thread`, `queue`, `job`, `busy`, `cut` | each session's thread, channel, current request, counter, and whether its statement has been cancelled |
| `helper` | the detached thread of open-session and the tunnel operations |
| `ssh` | ssh processes alive |
| `out` | the replies, in order |

Each step holds the registry's lock for as long as the code does and no longer:
cancel_session looks at `busy` in one step and cancels in another; close_session
removes the entry in one and joins in another; open_session registers long after
it was dispatched. A session and an ssh process carry the number of the request
that asked for them. tunnel-open and tunnel-close are part of the protocol and
therefore of the model, although the plugin does not send them.

### `Client`: the editor's side of the pipe

*Sources:* `core/client.lua`, connect and disconnect of `session.lua`,
`:DBClientRestart` of `init.lua`, the session id of `ui/data.lua`; the daemon only
as far as its answers go.

| In the model | In the code |
|---|---|
| `procs`, `asked` | each daemon: up, dead, seen to be dead (`is_closing()`), its on_exit run; whether it was told to stop |
| `handle`, `pending`, `stdout` | `M.handle`, `M.pending`, `M.stdout` |
| `restart` | the 300 ms timer of `:DBClientRestart` |
| `out` | what each daemon wrote and the loop has not read: whole lines or parts |
| `sess`, `views` | `M.sessions`; the session ids data buffers keep |
| `served`, `opened`, `live` | the daemons' own sessions |
| `answers`, `torn`, `ran` | history only |

A step is one callback of the event loop, one action of the user or one of a
daemon. Chunks are modelled by what can differ: a chunk ends a line, or leaves its
beginning, and a daemon that ends may leave the beginning of a line behind.
`:DBClientRestart` closes the sessions in the order they were opened, which the
model does not record: any order of them. `AnsweredOnce`, `TornByTwo` (a reply is only ever lost to
parsing when two daemons have been started) and the
liveness property `EveryRequestSettles` hold. A callback that was told its request failed may still
have had it carried out: on_exit of an old daemon drops the handle and fails the
requests of a new one (`Exit` fails every pending request whichever daemon ended),
though the comment at `core/client.lua:40` speaks of the daemon that died.

### `SessionTasks`: what the editor does over one session

*Sources:* `session.lua`, `apply` of `replace.lua`, the batches of `import.lua`,
`async` and `call` of `core/client.lua`, `transaction` of `init.lua`. It composes
these with `DbSession`, which it extends: every request a command sends is served by
`DbSession`'s actions.

| In the model | In the code |
|---|---|
| `believed` | `session.in_transaction`, which the winbar shows |
| `tasks` | the coroutines of commands: what each waits for, the first request that failed, whether it took a transaction to be open (`already_open`) |
| `queue`, `answers` | the session's channel and the replies, both first in first out (`Daemon`, `Client`) |
| `done`, `alone` of a task | history: the writes of each of its requests; whether another command ran beside it |

`Start` runs a command up to its first request, `Serve` does one statement of the
request at the head of the channel, `Resume` gives the oldest reply to its command,
which may ask again, `Reconnect` ends daemon or session and opens a new one.
Nothing in the code keeps the user from starting a command while another waits,
so any two may overlap. `BulkAsReported` says what a replace and an import may be
trusted with when none does: a replace with a transaction of its own is saved
whole or not at all, and what is saved of an import is its first batches, each
whole. `OpenShown` holds with overlapping too: a transaction the adapter holds
open is shown. The converse does not hold (below).

On a sandbox session an import that reports success has saved nothing, as
`ImportInOrder` says; the run covers all three access levels.

### `Writers`, `Readers`, `Export`, `Import`, `Interchange`: files

*Sources:* `export/writers.rs`, `export/xlsx.rs`, `export/mod.rs`, `import.lua`.

`Writers` translates the writers of the ten formats: a writer is fed rows
and gives a document. A text is a sequence of characters where delimiters, quotes,
line ends and backslashes are characters of their own, since how the data mixes
with the format is the point; HTML and XML have a symbol per tag, SQL one per
statement, XLSX one for the sheet. `Readers` is the reference: for each format a
reader from the format's rules. Nothing of it is the program's.

`Export` is `run`: the stream in batches, projection, redaction, partition, one
sink per partition opened when it is first met, existing files refused or
replaced, the manifest, a preview that writes to memory, compression. `Fail` and
`Crash` may fall between any two rows, and a second export finds what the first
left. `Import` is the reader of `import.lua` with its own rules for quotes and
delimiters, `Interchange` composes the two: what an export wrote is imported.
`ExportJobs` names the exports of the runs.

`EveryRowCounted`, `ReadsBack`, `NullToldFromEmpty`, `ExistingKept`, `ExportEnds`
and `ImportedIsExported` hold. `EveryRowCounted` is about what writers are fed and
what is reported; what the files then hold is `ReadsBack`. Its readers are strict:
XML has no control characters and no undeclared prefix, JSON no NaN and one value
for a name, a sheet is read with all the rows the reports promise. Where a document
does not come back in one of these ways `ReadsBack` excepts it by name: two
partitions with one file name, a lost trailer of a compressed file, and `Unread` in
`Readers`, which lists the rest (control characters and carriage returns in XML,
HTML and XLSX, NULL in XML, NaN in SQL and XLSX, numbers of many digits and columns
of one name in JSON, the latter in SQL too, rows past the end of a sheet, files
without quotes, a delimiter in a number written bare). Those a document denies are
refuted by configurations of their own. `ExistingKept` is about files of rows: a manifest is
written over whatever is there.

### `SqlText`, `SqlGuards`: statements

*Source:* `sqlparse.rs`.

The two lexers, `split` and `strip_noise`, are state machines with one action for
each arm of their loops; they run one after the other over the same script. A
script is a sequence of bytes, a word the code compares as a whole being one
symbol. What is computed from their results (`StatementAt`, `LeadingKeyword`,
`FindKeyword`, `BlastRadius`, ...) are operators. `SqlGuards` builds writes from
their parts, so that what a guard should have said is known without reading the
text again.

`TypeOK` (no lexer reads past the end), `Ordered`, `MaskAligned`, `LexersAgree` (a
statement ends where the blanked text has its terminator), `KindIsFirstWord` and
`PreviewIsExact` hold. `LexersAgree` asks that `split` loses nothing but blanks, and
so that a comment at the end is kept, which the comment of `split` denies
(`CommentTailIsDropped`). `PreviewIsExact` says that a preview selects exactly the
rows the write will change, of every delete and of every update that is not
`Misread`: with something before its verb, with a quoted identifier before its
condition, or with a limit or an order and no where. Of these the preview is wrong,
and `PreviewOrNone`, which asks that it be declined, does not hold. The writes of
the run include all of them. Text outside ASCII is not among them.

### `RowChanges`, `RowDiff`, `DataBuffer`: editing a table as text

*Sources:* `ui/data.lua`, `ui/grid.lua`, `data/diff.lua`, `undolog.lua`, and
`render_change`, `build_select`, `apply_changes` of the adapters.

| In the model | In the code |
|---|---|
| `table`, `sandbox` | the database and the connection's access level |
| `want`, `rows`, `hidden` | `view.filter`, `sort`, `offset`; `view.rows` and the snapshot; `view.hidden` |
| `lines`, `modified` | the buffer's text with its extmarks; its flag |
| `asked`, `answered` | requests not served, replies not handled |
| `confirming`, `undo` | the change set in the confirmation; the last entry of the undo log |
| `unshown`, `before`, `after` | history only |

`RowChanges` says what a change does to a table (key and expected values in the
where clause, NULL where the column allows it, a change that matches no row) and
what its inverse is. `RowDiff` renders rows at the widths of the page and turns
edited lines back into changes: `reconcile` by key, then by mark; `compute`.
`DataBuffer` has an action for each way to change the text (a cell, a line removed,
typed, moved, pasted, the null operator, the value inspector), each command that
draws the page again, `:w` up to its question, the answer to it, the server's step
and the handling of each reply. Other clients write in between.

`WriteMakesItSo` is the specification of `:w`: applying the change set to the rows
gives the rows of the lines. `NoLostUpdate`: a cell is only overwritten if it held
what the buffer showed. `UndoRestores`: the inverses put the table back.
`FlagTellsUnsaved`: a buffer that is not `modified` has nothing to write. (That typed
text is lost when a reply draws the page again is in the model, and no property
forbids it.)

Three simplifications. `load` waits for four replies one after the other
(`ui/data.lua:281-314`); here they come back as one, so nothing is done between
the rows and the key of a page. `reconcile` compares the rendered texts of keys and
gives up rows whose texts are the same; here a key fits its column
(`WidthAssumption`), so that its text is the key. And a primary key has one column.

`UndoRestores` speaks of batches that delete nothing (a deleted row is not in the
log), give every new row its key, and use no key that was in the table and no empty
one. The last condition came out of the proof. `reconcile` takes an empty key for no
key and tells such a line by its mark alone. Where keys are texts, a line can so be
given the key `""` of a row of the page that another client has just deleted, while a
line further down still is that row: the update meant for it finds the first line's row
instead, the batch is taken, and one row has been changed twice under two keys.

### Model-checking modules

`MCDbSession` and `MCSessionTasks` add the symmetry of writes. `MCDaemon` names
the sessions other than the slow one. `MCClient` names the connections; it uses no
symmetry, which is not sound for its liveness property. `MCExport` and
`MCExportFlow` take their jobs from `ExportJobs`; `MCSqlText` builds its scripts;
`MCDataBuffer` names a table of three rows.

## Runs

| Run | Question | Bounds | Answer |
|---|---|---|---|
| `db_session` | atomicity, durability, access, agreement of flag and server; does a session implement `AtomicBatches`? | 3 adapters, 3 access levels, 3 writes, batches of up to 2 | yes (660 thousand states) |
| `db_session_stale` | is a row change ever run outside a transaction? | same | yes, it is |
| `session_tasks` | do bulk commands leave what they report; is an open transaction shown? | 3 commands of 7 kinds, 3 writes, 3 access levels, batches of up to 2, imports and replaces of 2 requests | yes (4.7 million) |
| `daemon` | order, no loss, tunnels, under panics, hang-ups, shutdown, SIGTERM | 4 requests of 7 kinds | holds (2.04 million) |
| `daemon_isolation` | is everyone else served while one session hangs, if that session is never closed? | 5 requests of 4 kinds, fairness | yes |
| `daemon_close_blocks` | and if it is closed? | 4 requests of 3 kinds, fairness | no |
| `client` | is every callback called once; what is lost of the output? | 2 connections, 2 requests, 2 daemons, fairness | yes; nothing before a second daemon (259 thousand) |
| `export` | every row counted once; does each format read back; does an import give the rows again? | tables of up to 3 rows, the formats and options of `ExportJobs`, 2 exports in a row, batches of 1 and 2, a sheet of 2 rows | yes (33 thousand) |
| `export_flow` | existing files, and does every export end? | the jobs that differ in flow, 2 exports, fairness | yes (2.6 thousand) |
| `text` | do the lexers stay inside, in order and in step; are kind and preview right? | scripts of up to 6 lexemes over 9 alphabets; 640 writes built from parts | yes (585 thousand) |
| `editing` | does `:w` do what the buffer shows; is anything lost or overwritten unseen; does undo restore? | 3 rows in pages of 2, 4 keys, 2 edits or commands, 1 change by others, 1 request under way | yes (1.2 million) |
| `editing_shortened` | is a stored text ever replaced by its cut form? | same | yes, it is |

*Why the bounds are enough to be interesting.* In `db_session` three writes allow
a batch of two beside one write of the user's before, inside or after it, and
there is no bound on the number of operations. In `session_tasks` three commands
let a replace or an import fail half way, and the user commit, or begin the next
one, during or after it. Four requests let `daemon` open a session, give it work,
close it and race a second session or a shutdown with it. Two requests let
`client` have an answer outstanding from each of two daemons, in either order,
with either of them dying; the number of restarts is not bounded, only that of
daemons. `export` has a batch that ends exactly at the end of the rows, a file met
late by a second partition and a sheet that is too short. The alphabets of `text`
hold, for each mode of the lexers, what opens it, closes it, escapes and hides a
terminator in it, and six lexemes let two modes follow one another. `editing` has a
row off the page, a text wider than its column, a NULL, a new line without a key and
one with a key that exists; two edits suffice to swap, duplicate or retype keys,
and the write and its replies cost no step.

*Fairness.* `Daemon`: the reader, each helper thread and each session thread is
scheduled by the operating system; connecting and tunnelling end (they have
timeouts); a statement ends unless its session is in `Slow`, and then it ends if
it is cancelled. The client sends what it likes or nothing. `Client`: the event
loop runs callbacks that are ready; a daemon works on what it was sent; a daemon
told to stop ends (by itself or by SIGTERM). `Export`: the loop of `run` goes on
and a batch is delivered or fails. No fairness for the user, for a crash
or for the timer. The other modules have only safety properties.

*Deadlock* is checked in `db_session`. The others may stop: the daemon exits, and
bounded requests, commands, edits and scripts run out.

Every property of a passing run has a mutant of the code in its module, marked
`mutant`, that violates it: a guard dropped, a reset missing, a wait left out.

Three runs check what a document says and end in a counterexample
(`db_session_stale`, `daemon_close_blocks`, `editing_shortened`). Fourteen more
configurations do so too, each for one documented statement; run them as
`tlc -config <file> <module>`. Each ends in a counterexample, at the latest after a minute.
The numbers are those of the [disagreements](#disagreements-with-the-documentation).

| Configuration | Module | Property | What it refutes | |
|---|---|---|---|---|
| `MCDbSessionSandbox.cfg` | `MCDbSession` | `SandboxRollsBack` | row changes of a sandbox are never saved | 2 |
| `MCDbSessionAnalysis.cfg` | `MCDbSession` | `AnalysisRollsBack` | an analysed statement is saved only in a transaction of the user's | 3 |
| `MCDbSessionRead.cfg` | `MCDbSession` | `ReadOnlyRefuses` | a read-only session writes only behind a keyword that returns rows | 4 |
| `MCDbSessionAccess.cfg` | `MCDbSession` | `GuardedAccessSavesNothing` | a read or sandbox session saves nothing | 4 |
| `MCDaemonStraySsh.cfg` | `MCDaemon` | `NoStraySsh` | every ssh process is somebody's | 6 |
| `MCClientBuffers.cfg` | `MCClient` | `BufferKeepsConnection` | data buffers stay with their connection | 7 |
| `MCExportCount.cfg` | `MCExportFlow` | `CountIsWritten` | the reported count is what the file holds | 8 |
| `MCExportNull.cfg` | `MCExportFlow` | `NullIsNotEmpty` | NULL and the empty text differ by default | 9 |
| `MCExportNil.cfg` | `MCExportFlow` | `NilSurvives` | a NULL in XML reads back | 10 |
| `MCExportLoadData.cfg` | `MCExportFlow` | `BackslashEscapes` | the `mysql_load` preset escapes | 11 |
| `MCSqlTail.cfg` | `MCSqlText` | `CommentTailIsDropped` | a comment at the end is no statement | 12 |
| `MCSqlPreview.cfg` | `MCSqlText` | `PreviewOrNone` | every preview is exact | 13 |
| `MCSqlGuards.cfg` | `MCSqlText` | `UnfilteredIsSeen` | a write without a where clause is seen | 14 |
| `MCSqlCursor.cfg` | `MCSqlText` | `CursorRunsANeighbour` | a cursor outside every statement runs one next to it | 15 |

## Proofs

For any values of the constants that meet the modules' assumptions:

| Theorem | Module | Property |
|---|---|---|
| `Safety` | `DbSessionProofs` | `IInv`, the inductive invariant |
| `TypeCorrect` | | `TypeOK` |
| `ApplyIsAtomic` | | `ApplyAllOrNothing` |
| `AppliedStaysSaved` | | `AppliedIsSaved` |
| `SandboxDiscards` | | `SandboxDiscardsApplied` |
| `ExplainSavesNothing` | | `ExplainDiscards` |
| `ReadOnlyIsReadOnly` | | `ReadOnlyKeepsOut` |
| `FlagIsRight` | | `FlagTracksServer` |
| `Refines` | | `ImplementsAtomicBatches` |
| `LexersStayInside` | `SqlTextProofs` | `TypeOK` |
| `StatementsAreOrdered` | | `Ordered` |
| `MaskKeepsOffsets` | | `MaskAligned` |
| `LexersAdvance` | | each step of a lexer goes forward in the script or ends it |
| `LexersSeeTheSame` | | `LexersAgree` |
| `KindIsTheFirstWord` | | `KindIsFirstWord` |
| `TasksSafety` | `SessionTasksProofs` | `TInv`, the inductive invariant, with the types |
| `OpenIsShown` | | `OpenShown` |
| `DaemonSafety` | `DaemonProofs` | `IInv` of the daemon, the inductive invariant |
| `DaemonTypes` | | `TypeOK` |
| `TunnelsOutlive` | | `TunnelOutlivesSession` |
| `RegistryAgrees` | | `RegistryPaired` |
| `RepliesInOrder` | | `ServedInOrder` |
| `CloseServesAll` | | `CloseDrains` |
| `ExitServesAll` | | `ExitDrains` |
| `ClientSafety` | `ClientProofs` | `IInv` of the client, the inductive invariant |
| `ClientTypes` | | `TypeOK` |
| `CallbacksOnce` | | `AnsweredOnce` |
| `TornOnlyByTwo` | | `TornByTwo` |
| `SessionUnderTasks` | `BulkProofs` | `TasksSpec => Spec`: a session under commands is a session |
| `BulkSafety` | | `BInv`, the inductive invariant |
| `BulkIsAsReported` | | `BulkAsReported` |
| `BufferInvariant` | `DataBufferProofs` | `Inv`, the inductive invariant |
| `BufferTypes` | | `TypeOK` |
| `FlagIsTrue` | | `FlagTellsUnsaved` |
| `BatchKeepsOthersEdits` | | `NoLostUpdate` |
| `UndoPutsBack` | | `UndoRestores` |
| `WritePutsLines` | | `WriteMakesItSo` |
| `ExportTypeOK` | `ExportProofs` | `TypeOK` |
| `EveryRowIsCounted` | | `EveryRowCounted`, of `Export` |
| `InterchangeRowCounted` | | `EveryRowCounted`, of `Interchange` |
| `ExistingFilesKept` | | `ExistingKept` |

*The session.* Assumed: `SessionAssumption` (the three adapters and access levels,
batches of at least one). None of the properties is inductive alone. That a batch
is saved whole needs to know that while it runs all its writes are in a transaction
that is still there (`BatchCovered`), that no write is in two places
(`WritesAccounted`), that a finished batch is undivided in the open transaction as
well as on disk (`BatchesWhole`), and that what must not last is at most in the
transaction of the batch under way (`OriginsContained`); these, with the
properties themselves, are `IInv`.

The argument has two layers. `Moves(d, e, W)` says all that a sequence of
statements can do to a server: what is open is kept, saved or dropped as a whole,
and nothing durable is lost, up to the new writes `W`. One lemma per kind of
statement shows it of that statement, on every adapter and in every failure, and
`MovesTwice` that it composes. Then each action is one of a few shapes (`Quiet`:
nothing is under way before it; `Dropped`: a batch is abandoned), each of which
keeps the invariant, and one lemma per action shows its shape. Only
`FlagTracksServer` needs the actions' details a second time.

*The refinement.* A step that moves the server as a whole is a step of the fates
of the reported batches, or none. It takes one more invariant, `Apart`: batches
have no write in common, and a transaction that a batch opened holds nothing else,
so that a batch with a transaction of its own finds no other waiting; and
`WaitsUnderFlag`: with the flag clear no reported batch waits at all, so that what an
operation wrapped by the flag commits or drops takes none with it.

*The lexers.* Assumed: scripts are sequences of symbols. The invariant follows each
lexer's position, its mode and what it has given so far; one lemma per arm of the
loop says how far the arm goes, and the first four theorems read off the invariant.

That the two see the same text needs a common history of loops that do not run at the
same time. `After` is what both do from a position and a mode. A *trace* is a function from
positions to modes that follows it, and says of a position that it is inside a token if no
step of the loop begins there. `SameText`, inductive given the above: there is a
trace as far as the running lexer has come, and it is where the trace says. While `split` runs,
statements cover everything but blanks and the semicolons that stand in mode normal
(`CutsEnd`), and each begins in mode normal and ends at a blank, a semicolon or the end
(`Delimited`). `strip_noise` is then shown to walk the same trace again (a `--`, which `split`
goes over at once, is two steps of it), copying what stands in mode normal
and opens nothing, and blanking the rest. `LexersAgree` compares the two descriptions at each
position. It is stated, in the property and here, of scripts without quoted identifiers,
directives and bytes outside ASCII (`Plain`): on others they do differ.

`leading_keyword` is a third loop, modelled as a recursive function of position and depth of
comment (`CodeFrom`). That the function exists follows from its looking only ahead
(`CodeExists`, by induction from the end of the text). `SkipsAll`, by induction from the end
of the statement: started where the trace is in mode normal, or in a comment of that depth, it
goes over nothing but what `strip_noise` blanks, and stops at the end of the statement or at a
symbol met in mode normal that is neither blank nor a comment's. Such a symbol is a word, or it
stands, or it opens a literal: the three cases of `KindIsFirstWord`.

*The editor's flag.* No assumption. While a reply is on its way the editor's flag and
the adapter's differ, so `OpenShown` is not inductive. `TInv` says that the replies
on their way, heard in their order, leave the editor's flag up if the adapter's is
(`WillShow`); it rests on replies being first in, first out, and on a request
moving the adapter's flag up or down only as its reply tells (`RunTells`).

*The daemon.* Assumed: `DaemonAssumption` (at least one request; operations the
protocol has). The invariant has three layers, each inductive given those below it.
`Structure`: types; a request names a session the client was told of; a helper's
request is unanswered until the helper is over; what waits in a channel was read
and asked of that session; the reader is busy with the last request it read.
`Registers`: a thread that is alive is in the registry or among the sessions the
reader is about to wait for (`Accounted`); the tunnels that are to be taken down are
nobody's any more (`OwnedApart`); a session out of the registry has no process left
(`TunnelsDown`). `Queues`: what waits is younger than what is served, and that than
what is answered (`QueueInOrder`); Shutdown is the last message of a channel and is
sent once (`ShutdownOnce`); what was read is served, being served or waiting
(`NothingLost`); and a session that registers during the stop was asked nothing
(`LateUnasked`), which is why a stop that misses it loses nothing. Frame lemmas say which
steps touch a thread, a channel, the registry or a process (`SessionFrame`,
`RegistryFrame`, `ReaderMoves`, `SshFrame`), and each conjunct is shown from those.
TLC checks this invariant too, on an instance with panics and tunnels (2,037,500
states).

*The client.* Assumed: `ClientAssumption`. A type invariant of this module already
needs more than types: a session's id stays in range because a daemon gives out at
most one for each request it served (`Counted`), and a request of an open session
names one (`Addressed`). `AnsweredOnce` follows from `Settled`: a request has been
answered once exactly if it is not pending any more, and rests on every line under way
being a reply of a request that was served (`Known`). `TornByTwo` needs what
the unread output looks like while only one daemon was ever started (`Alone`): whole
lines, except a first one whose beginning is what the client has kept, and a last one
that the daemon's death cut short. One lemma per action; `Consume`, which joins what was
kept with the next chunk, is the long one.

*What bulk commands report.* Assumed: `SessionAssumption`. A step of `TasksSpec` is a
step of `DbSession` or none (`SessionStep`), so everything proved of a session holds
under commands. Neither `ReplaceWhole` nor `ImportInOrder` is inductive: half way
through a replace its writes are on no side yet. `BInv` adds to the invariants of the
session and of the editor's flag who is under way (`Waiting`: one request or one
reply for each command that is not over) and, for a command no other ran beside,
where its writes are at each of its requests, asked or answered (`ReplaceAsked`,
`ReplaceTold`, `ImportAsked`, `ImportTold`): in the transaction it began, saved batch by
batch, in the transaction the user had open, or dropped by a sandbox; and what remains
when it is over (`ReplaceOver`, `ImportOver`), which survives every later step because a
server treats the writes of a transaction alike (`FatesStay`, `OrderStays`, from
`Moves`). TLC was run on this invariant
too, on the instance of `session_tasks`, and met no violation.

*The data buffer.* Assumed: `ValuesAssumption` (NULL is no value, the default of a column
is one), `BufferAssumption` (what the table may hold at first, what a user types and
what others write are made of the columns and their values), and `WidthAssumption`: a key
fits its column, which is `max_cell_width` wide, 48 by default. Of two keys cut off to
the same text a line could be either, and a page just drawn could show an edit that
nobody made. Other cells may be of any width.

`Inv` says of the state: the table's keys are unique and it is finite, also after any
batch that is taken or refused (`RunKeepsTable`, `RanKeepsTable`); no two rows of the
page have one key; the lines are good text (`GoodText`: their marks are rows of the
page or none, no two alike, their columns those on screen); every batch in the
confirmation, asked or applied was made from the page that goes with it (`MadeFrom`);
what the undo log holds did run (`Applied`). `MadeFrom` is what the properties live on:
a change names a row by the key it had on the page, an update says what it saw there
(`SeenOn`), no two changes name one row, and a row is updated before its key is given
to another. It is read off `diff.lua` once: a line is one row at most and a row one
line (`RowOfIs`, `RowOfOnce`), a key that a line shows is claimed by that line or one
above it (`KeyClaims`), and each change is that of one line or one lost row, in their
order (`ChangesPick`, `EntryOf`).

Then `FlagIsTrue` is that a page just drawn has no edit in it (`DrawnHasNothing`);
`BatchKeepsOthersEdits` that a row which no change up to the n-th names is still as it
was when the n-th runs (`BatchUntouched`, `UpdatesWhatWasSeen`). `UndoPutsBack` follows
the table through the batch: after n changes it is the table before with the rows `Was`
of the first n taken out and what they `Became` put in (`BatchMixed`); the inverses, run
first to last, each find their row whatever the others did, because no two rows had or
have a key in common (`KeyApart`, `BackStep`). `WritePutsLines` follows it line by line: `Midway` of the
entries carried out so far is the rows off the page, the rows of the page whose
turn is still to come, and the row that each line done becomes (`Final`); every change
is taken there, because the key a line gives is nobody else's (`FreshKey`,
`EntryLands`), and at the end each line's row holds what the line shows (`FinalHolds`).

These are inductions over batches, lines and rows. The library's induction theorems take
an operator as a parameter and cannot be cited; but what a recursive function has at n
is a set of numbers, and a set of numbers that is not empty has a least element, by
`NatLessThanWellFounded` and `WFMin` of the library. `LeastOf` and `Induction` state this
for sets and carry all of them.

*Exports.* Assumed: `ExportAssumption` (batches of one row or more; a job's rows are a
sequence; a limit is a number or none). Nothing is assumed of the columns, the values, the
writers or the names of files: two partitions may share a path.

`Inv` follows the locals of `run` (`Runs`). `Reading`: what is fetched and not written is
the rest of the batch, and it is the next rows of the result; the stream ends without an
error only when all rows asked for are written, because the limit and the preview's limit
are looked at before each row (`LimitMet`, `LimitNotMet`) and because a batch that is
short, or not handed over, was the last (`BatchIs`). `Ordered`: the order names every
partition once. `Filed` and `Summed`: what has been reported is the reports of the first
partitions, and the rows of all partitions add up to those written. `Dealt` says, for each
of the four ways to partition, which rows are where half way through: by value, what
`Taken` has of the rows so far; by size, full files, then one of `here` rows; by size zero,
which the code does not refuse, one row a file; one file otherwise. `DealtSettles` turns it
into the rows a partition should have once the stream has ended. `Placed`: a partition's
file is on the disk, and was not when the export started unless it may overwrite. One lemma
per action; `EveryRowCounted` is read off when `Return` reports (`AllFilesRight`),
`ExistingKept` off `Placed`.

The sum over the reports is a fold in an order nobody names; that it does not depend on the
order (`RowsOfAny`) is shown from the existence of the fold's table for every finite set
(`SumsExist`). The inductions are over numbers, as above. TLC was run on `Inv` too, for
exports whose columns exist; of the others it cannot compute the rows asked for.

Only model-checked: what is in the files (`ReadsBack`, `NullToldFromEmpty`,
`ImportedIsExported`), an induction over texts through a writer and a reader for each of ten
formats; all liveness, which the prover does not reach; and `PreviewIsExact`, which is about
writes built from given parts and holds of those a run's constants describe, not of every
choice of them.

## Disagreements with the documentation

By a run or a configuration, which checks the quoted statement and finds it violated:

1. Row changes "go in a single transaction: all of them or none"
   (`docs/src/editing/write.md:34`). Not when `in_transaction` has drifted from the
   server. `db_session_stale`.
2. A sandbox "runs the write inside a transaction and rolls it back whatever happens"
   (`docs/src/config/access.md:33`). Row changes sent under a stale flag are wrapped in
   no transaction and are saved. `MCDbSessionSandbox.cfg`.
3. An analysed statement is kept "inside a transaction that we roll back unless the
   caller is already in one" (`adapters/postgres.rs:708-709`). Whether the caller is in
   one is asked of the flag. `MCDbSessionAnalysis.cfg`.
4. `access = read` refuses "anything that is not a `SELECT`" before it is sent
   (`docs/src/config/access.md:8`). A plain explain on PostgreSQL asks nobody and sends
   all of a selection: `MCDbSessionRead.cfg`. And WITH passes for a SELECT:
   `MCDbSessionAccess.cfg`. (On a sandbox every typed write is saved; only row changes are
   wrapped.)
5. "a slow query on one connection never blocks the others" (`server.rs:3-6`). Closing
   the slow session joins its thread on the reader thread. `daemon_close_blocks`;
   `daemon_isolation` shows, within its bounds, that nothing else does.
6. A tunnel is "opened on connect and closed with the session"
   (`docs/src/config/connections.md:36`). When the connection fails after the tunnel
   opened, ssh stays. `MCDaemonStraySsh.cfg`. (After a SIGTERM they all stay.)
7. Data buffers "each remember which connection they belong to"
   (`doc/dbclient.txt:129-131`). They remember a session id, and the next daemon gives
   the same ids out again. `MCClientBuffers.cfg`.
8. The manifest's row count is "the number actually written"
   (`docs/src/export/export.md:46-47`). Rows past the end of a sheet are dropped and
   counted. `MCExportCount.cfg`.
9. NULL and the empty text are told apart, "so a table survives the round trip"
   (`docs/src/export/formats.md:44-49`). Not under minimal quoting, the default.
   `MCExportNull.cfg`.
10. `xsi:nil` "survives a round trip where an empty element would not"
    (`export/writers.rs:531-532`). Its prefix is not declared. `MCExportNil.cfg`.
11. The `mysql_load` preset has "backslash escapes" (`docs/src/export/formats.md:25`). It
    sets `quoting = none`, under which nothing is escaped. `MCExportLoadData.cfg`.
12. `split` drops "a comment-only tail" (`sqlparse.rs:44`). It keeps it, as a statement.
    `MCSqlTail.cfg`.
13. Of a preview "anything not confidently understood returns `None`"
    (`sqlparse.rs:686-689`). The updates listed above under `SqlGuards` are previewed
    wrongly. `MCSqlPreview.cfg`.
14. `is_unfiltered_write` is "True when a write statement lacks a `where` clause"
    (`sqlparse.rs:312`). The where of a subquery counts. `MCSqlGuards.cfg`.
15. `statement_at` gives "the statement containing byte `offset`, if any"
    (`sqlparse.rs:197`). Where none does it gives the last one. `MCSqlCursor.cfg`.
16. A visibly truncated cell is never written back (`data/diff.lua:11-13`). The value
    inspector and the null operator render the whole line again at the page's widths,
    and what is cut off there is. `editing_shortened`.

Seen in the models, with no run of their own:

17. A replace is applied "in one transaction" (`docs/src/schema/replace.md`). A
    commit that the user starts between two of its updates splits it, a second
    replace started meanwhile joins the first one's transaction and is rolled back
    with it, and one that trusts a stale `in_transaction` runs in autocommit.
    `BulkAsReported` excludes these by asking that a replace is alone on its session
    and the flag right when it starts; dropping `alone` from it shows them.
18. "While a transaction is open the winbar says so"
    (`docs/src/sql/transactions.md`). Not one begun by a typed BEGIN; and after a
    batch that failed inside the user's transaction, which rolls the whole of it
    back, the winbar goes on saying so.
19. An import is "Batched inside one transaction. A failure rolls the whole import
    back" (`docs/src/export/import.md`). Each 500 rows are a transaction, and the
    batches before the one that failed stay (`ImportInOrder`).

## Other observations

What the models do because the code does, and no document decides:

- *Session.* After a typed BEGIN an export on PostgreSQL commits the user's
  transaction, and an EXPLAIN ANALYZE rolls it back.
- *Client.* A request reported as failed may have been carried out: on_exit of an
  old daemon fails the requests of a new one. Two attempts to connect to one name
  give two sessions.
- *Editing.* A delete compares only the key. A load, a sort or a hidden column draws
  over unsaved edits. A refused sort, filter or page leaves the view describing rows
  that are not shown. The inspector reads its row by line number, so that after
  lines were added or removed it shows a neighbour's value. A batch in error writes
  what is not in error and its reload drops the rest. The undo log keeps inverses
  of sandbox batches and of batches rolled back later, runs them first to last
  (`UndoRestores` therefore speaks of batches whose keys are new to the table), and
  undoes an insert whose key was generated by all its other values.
- *Daemon.* A cancellation is decided on `busy` and sent a step later: it may hit the
  next statement, or none. A thread that panicked leaves its entry behind, and what is
  asked of that session afterwards is never answered.
- *Text.* Double quotes and backticks are not blanked. A character outside ASCII widens the blanked
  text, so offsets after it are off. `DELIMITER $$` is read as a dollar quote.
- *Export.* Partition values that give one file name share a file (refused, or with
  overwrite lost). A failed export leaves its files. JSON numbers go through a double and
  lose digits; with `non_numeric` quoting a number that contains the delimiter falls
  apart. A manifest is written over without asking. A `batch_size` of 0 never ends on PostgreSQL
  (`ExportAssumption` excludes it).

## What is not modelled

- Error messages and their classification (`dberror.rs`, `errors.lua`,
  `diagnose.lua`), help, colours, completion lists, diagrams, charts: text.
- I/O and forms: reading connection files, passwords, key maps, windows.
- Value types and their conversion in the adapters, and the catalogue queries.
- Containers: zip, gzip and checksums of exports.
- Inside a module: requests the daemon answers without a session; the choice of a
  tunnel's port and how it waits for ssh; the client's log and listeners; following
  foreign keys, the row count and validation in the data buffer; quoting of
  identifiers and literals in generated SQL.
- `trail.lua`: a restore opens the place and raises a flag under which nothing is
  pushed, all in one callback, so a restored place is never pushed again. The flag is
  dropped by a timer 300 ms later: places the user visits before that are not recorded,
  and the cursor is then set in whatever window is current. Durations are not modelled.
- `broadcast.lua` sends one query to each session, and reports when all have
  answered or after 120 s; late answers are dropped.
- The metadata cache of `session.lua`: a reply that arrives after an invalidation
  fills the old table and the caller gets nothing.
- `watch.lua`, `cdc.lua`: planned.

## Plan

Done: `DbSession` with its proofs and refinement, `SessionTasks`, `Daemon` and `Client`
with the proofs of their invariants, `Writers`, `Import` and `Interchange`, `SqlText` and the
editing modules with the proofs of all their properties, and `Export` with the proofs of all
that is not about the text of a document.

1. `Export`: of the delimited formats, that what is written reads back.
2. `Cdc` and `Watch`: no slot without a reader once everything has been stopped (it
   is dropped while its reader may still hold it); no tick rendered into another
   watcher's buffer.
3. `Trail`, implementing an abstract history.
4. `MetaCache`; the order of migration steps.
