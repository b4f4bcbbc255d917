------------------------------ MODULE DbSession ------------------------------
(***************************************************************************)
(* One database session of dbclient-core: the DbSession trait as the three *)
(* adapters implement it, and the server at the other end of the           *)
(* connection.                                                             *)
(*                                                                         *)
(* The adapter keeps a Boolean, in_transaction, beside the server's own    *)
(* idea of whether a transaction is open, and decides from the Boolean     *)
(* alone whether a batch of row changes opens a transaction of its own or  *)
(* joins one.  The module follows both, and which writes are durable.      *)
(*                                                                         *)
(* A write is an opaque token.  What a statement says is abstracted to the *)
(* classes the code or the server tells apart: read, write, with (a write  *)
(* behind a leading keyword that returns rows), ddl and the three          *)
(* transaction statements a user may type.                                 *)
(***************************************************************************)
EXTENDS Naturals, FiniteSets

CONSTANTS
  Writes,      \* the writes that may ever be issued (bounds a behaviour)
  Backends,    \* a subset of {"postgres", "mysql", "sqlite"}
  Accesses,    \* a subset of {"write", "read", "sandbox"}
  MaxBatch     \* bound: row changes in one apply-changes request

ASSUME SessionAssumption ==
  /\ Backends \subseteq {"postgres", "mysql", "sqlite"}
  /\ Accesses \subseteq {"write", "read", "sandbox"}
  /\ MaxBatch \in Nat \ {0}

VARIABLES
  backend,     \* which adapter; fixed when the session opens
  access,      \* the session's access level; fixed when the session opens
  flag,        \* the adapter's in_transaction
  db,          \* the server: [txn, dirty, durable]
  op,          \* what the session thread is in the middle of
  last,        \* the last answer: what was asked, and how it ended
  origin,      \* history: how each write came about
  batches,     \* history: batches apply-changes reported as applied
  refused,     \* history: writes of batches apply-changes reported as failed
  promised     \* history: writes apply-changes reported as applied and saved

vars == <<backend, access, flag, db, op, last, origin, batches, refused, promised>>
history == <<origin, batches, refused, promised>>
fixed == <<backend, access>>

TxnStates == {"idle", "open", "aborted", "lost"}
Servers == [txn : TxnStates, dirty : SUBSET Writes, durable : SUBSET Writes]

\* How a write came about: by which operation; whether behind a keyword that
\* returns rows, which is noted of a read-only session; and, of row changes and
\* analyses, what the flag was worth when the operation began.
Origins == [by : {"none", "query", "apply", "analysis", "plan"},
            rows : BOOLEAN,
            trust : {"any", "clear", "held", "stale"}]
From(by, class, trust) ==
  [by |-> by, rows |-> access = "read" /\ class = "with", trust |-> trust]
NotIssued == [by |-> "none", rows |-> FALSE, trust |-> "any"]

NoOp == [kind |-> "none", own |-> FALSE, todo |-> 0, done |-> {}, sync |-> FALSE]
Batch(own, todo, done, sync) ==
  [kind |-> "apply", own |-> own, todo |-> todo, done |-> done, sync |-> sync]
Applies == [kind : {"apply"}, own : BOOLEAN, todo : 0 .. MaxBatch,
            done : SUBSET Writes, sync : BOOLEAN]

\* How the last operation ended: "refused" before it reached the server, and
\* for a batch "unsettled" when the statement that opens or ends its
\* transaction failed.  "join" is a batch that joined an open transaction.
Endings == {"ok", "failed", "refused", "unsettled"}
OpNames == {"open", "begin", "commit", "rollback", "query", "stream",
            "inspect", "explain", "apply", "join"}

Fresh(w) == origin[w].by = "none"
InTxn(d) == d.txn \in {"open", "aborted"}

\* The adapter's flag and the server say the same thing.
Agreed == flag = InTxn(db)

\* What an operation that starts now may think of the flag: it says that no
\* transaction is open; that one is, and one is; or that one is, and the server
\* has none.
Trust == IF ~flag THEN "clear" ELSE IF InTxn(db) THEN "held" ELSE "stale"

-----------------------------------------------------------------------------
(* The server.  Each operator gives the results a statement can have in     *)
(* state d: whether it succeeds and the state it leaves.                    *)

Ok(d)  == [ok |-> TRUE, db |-> d]
Err(d) == [ok |-> FALSE, db |-> d]
Server(txn, dirty, durable) == [txn |-> txn, dirty |-> dirty, durable |-> durable]
Ended(durable) == Server("idle", {}, durable)
Lost(durable)  == Server("lost", {}, durable)

\* The connection may drop under any statement; a file has none to drop.
Drops(d) == IF backend = "sqlite" THEN {} ELSE {Err(Lost(d.durable))}

\* An ordinary statement fails.  PostgreSQL aborts the open transaction; the
\* others undo the statement, or the whole transaction (a MySQL deadlock
\* victim; SQLite on a full disk, an I/O error or an interrupt).
Failures(d) ==
  Drops(d) \cup
  IF d.txn # "open" THEN {Err(d)}
  ELSE IF backend = "postgres" THEN {Err(Server("aborted", d.dirty, d.durable))}
  ELSE {Err(d), Err(Ended(d.durable))}

RunRead(d) ==
  Failures(d) \cup (IF d.txn \in {"idle", "open"} THEN {Ok(d)} ELSE {})

RunWrite(d, w) ==
  Failures(d) \cup
  CASE d.txn = "idle" -> {Ok(Server("idle", d.dirty, d.durable \cup {w}))}
    [] d.txn = "open" -> {Ok(Server("open", d.dirty \cup {w}, d.durable))}
    [] OTHER          -> {}

\* MySQL commits the open transaction before it runs a schema change.
RunDdl(d, w) ==
  IF backend = "mysql" /\ d.txn \in {"idle", "open"}
  THEN LET kept == d.durable \cup d.dirty
       IN Drops(d) \cup {Ok(Ended(kept \cup {w})), Err(Ended(kept))}
  ELSE RunWrite(d, w)

\* A begin inside a transaction is a warning on PostgreSQL, an implicit
\* commit on MySQL and an error on SQLite.
RunBegin(d) ==
  Drops(d) \cup
  CASE d.txn = "idle" -> {Ok(Server("open", d.dirty, d.durable))}
    [] d.txn = "open" /\ backend = "postgres" -> {Ok(d)}
    [] d.txn = "open" /\ backend = "mysql" ->
         {Ok(Server("open", {}, d.durable \cup d.dirty))}
    [] OTHER -> {Err(d)}

\* Committing an aborted PostgreSQL transaction succeeds and rolls it back.
\* A commit the server refuses ends the transaction on PostgreSQL and MySQL;
\* SQLite (busy, or a deferred foreign key) leaves it open.  When the
\* connection drops under a commit nobody knows which way it went.
RunCommit(d) ==
  CASE d.txn = "open" ->
         {Ok(Ended(d.durable \cup d.dirty)),
          IF backend = "sqlite" THEN Err(d) ELSE Err(Ended(d.durable))}
         \cup Drops(d)
         \cup (IF backend = "sqlite" THEN {}
               ELSE {Err(Lost(d.durable \cup d.dirty))})
    [] d.txn = "aborted" -> {Ok(Ended(d.durable))} \cup Drops(d)
    [] d.txn = "idle" /\ backend # "sqlite" -> {Ok(d)} \cup Drops(d)
    [] OTHER -> {Err(d)}

RunRollback(d) ==
  CASE InTxn(d) -> {Ok(Ended(d.durable))} \cup Drops(d)
    [] d.txn = "idle" /\ backend # "sqlite" -> {Ok(d)} \cup Drops(d)
    [] OTHER -> {Err(d)}

-----------------------------------------------------------------------------
(* The adapter.                                                             *)

Init ==
  /\ backend \in Backends
  /\ access \in Accesses
  /\ flag = FALSE
  /\ db = Ended({})
  /\ op = NoOp
  /\ last = [op |-> "open", ended |-> "ok"]
  /\ origin = [w \in Writes |-> NotIssued]
  /\ batches = {}
  /\ refused = {}
  /\ promised = {}

Answer(name, ended) == last' = [op |-> name, ended |-> ended]
AnswerBy(name, r) == Answer(name, IF r.ok THEN "ok" ELSE "failed")

\* begin, commit and rollback refuse from the flag alone, and move the flag
\* only when the statement has succeeded.
Begin ==
  /\ op = NoOp
  /\ \/ /\ flag
        /\ Answer("begin", "refused")
        /\ UNCHANGED <<flag, db>>
     \/ /\ ~flag
        /\ \E r \in RunBegin(db) :
             /\ db' = r.db
             /\ flag' = r.ok
             /\ AnswerBy("begin", r)
  /\ UNCHANGED <<op, history, fixed>>

Finish(name, Results) ==
  /\ op = NoOp
  /\ \/ /\ ~flag
        /\ Answer(name, "refused")
        /\ UNCHANGED <<flag, db>>
     \/ /\ flag
        /\ \E r \in Results :
             /\ db' = r.db
             /\ flag' = ~r.ok
             /\ AnswerBy(name, r)
  /\ UNCHANGED <<op, history, fixed>>

Commit   == Finish("commit", RunCommit(db))
Rollback == Finish("rollback", RunRollback(db))

\* enforce_access: a read session runs only statements that return rows, by
\* their leading keyword.  A sandbox session is let through.
AllowedAlways(class) == TRUE    \* mutant: the check is left out
Allowed(class) == access = "read" => class \in {"read", "with"}

Classes == {"read", "write", "with", "ddl", "begin", "commit", "rollback"}
Writing == {"write", "with", "ddl"}

Typed(class, w) ==
  CASE class = "read"              -> RunRead(db)
    [] class \in {"write", "with"} -> RunWrite(db, w)
    [] class = "ddl"               -> RunDdl(db, w)
    [] class = "begin"             -> RunBegin(db)
    [] class = "commit"            -> RunCommit(db)
    [] class = "rollback"          -> RunRollback(db)

\* What the user typed goes to the server as it is; the flag is not touched.
Hand(name) ==
  /\ \E class \in Classes, w \in Writes :
       /\ Fresh(w)
       /\ \/ /\ ~Allowed(class)
             /\ Answer(name, "refused")
             /\ UNCHANGED <<db, origin>>
          \/ /\ Allowed(class)
             /\ \E r \in Typed(class, w) :
                  /\ db' = r.db
                  /\ AnswerBy(name, r)
             /\ origin' = IF class \in Writing
                          THEN [origin EXCEPT ![w] = From("query", class, "any")]
                          ELSE origin
  /\ UNCHANGED <<flag, op, batches, refused, promised, fixed>>

Query == op = NoOp /\ Hand("query")

\* An export.  PostgreSQL describes the statement, declares a cursor for it and
\* fetches (a statement that only reads, or an error), and closes the cursor:
\* in a transaction of its own unless the flag says one is open, which it ends
\* with a commit whose result it ignores.  The others just run the statement.
\* (What runs behind the first of several statements is checked like a query,
\* and is a series of typed queries: begin, it, and commit.)
ExportCursor ==
  /\ \/ /\ access = "read"
        /\ Answer("stream", "refused")
        /\ UNCHANGED db
     \/ \E described \in RunRead(db) :
          \E begun \in IF flag THEN {Ok(described.db)} ELSE RunBegin(described.db) :
            IF ~begun.ok
            THEN db' = begun.db /\ Answer("stream", "failed")
            ELSE \E r \in RunRead(begun.db) :
                   \E closed \in RunRead(r.db) :
                     \E end \in IF flag THEN {closed} ELSE RunCommit(closed.db) :
                       /\ db' = end.db
                       /\ AnswerBy("stream", r)
  /\ UNCHANGED <<flag, op, history, fixed>>

StreamQuery ==
  /\ op = NoOp
  /\ \/ backend = "postgres" /\ ExportCursor
     \/ backend # "postgres" /\ Hand("stream")

\* Schema listings, previews, counts and validation only read.
Inspect ==
  /\ op = NoOp
  /\ \E r \in RunRead(db) : db' = r.db /\ AnswerBy("inspect", r)
  /\ UNCHANGED <<flag, op, history, fixed>>

\* A plan is asked for without looking at the access level.  MySQL has a second
\* form to try when the first fails.
Planned(d) ==
  IF backend = "mysql"
  THEN UNION {IF r.ok THEN {r} ELSE RunRead(r.db) : r \in RunRead(d)}
  ELSE RunRead(d)

\* On PostgreSQL the text goes by the simple protocol, so that only the first
\* of several statements is explained and the others run.  The text is prepared
\* before, for its columns; of several statements that is an error, which is
\* ignored, but inside a transaction aborts it.  (One further statement stands
\* for several.)
ExplainTogether(class, w) ==
  Failures(db) \cup (IF db.txn = "idle" THEN Typed(class, w) ELSE {})

ExplainPlan ==
  /\ op = NoOp
  /\ \/ /\ \E r \in Planned(db) : db' = r.db /\ AnswerBy("explain", r)
        /\ UNCHANGED origin
     \/ /\ backend = "postgres"
        /\ \E class \in Classes, w \in Writes :
             /\ Fresh(w)
             /\ \E r \in ExplainTogether(class, w) :
                  db' = r.db /\ AnswerBy("explain", r)
             /\ origin' = IF class \in Writing
                          THEN [origin EXCEPT ![w] = From("plan", class, "any")]
                          ELSE origin
  /\ UNCHANGED <<flag, op, batches, refused, promised, fixed>>

\* Asked to analyse, the adapter runs the statement, inside a transaction that
\* is rolled back, unless the flag says one is open.  MySQL ignores a begin that
\* fails and falls back on a plain plan when the analysis fails.  SQLite only
\* ever plans.  (A text of several statements aborts the transaction, as above;
\* sent under a stale flag it is what Query sends.)
Analysed(d, class, w) ==
  LET ran == IF class = "read" THEN RunRead(d) ELSE RunWrite(d, w)
  IN IF backend = "mysql"
     THEN UNION {IF r.ok THEN {r} ELSE RunRead(r.db) : r \in ran}
     ELSE ran

UnwindNever(r) == {r}           \* mutant: the rollback is left out
Unwind(r) == IF flag THEN {r} ELSE RunRollback(r.db)

ExplainAnalyze ==
  /\ op = NoOp /\ backend # "sqlite"
  /\ \E class \in {"read", "write", "with"}, w \in Writes :
       /\ Fresh(w)
       /\ \/ /\ ~Allowed(class)
             /\ Answer("explain", "refused")
             /\ UNCHANGED <<db, origin>>
          \/ /\ Allowed(class)
             /\ \E begun \in IF flag THEN {Ok(db)} ELSE RunBegin(db) :
                  IF ~begun.ok /\ backend = "postgres"
                  THEN db' = begun.db /\ Answer("explain", "failed")
                  ELSE \E r \in Analysed(begun.db, class, w) :
                         \E end \in Unwind(r) :
                           /\ db' = end.db
                           /\ AnswerBy("explain", r)
             /\ origin' = IF class = "read" THEN origin
                          ELSE [origin EXCEPT ![w] = From("analysis", class, Trust)]
  /\ UNCHANGED <<flag, op, batches, refused, promised, fixed>>

-----------------------------------------------------------------------------
(* apply_changes: one SQL statement at a time, so that a crash of the       *)
(* daemon can fall between any two of them.                                 *)

ApplyRefused ==
  /\ op = NoOp
  /\ access = "read"
  /\ Answer("apply", "refused")
  /\ UNCHANGED <<flag, db, op, history, fixed>>

ApplyStart ==
  /\ op = NoOp
  /\ access # "read"
  /\ \E n \in 1 .. MaxBatch, r \in IF flag THEN {Ok(db)} ELSE RunBegin(db) :
       /\ db' = r.db
       /\ IF r.ok
          THEN /\ op' = Batch(~flag, n, {}, Trust # "stale")
               /\ UNCHANGED last
          ELSE Answer("apply", "unsettled") /\ UNCHANGED op
  /\ UNCHANGED <<flag, history, fixed>>

\* A change that errs, or that matches no row, abandons the batch: the
\* transaction is rolled back, whoever opened it, and the flag cleared.
AbandonInPlace(d) ==             \* mutant: no rollback on the error path
  db' = d /\ flag' = FALSE /\ op' = NoOp /\ Answer("apply", "failed")
AbandonFlagKept(d) ==            \* mutant: the flag is not cleared
  /\ \E r \in RunRollback(d) : db' = r.db
  /\ UNCHANGED flag /\ op' = NoOp /\ Answer("apply", "failed")
Abandon(d) ==
  /\ \E r \in RunRollback(d) : db' = r.db
  /\ flag' = FALSE
  /\ op' = NoOp
  /\ Answer("apply", "failed")

\* What the flag was worth when the batch under way began.
BatchTrust == IF op.own THEN "clear" ELSE IF op.sync THEN "held" ELSE "stale"

MorePastEnd == op.todo >= 0      \* mutant: one change too many
More == op.todo > 0

ApplyChange ==
  /\ op.kind = "apply" /\ More
  /\ \E w \in Writes :
       /\ Fresh(w)
       /\ origin' = [origin EXCEPT ![w] = From("apply", "write", BatchTrust)]
       /\ \/ \E r \in RunWrite(db, w) :
               IF r.ok
               THEN /\ db' = r.db
                    /\ op' = Batch(op.own, op.todo - 1, op.done \cup {w}, op.sync)
                    /\ UNCHANGED <<flag, last, refused>>
               ELSE /\ Abandon(r.db)
                    /\ refused' = IF op.sync THEN refused \cup op.done \cup {w}
                                  ELSE refused
          \/ /\ db.txn \in {"idle", "open"}     \* the row is not there any more
             /\ Abandon(db)
             /\ refused' = IF op.sync THEN refused \cup op.done \cup {w}
                           ELSE refused
  /\ UNCHANGED <<batches, promised, fixed>>

Applied == IF op.sync THEN batches \cup {op.done} ELSE batches

SandboxedNever == FALSE          \* mutant: the sandbox branch is left out
Sandboxed == access = "sandbox"

CommitIgnored == {Ok(r.db) : r \in RunCommit(db)}    \* mutant: its error is dropped
CommitBatch == RunCommit(db)

\* Every change is in: a sandbox rolls back, a batch of its own commits, a
\* batch that joined an open transaction leaves it open.
ApplyEnd ==
  /\ op.kind = "apply" /\ op.todo = 0
  /\ op' = NoOp
  /\ \/ /\ Sandboxed
        /\ \E r \in RunRollback(db) :
             /\ db' = r.db
             /\ flag' = (flag /\ ~r.ok)
             /\ Answer("apply", IF r.ok THEN "ok" ELSE "unsettled")
        /\ UNCHANGED <<batches, promised>>
     \/ /\ ~Sandboxed /\ op.own
        /\ \E r \in CommitBatch :
             /\ db' = r.db
             /\ flag' = (flag /\ ~r.ok)
             /\ Answer("apply", IF r.ok THEN "ok" ELSE "unsettled")
             /\ batches' = IF r.ok THEN Applied ELSE batches
             /\ promised' = IF r.ok THEN promised \cup op.done ELSE promised
     \/ /\ ~Sandboxed /\ ~op.own
        /\ Answer("join", "ok")
        /\ batches' = Applied
        /\ UNCHANGED <<flag, db, promised>>
  /\ UNCHANGED <<origin, refused, fixed>>

\* The session closes, or the daemon dies under it, and is opened again.  The
\* server rolls back what was open; the caller of a batch under way is told
\* it failed.
Reopen ==
  /\ db' = Ended(db.durable)
  /\ flag' = FALSE
  /\ op' = NoOp
  /\ Answer("open", "ok")
  /\ refused' = IF op.kind = "apply" /\ op.sync THEN refused \cup op.done ELSE refused
  /\ UNCHANGED <<origin, batches, promised, fixed>>

Next ==
  \/ Begin \/ Commit \/ Rollback
  \/ Query \/ StreamQuery \/ Inspect \/ ExplainPlan \/ ExplainAnalyze
  \/ ApplyRefused \/ ApplyStart \/ ApplyChange \/ ApplyEnd
  \/ Reopen

Spec == Init /\ [][Next]_vars

-----------------------------------------------------------------------------
(* Properties.                                                              *)

\* Every variable stays in its type, and only a transaction has dirty writes.
TypeOK ==
  /\ backend \in Backends
  /\ access \in Accesses
  /\ flag \in BOOLEAN
  /\ db \in Servers
  /\ op \in Applies \cup {NoOp}
  /\ last \in [op : OpNames, ended : Endings]
  /\ origin \in [Writes -> Origins]
  /\ batches \in SUBSET (SUBSET Writes)
  /\ refused \in SUBSET Writes
  /\ promised \in SUBSET Writes

\* apply_changes is all or nothing.  A batch that did not begin under a stale
\* flag is durable as a whole or not at all, whatever fails, is typed or
\* crashes later, and nothing of one reported as failed is ever durable.
ApplyAllOrNothing ==
  /\ \A b \in batches : b \cap db.durable = {} \/ b \subseteq db.durable
  /\ refused \cap db.durable = {}

\* "applied", from a batch that opened its own transaction outside a sandbox,
\* means saved: no later step takes it back.
AppliedIsSaved == promised \subseteq db.durable

\* Row changes applied through a sandbox session are never durable, even when
\* the batch joined a transaction the user opened and commits afterwards, as
\* long as the batch did not begin under a stale flag (SandboxRollsBack).
SandboxDiscardsApplied ==
  access = "sandbox" =>
    \A w \in db.durable : origin[w].by = "apply" => origin[w].trust = "stale"

\* Analysing a statement while the flag is clear, which the adapter does in a
\* transaction of its own, never saves what the statement wrote, even when the
\* user had typed a BEGIN the flag does not know of.  Under a set flag nothing
\* is promised: see AnalysisRollsBack.
ExplainDiscards ==
  \A w \in db.durable : origin[w].by = "analysis" => origin[w].trust # "clear"

\* What a read-only session leaves on the server came behind a keyword that
\* returns rows, or behind an explained statement in the text of a plain plan
\* (ReadOnlyRefuses): no other operation lets a write through.
ReadOnlyKeepsOut ==
  access = "read" => \A w \in db.dirty \cup db.durable :
                       origin[w].rows \/ origin[w].by = "plan"

\* After an operation that settles the question, the flag and the server
\* agree, however far apart they had drifted: a begin, commit or rollback that
\* succeeded, and a batch with a transaction of its own, or that failed.  Only
\* then may the next batch trust the flag.
Settles ==
  \/ last.op \in {"open", "begin", "commit", "rollback"} /\ last.ended = "ok"
  \/ last.op = "apply" /\ last.ended \in {"ok", "failed"}

FlagTracksServer == op = NoOp /\ Settles => Agreed

\* What became of a batch that was reported as applied.
Fate(b) ==
  CASE b \subseteq db.durable                     -> "saved"
    [] b \subseteq db.dirty                       -> "waiting"
    [] b \cap (db.dirty \cup db.durable) = {}     -> "gone"
    [] OTHER                                      -> "torn"

Fates == [b \in batches |-> Fate(b)]

Atomic == INSTANCE AtomicBatches WITH fates <- Fates

\* To its caller apply_changes is one step: of the batches reported as applied
\* each is saved, or waits in the user's transaction, or is gone, and all that
\* wait share one fate, whatever is typed, fails or crashes, and whichever
\* statement ends the transaction.
ImplementsAtomicBatches == Atomic!Spec

-----------------------------------------------------------------------------
(* What the documentation says and the code does not do.                    *)

\* "anything that is not a SELECT is refused before it is sent" of a read-only
\* session, and of a sandbox "Runs the write inside a transaction and rolls it
\* back whatever happens" (docs/src/config/access.md): neither changes the data.
GuardedAccessSavesNothing == access \in {"read", "sandbox"} => db.durable = {}

\* Of a sandbox: "Runs the write inside a transaction and rolls it back whatever
\* happens" (docs/src/config/access.md), here of row changes alone.
SandboxRollsBack ==
  access = "sandbox" => \A w \in db.durable : origin[w].by # "apply"

\* "ANALYZE actually runs the statement, so keep it inside a transaction that we
\* roll back unless the caller is already in one" (adapters/postgres.rs): what an
\* analysis wrote is saved only where the user had a transaction open.
AnalysisRollsBack ==
  \A w \in db.durable : origin[w].by = "analysis" => origin[w].trust = "held"

\* "anything that is not a SELECT is refused before it is sent"
\* (docs/src/config/access.md): a read-only session changes nothing but behind a
\* keyword that returns rows.
ReadOnlyRefuses ==
  access = "read" => \A w \in db.dirty \cup db.durable : origin[w].rows

\* "They go in a single transaction: all of them or none"
\* (docs/src/editing/write.md): a row change never runs outside one.
BatchInOneTransaction == op.kind = "apply" /\ op.done # {} => InTxn(db)

-----------------------------------------------------------------------------
(* The inductive invariant behind the safety properties (DbSessionProofs). *)

\* A write nobody issued is nowhere, and no write is both open and durable.
WritesAccounted ==
  /\ \A w \in Writes : Fresh(w) =>
       w \notin db.dirty \cup db.durable \cup refused \cup promised \cup op.done
  /\ \A b \in batches : \A w \in b : ~Fresh(w)
  /\ db.dirty \cap db.durable = {}
  /\ ~InTxn(db) => db.dirty = {}

\* A batch under way that did not begin under a stale flag has all its writes
\* in a transaction that is still there.
BatchCovered ==
  op.kind = "apply" =>
    /\ access # "read"
    /\ op.own = ~flag
    /\ op.own => db.txn = "open" /\ op.sync
    /\ op.sync =>
         /\ InTxn(db)
         /\ op.done \subseteq db.dirty

\* Finished batches are undivided in the open transaction too.
BatchesWhole ==
  /\ \A b \in batches : \/ b \subseteq db.durable
                        \/ b \cap db.durable = {} /\ b \subseteq db.dirty
                        \/ b \cap db.durable = {} /\ b \cap db.dirty = {}
  /\ refused \cap (db.dirty \cup db.durable) = {}

\* What must not last is at most in the transaction of the batch under way.
OriginsContained ==
  /\ access = "sandbox" => \A w \in db.dirty \cup db.durable :
       origin[w].by = "apply" /\ origin[w].trust # "stale" =>
         op.kind = "apply" /\ op.sync /\ w \in op.done
  /\ \A w \in db.dirty \cup db.durable :
       origin[w].by = "analysis" => origin[w].trust # "clear"

IInv ==
  /\ TypeOK
  /\ WritesAccounted
  /\ BatchCovered
  /\ BatchesWhole
  /\ AppliedIsSaved
  /\ OriginsContained
  /\ ReadOnlyKeepsOut
  /\ FlagTracksServer

=============================================================================
