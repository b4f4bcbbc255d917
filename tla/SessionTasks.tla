---------------------------- MODULE SessionTasks ----------------------------
(***************************************************************************)
(* What the editor does over one session: the commands a user starts, each *)
(* a coroutine that sends one request, waits for its reply and goes on.    *)
(* Nothing stops a second command from being started while the first one   *)
(* waits, so their requests mix on the session's channel; and the editor   *)
(* decides from a flag of its own, session.in_transaction, what a command  *)
(* is to ask for.  The session, its adapter and the server are DbSession.  *)
(*                                                                         *)
(* The channel to the session thread and the replies of one session are    *)
(* both first in, first out (Daemon, Client).                              *)
(***************************************************************************)
EXTENDS DbSession, Sequences

CONSTANTS
  MaxTasks,    \* bound: commands started
  Hits,        \* the columns a replace changes, one update each
  Batches      \* the batches an import is cut into

VARIABLES
  believed,    \* session.in_transaction, which the winbar shows
  tasks,       \* the commands, in the order they were started
  queue,       \* the session's channel: commands whose request is not served
  answers      \* replies on their way: [task, request, ok]

sessionVars == vars    \* DbSession's
taskVars == <<sessionVars, believed, tasks, queue, answers>>

Kinds == {"begin", "commit", "rollback", "query", "write", "import", "replace"}
Requests == {"begin", "commit", "rollback", "query", "update", "apply"}

\* request is what the command waits for, "end" when it is over; failed the
\* first request that failed; done the writes of its requests, one set for
\* each; joined whether it took a transaction to be open.  alone (history):
\* no other command ran beside it, and the adapter's flag was right when it
\* started.
Task(kind, request, alone) ==
  [kind |-> kind, request |-> request, failed |-> "none", joined |-> believed,
   done |-> IF request \in {"query", "update", "apply"} THEN <<{}>> ELSE <<>>,
   alone |-> alone]

Over(t) == t.request = "end"
Idle == queue = <<>> /\ answers = <<>>    \* no command is under way

TasksInit ==
  /\ Init
  /\ believed = FALSE
  /\ tasks = <<>>
  /\ queue = <<>>
  /\ answers = <<>>

-----------------------------------------------------------------------------
(* The commands.                                                            *)

\* The first request.  A replace begins a transaction unless the editor's flag
\* says one is open; the others ask for one thing, an import batch by batch.
FirstRequest(kind) ==
  CASE kind = "replace"             -> IF believed THEN "update" ELSE "begin"
    [] kind \in {"write", "import"} -> "apply"
    [] OTHER                        -> kind

Disturbed(t) == [t EXCEPT !.alone = t.alone /\ Over(t)]

Start(kind) ==
  /\ Len(tasks) < MaxTasks
  /\ tasks' = Append([i \in DOMAIN tasks |-> Disturbed(tasks[i])],
                     Task(kind, FirstRequest(kind), Idle /\ Agreed))
  /\ queue' = Append(queue, Len(tasks) + 1)
  /\ UNCHANGED <<sessionVars, believed, answers>>

\* A replace whose update fails rolls back the transaction it began.
UndoNever(t) == "end"            \* mutant: the rollback is left out
Undo(t) == IF t.joined THEN "end" ELSE "rollback"

\* What a command asks for when the reply is there.
After(t, ok) ==
  CASE t.kind = "replace" /\ t.request = "begin" /\ ok -> "update"
    [] t.kind = "replace" /\ t.request = "update" /\ ~ok -> Undo(t)
    [] t.kind = "replace" /\ t.request = "update" /\ ok ->
         IF Len(t.done) < Hits THEN "update" ELSE IF t.joined THEN "end" ELSE "commit"
    [] t.kind = "import" /\ ok /\ Len(t.done) < Batches -> "apply"
    [] OTHER -> "end"

Continued(t, reply) ==
  LET next == After(t, reply.ok)
  IN [t EXCEPT !.request = next,
               !.failed = IF reply.ok \/ @ # "none" THEN @ ELSE reply.request,
               !.done = IF next \in {"update", "apply"} THEN Append(t.done, {}) ELSE t.done]

\* begin, commit and rollback move the editor's flag when they have succeeded.
BelievesAnyway(request, ok) ==   \* mutant: whether they have or not
  IF request = "begin" THEN TRUE
  ELSE IF request \in {"commit", "rollback"} THEN FALSE ELSE believed
Believes(request, ok) ==
  CASE ok /\ request = "begin"                 -> TRUE
    [] ok /\ request \in {"commit", "rollback"} -> FALSE
    [] OTHER                                   -> believed

Resume ==
  /\ answers # <<>>
  /\ LET reply == Head(answers)
         i == reply.task
         t == Continued(tasks[i], reply)
     IN /\ believed' = Believes(reply.request, reply.ok)
        /\ tasks' = [tasks EXCEPT ![i] = t]
        /\ queue' = IF Over(t) THEN queue ELSE Append(queue, i)
  /\ answers' = Tail(answers)
  /\ UNCHANGED sessionVars

-----------------------------------------------------------------------------
(* The daemon's side: the head of the channel is served, statement by       *)
(* statement, and answered when the session thread is done with it.         *)

\* An update of a replace: a query whose statement is a write.
Update ==
  /\ op = NoOp
  /\ \E w \in Writes :
       /\ Fresh(w)
       /\ \/ /\ ~Allowed("write")
             /\ Answer("query", "refused")
             /\ UNCHANGED <<db, origin>>
          \/ /\ Allowed("write")
             /\ \E r \in RunWrite(db, w) :
                  db' = r.db /\ AnswerBy("query", r)
             /\ origin' = [origin EXCEPT ![w] = From("query", "write", "any")]
  /\ UNCHANGED <<backend, access, flag, op, batches, refused, promised>>

Apply ==
  \/ ApplyRefused
  \/ ApplyStart
  \/ ApplyChange
  \/ ApplyEnd

Run(request) ==
  \/ request = "begin" /\ Begin
  \/ request = "commit" /\ Commit
  \/ request = "rollback" /\ Rollback
  \/ request = "query" /\ Query
  \/ request = "update" /\ Update
  \/ request = "apply" /\ Apply

Issued == {w \in Writes : Fresh(w) /\ ~Fresh(w)'}

Serve ==
  /\ queue # <<>>
  /\ LET i == Head(queue)
         done == tasks[i].done
     IN /\ Run(tasks[i].request)
        /\ tasks' = IF Issued = {} THEN tasks
                    ELSE [tasks EXCEPT ![i].done[Len(done)] = @ \cup Issued]
        /\ IF op' = NoOp
           THEN /\ queue' = Tail(queue)
                /\ answers' = Append(answers, [task |-> i, request |-> tasks[i].request,
                                               ok |-> last'.ended = "ok"])
           ELSE UNCHANGED <<queue, answers>>
  /\ UNCHANGED believed

\* The daemon ends, or the session is closed, and the user connects again:
\* what is under way is reported as failed, and the new session's flag is
\* clear.  (A command that still holds the old session's id gets an error for
\* what it asks next, which changes nothing here.)
Reconnect ==
  /\ Reopen
  /\ tasks' = [i \in DOMAIN tasks |->
                 IF Over(tasks[i]) THEN tasks[i]
                 ELSE [tasks[i] EXCEPT !.request = "end",
                                       !.failed = IF @ = "none" THEN tasks[i].request ELSE @]]
  /\ believed' = FALSE
  /\ queue' = <<>>
  /\ answers' = <<>>

TasksNext ==
  \/ \E kind \in Kinds : Start(kind)
  \/ Serve
  \/ Resume
  \/ Reconnect

TasksSpec == TasksInit /\ [][TasksNext]_taskVars

-----------------------------------------------------------------------------
(* Properties.                                                              *)

Wrote(t) == UNION {t.done[k] : k \in DOMAIN t.done}
Saved(ws) == ws \subseteq db.durable
Gone(ws) == ws \cap db.durable = {}
Succeeded(t) == Over(t) /\ t.failed = "none"

\* A replace that began its own transaction is one: saved as a whole or not
\* at all, saved when it reported success, and not saved, then or by whatever
\* the user commits later, when one of its updates failed.
ReplaceWhole(t) ==
  t.kind = "replace" /\ ~t.joined =>
    /\ Saved(Wrote(t)) \/ Gone(Wrote(t))
    /\ Succeeded(t) => Saved(Wrote(t))
    /\ t.failed \in {"begin", "update"} => Gone(Wrote(t))

\* What is saved of an import is a number of its batches from the first on,
\* each of them whole, and all of them when it reported success outside a
\* transaction of the user's.
ImportInOrder(t) ==
  t.kind = "import" =>
    /\ \A k \in DOMAIN t.done : Saved(t.done[k]) \/ Gone(t.done[k])
    /\ \A k \in 2 .. Len(t.done) : ~Gone(t.done[k]) => Saved(t.done[k - 1])
    /\ Succeeded(t) /\ ~t.joined =>
         IF Sandboxed THEN Gone(Wrote(t)) ELSE Saved(Wrote(t))

\* The editor's side stays in its types, and what is under way belongs to a
\* command that was started.
TasksTypeOK ==
  /\ believed \in BOOLEAN
  /\ tasks \in Seq([kind : Kinds, request : Requests \cup {"end"},
                    failed : Requests \cup {"none"}, joined : BOOLEAN,
                    done : Seq(SUBSET Writes), alone : BOOLEAN])
  /\ queue \in Seq(DOMAIN tasks)
  /\ answers \in Seq([task : DOMAIN tasks, request : Requests, ok : BOOLEAN])

\* What the commands that write in several requests report is what is on the
\* server, from then on, if no other command ran on the session meanwhile and
\* the adapter's flag was right: whatever fails or crashes on the way.
BulkAsReported ==
  \A i \in DOMAIN tasks :
    tasks[i].alone => ReplaceWhole(tasks[i]) /\ ImportInOrder(tasks[i])

\* When no command is under way and the adapter holds a transaction open, the
\* winbar shows one, in whatever order commands were started and failed.
OpenShown == Idle /\ flag => believed

=============================================================================
