------------------------------ MODULE BulkProofs ------------------------------
(***************************************************************************)
(* What a replace and an import report is what is on the server, for any   *)
(* number of commands, writes, updates and batches, every adapter and      *)
(* every access level.                                                     *)
(*                                                                         *)
(* A session under commands is a session, so that DbSession's invariant    *)
(* holds here, and every step moves the server as Moves says.  Beside it   *)
(* the argument needs who is under way (one request or one reply for each  *)
(* command that is not over), and for a command no other ran beside where  *)
(* its writes are at each of its requests.  What is said of a command that *)
(* is over survives whatever the server does with fresh writes.            *)
(***************************************************************************)
EXTENDS SessionTasksProofs

\* Nothing of ws is on the server, and nothing will be.
Vanished(ws, d) == ws \cap (d.dirty \cup d.durable) = {}

\* Of two batches the later is saved only with the earlier.
Ordered(a, b, d) ==
  \/ Vanished(b, d)
  \/ a \subseteq d.durable
  \/ a \subseteq d.dirty /\ b \subseteq d.dirty

-----------------------------------------------------------------------------
(* Who is under way.                                                        *)

\* A command that waits has one request in the channel or one reply on its
\* way, a command that is over has none, and a batch under way is what the
\* head of the channel asked for.
Waiting ==
  /\ \A m, n \in DOMAIN queue : queue[m] = queue[n] => m = n
  /\ \A m, n \in DOMAIN answers : answers[m].task = answers[n].task => m = n
  /\ \A m \in DOMAIN queue, n \in DOMAIN answers : queue[m] # answers[n].task
  /\ \A m \in DOMAIN queue : ~Over(tasks[queue[m]])
  /\ \A n \in DOMAIN answers : tasks[answers[n].task].request = answers[n].request
  /\ op # NoOp => queue # <<>> /\ tasks[Head(queue)].request = "apply"

Asked(i) == queue = <<i>> /\ answers = <<>>
Told(i, ok) ==
  queue = <<>> /\ answers = <<[task |-> i, request |-> tasks[i].request, ok |-> ok]>>

\* The only command under way.
Solo(i) == Asked(i) \/ Told(i, TRUE) \/ Told(i, FALSE)

-----------------------------------------------------------------------------
(* Where the writes of a command are.                                       *)

\* A replace in its own transaction holds all its writes there.
InHand(t) ==
  /\ t.failed = "none" /\ flag /\ db.txn = "open"
  /\ Wrote(t) \subseteq db.dirty

ReplaceAsked(t) ==
  /\ t.request \in {"begin", "update", "commit", "rollback"}
  /\ t.request = "begin" => t.failed = "none" /\ t.done = <<>> /\ ~flag /\ ~InTxn(db)
  /\ t.request = "update" => InHand(t) /\ t.done # <<>>
  /\ t.request = "commit" => InHand(t)
  /\ t.request = "rollback" => t.failed = "update" /\ flag /\ Gone(Wrote(t))

ReplaceTold(t, ok) ==
  /\ t.request \in {"begin", "update", "commit", "rollback"}
  /\ t.request # "rollback" => t.failed = "none"
  /\ t.request = "begin" => t.done = <<>> /\ (ok => flag /\ db.txn = "open")
  /\ t.request = "update" => flag /\ IF ok THEN InHand(t) ELSE Gone(Wrote(t))
  /\ t.request = "commit" => IF ok THEN Saved(Wrote(t)) ELSE Whole(Wrote(t), db)
  /\ t.request = "rollback" => t.failed = "update" /\ Vanished(Wrote(t), db)

ReplaceOver(t) ==
  /\ Whole(Wrote(t), db)
  /\ t.failed = "none" => Saved(Wrote(t))
  /\ t.failed \in {"begin", "update"} => Vanished(Wrote(t), db)

\* The batches that went through: saved one by one, or all in the user's
\* transaction, or all dropped by a sandbox.
Through(t, n) ==
  \A k \in 1 .. n :
    IF Sandboxed THEN Vanished(t.done[k], db)
    ELSE t.done[k] \subseteq (IF flag THEN db.dirty ELSE db.durable)

InOrder(t) ==
  /\ \A k \in DOMAIN t.done : Whole(t.done[k], db)
  /\ \A k \in 2 .. Len(t.done) : Ordered(t.done[k - 1], t.done[k], db)

ImportGoing(t) ==
  t.request = "apply" /\ t.failed = "none" /\ t.done # <<>> /\ (~t.joined => ~flag)

ImportAsked(t) ==
  /\ ImportGoing(t)
  /\ Through(t, Len(t.done) - 1)
  /\ op = NoOp => Agreed /\ t.done[Len(t.done)] = {}
  /\ op # NoOp => op.kind = "apply" /\ op.sync /\ t.done[Len(t.done)] = op.done

ImportTold(t, ok) ==
  /\ t.request = "apply" /\ t.failed = "none" /\ t.done # <<>>
  /\ IF ok THEN (~t.joined => ~flag) /\ Agreed /\ Through(t, Len(t.done)) ELSE InOrder(t)

ImportOver(t) ==
  /\ InOrder(t)
  /\ t.failed = "none" /\ ~t.joined =>
       IF Sandboxed THEN Vanished(Wrote(t), db) ELSE Saved(Wrote(t))

-----------------------------------------------------------------------------
(* The inductive invariant.                                                 *)

OwnReplace(t) == t.kind = "replace" /\ ~t.joined

\* All that is said of a command no other ran beside.
Held1(i) ==
  LET t == tasks[i]
  IN /\ \A k \in DOMAIN t.done : \A w \in t.done[k] : ~Fresh(w)
     /\ ~Over(t) => Solo(i)
     /\ OwnReplace(t) =>
          /\ Over(t) => ReplaceOver(t)
          /\ ~Over(t) /\ Asked(i) => ReplaceAsked(t)
          /\ \A ok \in BOOLEAN : ~Over(t) /\ Told(i, ok) => ReplaceTold(t, ok)
     /\ t.kind = "import" =>
          /\ Over(t) => ImportOver(t)
          /\ ~Over(t) /\ Asked(i) => ImportAsked(t)
          /\ \A ok \in BOOLEAN : ~Over(t) /\ Told(i, ok) => ImportTold(t, ok)

Bulk == \A i \in DOMAIN tasks : tasks[i].alone => Held1(i)

BInv == IInv /\ TInv /\ Waiting /\ Bulk

-----------------------------------------------------------------------------
(* A session under commands is a session.                                   *)

LEMMA RunIsNext ==
  ASSUME NEW request, Run(request)
  PROVE  Next
<1>1. CASE request = "update"
  <2>1. Update
    BY <1>1 DEF Run
  <2>2. Hand("query")
    BY <2>1 DEF Update, Hand, Classes, Writing, Typed, fixed
  <2> QED
    BY <2>1, <2>2 DEF Update, Query, Next
<1>2. CASE request # "update"
  BY <1>2 DEF Run, Apply, Next
<1> QED
  BY <1>1, <1>2

LEMMA SessionStep ==
  ASSUME [TasksNext]_taskVars
  PROVE  [Next]_vars
<1>1. ASSUME NEW kind \in Kinds, Start(kind) PROVE UNCHANGED vars
  BY <1>1, Zenon DEF Start, sessionVars
<1>2. CASE Serve
  BY <1>2, RunIsNext DEF Serve
<1>3. CASE Resume
  BY <1>3, Zenon DEF Resume, sessionVars
<1>4. CASE Reconnect
  BY <1>4, Zenon DEF Reconnect, Next
<1>5. CASE UNCHANGED taskVars
  BY <1>5, Zenon DEF taskVars, sessionVars
<1> QED
  BY <1>1, <1>2, <1>3, <1>4, <1>5 DEF TasksNext

\* Whatever commands run on it, a session behaves as DbSession says: each
\* request is one of its operations, and the editor adds none.
THEOREM SessionUnderTasks == TasksSpec => Spec
<1>1. TasksInit => Init
  BY DEF TasksInit
<1> QED
  BY <1>1, SessionStep, PTL DEF TasksSpec, Spec

\* A write that was issued stays issued.
LEMMA IssuedStays ==
  ASSUME IInv, [Next]_vars, NEW w \in Writes, ~Fresh(w)
  PROVE  ~Fresh(w)'
<1>1. origin' = origin \/ \E v \in Writes, o \in Origins :
                            Fresh(v) /\ origin' = [origin EXCEPT ![v] = o]
  <2>1. CASE Begin \/ Commit \/ Rollback \/ Inspect \/ ApplyRefused \/ ApplyStart \/ ApplyEnd \/ Reopen
             \/ UNCHANGED vars
    BY <2>1 DEF Begin, Commit, Rollback, Finish, Inspect, ApplyRefused, ApplyStart, ApplyEnd, Reopen,
         history, vars
  <2>2. ASSUME NEW name, Hand(name)
        PROVE  origin' = origin \/ \E v \in Writes, o \in Origins :
                                     Fresh(v) /\ origin' = [origin EXCEPT ![v] = o]
    <3>1. \A class : From("query", class, "any") \in Origins
      BY FromIs
    <3> QED
      BY <2>2, <3>1 DEF Hand
  <2>3. CASE Query
    BY <2>2, <2>3 DEF Query
  <2>4. CASE StreamQuery
    BY <2>2, <2>4 DEF StreamQuery, ExportCursor, history
  <2>5. CASE ExplainAnalyze \/ ExplainPlan
    <3>1. flag \in BOOLEAN
      BY DEF IInv, TypeOK
    <3>2. Trust \in {"clear", "held", "stale"}
      BY <3>1, TrustIs
    <3>3. \A class : /\ From("analysis", class, Trust) \in Origins
                    /\ From("plan", class, "any") \in Origins
      BY <3>2, FromIs
    <3>4. CASE ExplainAnalyze
      BY <3>3, <3>4 DEF ExplainAnalyze
    <3>5. CASE ExplainPlan
      BY <3>3, <3>5 DEF ExplainPlan
    <3> QED
      BY <2>5, <3>4, <3>5
  <2>6. CASE ApplyChange
    <3>1. From("apply", "write", BatchTrust) \in Origins
      BY <2>6, BatchTrustIs, FromIs DEF ApplyChange, IInv, Held
    <3> QED
      BY <2>6, <3>1 DEF ApplyChange
  <2> QED
    BY <2>1, <2>3, <2>4, <2>5, <2>6 DEF Next
<1>2. origin \in [Writes -> Origins]
  BY DEF IInv, TypeOK
<1> QED
  BY <1>1, <1>2 DEF Fresh

-----------------------------------------------------------------------------
(* What is said of writes survives the server's moves.                      *)

LEMMA FatesStay ==
  ASSUME NEW d, NEW e, NEW W, Sound(d), Moves(d, e, W),
         NEW a, a \cap W = {}
  PROVE  /\ a \subseteq d.durable => a \subseteq e.durable
         /\ Vanished(a, d) => Vanished(a, e)
         /\ Whole(a, d) => Whole(a, e)
BY DEF Moves, Sound, Whole, Vanished

LEMMA OrderStays ==
  ASSUME NEW d, NEW e, NEW W, Sound(d), Moves(d, e, W),
         NEW a, a \cap W = {}, NEW b, b \cap W = {}, Ordered(a, b, d)
  PROVE  Ordered(a, b, e)
BY DEF Moves, Sound, Ordered, Vanished

-----------------------------------------------------------------------------
(* Who is under way.                                                        *)

LEMMA WaitingStart ==
  ASSUME BInv, NEW kind \in Kinds, Start(kind)
  PROVE  Waiting'
<1>1. /\ queue \in Seq(DOMAIN tasks) /\ answers \in Seq(Replies) /\ tasks \in Seq(TaskSet)
  BY DEF BInv, TInv, TasksTypeOK, TaskSet, Replies
<1> DEFINE n == Len(tasks)
<1>2. /\ n \in Nat /\ DOMAIN tasks = 1 .. n
      /\ DOMAIN tasks' = 1 .. n + 1
      /\ \A i \in DOMAIN tasks : tasks'[i].request = tasks[i].request
      /\ tasks'[n + 1].request = FirstRequest(kind)
  <2> DEFINE old == [i \in DOMAIN tasks |-> Disturbed(tasks[i])]
             new == Task(kind, FirstRequest(kind), Idle /\ Agreed)
  <2>1. /\ n \in Nat /\ DOMAIN tasks = 1 .. n /\ \A i \in DOMAIN tasks : tasks[i] \in TaskSet
    BY <1>1
  <2>2. \A i \in DOMAIN tasks : old[i].request = tasks[i].request
    BY <2>1 DEF Disturbed, TaskSet
  <2>3. \A i \in DOMAIN tasks : old[i] \in {Disturbed(tasks[j]) : j \in DOMAIN tasks}
    OBVIOUS
  <2>4. old \in Seq({Disturbed(tasks[j]) : j \in DOMAIN tasks}) /\ Len(old) = n
    BY <2>1, <2>3, FunctionIsSeq
  <2>5. tasks' = Append(old, new)
    BY DEF Start
  <2>6. new.request = FirstRequest(kind)
    BY DEF Task
  <2> HIDE DEF old, new
  <2>7. /\ DOMAIN tasks' = 1 .. n + 1
        /\ \A i \in DOMAIN tasks : tasks'[i] = old[i]
        /\ tasks'[n + 1] = new
    BY <2>1, <2>4, <2>5
  <2> QED
    BY <2>1, <2>2, <2>6, <2>7
<1>3. queue' = Append(queue, n + 1) /\ answers' = answers /\ op' = op
  BY DEF Start, sessionVars, vars
<1>4. /\ Len(queue) \in Nat /\ DOMAIN queue = 1 .. Len(queue)
      /\ DOMAIN queue' = 1 .. Len(queue) + 1
      /\ \A m \in DOMAIN queue : queue'[m] = queue[m] /\ queue[m] \in 1 .. n
      /\ queue'[Len(queue) + 1] = n + 1
      /\ \A m \in DOMAIN answers : answers[m].task \in 1 .. n
  <2>1. \A m \in DOMAIN answers : answers[m] \in Replies
    BY <1>1
  <2>2. \A m \in DOMAIN queue : queue[m] \in DOMAIN tasks
    BY <1>1
  <2> HIDE DEF n
  <2> QED
    BY <1>1, <1>2, <1>3, <2>1, <2>2 DEF Replies
<1>5. FirstRequest(kind) # "end"
  BY DEF FirstRequest, Kinds
<1> HIDE DEF n
<1>6. Waiting
  BY DEF BInv
<1>7. \A a, b \in DOMAIN queue' : queue'[a] = queue'[b] => a = b
  BY <1>2, <1>4, <1>6 DEF Waiting
<1>8. \A a \in DOMAIN queue', b \in DOMAIN answers' : queue'[a] # answers'[b].task
  BY <1>2, <1>3, <1>4, <1>6 DEF Waiting
<1>9. \A a \in DOMAIN queue' : ~Over(tasks'[queue'[a]])
  BY <1>2, <1>4, <1>5, <1>6 DEF Waiting, Over
<1>10. \A b \in DOMAIN answers' : tasks'[answers'[b].task].request = answers'[b].request
  BY <1>2, <1>3, <1>4, <1>6 DEF Waiting
<1>11. op' # NoOp => queue' # <<>> /\ tasks'[Head(queue')].request = "apply"
  <2> SUFFICES ASSUME op # NoOp PROVE queue' # <<>> /\ tasks'[Head(queue')].request = "apply"
    BY <1>3
  <2>1. queue # <<>> /\ tasks[Head(queue)].request = "apply"
    BY <1>6 DEF Waiting
  <2>2. Head(queue') = queue[1] /\ Head(queue) = queue[1] /\ 1 \in DOMAIN queue /\ queue' # <<>>
    BY <1>1, <1>3, <1>4, <2>1
  <2> QED
    BY <1>2, <1>4, <2>1, <2>2
<1> QED
  BY <1>3, <1>6, <1>7, <1>8, <1>9, <1>10, <1>11 DEF Waiting

\* What serving the head i of the channel does to the commands.
Served(i) ==
  /\ queue \in Seq(DOMAIN tasks) /\ queue # <<>> /\ i = queue[1]
  /\ i \in DOMAIN tasks /\ tasks[i] \in TaskSet
  /\ Run(tasks[i].request)
  /\ DOMAIN tasks' = DOMAIN tasks
  /\ \A j \in DOMAIN tasks : j # i => tasks'[j] = tasks[j]
  /\ tasks'[i].kind = tasks[i].kind /\ tasks'[i].request = tasks[i].request
  /\ tasks'[i].failed = tasks[i].failed /\ tasks'[i].joined = tasks[i].joined
  /\ tasks'[i].alone = tasks[i].alone
  /\ DOMAIN tasks'[i].done = DOMAIN tasks[i].done
  /\ Len(tasks'[i].done) = Len(tasks[i].done)
  /\ \A k \in DOMAIN tasks[i].done :
       tasks'[i].done[k] = IF k = Len(tasks[i].done) THEN tasks[i].done[k] \cup Issued
                           ELSE tasks[i].done[k]
  /\ \/ /\ op' = NoOp /\ queue' = Tail(queue)
        /\ answers' = Append(answers, [task |-> i, request |-> tasks[i].request,
                                       ok |-> last'.ended = "ok"])
     \/ op' # NoOp /\ queue' = queue /\ answers' = answers
  /\ believed' = believed

LEMMA ServeFacts ==
  ASSUME TInv, Serve, NEW i, i = Head(queue)
  PROVE  Served(i)
<1>1. queue \in Seq(DOMAIN tasks) /\ queue # <<>> /\ tasks \in Seq(TaskSet)
  BY DEF TInv, TasksTypeOK, TaskSet, Serve
<1>2. i \in DOMAIN tasks /\ tasks[i] \in TaskSet /\ i = queue[1]
  BY <1>1
<1> DEFINE t == tasks[i]
           u == tasks'[i]
           done == t.done
           reply == [task |-> i, request |-> t.request, ok |-> last'.ended = "ok"]
<1>3. /\ Run(t.request)
      /\ tasks' = IF Issued = {} THEN tasks
                  ELSE [tasks EXCEPT ![i].done[Len(done)] = @ \cup Issued]
      /\ \/ op' = NoOp /\ queue' = Tail(queue) /\ answers' = Append(answers, reply)
         \/ op' # NoOp /\ queue' = queue /\ answers' = answers
      /\ believed' = believed
  BY DEF Serve
<1>4. done \in Seq(SUBSET Writes) /\ t = [t EXCEPT !.done = done]
  BY <1>2 DEF TaskSet
<1>5. /\ DOMAIN tasks' = DOMAIN tasks
      /\ \A j \in DOMAIN tasks : j # i => tasks'[j] = tasks[j]
  BY <1>3
<1>6. /\ u = [t EXCEPT !.done = u.done]
      /\ DOMAIN u.done = DOMAIN done
      /\ \A k \in DOMAIN done :
           u.done[k] = IF k = Len(done) THEN done[k] \cup Issued ELSE done[k]
  <2>1. CASE Issued = {}
    <3>1. u = t
      BY <1>3, <2>1
    <3> HIDE DEF t, u
    <3> QED
      BY <1>4, <2>1, <3>1
  <2>2. CASE Issued # {}
    <3> DEFINE more == [done EXCEPT ![Len(done)] = @ \cup Issued]
    <3>1. u = [t EXCEPT !.done = more]
      BY <1>2, <1>3, <2>2
    <3>2. DOMAIN more = DOMAIN done /\ \A k \in DOMAIN done :
            more[k] = IF k = Len(done) THEN done[k] \cup Issued ELSE done[k]
      BY <1>4
    <3>3. [t EXCEPT !.done = more].done = more
      BY <1>2 DEF TaskSet
    <3> HIDE DEF more, t, u
    <3> QED
      BY <3>1, <3>2, <3>3
  <2> QED
    BY <2>1, <2>2
<1>7. u.kind = t.kind /\ u.request = t.request /\ u.failed = t.failed /\ u.joined = t.joined
      /\ u.alone = t.alone
  <2> DEFINE d == u.done
  <2>1. u = [t EXCEPT !.done = d]
    BY <1>6
  <2> HIDE DEF d, u
  <2> QED
    BY <1>2, <2>1 DEF TaskSet
<1>8. Len(u.done) = Len(done)
  <2>1. TasksTypeOK'
    BY ServeType DEF TInv
  <2>2. u \in TaskSet
    <3>1. tasks' \in Seq(TaskSet)
      BY <2>1 DEF TasksTypeOK, TaskSet
    <3>2. i \in DOMAIN tasks'
      BY <1>2, <1>5
    <3> QED
      BY <3>1, <3>2
  <2>3. u.done \in Seq(SUBSET Writes)
    BY <2>2 DEF TaskSet
  <2>4. DOMAIN u.done = 1 .. Len(u.done) /\ DOMAIN done = 1 .. Len(done)
        /\ Len(u.done) \in Nat /\ Len(done) \in Nat
    BY <1>4, <2>3
  <2>5. DOMAIN u.done = DOMAIN done
    BY <1>6
  <2>6. \A a, b \in Nat : 1 .. a = 1 .. b => a = b
    <3> SUFFICES ASSUME NEW a \in Nat, NEW b \in Nat, 1 .. a = 1 .. b PROVE a = b
      OBVIOUS
    <3>1. a \in 1 .. a \/ a = 0
      OBVIOUS
    <3>2. b \in 1 .. b \/ b = 0
      OBVIOUS
    <3>3. (a = 0 \/ a <= b) /\ (b = 0 \/ b <= a)
      BY <3>1, <3>2
    <3> QED
      BY <3>1, <3>2, <3>3
  <2> HIDE DEF t, u, done
  <2> QED
    BY <2>4, <2>5, <2>6
<1> QED
  BY <1>1, <1>2, <1>3, <1>5, <1>6, <1>7, <1>8 DEF Served

\* What hearing the oldest reply does.
LEMMA ResumeFacts ==
  ASSUME TInv, Resume, NEW reply, reply = answers[1]
  PROVE  /\ answers \in Seq(Replies) /\ answers # <<>> /\ reply \in Replies
         /\ reply.task \in DOMAIN tasks /\ tasks[reply.task] \in TaskSet
         /\ DOMAIN tasks' = DOMAIN tasks
         /\ \A j \in DOMAIN tasks : j # reply.task => tasks'[j] = tasks[j]
         /\ tasks'[reply.task] = Continued(tasks[reply.task], reply)
         /\ queue' = IF Over(tasks'[reply.task]) THEN queue ELSE Append(queue, reply.task)
         /\ answers' = Tail(answers)
         /\ UNCHANGED vars
<1>1. /\ answers \in Seq(Replies) /\ answers # <<>> /\ tasks \in Seq(TaskSet)
  BY DEF TInv, TasksTypeOK, TaskSet, Replies, Resume
<1>2. reply \in Replies /\ reply = Head(answers)
  BY <1>1
<1>3. reply.task \in DOMAIN tasks /\ tasks[reply.task] \in TaskSet
  BY <1>1, <1>2 DEF Replies
<1>4. /\ tasks' = [tasks EXCEPT ![reply.task] = Continued(tasks[reply.task], reply)]
      /\ queue' = IF Over(Continued(tasks[reply.task], reply)) THEN queue
                  ELSE Append(queue, reply.task)
      /\ answers' = Tail(answers)
      /\ UNCHANGED vars
  BY <1>2, Zenon DEF Resume, sessionVars
<1>5. tasks'[reply.task] = Continued(tasks[reply.task], reply)
  BY <1>3, <1>4
<1>6. /\ DOMAIN tasks' = DOMAIN tasks
      /\ \A j \in DOMAIN tasks : j # reply.task => tasks'[j] = tasks[j]
  BY <1>4
<1> QED
  BY <1>1, <1>2, <1>3, <1>4, <1>5, <1>6

\* The elements of a list after its head is taken, or one is appended.
LEMMA TailAt ==
  ASSUME NEW S, NEW s \in Seq(S), s # <<>>
  PROVE  /\ Len(s) \in Nat \ {0} /\ DOMAIN s = 1 .. Len(s) /\ 1 \in DOMAIN s
         /\ DOMAIN Tail(s) = 1 .. Len(s) - 1
         /\ \A m \in DOMAIN Tail(s) : m + 1 \in DOMAIN s /\ Tail(s)[m] = s[m + 1]
OBVIOUS

LEMMA AppendAt ==
  ASSUME NEW S, NEW s \in Seq(S), NEW x
  PROVE  /\ Len(s) \in Nat /\ DOMAIN s = 1 .. Len(s)
         /\ DOMAIN Append(s, x) = 1 .. Len(s) + 1
         /\ \A m \in DOMAIN s : Append(s, x)[m] = s[m]
         /\ Append(s, x)[Len(s) + 1] = x
OBVIOUS

\* Each request is one step of the session, and only apply-changes leaves the
\* session in the middle of something.
LEMMA RunEnds ==
  ASSUME NEW request, Run(request), op' # NoOp
  PROVE  request = "apply" /\ (op # NoOp => op.kind = "apply")
<1>1. request \in {"begin", "commit", "rollback", "query", "update"} => op' = NoOp
  BY DEF Run, Begin, Commit, Rollback, Finish, Query, Hand, Update
<1>2. request = "apply" /\ op # NoOp => op.kind = "apply"
  BY DEF Run, Apply, ApplyRefused, ApplyStart, ApplyChange, ApplyEnd
<1> QED
  BY <1>1, <1>2 DEF Run

LEMMA WaitingServe ==
  ASSUME BInv, Serve
  PROVE  Waiting'
<1> DEFINE i == Head(queue)
<1>0. Served(i)
  BY ServeFacts DEF BInv
<1> HIDE DEF i
<1>1. /\ queue \in Seq(DOMAIN tasks) /\ queue # <<>> /\ i = queue[1]
      /\ i \in DOMAIN tasks /\ tasks[i] \in TaskSet
      /\ Run(tasks[i].request)
      /\ \A j \in DOMAIN tasks : j # i => tasks'[j] = tasks[j]
      /\ tasks'[i].request = tasks[i].request
      /\ \/ /\ op' = NoOp /\ queue' = Tail(queue)
            /\ answers' = Append(answers, [task |-> i, request |-> tasks[i].request,
                                           ok |-> last'.ended = "ok"])
         \/ op' # NoOp /\ queue' = queue /\ answers' = answers
  BY <1>0 DEF Served
<1>2. answers \in Seq(Replies) /\ Waiting
  BY DEF BInv, TInv, TasksTypeOK, Replies
<1>3. \A j \in DOMAIN tasks : tasks'[j].request = tasks[j].request
  BY <1>1
<1>4. /\ \A m \in DOMAIN queue : queue[m] \in DOMAIN tasks
      /\ \A m \in DOMAIN answers : answers[m].task \in DOMAIN tasks
  <2>1. \A m \in DOMAIN answers : answers[m] \in Replies
    BY <1>2
  <2> QED
    BY <1>1, <2>1 DEF Replies
<1>5. CASE op' # NoOp /\ queue' = queue /\ answers' = answers
  <2>1. tasks[i].request = "apply"
    BY <1>1, <1>5, RunEnds
  <2>2. tasks'[i].request = "apply"
    BY <1>1, <1>3, <2>1
  <2> QED
    BY <1>1, <1>2, <1>3, <1>4, <1>5, <2>2 DEF Waiting, Over, i
<1>6. CASE op' = NoOp /\ queue' = Tail(queue)
           /\ answers' = Append(answers, [task |-> i, request |-> tasks[i].request,
                                          ok |-> last'.ended = "ok"])
  <2> DEFINE r == [task |-> i, request |-> tasks[i].request, ok |-> last'.ended = "ok"]
  <2>1. r.task = i /\ r.request = tasks[i].request
    OBVIOUS
  <2> HIDE DEF r
  <2>2. /\ Len(queue) \in Nat \ {0} /\ DOMAIN queue = 1 .. Len(queue) /\ 1 \in DOMAIN queue
        /\ DOMAIN queue' = 1 .. Len(queue) - 1
        /\ \A m \in DOMAIN queue' : m + 1 \in DOMAIN queue /\ queue'[m] = queue[m + 1]
    <3>1. queue' = Tail(queue) /\ queue \in Seq(DOMAIN tasks) /\ queue # <<>>
      BY <1>1, <1>6
    <3> QED
      BY <3>1, TailAt, Zenon
  <2>3. /\ Len(answers) \in Nat /\ DOMAIN answers = 1 .. Len(answers)
        /\ DOMAIN answers' = 1 .. Len(answers) + 1
        /\ \A m \in DOMAIN answers : answers'[m] = answers[m]
        /\ answers'[Len(answers) + 1] = r
    <3>1. answers' = Append(answers, r)
      BY <1>6 DEF r
    <3> QED
      BY <1>2, <3>1, AppendAt
  <2>4. \A a, b \in DOMAIN queue' : queue'[a] = queue'[b] => a = b
    <3>1. \A a, b \in DOMAIN queue' : queue'[a] = queue'[b] => a + 1 = b + 1
      BY <1>2, <2>2 DEF Waiting
    <3> QED
      BY <2>2, <3>1
  <2>5. \A a, b \in DOMAIN answers' : answers'[a].task = answers'[b].task => a = b
    <3>1. \A a \in DOMAIN answers : answers[a].task # i
      BY <1>1, <1>2, <2>2 DEF Waiting
    <3> QED
      BY <1>2, <2>1, <2>3, <3>1 DEF Waiting
  <2>6. \A a \in DOMAIN queue' : queue'[a] # i
    <3> SUFFICES ASSUME NEW a \in DOMAIN queue', queue'[a] = i PROVE FALSE
      OBVIOUS
    <3>1. queue[a + 1] = queue[1] /\ a + 1 \in DOMAIN queue
      BY <1>1, <2>2
    <3>2. a + 1 = 1
      BY <1>2, <2>2, <3>1 DEF Waiting
    <3> QED
      BY <2>2, <3>2
  <2>7. \A a \in DOMAIN queue', b \in DOMAIN answers' : queue'[a] # answers'[b].task
    <3> SUFFICES ASSUME NEW a \in DOMAIN queue', NEW b \in DOMAIN answers'
                 PROVE  queue'[a] # answers'[b].task
      OBVIOUS
    <3>1. CASE b \in DOMAIN answers
      BY <1>2, <2>2, <2>3, <3>1 DEF Waiting
    <3>2. CASE b = Len(answers) + 1
      BY <2>1, <2>3, <2>6, <3>2
    <3> QED
      BY <2>3, <3>1, <3>2
  <2>8. \A a \in DOMAIN queue' : ~Over(tasks'[queue'[a]])
    <3> SUFFICES ASSUME NEW a \in DOMAIN queue' PROVE ~Over(tasks'[queue'[a]])
      OBVIOUS
    <3>1. a + 1 \in DOMAIN queue /\ queue'[a] = queue[a + 1]
      BY <2>2
    <3>2. ~Over(tasks[queue[a + 1]]) /\ queue[a + 1] \in DOMAIN tasks
      BY <1>2, <1>4, <3>1 DEF Waiting
    <3> QED
      BY <1>3, <3>1, <3>2 DEF Over
  <2>9. \A b \in DOMAIN answers' : tasks'[answers'[b].task].request = answers'[b].request
    BY <1>1, <1>2, <1>3, <1>4, <2>1, <2>3 DEF Waiting
  <2> QED
    BY <1>6, <2>4, <2>5, <2>7, <2>8, <2>9 DEF Waiting
<1> QED
  BY <1>1, <1>5, <1>6

LEMMA WaitingResume ==
  ASSUME BInv, Resume
  PROVE  Waiting'
<1> DEFINE reply == answers[1]
           i == reply.task
<1>1. /\ answers \in Seq(Replies) /\ answers # <<>>
      /\ i \in DOMAIN tasks
      /\ \A j \in DOMAIN tasks : j # i => tasks'[j] = tasks[j]
      /\ queue' = IF Over(tasks'[i]) THEN queue ELSE Append(queue, i)
      /\ answers' = Tail(answers)
      /\ op' = op
  BY ResumeFacts DEF BInv, vars
<1>2. queue \in Seq(DOMAIN tasks) /\ Waiting
  BY DEF BInv, TInv, TasksTypeOK
<1>3. /\ Len(answers) \in Nat \ {0} /\ DOMAIN answers = 1 .. Len(answers) /\ 1 \in DOMAIN answers
      /\ DOMAIN answers' = 1 .. Len(answers) - 1
      /\ \A m \in DOMAIN answers' : m + 1 \in DOMAIN answers /\ answers'[m] = answers[m + 1]
  BY <1>1, TailAt, Zenon
<1>4. /\ \A m \in DOMAIN queue : queue[m] \in DOMAIN tasks /\ queue[m] # i
      /\ \A m \in DOMAIN answers : answers[m].task \in DOMAIN tasks
  <2>1. \A m \in DOMAIN answers : answers[m] \in Replies
    BY <1>1
  <2>2. \A m \in DOMAIN queue : queue[m] \in DOMAIN tasks
    BY <1>2
  <2> QED
    BY <1>2, <1>3, <2>1, <2>2 DEF Replies, Waiting
<1>5. \A b \in DOMAIN answers' : answers'[b].task # i
  <2> SUFFICES ASSUME NEW b \in DOMAIN answers', answers'[b].task = i PROVE FALSE
    OBVIOUS
  <2>1. answers[b + 1].task = answers[1].task /\ b + 1 \in DOMAIN answers
    BY <1>3
  <2>2. b + 1 = 1
    BY <1>2, <1>3, <2>1 DEF Waiting
  <2> QED
    BY <1>3, <2>2
<1> HIDE DEF i
<1>6. \A a, b \in DOMAIN answers' : answers'[a].task = answers'[b].task => a = b
  <2>1. \A a, b \in DOMAIN answers' : answers'[a].task = answers'[b].task => a + 1 = b + 1
    BY <1>2, <1>3 DEF Waiting
  <2> QED
    BY <1>3, <2>1
<1>7. \A b \in DOMAIN answers' : tasks'[answers'[b].task].request = answers'[b].request
  BY <1>1, <1>2, <1>3, <1>4, <1>5 DEF Waiting
<1>8. /\ \A a, b \in DOMAIN queue' : queue'[a] = queue'[b] => a = b
      /\ \A a \in DOMAIN queue' : ~Over(tasks'[queue'[a]])
      /\ \A a \in DOMAIN queue', b \in DOMAIN answers' : queue'[a] # answers'[b].task
      /\ queue # <<>> => queue' # <<>> /\ Head(queue') = Head(queue)
  <2>1. \A m \in DOMAIN queue : ~Over(tasks'[queue[m]])
    BY <1>1, <1>2, <1>4 DEF Waiting
  <2>2. \A a \in DOMAIN queue, b \in DOMAIN answers' : queue[a] # answers'[b].task
    BY <1>2, <1>3 DEF Waiting
  <2>3. CASE queue' = queue
    BY <1>2, <2>1, <2>2, <2>3 DEF Waiting
  <2>4. CASE queue' = Append(queue, i) /\ ~Over(tasks'[i])
    <3>1. /\ Len(queue) \in Nat /\ DOMAIN queue = 1 .. Len(queue)
          /\ DOMAIN queue' = 1 .. Len(queue) + 1
          /\ \A m \in DOMAIN queue : queue'[m] = queue[m]
          /\ queue'[Len(queue) + 1] = i
      BY <1>2, <2>4, AppendAt
    <3>2. \A a, b \in DOMAIN queue' : queue'[a] = queue'[b] => a = b
      BY <1>2, <1>4, <3>1 DEF Waiting
    <3>3. \A a \in DOMAIN queue' : ~Over(tasks'[queue'[a]])
      BY <2>1, <2>4, <3>1
    <3>4. \A a \in DOMAIN queue', b \in DOMAIN answers' : queue'[a] # answers'[b].task
      BY <1>5, <2>2, <3>1
    <3>5. queue # <<>> => queue' # <<>> /\ Head(queue') = Head(queue)
      BY <1>1, <1>2, <2>4
    <3> QED
      BY <3>2, <3>3, <3>4, <3>5
  <2> QED
    BY <1>1, <2>3, <2>4
<1>9. op' # NoOp => queue' # <<>> /\ tasks'[Head(queue')].request = "apply"
  <2> SUFFICES ASSUME op # NoOp PROVE queue' # <<>> /\ tasks'[Head(queue')].request = "apply"
    BY <1>1
  <2>1. queue # <<>> /\ tasks[Head(queue)].request = "apply"
    BY <1>2 DEF Waiting
  <2>2. Head(queue) = queue[1] /\ 1 \in DOMAIN queue
    BY <1>2, <2>1
  <2>3. tasks'[Head(queue)] = tasks[Head(queue)]
    BY <1>1, <1>4, <2>2
  <2> QED
    BY <1>8, <2>1, <2>3
<1> QED
  BY <1>6, <1>7, <1>8, <1>9 DEF Waiting

LEMMA WaitingReconnect ==
  ASSUME Reconnect
  PROVE  Waiting'
<1>1. queue' = <<>> /\ answers' = <<>> /\ op' = NoOp
  BY DEF Reconnect, Reopen
<1> QED
  BY <1>1 DEF Waiting

-----------------------------------------------------------------------------
(* What a command wrote.                                                    *)

LEMMA AccessStays ==
  ASSUME [Next]_vars
  PROVE  access' = access
<1>1. ASSUME NEW name, Hand(name) PROVE access' = access
  BY <1>1 DEF Hand, fixed
<1>2. CASE Begin \/ Commit \/ Rollback \/ Inspect \/ ApplyRefused \/ ApplyStart \/ ApplyEnd \/ Reopen
           \/ ApplyChange \/ ExplainPlan \/ ExplainAnalyze \/ UNCHANGED vars
  BY <1>2 DEF Begin, Commit, Rollback, Finish, Inspect, ApplyRefused, ApplyStart, ApplyEnd, Reopen,
       ApplyChange, ExplainPlan, ExplainAnalyze, fixed, vars
<1>3. CASE Query \/ StreamQuery
  BY <1>1, <1>3 DEF Query, StreamQuery, ExportCursor, fixed
<1> QED
  BY <1>2, <1>3 DEF Next

LEMMA WroteAll ==
  ASSUME NEW t, NEW k \in DOMAIN t.done
  PROVE  t.done[k] \subseteq Wrote(t)
BY DEF Wrote

LEMMA WroteTypes ==
  ASSUME NEW t \in TaskSet
  PROVE  /\ Len(t.done) \in Nat /\ DOMAIN t.done = 1 .. Len(t.done)
         /\ \A k \in DOMAIN t.done : t.done[k] \subseteq Writes
         /\ t.done # <<>> => Len(t.done) \in DOMAIN t.done
         /\ t.done = <<>> => Wrote(t) = {}
<1>1. t.done \in Seq(SUBSET Writes)
  BY DEF TaskSet
<1>2. t.done = <<>> => Wrote(t) = {}
  BY DEF Wrote
<1>3. /\ Len(t.done) \in Nat /\ DOMAIN t.done = 1 .. Len(t.done)
      /\ \A k \in DOMAIN t.done : t.done[k] \in SUBSET Writes
      /\ t.done # <<>> => Len(t.done) # 0
  BY <1>1
<1>4. \A n \in Nat : n # 0 => n \in 1 .. n
  OBVIOUS
<1> QED
  BY <1>2, <1>3, <1>4

LEMMA OneMore ==
  ASSUME NEW t \in TaskSet, NEW done, done = Append(t.done, {})
  PROVE  /\ Len(t.done) \in Nat /\ DOMAIN t.done = 1 .. Len(t.done)
         /\ DOMAIN done = 1 .. Len(t.done) + 1 /\ Len(done) = Len(t.done) + 1
         /\ \A k \in DOMAIN t.done : done[k] = t.done[k]
         /\ done[Len(t.done) + 1] = {}
<1> DEFINE old == t.done
<1>1. old \in Seq(SUBSET Writes) /\ {} \in SUBSET Writes
  BY DEF TaskSet
<1>2. done = Append(old, {})
  OBVIOUS
<1> HIDE DEF old
<1>3. /\ Len(old) \in Nat /\ DOMAIN old = 1 .. Len(old)
      /\ DOMAIN done = 1 .. Len(old) + 1 /\ Len(done) = Len(old) + 1
      /\ \A k \in DOMAIN old : done[k] = old[k]
      /\ done[Len(old) + 1] = {}
  BY <1>1, <1>2
<1> QED
  BY <1>3 DEF old

\* The writes of t were all issued.
AllIssued(t) == \A k \in DOMAIN t.done : \A w \in t.done[k] : ~Fresh(w)

LEMMA IssuedApart ==
  ASSUME NEW t \in TaskSet, AllIssued(t),
         NEW W \in SUBSET Writes, \A w \in W : Fresh(w)
  PROVE  /\ Wrote(t) \cap W = {}
         /\ \A k \in DOMAIN t.done : t.done[k] \cap W = {}
BY DEF AllIssued, Wrote

LEMMA AllIssuedStays ==
  ASSUME IInv, [Next]_vars, NEW t \in TaskSet, AllIssued(t)
  PROVE  \A k \in DOMAIN t.done : \A w \in t.done[k] : ~Fresh(w)'
<1> SUFFICES ASSUME NEW k \in DOMAIN t.done, NEW w \in t.done[k] PROVE ~Fresh(w)'
  OBVIOUS
<1>1. w \in Writes
  BY WroteTypes
<1>2. ~Fresh(w)
  BY DEF AllIssued
<1> QED
  BY <1>1, <1>2, IssuedStays

\* What is said of a command that is over holds for good.
LEMMA OverStays ==
  ASSUME BInv, [Next]_vars, NEW j \in DOMAIN tasks, tasks[j].alone, Over(tasks[j]),
         tasks'[j] = tasks[j]
  PROVE  Held1(j)'
<1> DEFINE t == tasks[j]
<1>1. /\ IInv /\ Sound(db) /\ t \in TaskSet /\ Held1(j)
  <2>1. IInv /\ Sound(db)
    BY HeldIsSound DEF BInv, IInv, Held
  <2>2. tasks \in Seq(TaskSet) /\ Held1(j)
    BY DEF BInv, Bulk, TInv, TasksTypeOK, TaskSet
  <2> QED
    BY <2>1, <2>2
<1>2. AllIssued(t)
  BY <1>1 DEF Held1, AllIssued
<1>3. PICK W \in SUBSET Writes : (\A w \in W : Fresh(w)) /\ Moves(db, db', W)
  BY <1>1, NextHolds DEF Settling
<1>4. /\ Wrote(t) \cap W = {}
      /\ \A k \in DOMAIN t.done : t.done[k] \cap W = {}
  BY <1>1, <1>2, <1>3, IssuedApart
<1>5. \A k \in DOMAIN t.done : \A w \in t.done[k] : ~Fresh(w)'
  BY <1>1, <1>2, AllIssuedStays
<1>6. ASSUME OwnReplace(t)
      PROVE  /\ Whole(Wrote(t), db')
             /\ t.failed = "none" => Wrote(t) \subseteq db'.durable
             /\ t.failed \in {"begin", "update"} => Vanished(Wrote(t), db')
  <2>1. ReplaceOver(t)
    BY <1>1, <1>6 DEF Held1
  <2> HIDE DEF t
  <2> QED
    BY <1>1, <1>3, <1>4, <2>1, FatesStay DEF ReplaceOver, Saved
<1>7. ASSUME t.kind = "import"
      PROVE  /\ \A k \in DOMAIN t.done : Whole(t.done[k], db')
             /\ \A k \in 2 .. Len(t.done) : Ordered(t.done[k - 1], t.done[k], db')
             /\ t.failed = "none" /\ ~t.joined =>
                  IF access' = "sandbox" THEN Vanished(Wrote(t), db')
                  ELSE Wrote(t) \subseteq db'.durable
  <2>1. ImportOver(t)
    BY <1>1, <1>7 DEF Held1
  <2>2. access' = access
    BY AccessStays
  <2>3. Len(t.done) \in Nat /\ DOMAIN t.done = 1 .. Len(t.done)
    BY <1>1, WroteTypes
  <2> HIDE DEF t
  <2>4. \A k \in DOMAIN t.done : Whole(t.done[k], db')
    BY <1>1, <1>3, <1>4, <2>1, FatesStay DEF ImportOver, InOrder
  <2>5. ASSUME NEW k \in 2 .. Len(t.done)
        PROVE  Ordered(t.done[k - 1], t.done[k], db')
    <3>1. k \in DOMAIN t.done /\ k - 1 \in DOMAIN t.done
      BY <2>3
    <3> QED
      BY <1>1, <1>3, <1>4, <2>1, <3>1, OrderStays DEF ImportOver, InOrder
  <2>6. t.failed = "none" /\ ~t.joined =>
          IF access' = "sandbox" THEN Vanished(Wrote(t), db') ELSE Wrote(t) \subseteq db'.durable
    BY <1>1, <1>3, <1>4, <2>1, <2>2, FatesStay DEF ImportOver, Saved, Sandboxed
  <2> QED
    BY <2>4, <2>5, <2>6
<1>8. tasks'[j] = t
  OBVIOUS
<1>9. Over(tasks[j])' /\ AllIssued(tasks[j])'
  BY <1>5, <1>8 DEF Over, AllIssued
<1>10. (OwnReplace(tasks[j]) => ReplaceOver(tasks[j]))'
  BY <1>6, <1>8 DEF ReplaceOver, Saved, OwnReplace
<1>11. (tasks[j].kind = "import" => ImportOver(tasks[j]))'
  BY <1>7, <1>8 DEF ImportOver, InOrder, Saved, Sandboxed
<1> QED
  BY <1>9, <1>10, <1>11 DEF Held1, AllIssued

-----------------------------------------------------------------------------
(* The editor's steps.                                                      *)

LEMMA BulkStart ==
  ASSUME BInv, NEW kind \in Kinds, Start(kind)
  PROVE  Bulk'
<1>0. tasks \in Seq(TaskSet)
  BY DEF BInv, TInv, TasksTypeOK, TaskSet
<1> PICK n \in Nat : n = Len(tasks)
  BY <1>0
<1> PICK new : new = Task(kind, FirstRequest(kind), Idle /\ Agreed)
  OBVIOUS
<1> DEFINE old == [j \in DOMAIN tasks |-> Disturbed(tasks[j])]
<1>1. /\ DOMAIN tasks = 1 .. n
      /\ \A j \in DOMAIN tasks : tasks[j] \in TaskSet
  BY <1>0
<1>2. tasks' = Append(old, new) /\ queue' = Append(queue, n + 1) /\ answers' = answers
      /\ UNCHANGED vars
  BY Zenon DEF Start, sessionVars
<1>3. /\ DOMAIN tasks' = 1 .. n + 1 /\ tasks'[n + 1] = new
      /\ \A j \in DOMAIN tasks : tasks'[j] = Disturbed(tasks[j])
  <2>1. old \in Seq({Disturbed(tasks[j]) : j \in DOMAIN tasks}) /\ Len(old) = n
    BY <1>0, <1>1, FunctionIsSeq
  <2>2. \A j \in DOMAIN tasks : old[j] = Disturbed(tasks[j])
    OBVIOUS
  <2> HIDE DEF old
  <2> QED
    BY <1>1, <1>2, <2>1, <2>2
<1>4. ASSUME NEW j \in DOMAIN tasks, tasks'[j].alone PROVE Held1(j)'
  <2>1. tasks[j].alone /\ Over(tasks[j]) /\ tasks'[j] = tasks[j]
    <3>1. tasks[j] \in TaskSet /\ tasks'[j] = Disturbed(tasks[j])
      BY <1>1, <1>3
    <3> DEFINE t == tasks[j]
               still == t.alone /\ Over(t)
    <3>2. tasks'[j] = [t EXCEPT !.alone = still] /\ still \in BOOLEAN
      BY <3>1 DEF Disturbed
    <3> HIDE DEF still
    <3>3. still
      BY <1>4, <3>1, <3>2 DEF TaskSet
    <3>4. t.alone /\ Over(t)
      BY <3>3 DEF still
    <3>5. still = TRUE /\ t.alone = TRUE
      BY <3>1, <3>2, <3>3, <3>4 DEF TaskSet
    <3>6. tasks'[j] = t
      BY <3>1, <3>2, <3>5 DEF TaskSet
    <3> QED
      BY <3>4, <3>6
  <2>2. [Next]_vars
    BY <1>2
  <2> QED
    BY <2>1, <2>2, OverStays
<1>5. ASSUME new.alone PROVE Held1(n + 1)'
  <2>1. queue = <<>> /\ answers = <<>> /\ Agreed /\ op = NoOp
    BY <1>5 DEF Task, Idle, BInv, Waiting
  <2>2. ~believed => ~flag
    BY <2>1 DEF BInv, TInv, WillShow
  <2>3. queue' = <<n + 1>> /\ answers' = <<>>
    BY <1>2, <2>1
  <2>4. /\ new.kind = kind /\ new.request = FirstRequest(kind) /\ new.failed = "none"
        /\ new.joined = believed
        /\ new.done = IF FirstRequest(kind) \in {"query", "update", "apply"} THEN <<{}>> ELSE <<>>
    BY DEF Task
  <2>5. tasks'[n + 1] = new
    BY <1>3
  <2>6. ~Over(new)
    BY <2>4 DEF Over, FirstRequest, Kinds
  <2>7. Asked(n + 1)' /\ ~Told(n + 1, TRUE)' /\ ~Told(n + 1, FALSE)'
    BY <2>3 DEF Asked, Told
  <2>8. \A k \in DOMAIN new.done : new.done[k] = {}
    BY <2>4
  <2>9. Wrote(new) = {}
    BY <2>8 DEF Wrote
  <2>10. (OwnReplace(tasks[n + 1]) => ReplaceAsked(tasks[n + 1]))'
    <3> SUFFICES ASSUME OwnReplace(new) PROVE ReplaceAsked(tasks[n + 1])'
      BY <2>5 DEF OwnReplace
    <3>1. new.request = "begin" /\ new.done = <<>> /\ ~flag
      BY <2>2, <2>4 DEF OwnReplace, FirstRequest
    <3>2. ~InTxn(db)
      BY <2>1, <3>1 DEF Agreed, InTxn
    <3>3. flag' = flag /\ db' = db
      BY <1>2 DEF vars
    <3> QED
      BY <2>4, <2>5, <3>1, <3>2, <3>3 DEF ReplaceAsked, InTxn
  <2>11. (tasks[n + 1].kind = "import" => ImportAsked(tasks[n + 1]))'
    <3> SUFFICES ASSUME kind = "import" PROVE ImportAsked(tasks[n + 1])'
      BY <2>4, <2>5
    <3>1. new.request = "apply" /\ new.done = <<{}>> /\ (~new.joined => ~flag)
      BY <2>2, <2>4 DEF FirstRequest
    <3>2. Len(new.done) = 1 /\ new.done[1] = {} /\ new.done # <<>>
      <4>1. Len(<<{}>>) = 1 /\ <<{}>>[1] = {} /\ <<{}>> # <<>>
        OBVIOUS
      <4> QED
        BY <3>1, <4>1, Zenon
    <3>3. UNCHANGED <<flag, db, op, access>>
      BY <1>2 DEF vars
    <3>4. Agreed' /\ op' = NoOp
      BY <2>1, <3>3 DEF Agreed, InTxn
    <3>5. ImportGoing(tasks[n + 1])'
      BY <2>4, <2>5, <3>1, <3>2, <3>3 DEF ImportGoing
    <3>6. Through(tasks[n + 1], Len(tasks[n + 1].done) - 1)'
      <4>0. Len(new.done) - 1 = 0 /\ \A k \in 1 .. 0 : FALSE
        BY <3>2
      <4>1. \A k \in 1 .. Len(new.done) - 1 : FALSE
        BY <4>0
      <4> QED
        BY <2>5, <4>1 DEF Through
    <3> QED
      BY <2>5, <3>2, <3>4, <3>5, <3>6 DEF ImportAsked
  <2> QED
    BY <2>5, <2>6, <2>7, <2>8, <2>10, <2>11 DEF Held1, Over, Solo, OwnReplace
<1> QED
  BY <1>1, <1>3, <1>4, <1>5 DEF Bulk

LEMMA BulkReconnect ==
  ASSUME BInv, Reconnect
  PROVE  Bulk'
<1>1. \A j \in DOMAIN tasks : tasks[j] \in TaskSet
  <2>1. tasks \in Seq(TaskSet)
    BY DEF BInv, TInv, TasksTypeOK, TaskSet
  <2> QED
    BY <2>1
<1>2. /\ DOMAIN tasks' = DOMAIN tasks
      /\ \A j \in DOMAIN tasks :
           tasks'[j] = IF Over(tasks[j]) THEN tasks[j]
                       ELSE [tasks[j] EXCEPT !.request = "end",
                                             !.failed = IF @ = "none" THEN tasks[j].request ELSE @]
  BY DEF Reconnect
<1>3. [Next]_vars
  BY Zenon DEF Reconnect, Next
<1>4. IInv /\ Sound(db)
  BY HeldIsSound DEF BInv, IInv, Held
<1>5. /\ db'.dirty = {} /\ db'.durable = db.durable /\ Moves(db, db', {})
      /\ access' = access
  BY <1>3, <1>4, EndedMoves, AccessStays DEF Reconnect, Reopen
<1> SUFFICES ASSUME NEW j \in DOMAIN tasks, tasks'[j].alone PROVE Held1(j)'
  BY <1>2 DEF Bulk
<1> DEFINE t == tasks[j]
<1>6. CASE Over(t)
  BY <1>2, <1>3, <1>6, OverStays
<1>7. CASE ~Over(t)
  <2>1. /\ t \in TaskSet
        /\ tasks'[j] = [t EXCEPT !.request = "end",
                                 !.failed = IF @ = "none" THEN t.request ELSE @]
    BY <1>1, <1>2, <1>7
  <2> DEFINE failed == IF t.failed = "none" THEN t.request ELSE t.failed
  <2>2. /\ tasks'[j].request = "end" /\ tasks'[j].failed = failed
        /\ tasks'[j].kind = t.kind /\ tasks'[j].joined = t.joined
        /\ tasks'[j].done = t.done /\ t.alone
    BY <2>1 DEF TaskSet
  <2>3. Held1(j)
    BY <2>2 DEF BInv, Bulk
  <2>4. failed # "none"
    <3>1. Solo(j)
      BY <1>7, <2>3 DEF Held1
    <3>2. t.request # "none"
      <4>1. t.request \in Requests \cup {"end"}
        BY <2>1 DEF TaskSet
      <4> QED
        BY <4>1 DEF Requests
    <3> QED
      BY <3>2
  <2>5. Asked(j) \/ Told(j, TRUE) \/ Told(j, FALSE)
    BY <1>7, <2>3 DEF Held1, Solo
  <2>6. AllIssued(tasks[j])'
    <3>1. AllIssued(t)
      BY <2>3 DEF Held1, AllIssued
    <3>2. \A k \in DOMAIN t.done : \A w \in t.done[k] : ~Fresh(w)'
      BY <1>3, <1>4, <2>1, <3>1, AllIssuedStays
    <3> QED
      BY <2>2, <3>2 DEF AllIssued
  <2>7. Wrote(tasks'[j]) = Wrote(t)
    BY <2>2 DEF Wrote
  <2> HIDE DEF t
  <2>8. /\ db.dirty \cap db.durable = {}
        /\ \A ws : ws \cap {} = {}
    BY <1>4 DEF Sound
  <2>9. ASSUME OwnReplace(t)
        PROVE  /\ Whole(Wrote(t), db')
               /\ failed \in {"begin", "update"} => Vanished(Wrote(t), db')
    <3>1. \/ ReplaceAsked(t)
          \/ \E ok \in BOOLEAN : ReplaceTold(t, ok)
      BY <1>7, <2>3, <2>5, <2>9 DEF Held1, t
    <3>2. t.done = <<>> => Wrote(t) = {}
      BY <2>1, WroteTypes
    <3>3. \/ Whole(Wrote(t), db) /\ failed \notin {"begin", "update"}
          \/ Wrote(t) \subseteq db.dirty
          \/ Wrote(t) \cap db.durable = {}
      BY <3>1, <3>2 DEF ReplaceAsked, ReplaceTold, InHand, Gone, Vanished, Saved, Whole
    <3> HIDE DEF failed
    <3>4. CASE Whole(Wrote(t), db) /\ failed \notin {"begin", "update"}
      BY <1>4, <1>5, <2>8, <3>4, FatesStay
    <3>5. CASE Wrote(t) \subseteq db.dirty \/ Wrote(t) \cap db.durable = {}
      BY <1>5, <2>8, <3>5 DEF Whole, Vanished
    <3> QED
      BY <3>3, <3>4, <3>5
  <2>10. (OwnReplace(tasks[j]) => ReplaceOver(tasks[j]))'
    BY <2>2, <2>4, <2>7, <2>9 DEF OwnReplace, ReplaceOver
  <2>11. ASSUME t.kind = "import"
         PROVE  /\ \A k \in DOMAIN t.done : Whole(t.done[k], db')
                /\ \A k \in 2 .. Len(t.done) : Ordered(t.done[k - 1], t.done[k], db')
    <3>1. \/ ImportAsked(t)
          \/ ImportTold(t, TRUE)
          \/ ImportTold(t, FALSE)
      BY <1>7, <2>3, <2>5, <2>11 DEF Held1, t
    <3>2. Len(t.done) \in Nat /\ DOMAIN t.done = 1 .. Len(t.done)
      BY <2>1, WroteTypes
    <3>3. CASE ImportTold(t, FALSE)
      <4>1. InOrder(t)
        BY <3>3 DEF ImportTold
      <4>2. \A k \in 2 .. Len(t.done) : k \in DOMAIN t.done /\ k - 1 \in DOMAIN t.done
        BY <3>2
      <4> QED
        BY <1>4, <1>5, <2>8, <4>1, <4>2, FatesStay, OrderStays DEF InOrder
    <3>4. CASE ImportAsked(t) \/ ImportTold(t, TRUE)
      <4>1. \A k \in DOMAIN t.done : t.done[k] \subseteq db.durable \/ Vanished(t.done[k], db')
        <5>1. Through(t, Len(t.done) - 1)
          BY <3>2, <3>4 DEF ImportAsked, ImportTold, Through
        <5>2. \A k \in 1 .. Len(t.done) - 1 :
                t.done[k] \subseteq db.durable \/ Vanished(t.done[k], db')
          BY <1>5, <2>8, <5>1 DEF Through, Vanished
        <5>3. Len(t.done) \in DOMAIN t.done
                => LET d == t.done[Len(t.done)] IN d \subseteq db.durable \/ Vanished(d, db')
          BY <1>4, <1>5, <2>8, <3>2, <3>4
             DEF ImportAsked, ImportTold, Through, Vanished, IInv, BatchCovered
        <5> QED
          BY <3>2, <5>2, <5>3
      <4>2. ASSUME NEW k \in 2 .. Len(t.done)
            PROVE  t.done[k - 1] \subseteq db.durable \/ Vanished(t.done[k], db')
        <5>1. k \in DOMAIN t.done /\ k - 1 \in DOMAIN t.done /\ k - 1 \in 1 .. Len(t.done) - 1
          BY <3>2
        <5>2. CASE Sandboxed \/ flag
          <6>1. ImportAsked(t) => op.done \subseteq db.dirty \/ op = NoOp
            BY <1>4 DEF ImportAsked, IInv, BatchCovered
          <6>2. \A m \in DOMAIN t.done : Vanished(t.done[m], db')
            BY <1>5, <2>8, <3>2, <3>4, <5>2, <6>1 DEF ImportAsked, ImportTold, Through, Vanished
          <6> QED
            BY <5>1, <6>2
        <5>3. CASE ~Sandboxed /\ ~flag
          BY <3>2, <3>4, <5>1, <5>3 DEF ImportAsked, ImportTold, Through
        <5> QED
          BY <5>2, <5>3
      <4> QED
        BY <1>5, <4>1, <4>2 DEF Whole, Ordered, Vanished
    <3> QED
      BY <3>1, <3>3, <3>4
  <2>12. (tasks[j].kind = "import" => ImportOver(tasks[j]))'
    BY <2>2, <2>4, <2>11 DEF ImportOver, InOrder
  <2>13. Over(tasks[j])'
    BY <2>2 DEF Over
  <2> QED
    BY <2>6, <2>10, <2>12, <2>13 DEF Held1, AllIssued
<1> QED
  BY <1>6, <1>7

\* What a replace asks for next, and where its writes are then.
LEMMA ReplaceContinues ==
  ASSUME IInv, NEW t \in TaskSet, OwnReplace(t), NEW reply \in [task : Nat, request : Requests, ok : BOOLEAN],
         reply.request = t.request, ReplaceTold(t, reply.ok),
         NEW u, u = Continued(t, reply)
  PROVE  /\ OwnReplace(u)
         /\ Over(u) => ReplaceOver(u)
         /\ ~Over(u) => ReplaceAsked(u)
<1> DEFINE next == After(t, reply.ok)
           failed == IF reply.ok \/ t.failed # "none" THEN t.failed ELSE reply.request
           done == IF next \in {"update", "apply"} THEN Append(t.done, {}) ELSE t.done
<1>1. /\ u.kind = "replace" /\ ~u.joined
      /\ u.request = next /\ u.failed = failed /\ u.done = done
  BY DEF Continued, TaskSet, OwnReplace
<1>2. Wrote(u) = Wrote(t) /\ (next = "update" => u.done # <<>>)
  <2>1. t.done \in Seq(SUBSET Writes)
    BY DEF TaskSet
  <2>2. CASE next \in {"update", "apply"}
    <3>1. u.done = Append(t.done, {})
      BY <1>1, <2>2
    <3>2. /\ DOMAIN t.done = 1 .. Len(t.done) /\ Len(t.done) \in Nat
          /\ DOMAIN u.done = 1 .. Len(t.done) + 1
          /\ \A k \in DOMAIN t.done : u.done[k] = t.done[k]
          /\ u.done[Len(t.done) + 1] = {}
      BY <2>1, <3>1, AppendAt
    <3>3. Wrote(u) \subseteq Wrote(t)
      BY <3>2 DEF Wrote
    <3>4. Wrote(t) \subseteq Wrote(u)
      BY <3>2 DEF Wrote
    <3>5. u.done # <<>>
      <4>1. Len(t.done) + 1 \in DOMAIN u.done
        BY <3>2
      <4> QED
        BY <4>1
    <3> QED
      BY <3>3, <3>4, <3>5
  <2>3. CASE next \notin {"update", "apply"}
    BY <1>1, <2>3 DEF Wrote
  <2> QED
    BY <2>2, <2>3
<1>3. t.request \in {"begin", "update", "commit", "rollback"} /\ reply.ok \in BOOLEAN
  BY DEF ReplaceTold
<1>4. db.dirty \cap db.durable = {}
  BY DEF IInv, WritesAccounted
<1> HIDE DEF done
<1>5. CASE t.request = "begin"
  <2>1. t.failed = "none" /\ t.done = <<>> /\ Wrote(t) = {}
    BY <1>5, WroteTypes DEF ReplaceTold
  <2>2. CASE reply.ok
    <3>1. next = "update" /\ failed = "none" /\ flag /\ db.txn = "open"
      BY <1>5, <2>1, <2>2 DEF After, ReplaceTold, OwnReplace
    <3> QED
      BY <1>1, <1>2, <2>1, <3>1 DEF ReplaceAsked, InHand, Over, OwnReplace
  <2>3. CASE ~reply.ok
    <3>1. next = "end" /\ failed = "begin"
      BY <1>5, <2>1, <2>3 DEF After, OwnReplace
    <3> QED
      BY <1>1, <1>2, <2>1, <3>1 DEF ReplaceOver, Over, OwnReplace, Whole, Vanished
  <2> QED
    BY <1>3, <2>2, <2>3
<1>6. CASE t.request = "update"
  <2>1. t.failed = "none" /\ flag
    BY <1>6 DEF ReplaceTold
  <2>2. CASE reply.ok
    <3>1. next \in {"update", "commit"} /\ failed = "none" /\ InHand(t)
      BY <1>6, <2>1, <2>2 DEF After, ReplaceTold, OwnReplace
    <3> QED
      BY <1>1, <1>2, <3>1 DEF ReplaceAsked, InHand, Over, OwnReplace
  <2>3. CASE ~reply.ok
    <3>1. next = "rollback"
      BY <1>6, <2>3 DEF After, Undo, OwnReplace
    <3>2. failed = "update"
      BY <1>6, <2>1, <2>3
    <3>3. Gone(Wrote(t))
      BY <1>6, <2>3 DEF ReplaceTold
    <3> QED
      BY <1>1, <1>2, <2>1, <3>1, <3>2, <3>3 DEF ReplaceAsked, Over, OwnReplace, Gone
  <2> QED
    BY <1>3, <2>2, <2>3
<1>7. CASE t.request = "commit"
  <2>1. next = "end" /\ failed = IF reply.ok THEN "none" ELSE "commit"
    BY <1>7 DEF After, ReplaceTold, OwnReplace
  <2>2. Whole(Wrote(t), db) /\ (reply.ok => Saved(Wrote(t)))
    BY <1>7 DEF ReplaceTold, Saved, Whole
  <2> QED
    BY <1>1, <1>2, <2>1, <2>2 DEF ReplaceOver, Over, OwnReplace, Saved
<1>8. CASE t.request = "rollback"
  <2>1. next = "end" /\ failed = "update" /\ Vanished(Wrote(t), db)
    BY <1>8 DEF After, ReplaceTold, OwnReplace
  <2>2. Whole(Wrote(t), db)
    BY <2>1 DEF Vanished, Whole
  <2> QED
    BY <1>1, <1>2, <2>1, <2>2 DEF ReplaceOver, Over, OwnReplace
<1> QED
  BY <1>3, <1>5, <1>6, <1>7, <1>8

\* Batches that went through are whole, and in order.
LEMMA ThroughInOrder ==
  ASSUME IInv, NEW t \in TaskSet, Through(t, Len(t.done))
  PROVE  InOrder(t)
<1>1. Len(t.done) \in Nat /\ DOMAIN t.done = 1 .. Len(t.done)
  BY WroteTypes
<1>2. db.dirty \cap db.durable = {}
  BY DEF IInv, WritesAccounted
<1>3. \A k \in DOMAIN t.done : Whole(t.done[k], db)
  BY <1>1, <1>2 DEF Through, Whole, Vanished
<1>4. ASSUME NEW k \in 2 .. Len(t.done)
      PROVE  Ordered(t.done[k - 1], t.done[k], db)
  <2>1. k \in 1 .. Len(t.done) /\ k - 1 \in 1 .. Len(t.done)
    BY <1>1
  <2> QED
    BY <2>1 DEF Through, Ordered
<1> QED
  BY <1>3, <1>4 DEF InOrder

\* What an import asks for next, and where its writes are then.
LEMMA ImportContinues ==
  ASSUME IInv, NEW t \in TaskSet, t.kind = "import",
         NEW reply \in [task : Nat, request : Requests, ok : BOOLEAN],
         reply.request = t.request, ImportTold(t, reply.ok), op = NoOp,
         NEW u, u = Continued(t, reply)
  PROVE  /\ u.kind = "import"
         /\ Over(u) => ImportOver(u)
         /\ ~Over(u) => ImportAsked(u)
<1>1. /\ u.kind = "import" /\ u.joined = t.joined /\ u.request = After(t, reply.ok)
      /\ u.failed = IF reply.ok THEN "none" ELSE "apply"
      /\ u.done = IF After(t, reply.ok) \in {"update", "apply"} THEN Append(t.done, {}) ELSE t.done
  BY DEF Continued, TaskSet, ImportTold
<1>2. After(t, reply.ok) \in {"apply", "end"} /\ (After(t, reply.ok) = "apply" => reply.ok)
  BY DEF After
<1>3. Len(t.done) \in Nat /\ DOMAIN t.done = 1 .. Len(t.done)
  BY WroteTypes
<1>4. CASE After(t, reply.ok) = "end"
  <2>1. u.done = t.done /\ Over(u)
    BY <1>1, <1>4 DEF Over
  <2>2. Wrote(u) = Wrote(t)
    BY <2>1 DEF Wrote
  <2>3. InOrder(u)
    <3>1. InOrder(t)
      BY ThroughInOrder DEF ImportTold
    <3> QED
      BY <2>1, <3>1 DEF InOrder
  <2>4. ASSUME u.failed = "none", ~u.joined
        PROVE  IF Sandboxed THEN Vanished(Wrote(u), db) ELSE Saved(Wrote(u))
    <3>1. reply.ok
      BY <1>1, <2>4
    <3>2. ~flag /\ Through(t, Len(t.done))
      BY <1>1, <2>4, <3>1 DEF ImportTold
    <3>3. CASE Sandboxed
      <4>1. \A k \in DOMAIN t.done : Vanished(t.done[k], db)
        BY <1>3, <3>2, <3>3 DEF Through
      <4> QED
        BY <2>2, <3>3, <4>1 DEF Wrote, Vanished
    <3>4. CASE ~Sandboxed
      <4>1. \A k \in DOMAIN t.done : t.done[k] \subseteq db.durable
        BY <1>3, <3>2, <3>4 DEF Through
      <4> QED
        BY <2>2, <3>4, <4>1 DEF Wrote, Saved
    <3> QED
      BY <3>3, <3>4
  <2> QED
    BY <1>1, <2>1, <2>3, <2>4 DEF ImportOver
<1>5. CASE After(t, reply.ok) = "apply"
  <2>1. u.done = Append(t.done, {}) /\ ~Over(u) /\ u.request = "apply" /\ u.failed = "none"
    BY <1>1, <1>2, <1>5 DEF Over
  <2>2. /\ Len(u.done) = Len(t.done) + 1
        /\ \A k \in DOMAIN t.done : u.done[k] = t.done[k]
        /\ u.done[Len(u.done)] = {} /\ u.done # <<>>
    <3>1. t.done \in Seq(SUBSET Writes) /\ {} \in SUBSET Writes
      BY DEF TaskSet
    <3> QED
      BY <2>1, <3>1
  <2>3. Agreed /\ Through(t, Len(t.done)) /\ (~t.joined => ~flag)
    BY <1>2, <1>5 DEF ImportTold
  <2>4. Through(u, Len(u.done) - 1)
    <3>1. Len(u.done) - 1 = Len(t.done)
      BY <1>3, <2>2
    <3> QED
      BY <1>3, <2>2, <2>3, <3>1 DEF Through
  <2> QED
    BY <1>1, <2>1, <2>2, <2>3, <2>4 DEF ImportAsked, ImportGoing
<1> QED
  BY <1>2, <1>4, <1>5

\* A reply makes a command ask for one more write, or none.
LEMMA ContinuedDone ==
  ASSUME NEW t \in TaskSet, NEW reply, NEW u, u = Continued(t, reply)
  PROVE  \A k \in DOMAIN u.done : (k \in DOMAIN t.done /\ u.done[k] = t.done[k]) \/ u.done[k] = {}
<1> DEFINE next == After(t, reply.ok)
           failed == IF reply.ok \/ t.failed # "none" THEN t.failed ELSE reply.request
           done == IF next \in {"update", "apply"} THEN Append(t.done, {}) ELSE t.done
<1>1. u = [t EXCEPT !.request = next, !.failed = failed, !.done = done]
  BY DEF Continued
<1>2. u.done = done
  <2> HIDE DEF done, next, failed
  <2> QED
    BY <1>1 DEF TaskSet
<1>3. CASE u.done = t.done
  BY <1>3
<1>4. CASE u.done = Append(t.done, {})
  <2>1. /\ DOMAIN u.done = 1 .. Len(t.done) + 1 /\ DOMAIN t.done = 1 .. Len(t.done)
        /\ Len(t.done) \in Nat
        /\ \A k \in DOMAIN t.done : u.done[k] = t.done[k]
        /\ u.done[Len(t.done) + 1] = {}
    BY <1>4, OneMore
  <2> QED
    BY <2>1
<1> QED
  BY <1>2, <1>3, <1>4

LEMMA BulkResume ==
  ASSUME BInv, Resume
  PROVE  Bulk'
<1> PICK reply : reply = answers[1]
  OBVIOUS
<1> PICK i : i = reply.task
  OBVIOUS
<1>1. /\ answers \in Seq(Replies) /\ answers # <<>> /\ reply \in Replies
      /\ i \in DOMAIN tasks /\ tasks[i] \in TaskSet
      /\ DOMAIN tasks' = DOMAIN tasks
      /\ \A j \in DOMAIN tasks : j # i => tasks'[j] = tasks[j]
      /\ tasks'[i] = Continued(tasks[i], reply)
      /\ queue' = IF Over(tasks'[i]) THEN queue ELSE Append(queue, i)
      /\ answers' = Tail(answers)
      /\ UNCHANGED vars
  BY ResumeFacts DEF BInv
<1>2. /\ tasks[i].request = reply.request /\ ~Over(tasks[i])
      /\ reply.request \in Requests /\ reply.ok \in BOOLEAN
  <2>1. 1 \in DOMAIN answers
    BY <1>1, TailAt
  <2>2. tasks[i].request = reply.request /\ reply.request \in Requests /\ reply.ok \in BOOLEAN
    BY <1>1, <2>1 DEF BInv, Waiting, Replies
  <2> QED
    BY <2>2 DEF Over, Requests
<1> SUFFICES ASSUME NEW j \in DOMAIN tasks, tasks'[j].alone PROVE Held1(j)'
  BY <1>1 DEF Bulk
<1>3. CASE j # i
  <2>1. tasks'[j] = tasks[j] /\ tasks[j].alone /\ Held1(j)
    BY <1>1, <1>3 DEF BInv, Bulk
  <2>2. Over(tasks[j])
    <3> SUFFICES ASSUME Solo(j) PROVE FALSE
      BY <2>1 DEF Held1
    <3>1. PICK ok : Told(j, ok)
      BY <1>1 DEF Solo, Asked
    <3>2. answers[1].task = j
      BY <3>1 DEF Told
    <3> QED
      BY <1>3, <3>2
  <2>3. [Next]_vars
    BY <1>1
  <2> QED
    BY <2>1, <2>2, <2>3, OverStays
<1>4. CASE j = i
  <2> PICK t : t = tasks[i]
    OBVIOUS
  <2> PICK u : u = Continued(t, reply)
    OBVIOUS
  <2>1. tasks'[i] = u /\ t \in TaskSet
    BY <1>1
  <2>2. u.alone = t.alone /\ t.alone
    <3>1. u.alone = t.alone
      BY <2>1 DEF Continued, TaskSet
    <3> QED
      BY <1>4, <2>1, <3>1
  <2>3. Held1(i)
    BY <1>4, <2>2 DEF BInv, Bulk
  <2>4. queue = <<>> /\ Told(i, reply.ok) /\ answers' = <<>>
    <3>1. PICK ok \in BOOLEAN : Told(i, ok)
      BY <1>1, <1>2, <2>3 DEF Held1, Solo, Asked
    <3>2. ok = answers[1].ok
      BY <3>1 DEF Told
    <3>3. answers' = <<>>
      BY <1>1, <3>1 DEF Told
    <3> QED
      BY <3>1, <3>2, <3>3 DEF Told
  <2>5. ~Over(u) => queue' = <<i>>
    BY <1>1, <2>1, <2>4
  <2>6. Solo(i)' \/ Over(u)
    BY <2>4, <2>5 DEF Solo, Asked
  <2>7. ~Told(i, TRUE)' /\ ~Told(i, FALSE)'
    BY <2>4 DEF Told
  <2>8. AllIssued(tasks[i])'
    <3>1. AllIssued(t)
      BY <2>3 DEF Held1, AllIssued
    <3>2. \A k \in DOMAIN u.done : (k \in DOMAIN t.done /\ u.done[k] = t.done[k]) \/ u.done[k] = {}
      BY <2>1, ContinuedDone
    <3>3. \A w : Fresh(w)' <=> Fresh(w)
      BY <1>1 DEF Fresh, vars
    <3> QED
      BY <2>1, <3>1, <3>2, <3>3 DEF AllIssued
  <2>9. reply \in [task : Nat, request : Requests, ok : BOOLEAN] /\ IInv
    <3>1. DOMAIN tasks \subseteq Nat
      BY DEF BInv, TInv, TasksTypeOK
    <3> QED
      BY <1>1, <3>1 DEF Replies, BInv
  <2>10. /\ flag' = flag /\ db' = db /\ op' = op /\ access' = access
    BY <1>1 DEF vars
  <2>11. (OwnReplace(tasks[i]) =>
            /\ Over(tasks[i]) => ReplaceOver(tasks[i])
            /\ ~Over(tasks[i]) => ReplaceAsked(tasks[i]))'
    <3> SUFFICES ASSUME OwnReplace(u)
                 PROVE  /\ Over(u) => ReplaceOver(tasks[i])'
                        /\ ~Over(u) => ReplaceAsked(tasks[i])'
      BY <2>1 DEF OwnReplace, Over
    <3>1. OwnReplace(t)
      BY <2>1 DEF Continued, TaskSet, OwnReplace
    <3>2. ReplaceTold(t, reply.ok)
      BY <1>2, <2>3, <2>4, <3>1 DEF Held1
    <3>3. (Over(u) => ReplaceOver(u)) /\ (~Over(u) => ReplaceAsked(u))
      BY <1>2, <2>1, <2>9, <3>1, <3>2, ReplaceContinues
    <3> QED
      BY <2>1, <2>10, <3>3 DEF ReplaceOver, ReplaceAsked, InHand, Saved, Gone, InTxn
  <2>12. (tasks[i].kind = "import" =>
            /\ Over(tasks[i]) => ImportOver(tasks[i])
            /\ ~Over(tasks[i]) => ImportAsked(tasks[i]))'
    <3> SUFFICES ASSUME u.kind = "import"
                 PROVE  /\ Over(u) => ImportOver(tasks[i])'
                        /\ ~Over(u) => ImportAsked(tasks[i])'
      BY <2>1 DEF Over
    <3>1. t.kind = "import"
      BY <2>1 DEF Continued, TaskSet
    <3>2. ImportTold(t, reply.ok)
      BY <1>2, <2>3, <2>4, <3>1 DEF Held1
    <3>3. op = NoOp
      BY <2>4 DEF BInv, Waiting
    <3>4. (Over(u) => ImportOver(u)) /\ (~Over(u) => ImportAsked(u))
      BY <1>2, <2>1, <2>9, <3>1, <3>2, <3>3, ImportContinues
    <3> QED
      BY <2>1, <2>10, <3>4 DEF ImportOver, InOrder, ImportAsked, ImportGoing, Through, Saved, InTxn,
         Agreed, Sandboxed
  <2> QED
    BY <1>4, <2>1, <2>6, <2>7, <2>8, <2>11, <2>12 DEF Held1, AllIssued, Over
<1> QED
  BY <1>3, <1>4

-----------------------------------------------------------------------------
(* The session serves the only command under way.                           *)

LEMMA NothingIssued ==
  ASSUME origin' = origin
  PROVE  Issued = {}
BY DEF Issued, Fresh

LEMMA OneIssued ==
  ASSUME IInv, NEW w \in Writes, Fresh(w), NEW o, o.by # "none",
         origin' = [origin EXCEPT ![w] = o]
  PROVE  Issued = {w}
BY DEF Issued, Fresh, IInv, TypeOK

\* A request of a replace is served: where its writes are when it is told.
LEMMA ReplaceServed ==
  ASSUME IInv, NEW t \in TaskSet, OwnReplace(t), ReplaceAsked(t), AllIssued(t),
         Run(t.request), NEW ok \in BOOLEAN, ok = (last'.ended = "ok"),
         NEW u, OwnReplace(u), u.request = t.request, u.failed = t.failed,
         Wrote(u) \subseteq Wrote(t) \cup Issued, t.done = <<>> => u.done = <<>>
  PROVE  ReplaceTold(u, ok)' /\ op' = NoOp
<1>1. Sound(db) /\ Held /\ db.dirty \cap db.durable = {}
  BY HeldIsSound DEF IInv, Held, WritesAccounted
<1>2. CASE t.request = "begin"
  <2>1. Begin /\ ~flag /\ t.failed = "none" /\ t.done = <<>>
    BY <1>2 DEF Run, ReplaceAsked
  <2>2. PICK r \in RunBegin(db) : db' = r.db /\ flag' = r.ok /\ AnswerBy("begin", r)
    BY <2>1 DEF Begin
  <2>3. r.ok \in BOOLEAN /\ (r.ok => r.db.txn = "open")
    BY <1>1, BeginMoves
  <2>4. ok = r.ok
    BY <2>2, <2>3 DEF AnswerBy, Answer
  <2> QED
    BY <1>2, <2>1, <2>2, <2>3, <2>4 DEF ReplaceTold, Begin
<1>3. CASE t.request = "update"
  <2>1. Update /\ InHand(t)
    BY <1>3 DEF Run, ReplaceAsked
  <2>2. flag' = flag /\ flag /\ t.failed = "none" /\ db.txn = "open" /\ Wrote(t) \subseteq db.dirty
        /\ op' = NoOp
    BY <2>1 DEF Update, InHand
  <2>3. PICK w \in Writes :
          /\ Fresh(w)
          /\ \/ /\ ~Allowed("write")
                /\ Answer("query", "refused")
                /\ UNCHANGED <<db, origin>>
             \/ /\ Allowed("write")
                /\ \E r \in RunWrite(db, w) : db' = r.db /\ AnswerBy("query", r)
                /\ origin' = [origin EXCEPT ![w] = From("query", "write", "any")]
    BY <2>1 DEF Update
  <2>4. w \notin db.dirty \cup db.durable
    BY <1>1, <2>3, FreshIsNew
  <2>5. CASE Answer("query", "refused") /\ UNCHANGED <<db, origin>>
    <3>1. ~ok /\ Issued = {}
      BY <2>5, NothingIssued DEF Answer
    <3>2. Wrote(u) \cap db'.durable = {}
      BY <1>1, <2>2, <2>5, <3>1
    <3> QED
      BY <1>3, <2>2, <3>1, <3>2 DEF ReplaceTold, Gone
  <2>6. CASE /\ \E r \in RunWrite(db, w) : db' = r.db /\ AnswerBy("query", r)
             /\ origin' = [origin EXCEPT ![w] = From("query", "write", "any")]
    <3>1. Issued = {w}
      BY <2>3, <2>6, OneIssued, FromIs
    <3>2. PICK r \in RunWrite(db, w) : db' = r.db /\ AnswerBy("query", r)
      BY <2>6
    <3>3. /\ r.ok \in BOOLEAN /\ (~r.ok => r.db.durable = db.durable)
          /\ r.ok => r.db.txn = "open" /\ r.db.dirty = db.dirty \cup {w}
      BY <1>1, <2>2, <2>4, WriteMoves
    <3>4. ok = r.ok
      BY <3>2, <3>3 DEF AnswerBy, Answer
    <3>5. CASE ok
      <4>1. db'.txn = "open" /\ Wrote(u) \subseteq db'.dirty
        BY <2>2, <3>1, <3>2, <3>3, <3>4, <3>5
      <4> QED
        BY <1>3, <2>2, <3>5, <4>1 DEF ReplaceTold, InHand
    <3>6. CASE ~ok
      <4>1. Wrote(u) \cap db'.durable = {}
        BY <1>1, <2>2, <2>4, <3>1, <3>2, <3>3, <3>4, <3>6
      <4> QED
        BY <1>3, <2>2, <3>6, <4>1 DEF ReplaceTold, Gone
    <3> QED
      BY <3>5, <3>6
  <2> QED
    BY <2>3, <2>5, <2>6
<1>4. CASE t.request \in {"commit", "rollback"}
  <2> DEFINE Results == IF t.request = "commit" THEN RunCommit(db) ELSE RunRollback(db)
  <2>1. Finish(t.request, Results) /\ flag
    BY <1>4 DEF Run, Commit, Rollback, ReplaceAsked, InHand
  <2>2. op' = NoOp /\ origin' = origin
    BY <2>1 DEF Finish, history
  <2>3. PICK r \in Results : db' = r.db /\ AnswerBy(t.request, r)
    BY <2>1 DEF Finish
  <2>4. Wrote(u) \subseteq Wrote(t)
    BY <2>2, NothingIssued
  <2>5. r.ok \in BOOLEAN => ok = r.ok
    BY <2>3 DEF AnswerBy, Answer
  <2>6. CASE t.request = "commit"
    <3>1. t.failed = "none" /\ db.txn = "open" /\ Wrote(t) \subseteq db.dirty
      BY <2>6 DEF ReplaceAsked, InHand
    <3>2. /\ Moves(db, r.db, {}) /\ r.ok \in BOOLEAN
          /\ r.ok => r.db.durable = db.durable \cup db.dirty
      BY <1>1, <2>3, <2>6, <3>1, CommitMoves
    <3>3. Whole(Wrote(u), db)
      BY <1>1, <2>4, <3>1 DEF Whole
    <3>4. Whole(Wrote(u), db')
      BY <1>1, <2>3, <3>2, <3>3, FatesStay
    <3>5. ok => Wrote(u) \subseteq db'.durable
      BY <2>3, <2>4, <2>5, <3>1, <3>2
    <3> QED
      BY <2>2, <2>6, <3>1, <3>4, <3>5 DEF ReplaceTold, Saved
  <2>7. CASE t.request = "rollback"
    <3>1. t.failed = "update" /\ Wrote(t) \cap db.durable = {}
      BY <2>7 DEF ReplaceAsked, Gone
    <3>2. r.db.dirty = {} /\ r.db.durable = db.durable
      BY <1>1, <2>3, <2>7, RollbackMoves
    <3> QED
      BY <2>2, <2>3, <2>4, <2>7, <3>1, <3>2 DEF ReplaceTold, Vanished
  <2> QED
    BY <1>4, <2>6, <2>7
<1> QED
  BY <1>2, <1>3, <1>4 DEF ReplaceAsked

\* An import's batches, after a step that changes at most the last.
Next1Batch(t, u) ==
  /\ t \in TaskSet /\ u \in TaskSet /\ t.done # <<>>
  /\ Len(u.done) = Len(t.done)
  /\ \A k \in 1 .. Len(t.done) - 1 : u.done[k] = t.done[k]
  /\ u.kind = t.kind /\ u.request = t.request /\ u.failed = t.failed /\ u.joined = t.joined

\* What went through stays so while the transaction it is in stays.
LEMMA ThroughStays ==
  ASSUME IInv, [Next]_vars, NEW t, NEW u, Next1Batch(t, u), AllIssued(t),
         Through(t, Len(t.done) - 1),
         Sandboxed \/ flag' = flag,
         ~Sandboxed /\ flag => db.dirty \subseteq db'.dirty
  PROVE  Through(u, Len(u.done) - 1)'
<1>1. PICK W \in SUBSET Writes : (\A w \in W : Fresh(w)) /\ Moves(db, db', W)
  BY NextHolds DEF Settling
<1>2. access' = access /\ Sound(db)
  BY AccessStays, HeldIsSound DEF IInv, Held
<1>3. ASSUME NEW k \in 1 .. Len(t.done) - 1
      PROVE  IF access' = "sandbox" THEN Vanished(u.done[k], db')
             ELSE u.done[k] \subseteq (IF flag' THEN db'.dirty ELSE db'.durable)
  <2>1. u.done[k] = t.done[k] /\ k \in DOMAIN t.done
    BY WroteTypes DEF Next1Batch
  <2>2. t.done[k] \cap W = {}
    BY <1>1, <2>1, IssuedApart DEF Next1Batch
  <2>3. IF Sandboxed THEN Vanished(t.done[k], db)
        ELSE t.done[k] \subseteq (IF flag THEN db.dirty ELSE db.durable)
    BY DEF Through
  <2> QED
    BY <1>1, <1>2, <2>1, <2>2, <2>3, FatesStay DEF Sandboxed
<1>4. Len(u.done) = Len(t.done)
  BY DEF Next1Batch
<1> QED
  BY <1>3, <1>4 DEF Through, Sandboxed

\* When the last batch did not go through, those before it keep their order,
\* and it comes after them.
LEMMA LastFails ==
  ASSUME IInv, [Next]_vars, NEW t, NEW u, Next1Batch(t, u), AllIssued(t),
         Through(t, Len(t.done) - 1),
         NEW last1, last1 = u.done[Len(t.done)], Whole(last1, db'),
         Vanished(last1, db') \/ (~Sandboxed /\ ~flag)
  PROVE  InOrder(u)'
<1> PICK n : n = Len(t.done)
  OBVIOUS
<1>1. PICK W \in SUBSET Writes : (\A w \in W : Fresh(w)) /\ Moves(db, db', W)
  BY NextHolds DEF Settling
<1>2. Sound(db) /\ db.dirty \cap db.durable = {}
  BY HeldIsSound DEF IInv, Held, WritesAccounted
<1>3. /\ n \in Nat /\ DOMAIN t.done = 1 .. n /\ DOMAIN u.done = 1 .. n /\ Len(u.done) = n
      /\ n \in 1 .. n
      /\ \A k \in 1 .. n - 1 : u.done[k] = t.done[k]
  BY WroteTypes DEF Next1Batch
<1>4. \A k \in 1 .. n - 1 : /\ Whole(t.done[k], db)
                            /\ t.done[k] \cap W = {}
  <2>1. \A k \in 1 .. n - 1 : k \in DOMAIN t.done
    BY <1>3
  <2>2. \A k \in 1 .. n - 1 : t.done[k] \cap W = {}
    BY <1>1, <2>1, IssuedApart DEF Next1Batch
  <2> QED
    BY <1>2, <2>2 DEF Through, Whole, Vanished
<1>5. ASSUME NEW k \in 1 .. n
      PROVE  Whole(u.done[k], db')
  <2>1. CASE k = n
    BY <2>1
  <2>2. CASE k # n
    <3>1. k \in 1 .. n - 1
      BY <1>3, <2>2
    <3> QED
      BY <1>1, <1>2, <1>3, <1>4, <3>1, FatesStay
  <2> QED
    BY <2>1, <2>2
<1>6. ASSUME NEW k \in 2 .. n
      PROVE  Ordered(u.done[k - 1], u.done[k], db')
  <2>1. k - 1 \in 1 .. n - 1 /\ u.done[k - 1] = t.done[k - 1]
    BY <1>3
  <2>2. CASE k = n
    <3>1. CASE Vanished(last1, db')
      BY <2>2, <3>1 DEF Ordered
    <3>2. CASE ~Sandboxed /\ ~flag
      <4>1. t.done[k - 1] \subseteq db.durable
        BY <2>1, <3>2 DEF Through
      <4>2. t.done[k - 1] \subseteq db'.durable
        BY <1>1, <1>2, <1>4, <2>1, <4>1, FatesStay
      <4> QED
        BY <2>1, <4>2 DEF Ordered
    <3> QED
      BY <3>1, <3>2
  <2>3. CASE k # n
    <3>1. k \in 1 .. n - 1 /\ u.done[k] = t.done[k]
      BY <1>3, <2>3
    <3>2. Ordered(t.done[k - 1], t.done[k], db)
      BY <2>1, <3>1 DEF Through, Ordered
    <3> QED
      BY <1>1, <1>2, <1>4, <2>1, <3>1, <3>2, OrderStays
  <2> QED
    BY <2>2, <2>3
<1> QED
  BY <1>3, <1>5, <1>6 DEF InOrder

\* When it did, all of them have.
LEMMA LastWorks ==
  ASSUME NEW t, NEW u, Next1Batch(t, u), Through(u, Len(u.done) - 1)',
         NEW last1, last1 = u.done[Len(t.done)],
         IF access' = "sandbox" THEN Vanished(last1, db')
         ELSE last1 \subseteq (IF flag' THEN db'.dirty ELSE db'.durable)
  PROVE  Through(u, Len(u.done))'
<1>1. Len(u.done) = Len(t.done) /\ Len(t.done) \in Nat
  BY WroteTypes DEF Next1Batch
<1>2. ASSUME NEW k \in 1 .. Len(u.done)
      PROVE  IF access' = "sandbox" THEN Vanished(u.done[k], db')
             ELSE u.done[k] \subseteq (IF flag' THEN db'.dirty ELSE db'.durable)
  <2>1. CASE k = Len(u.done)
    BY <1>1, <2>1
  <2>2. CASE k # Len(u.done)
    <3>1. k \in 1 .. Len(u.done) - 1
      BY <1>1, <2>2
    <3> QED
      BY <3>1 DEF Through, Sandboxed
  <2> QED
    BY <2>1, <2>2
<1> QED
  BY <1>2 DEF Through, Sandboxed

LEMMA ImportStarted ==
  ASSUME IInv, NEW t, NEW u, Next1Batch(t, u), AllIssued(t), ImportAsked(t), op = NoOp,
         ApplyRefused \/ ApplyStart, u.done[Len(t.done)] = t.done[Len(t.done)] \cup Issued,
         NEW ok, ok = (last'.ended = "ok")
  PROVE  /\ op' = NoOp => ~ok /\ ImportTold(u, ok)'
         /\ op' # NoOp => ImportAsked(u)'
<1>1. [Next]_vars
  BY Zenon DEF Next
<1>2. /\ u.request = "apply" /\ u.failed = "none" /\ u.done # <<>> /\ (~u.joined => ~flag)
      /\ Through(t, Len(t.done) - 1) /\ Agreed
      /\ t.done[Len(t.done)] = {}
      /\ Len(u.done) = Len(t.done)
  <2>1. t.done # <<>> /\ u.done \in Seq(SUBSET Writes) /\ t.done \in Seq(SUBSET Writes)
        /\ Len(u.done) = Len(t.done)
    BY DEF Next1Batch, TaskSet
  <2>2. u.done # <<>>
    BY <2>1
  <2> QED
    BY <2>1, <2>2 DEF ImportAsked, ImportGoing, Next1Batch
<1>3. origin' = origin /\ flag' = flag /\ Issued = {}
  <2>1. origin' = origin /\ flag' = flag
    BY DEF ApplyRefused, ApplyStart, history
  <2> QED
    BY <2>1, NothingIssued
<1>4. u.done[Len(t.done)] = {}
  BY <1>2, <1>3
<1>5. ASSUME op' = NoOp, last'.ended # "ok" PROVE ~ok /\ ImportTold(u, ok)'
  <2>1. Whole({}, db') /\ Vanished({}, db')
    BY DEF Whole, Vanished
  <2>2. InOrder(u)'
    BY <1>1, <1>2, <1>4, <2>1, LastFails
  <2> QED
    BY <1>2, <1>5, <2>2 DEF ImportTold
<1>6. CASE ApplyRefused
  <2>1. op' = NoOp /\ last'.ended = "refused"
    BY <1>6 DEF ApplyRefused, Answer
  <2> QED
    BY <1>5, <2>1
<1>7. CASE ApplyStart
  <2>1. PICK m \in 1 .. MaxBatch, r \in (IF flag THEN {Ok(db)} ELSE RunBegin(db)) :
           /\ db' = r.db
           /\ IF r.ok
              THEN /\ op' = Batch(~flag, m, {}, Trust # "stale")
                   /\ UNCHANGED last
              ELSE Answer("apply", "unsettled") /\ UNCHANGED op
    BY <1>7 DEF ApplyStart
  <2>2. CASE r.ok
    <3>1. op'.kind = "apply" /\ op'.sync /\ op'.done = {} /\ op' # NoOp
      <4>1. flag => InTxn(db)
        BY <1>2 DEF Agreed
      <4>2. Trust # "stale"
        BY <4>1 DEF Trust
      <4>3. (Trust # "stale") = TRUE
        BY <4>2
      <4>4. op' = Batch(~flag, m, {}, TRUE)
        BY <2>1, <2>2, <4>3
      <4> QED
        BY <4>4 DEF Batch, NoOp
    <3>2. flag => db' = db
      BY <2>1 DEF Ok
    <3>3. Through(u, Len(u.done) - 1)'
      BY <1>1, <1>2, <1>3, <3>2, ThroughStays
    <3>4. ImportGoing(u)'
      BY <1>2, <1>3 DEF ImportGoing
    <3> QED
      BY <1>2, <1>4, <3>1, <3>3, <3>4 DEF ImportAsked
  <2>3. CASE ~r.ok
    BY <1>5, <2>1, <2>3 DEF Answer
  <2> QED
    BY <2>2, <2>3
<1> QED
  BY <1>6, <1>7

LEMMA ImportChanged ==
  ASSUME IInv, NEW t, NEW u, Next1Batch(t, u), AllIssued(t), ImportAsked(t), op # NoOp,
         ApplyChange, u.done[Len(t.done)] = t.done[Len(t.done)] \cup Issued,
         NEW ok, ok = (last'.ended = "ok")
  PROVE  /\ op' = NoOp => ~ok /\ ImportTold(u, ok)'
         /\ op' # NoOp => ImportAsked(u)'
<1>1. [Next]_vars
  BY Zenon DEF Next
<1>2. /\ u.request = "apply" /\ u.failed = "none" /\ u.done # <<>> /\ (~u.joined => ~flag)
      /\ Through(t, Len(t.done) - 1) /\ op.kind = "apply" /\ op.sync
      /\ t.done[Len(t.done)] = op.done
      /\ Len(u.done) = Len(t.done)
  <2>1. t.done # <<>> /\ u.done \in Seq(SUBSET Writes) /\ t.done \in Seq(SUBSET Writes)
        /\ Len(u.done) = Len(t.done)
    BY DEF Next1Batch, TaskSet
  <2>2. u.done # <<>>
    BY <2>1
  <2> QED
    BY <2>1, <2>2 DEF ImportAsked, ImportGoing, Next1Batch
<1>3. /\ Sound(db) /\ Held /\ db.dirty \cap db.durable = {}
      /\ InTxn(db) /\ op.done \subseteq db.dirty
  BY <1>2, HeldIsSound DEF IInv, Held, WritesAccounted, BatchCovered
<1>4. PICK w \in Writes :
        /\ Fresh(w)
        /\ origin' = [origin EXCEPT ![w] = From("apply", "write", BatchTrust)]
        /\ \/ \E r \in RunWrite(db, w) :
                IF r.ok
                THEN /\ db' = r.db
                     /\ op' = Batch(op.own, op.todo - 1, op.done \cup {w}, op.sync)
                     /\ UNCHANGED <<flag, last, refused>>
                ELSE Abandon(r.db)
           \/ Abandon(db)
  BY DEF ApplyChange
<1>5. w \notin db.dirty \cup db.durable /\ Issued = {w}
  <2>1. From("apply", "write", BatchTrust).by = "apply"
    BY <1>2, <1>3, BatchTrustIs, FromIs
  <2> QED
    BY <1>2, <1>3, <1>4, <2>1, FreshIsNew, OneIssued
<1>6. u.done[Len(t.done)] = op.done \cup {w}
  BY <1>2, <1>5
<1>7. ASSUME NEW d, Sound(d), d.durable = db.durable, Abandon(d)
      PROVE  /\ op' = NoOp /\ ~ok /\ ImportTold(u, ok)'
  <2>1. /\ Sound(db') /\ ~InTxn(db') /\ db'.durable = db.durable
        /\ op' = NoOp /\ last' = [op |-> "apply", ended |-> "failed"]
    BY <1>7, AbandonDrops
  <2>2. db'.dirty = {}
    BY <2>1 DEF Sound
  <2>3. Vanished(op.done \cup {w}, db') /\ Whole(op.done \cup {w}, db')
    BY <1>3, <1>5, <2>1, <2>2 DEF Vanished, Whole
  <2>4. InOrder(u)'
    BY <1>1, <1>2, <1>6, <2>3, LastFails
  <2> QED
    BY <1>2, <2>1, <2>4 DEF ImportTold
<1>8. CASE Abandon(db)
  BY <1>3, <1>7, <1>8
<1>9. ASSUME NEW r \in RunWrite(db, w),
             IF r.ok
             THEN /\ db' = r.db
                  /\ op' = Batch(op.own, op.todo - 1, op.done \cup {w}, op.sync)
                  /\ UNCHANGED <<flag, last, refused>>
             ELSE Abandon(r.db)
      PROVE  /\ op' = NoOp => ~ok /\ ImportTold(u, ok)'
             /\ op' # NoOp => ImportAsked(u)'
  <2>1. /\ ~r.ok => Sound(r.db) /\ r.db.durable = db.durable
        /\ r.ok => db.txn \in {"idle", "open"}
        /\ r.ok /\ db.txn = "open" => r.db.dirty = db.dirty \cup {w}
    BY <1>3, <1>5, <1>9, WriteMoves, MovesSound
  <2>2. CASE ~r.ok
    BY <1>7, <1>9, <2>1, <2>2
  <2>3. CASE r.ok
    <3>1. op'.kind = "apply" /\ op'.sync /\ op'.done = op.done \cup {w} /\ op' # NoOp /\ flag' = flag
      BY <1>2, <1>9, <2>3 DEF Batch, NoOp
    <3>2. db.dirty \subseteq db'.dirty
      BY <1>3, <1>9, <2>1, <2>3 DEF InTxn
    <3>3. Through(u, Len(u.done) - 1)'
      BY <1>1, <1>2, <3>1, <3>2, ThroughStays
    <3>4. ImportGoing(u)'
      BY <1>2, <3>1 DEF ImportGoing
    <3> QED
      BY <1>2, <1>6, <3>1, <3>3, <3>4 DEF ImportAsked
  <2> QED
    BY <2>2, <2>3
<1> QED
  BY <1>4, <1>7, <1>8, <1>9

LEMMA ImportEnded ==
  ASSUME IInv, NEW t, NEW u, Next1Batch(t, u), AllIssued(t), ImportAsked(t), op # NoOp,
         ApplyEnd, u.done[Len(t.done)] = t.done[Len(t.done)] \cup Issued,
         NEW ok \in BOOLEAN, ok = (last'.ended = "ok")
  PROVE  op' = NoOp /\ ImportTold(u, ok)'
<1>1. [Next]_vars /\ IInv'
  BY NextHolds, Zenon DEF Next
<1>2. /\ u.request = "apply" /\ u.failed = "none" /\ u.done # <<>> /\ (~u.joined => ~flag)
      /\ Through(t, Len(t.done) - 1) /\ op.kind = "apply" /\ op.sync
      /\ t.done[Len(t.done)] = op.done
      /\ Len(u.done) = Len(t.done)
  <2>1. t.done # <<>> /\ u.done \in Seq(SUBSET Writes) /\ t.done \in Seq(SUBSET Writes)
        /\ Len(u.done) = Len(t.done)
    BY DEF Next1Batch, TaskSet
  <2>2. u.done # <<>>
    BY <2>1
  <2> QED
    BY <2>1, <2>2 DEF ImportAsked, ImportGoing, Next1Batch
<1>3. /\ Sound(db) /\ Held /\ db.dirty \cap db.durable = {} /\ flag \in BOOLEAN
      /\ InTxn(db) /\ op.done \subseteq db.dirty
      /\ op.own = ~flag /\ (op.own => db.txn = "open")
  BY <1>2, HeldIsSound DEF IInv, Held, WritesAccounted, BatchCovered, TypeOK
<1>4. op' = NoOp /\ Issued = {} /\ access' = access
  <2>1. op' = NoOp /\ origin' = origin
    BY DEF ApplyEnd
  <2> QED
    BY <1>1, <2>1, NothingIssued, AccessStays
<1>5. u.done[Len(t.done)] = op.done
  BY <1>2, <1>4
<1>6. ASSUME ~ok, Whole(op.done, db'), Vanished(op.done, db') \/ (~Sandboxed /\ ~flag)
      PROVE  ImportTold(u, ok)'
  <2>1. InOrder(u)'
    BY <1>1, <1>2, <1>5, <1>6, LastFails
  <2> QED
    BY <1>2, <1>6, <2>1 DEF ImportTold
<1>7. ASSUME ok, Agreed', ~u.joined => ~flag', Through(u, Len(u.done) - 1)',
             IF Sandboxed THEN Vanished(op.done, db')
             ELSE op.done \subseteq (IF flag' THEN db'.dirty ELSE db'.durable)
      PROVE  ImportTold(u, ok)'
  <2>1. Through(u, Len(u.done))'
    BY <1>4, <1>5, <1>7, LastWorks DEF Sandboxed
  <2> QED
    BY <1>2, <1>7, <2>1 DEF ImportTold
<1>8. last'.op = "apply" /\ ok => Agreed'
  BY <1>1, <1>4 DEF IInv, FlagTracksServer, Settles
<1>9. CASE /\ Sandboxed
           /\ \E r \in RunRollback(db) :
                /\ db' = r.db
                /\ flag' = (flag /\ ~r.ok)
                /\ Answer("apply", IF r.ok THEN "ok" ELSE "unsettled")
  <2>1. PICK r \in RunRollback(db) :
           /\ db' = r.db
           /\ flag' = (flag /\ ~r.ok)
           /\ Answer("apply", IF r.ok THEN "ok" ELSE "unsettled")
    BY <1>9
  <2>2. r.ok \in BOOLEAN /\ r.db.dirty = {} /\ r.db.durable = db.durable
    BY <1>3, RollbackMoves
  <2>3. last' = [op |-> "apply", ended |-> IF r.ok THEN "ok" ELSE "unsettled"] /\ ok = r.ok
    BY <2>1, <2>2 DEF Answer
  <2>4. Vanished(op.done, db') /\ Whole(op.done, db')
    BY <1>3, <2>1, <2>2 DEF Vanished, Whole
  <2>5. CASE ok
    <3>1. Through(u, Len(u.done) - 1)'
      BY <1>1, <1>2, <1>9, ThroughStays
    <3>2. ~flag'
      <4>1. flag' = FALSE
        BY <2>1, <2>2, <2>3, <2>5
      <4> QED
        BY <4>1
    <3>3. Agreed'
      <4>1. last'.op = "apply"
        BY <2>3
      <4> QED
        BY <1>8, <2>5, <4>1
    <3>4. Sandboxed
      BY <1>9
    <3> QED
      BY <1>4, <1>7, <2>4, <2>5, <3>1, <3>2, <3>3, <3>4
  <2>6. CASE ~ok
    BY <1>4, <1>6, <2>4, <2>6
  <2> QED
    BY <2>5, <2>6
<1>10. CASE /\ ~Sandboxed /\ op.own
            /\ \E r \in RunCommit(db) :
                 /\ db' = r.db
                 /\ flag' = (flag /\ ~r.ok)
                 /\ Answer("apply", IF r.ok THEN "ok" ELSE "unsettled")
  <2>1. PICK r \in RunCommit(db) :
           /\ db' = r.db
           /\ flag' = (flag /\ ~r.ok)
           /\ Answer("apply", IF r.ok THEN "ok" ELSE "unsettled")
    BY <1>10
  <2>2. /\ Moves(db, db', {}) /\ r.ok \in BOOLEAN
        /\ r.ok => db'.durable = db.durable \cup db.dirty
    BY <1>3, <1>10, <2>1, CommitMoves
  <2>3. last' = [op |-> "apply", ended |-> IF r.ok THEN "ok" ELSE "unsettled"] /\ ok = r.ok
    BY <2>1, <2>2 DEF Answer
  <2>4. flag = FALSE /\ flag' = FALSE
    BY <1>3, <1>10, <2>1
  <2>5. CASE ok
    <3>1. Through(u, Len(u.done) - 1)'
      BY <1>1, <1>2, <2>4, ThroughStays
    <3>2. op.done \subseteq db'.durable
      BY <1>3, <2>2, <2>3, <2>5
    <3>3. Agreed'
      <4>1. last'.op = "apply"
        BY <2>3
      <4> QED
        BY <1>8, <2>5, <4>1
    <3>4. ~Sandboxed /\ ~flag'
      <4>1. ~Sandboxed
        BY <1>10
      <4> QED
        BY <2>4, <4>1
    <3> QED
      BY <1>4, <1>7, <2>5, <3>1, <3>2, <3>3, <3>4
  <2>6. CASE ~ok
    <3>1. Whole(op.done, db)
      BY <1>3 DEF Whole
    <3>2. Whole(op.done, db')
      BY <1>3, <2>2, <3>1, FatesStay
    <3>3. ~Sandboxed /\ ~flag
      <4>1. ~Sandboxed
        BY <1>10
      <4> QED
        BY <2>4, <4>1
    <3> QED
      BY <1>4, <1>6, <2>6, <3>2, <3>3
  <2> QED
    BY <2>5, <2>6
<1>11. CASE ~Sandboxed /\ ~op.own /\ Answer("join", "ok") /\ UNCHANGED <<flag, db>>
  <2>1. ok /\ flag /\ flag' = flag /\ db' = db
    BY <1>3, <1>11 DEF Answer
  <2>2. Through(u, Len(u.done) - 1)'
    BY <1>1, <1>2, <2>1, ThroughStays
  <2>3. Agreed'
    <3>1. InTxn(db') = TRUE /\ flag' = TRUE
      BY <1>3, <2>1 DEF InTxn
    <3> QED
      BY <3>1 DEF Agreed
  <2> QED
    BY <1>2, <1>3, <1>7, <1>11, <1>4, <2>1, <2>2, <2>3
<1> QED
  BY <1>4, <1>9, <1>10, <1>11 DEF ApplyEnd, CommitBatch

LEMMA BulkServe ==
  ASSUME BInv, Serve
  PROVE  Bulk'
<1> PICK i : i = Head(queue)
  OBVIOUS
<1>1. /\ queue \in Seq(DOMAIN tasks) /\ queue # <<>> /\ i = queue[1]
      /\ i \in DOMAIN tasks /\ tasks[i] \in TaskSet
      /\ Run(tasks[i].request)
      /\ DOMAIN tasks' = DOMAIN tasks
      /\ \A j \in DOMAIN tasks : j # i => tasks'[j] = tasks[j]
      /\ tasks'[i].kind = tasks[i].kind /\ tasks'[i].request = tasks[i].request
      /\ tasks'[i].failed = tasks[i].failed /\ tasks'[i].joined = tasks[i].joined
      /\ tasks'[i].alone = tasks[i].alone
      /\ DOMAIN tasks'[i].done = DOMAIN tasks[i].done
      /\ Len(tasks'[i].done) = Len(tasks[i].done)
      /\ \A k \in DOMAIN tasks[i].done :
           tasks'[i].done[k] = IF k = Len(tasks[i].done) THEN tasks[i].done[k] \cup Issued
                               ELSE tasks[i].done[k]
      /\ \/ /\ op' = NoOp /\ queue' = Tail(queue)
            /\ answers' = Append(answers, [task |-> i, request |-> tasks[i].request,
                                           ok |-> last'.ended = "ok"])
         \/ op' # NoOp /\ queue' = queue /\ answers' = answers
  <2>1. Served(i)
    BY ServeFacts DEF BInv
  <2> QED
    BY <2>1, Zenon DEF Served
<1>2. [Next]_vars /\ IInv
  BY <1>1, RunIsNext DEF BInv
<1>3. ~Over(tasks[i])
  BY <1>1 DEF Run, Over
<1> SUFFICES ASSUME NEW j \in DOMAIN tasks, tasks'[j].alone PROVE Held1(j)'
  BY <1>1 DEF Bulk
<1>4. CASE j # i
  <2>1. tasks'[j] = tasks[j] /\ tasks[j].alone /\ Held1(j)
    BY <1>1, <1>4 DEF BInv, Bulk
  <2>2. Over(tasks[j])
    <3> SUFFICES ASSUME Solo(j) PROVE FALSE
      BY <2>1 DEF Held1
    <3>1. queue = <<j>>
      BY <1>1 DEF Solo, Asked, Told
    <3> QED
      BY <1>1, <1>4, <3>1
  <2> QED
    BY <1>2, <2>1, <2>2, OverStays
<1>5. CASE j = i
  <2> PICK t : t = tasks[i]
    OBVIOUS
  <2> PICK u : u = tasks'[i]
    OBVIOUS
  <2> PICK ok \in BOOLEAN : ok = (last'.ended = "ok")
    OBVIOUS
  <2>1. t \in TaskSet /\ u \in TaskSet
    <3>1. TasksTypeOK'
      BY ServeType DEF BInv, TInv
    <3>2. tasks' \in Seq(TaskSet)
      BY <3>1 DEF TasksTypeOK, TaskSet
    <3> QED
      BY <1>1, <3>2
  <2>2. /\ u.kind = t.kind /\ u.request = t.request /\ u.failed = t.failed
        /\ u.joined = t.joined /\ u.alone = t.alone
        /\ DOMAIN u.done = DOMAIN t.done /\ Len(u.done) = Len(t.done)
        /\ \A k \in DOMAIN t.done :
             u.done[k] = IF k = Len(t.done) THEN t.done[k] \cup Issued ELSE t.done[k]
    BY <1>1
  <2>3. t.alone /\ Held1(i)
    BY <1>1, <1>5, <2>2 DEF BInv, Bulk
  <2>4. Asked(i)
    BY <1>1, <1>3, <2>3 DEF Held1, Solo, Told
  <2>5. AllIssued(t)
    BY <2>3 DEF Held1, AllIssued
  <2>6. AllIssued(tasks[i])'
    <3>1. \A k \in DOMAIN t.done : \A w \in t.done[k] : ~Fresh(w)'
      BY <1>2, <2>1, <2>5, AllIssuedStays
    <3>2. \A w \in Issued : ~Fresh(w)'
      BY DEF Issued, Fresh
    <3>3. ASSUME NEW k \in DOMAIN u.done, NEW w \in u.done[k]
          PROVE  ~Fresh(w)'
      <4>1. k \in DOMAIN t.done /\ (w \in t.done[k] \/ w \in Issued)
        BY <2>2
      <4> QED
        BY <3>1, <3>2, <4>1
    <3> QED
      BY <3>3 DEF AllIssued
  <2>7. op' = NoOp => queue' = <<>> /\ answers' = <<[task |-> i, request |-> t.request, ok |-> ok]>>
    <3>1. queue = <<i>> /\ answers = <<>>
      BY <2>4 DEF Asked
    <3> QED
      BY <1>1, <3>1
  <2>8. op' = NoOp => Told(i, ok)' /\ ~Asked(i)' /\ \A o \in BOOLEAN : Told(i, o)' => o = ok
    BY <2>2, <2>7 DEF Told, Asked
  <2>9. op' # NoOp => Asked(i)' /\ \A o \in BOOLEAN : ~Told(i, o)'
    BY <1>1, <2>4 DEF Told, Asked
  <2>10. Solo(i)'
    <3>1. op' = NoOp => Told(i, TRUE)' \/ Told(i, FALSE)'
      <4>1. ok = TRUE \/ ok = FALSE
        OBVIOUS
      <4> QED
        BY <2>8, <4>1, Zenon
    <3>2. op' = NoOp \/ op' # NoOp
      OBVIOUS
    <3>3. Asked(i)' \/ Told(i, TRUE)' \/ Told(i, FALSE)'
      BY <2>9, <3>1, <3>2, Zenon
    <3> QED
      BY <3>3, Zenon DEF Solo
  <2>11. Wrote(u) \subseteq Wrote(t) \cup Issued
    <3> SUFFICES ASSUME NEW k \in DOMAIN t.done, NEW w \in u.done[k]
                 PROVE  w \in Wrote(t) \cup Issued
      BY <2>2 DEF Wrote
    <3>1. w \in t.done[k] \cup Issued
      BY <2>2
    <3> QED
      BY <3>1, WroteAll
  <2>12. t.done = <<>> <=> u.done = <<>>
    <3>1. t.done \in Seq(SUBSET Writes) /\ u.done \in Seq(SUBSET Writes) /\ Len(u.done) = Len(t.done)
      BY <2>1, <2>2 DEF TaskSet
    <3> QED
      BY <3>1
  <2>13. Run(t.request) /\ ~Over(t) /\ ~Over(u)
    BY <1>1, <1>3, <2>2 DEF Over
  <2>14. ASSUME OwnReplace(u)
         PROVE  op' = NoOp /\ ReplaceTold(u, ok)'
    <3>1. OwnReplace(t)
      BY <2>2, <2>14 DEF OwnReplace
    <3>2. ReplaceAsked(t)
      BY <2>3, <2>4, <2>13, <3>1 DEF Held1
    <3> QED
      BY <1>2, <2>1, <2>2, <2>5, <2>11, <2>12, <2>13, <2>14, <3>1, <3>2, ReplaceServed
  <2>15. ASSUME u.kind = "import"
         PROVE  /\ op' = NoOp => ImportTold(u, ok)'
                /\ op' # NoOp => ImportAsked(u)'
    <3>1. ImportAsked(t)
      BY <2>2, <2>3, <2>4, <2>13, <2>15 DEF Held1
    <3>2. t.done # <<>> /\ t.request = "apply"
      BY <3>1 DEF ImportAsked, ImportGoing
    <3>3. Next1Batch(t, u) /\ u.done[Len(t.done)] = t.done[Len(t.done)] \cup Issued
      <4>1. /\ Len(t.done) \in DOMAIN t.done
            /\ \A k \in 1 .. Len(t.done) - 1 : k \in DOMAIN t.done /\ k # Len(t.done)
        BY <2>1, <3>2, WroteTypes
      <4> QED
        BY <2>1, <2>2, <3>2, <4>1 DEF Next1Batch
    <3>4. Apply
      BY <2>13, <3>2 DEF Run
    <3>5. CASE ApplyRefused \/ ApplyStart
      <4>1. op = NoOp
        BY <3>5 DEF ApplyRefused, ApplyStart
      <4> QED
        BY <1>2, <2>5, <3>1, <3>3, <3>5, <4>1, ImportStarted
    <3>6. CASE ApplyChange
      <4>1. op # NoOp
        BY <3>6 DEF ApplyChange, NoOp
      <4> QED
        BY <1>2, <2>5, <3>1, <3>3, <3>6, <4>1, ImportChanged
    <3>7. CASE ApplyEnd
      <4>1. op # NoOp
        BY <3>7 DEF ApplyEnd, NoOp
      <4> QED
        BY <1>2, <2>5, <3>1, <3>3, <3>7, <4>1, ImportEnded
    <3> QED
      BY <3>4, <3>5, <3>6, <3>7 DEF Apply
  <2>16. (OwnReplace(tasks[i]) =>
            /\ ~Asked(i)
            /\ \A o \in BOOLEAN : Told(i, o) => ReplaceTold(tasks[i], o))'
    <3> SUFFICES ASSUME OwnReplace(u)
                 PROVE  ~Asked(i)' /\ \A o \in BOOLEAN : Told(i, o)' => ReplaceTold(tasks[i], o)'
      BY DEF OwnReplace
    <3>1. op' = NoOp /\ ReplaceTold(u, ok)'
      BY <2>14
    <3>2. ReplaceTold(tasks[i], ok)'
      BY <3>1 DEF ReplaceTold, InHand, Saved, Gone
    <3> QED
      BY <2>8, <3>1, <3>2
  <2>17. (tasks[i].kind = "import" =>
            /\ Asked(i) => ImportAsked(tasks[i])
            /\ \A o \in BOOLEAN : Told(i, o) => ImportTold(tasks[i], o))'
    <3> SUFFICES ASSUME u.kind = "import"
                 PROVE  /\ Asked(i)' => ImportAsked(tasks[i])'
                        /\ \A o \in BOOLEAN : Told(i, o)' => ImportTold(tasks[i], o)'
      OBVIOUS
    <3>1. CASE op' = NoOp
      <4>1. ImportTold(u, ok)'
        BY <2>15, <3>1
      <4>2. ImportTold(tasks[i], ok)'
        BY <4>1 DEF ImportTold, InOrder, Through, Sandboxed
      <4> QED
        BY <2>8, <3>1, <4>2
    <3>2. CASE op' # NoOp
      <4>1. ImportAsked(u)'
        BY <2>15, <3>2
      <4>2. ImportAsked(tasks[i])'
        BY <4>1 DEF ImportAsked, ImportGoing, Through, Sandboxed
      <4> QED
        BY <2>9, <3>2, <4>2
    <3> QED
      BY <3>1, <3>2
  <2>18. ~Over(tasks[i])'
    BY <2>13 DEF Over
  <2> QED
    BY <1>5, <2>6, <2>10, <2>16, <2>17, <2>18 DEF Held1, AllIssued
<1> QED
  BY <1>4, <1>5

-----------------------------------------------------------------------------
(* The invariant is one.                                                    *)

LEMMA BulkInit == TasksInit => BInv
<1> SUFFICES ASSUME TasksInit PROVE BInv
  OBVIOUS
<1>1. IInv /\ TInv
  BY InitHolds, TasksStart DEF TasksInit
<1>2. /\ tasks = <<>> /\ queue = <<>> /\ answers = <<>> /\ op = NoOp
      /\ DOMAIN tasks = {} /\ DOMAIN queue = {} /\ DOMAIN answers = {}
  BY DEF TasksInit, Init
<1>3. Waiting
  BY <1>2 DEF Waiting
<1>4. Bulk
  BY <1>2 DEF Bulk
<1> QED
  BY <1>1, <1>3, <1>4 DEF BInv

LEMMA BulkStep == BInv /\ [TasksNext]_taskVars => BInv'
<1> SUFFICES ASSUME BInv, [TasksNext]_taskVars PROVE BInv'
  OBVIOUS
<1>1. IInv' /\ TInv'
  <2>1. [Next]_vars
    BY SessionStep
  <2>2. IInv'
    BY <2>1, NextHolds DEF BInv
  <2>3. TInv'
    BY TasksStep DEF BInv
  <2> QED
    BY <2>2, <2>3
<1>2. ASSUME NEW kind \in Kinds, Start(kind)
      PROVE  Waiting' /\ Bulk'
  BY <1>2, WaitingStart, BulkStart, Zenon
<1>3. ASSUME Serve PROVE Waiting' /\ Bulk'
  BY <1>3, WaitingServe, BulkServe, Zenon
<1>4. ASSUME Resume PROVE Waiting' /\ Bulk'
  BY <1>4, WaitingResume, BulkResume, Zenon
<1>5. ASSUME Reconnect PROVE Waiting' /\ Bulk'
  BY <1>5, WaitingReconnect, BulkReconnect, Zenon
<1>6. ASSUME UNCHANGED taskVars PROVE Waiting' /\ Bulk'
  <2>1. /\ tasks' = tasks /\ queue' = queue /\ answers' = answers /\ UNCHANGED vars
    BY <1>6 DEF taskVars, sessionVars
  <2>2. op' = op /\ flag' = flag /\ db' = db /\ access' = access /\ origin' = origin
    BY <2>1 DEF vars
  <2>3. Waiting'
    BY <2>1, <2>2 DEF BInv, Waiting, Over
  <2>4. ASSUME NEW j \in DOMAIN tasks, tasks[j].alone PROVE Held1(j)'
    <3> PICK t : t = tasks[j]
      OBVIOUS
    <3>1. Held1(j)
      BY <2>4 DEF BInv, Bulk
    <3>2. \A k \in DOMAIN t.done : \A w \in t.done[k] : ~Fresh(w)'
      BY <2>2, <3>1 DEF Held1, Fresh
    <3>3. /\ Solo(j)' = Solo(j) /\ Asked(j)' = Asked(j)
          /\ \A ok \in BOOLEAN : Told(j, ok)' = Told(j, ok)
      BY <2>1 DEF Solo, Asked, Told
    <3>4. /\ ReplaceOver(t)' = ReplaceOver(t)
          /\ ReplaceAsked(t)' = ReplaceAsked(t)
          /\ \A ok \in BOOLEAN : ReplaceTold(t, ok)' = ReplaceTold(t, ok)
      BY <2>2 DEF ReplaceOver, ReplaceAsked, ReplaceTold, InHand, Saved, Gone
    <3>5. /\ ImportOver(t)' = ImportOver(t)
          /\ ImportAsked(t)' = ImportAsked(t)
          /\ \A ok \in BOOLEAN : ImportTold(t, ok)' = ImportTold(t, ok)
      BY <2>2 DEF ImportOver, ImportAsked, ImportTold, ImportGoing, InOrder, Through, Sandboxed,
                  Agreed, Saved
    <3> QED
      BY <2>1, <3>1, <3>2, <3>3, <3>4, <3>5 DEF Held1
  <2>5. Bulk'
    BY <2>1, <2>4 DEF Bulk
  <2> QED
    BY <2>3, <2>5, Zenon
<1>7. Waiting' /\ Bulk'
  BY <1>2, <1>3, <1>4, <1>5, <1>6 DEF TasksNext
<1> QED
  BY <1>1, <1>7 DEF BInv

\* One request or one reply is under way for each command that is not over,
\* and for a command no other ran beside every write it issued is, at each of
\* its requests, where its code counts on it to be: in the transaction it
\* began, saved batch by batch, or dropped.
THEOREM BulkSafety == TasksSpec => []BInv
BY BulkInit, BulkStep, PTL DEF TasksSpec

-----------------------------------------------------------------------------
(* What is reported.                                                        *)

LEMMA ReplaceIsWhole ==
  ASSUME BInv, NEW i \in DOMAIN tasks, tasks[i].alone, NEW t, t = tasks[i]
  PROVE  ReplaceWhole(t)
<1> SUFFICES ASSUME OwnReplace(t)
             PROVE  /\ Saved(Wrote(t)) \/ Gone(Wrote(t))
                    /\ Succeeded(t) => Saved(Wrote(t))
                    /\ t.failed \in {"begin", "update"} => Gone(Wrote(t))
  BY DEF ReplaceWhole, OwnReplace
<1>1. Held1(i) /\ db.dirty \cap db.durable = {}
  BY HeldIsSound DEF BInv, Bulk, IInv, Held, Sound
<1>2. t.done = <<>> => Wrote(t) = {}
  BY DEF Wrote
<1>3. CASE Over(t)
  <2>1. ReplaceOver(t)
    BY <1>1, <1>3 DEF Held1
  <2> QED
    BY <2>1 DEF ReplaceOver, Whole, Vanished, Saved, Gone, Succeeded
<1>4. CASE ~Over(t) /\ Asked(i)
  <2>1. ReplaceAsked(t)
    BY <1>1, <1>4 DEF Held1
  <2> QED
    BY <1>1, <1>2, <1>4, <2>1 DEF ReplaceAsked, InHand, Saved, Gone, Succeeded
<1>5. ASSUME NEW ok \in BOOLEAN, ~Over(t), Told(i, ok)
      PROVE  /\ Saved(Wrote(t)) \/ Gone(Wrote(t))
             /\ t.failed \in {"begin", "update"} => Gone(Wrote(t))
  <2>1. ReplaceTold(t, ok)
    BY <1>1, <1>5 DEF Held1
  <2> QED
    BY <1>1, <1>2, <2>1 DEF ReplaceTold, InHand, Whole, Vanished, Saved, Gone
<1>6. CASE ~Over(t) /\ ~Asked(i)
  <2>1. Told(i, TRUE) \/ Told(i, FALSE)
    BY <1>1, <1>6 DEF Held1, Solo
  <2> QED
    BY <1>5, <1>6, <2>1 DEF Succeeded
<1> QED
  BY <1>3, <1>4, <1>6

LEMMA ImportIsInOrder ==
  ASSUME BInv, NEW i \in DOMAIN tasks, tasks[i].alone, NEW t, t = tasks[i]
  PROVE  ImportInOrder(t)
<1> SUFFICES ASSUME t.kind = "import"
             PROVE  /\ \A k \in DOMAIN t.done : Saved(t.done[k]) \/ Gone(t.done[k])
                    /\ \A k \in 2 .. Len(t.done) : ~Gone(t.done[k]) => Saved(t.done[k - 1])
                    /\ Succeeded(t) /\ ~t.joined =>
                         IF Sandboxed THEN Gone(Wrote(t)) ELSE Saved(Wrote(t))
  BY DEF ImportInOrder
<1>1. Held1(i) /\ db.dirty \cap db.durable = {} /\ IInv
  BY HeldIsSound DEF BInv, Bulk, IInv, Held, Sound
<1>2. t \in TaskSet
  <2>1. tasks \in Seq(TaskSet)
    BY DEF BInv, TInv, TasksTypeOK, TaskSet
  <2> QED
    BY <2>1
<1>3. /\ Len(t.done) \in Nat /\ DOMAIN t.done = 1 .. Len(t.done)
  BY <1>2, WroteTypes
<1>4. ASSUME InOrder(t)
      PROVE  /\ \A k \in DOMAIN t.done : Saved(t.done[k]) \/ Gone(t.done[k])
             /\ \A k \in 2 .. Len(t.done) : ~Gone(t.done[k]) => Saved(t.done[k - 1])
  BY <1>1, <1>4 DEF InOrder, Ordered, Whole, Vanished, Saved, Gone
<1>5. CASE Over(t)
  <2>1. ImportOver(t)
    BY <1>1, <1>5 DEF Held1
  <2> QED
    BY <1>4, <2>1 DEF ImportOver, Vanished, Gone, Succeeded
<1>6. CASE ~Over(t) /\ Asked(i)
  <2>1. ImportAsked(t)
    BY <1>1, <1>6 DEF Held1
  <2> DEFINE n == Len(t.done)
  <2>2. t.done # <<>> /\ n \in DOMAIN t.done
    BY <1>2, <2>1, WroteTypes DEF ImportAsked, ImportGoing
  <2>3. Gone(t.done[n])
    <3>1. CASE op = NoOp
      BY <2>1, <3>1 DEF ImportAsked, Gone
    <3>2. CASE op # NoOp
      BY <1>1, <2>1, <3>2 DEF ImportAsked, IInv, BatchCovered, Gone
    <3> QED
      BY <3>1, <3>2
  <2>4. \A k \in 1 .. n - 1 :
          Gone(t.done[k]) \/ (~Sandboxed /\ ~flag /\ Saved(t.done[k]))
    BY <1>1, <2>1 DEF ImportAsked, Through, Vanished, Gone, Saved
  <2>5. \A k \in 1 .. n - 1 : ~Gone(t.done[k]) => \A l \in 1 .. n - 1 : Saved(t.done[l])
    BY <2>1, <2>4 DEF ImportAsked, Through, Saved
  <2>6. \A k \in DOMAIN t.done : k = n \/ k \in 1 .. n - 1
    BY <1>3
  <2>7. \A k \in 2 .. n : k - 1 \in 1 .. n - 1 /\ (k = n \/ k \in 1 .. n - 1)
    BY <1>3
  <2> HIDE DEF n
  <2>8. \A k \in DOMAIN t.done : Saved(t.done[k]) \/ Gone(t.done[k])
    BY <2>3, <2>4, <2>6
  <2>9. \A k \in 2 .. n : ~Gone(t.done[k]) => Saved(t.done[k - 1])
    BY <2>3, <2>5, <2>7
  <2> QED
    BY <1>6, <2>8, <2>9 DEF n, Succeeded
<1>7. ASSUME NEW ok \in BOOLEAN, ~Over(t), Told(i, ok)
      PROVE  InOrder(t)
  <2>1. ImportTold(t, ok)
    BY <1>1, <1>7 DEF Held1
  <2> QED
    BY <1>1, <1>2, <2>1, ThroughInOrder DEF ImportTold
<1>8. CASE ~Over(t) /\ ~Asked(i)
  <2>1. Told(i, TRUE) \/ Told(i, FALSE)
    BY <1>1, <1>8 DEF Held1, Solo
  <2>2. InOrder(t)
    BY <1>7, <1>8, <2>1
  <2> QED
    BY <1>4, <1>8, <2>2 DEF Succeeded
<1> QED
  BY <1>5, <1>6, <1>8

\* What a replace and an import reported is what is on the server, at every
\* moment and whatever fails or crashes on the way, if no other command ran on
\* the session beside them: a replace in its own transaction is saved whole or
\* not at all and never after it failed, and an import is saved batch after
\* batch from the first.
THEOREM BulkIsAsReported == TasksSpec => []BulkAsReported
<1>1. BInv => BulkAsReported
  BY ReplaceIsWhole, ImportIsInOrder DEF BulkAsReported
<1> QED
  BY <1>1, BulkSafety, PTL
=============================================================================
