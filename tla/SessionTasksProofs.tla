------------------------- MODULE SessionTasksProofs -------------------------
(* The winbar shows every transaction the adapter holds, for any number of     *)
(* commands, writes, adapters and access levels.  Between a reply of the       *)
(* session and the command that hears it the two flags differ; what holds at   *)
(* every moment is that the replies on their way, heard in their order, leave  *)
(* the editor's flag up if the adapter's is.                                   *)
EXTENDS SessionTasks, DbSessionProofs, SequenceTheorems

\* Replies that move the editor's flag up, and down.
Opens(reply)  == reply.ok /\ reply.request = "begin"
Closes(reply) == reply.ok /\ reply.request \in {"commit", "rollback"}

\* The last reply that moves the editor's flag moves it up, or none moves it
\* and it is up.
WillShow ==
  \/ /\ believed
     /\ \A j \in DOMAIN answers : ~Closes(answers[j])
  \/ \E i \in DOMAIN answers :
       /\ Opens(answers[i])
       /\ \A j \in DOMAIN answers : j > i => ~Closes(answers[j])

TInv == TasksTypeOK /\ (flag => WillShow)

TaskSet ==
  [kind : Kinds, request : Requests \cup {"end"}, failed : Requests \cup {"none"},
   joined : BOOLEAN, done : Seq(SUBSET Writes), alone : BOOLEAN]
Replies == [task : DOMAIN tasks, request : Requests, ok : BOOLEAN]

-----------------------------------------------------------------------------
(* Types.                                                                      *)

LEMMA FunctionIsSeq ==
  ASSUME NEW S, NEW n \in Nat, NEW f \in [1 .. n -> S]
  PROVE  f \in Seq(S) /\ Len(f) = n
<1>1. f \in Seq(S)
  BY SeqDef
<1> QED
  BY <1>1

\* What a reply makes of a command is a command.
LEMMA ContinuedType ==
  ASSUME NEW t \in TaskSet, NEW reply \in [task : Nat, request : Requests, ok : BOOLEAN]
  PROVE  Continued(t, reply) \in TaskSet
<1> DEFINE next == After(t, reply.ok)
<1>1. next \in Requests \cup {"end"}
  BY DEF After, Undo, Requests, TaskSet
<1>2. {} \in SUBSET Writes
  OBVIOUS
<1>3. (IF next \in {"update", "apply"} THEN Append(t.done, {}) ELSE t.done) \in Seq(SUBSET Writes)
  BY <1>2 DEF TaskSet
<1> QED
  BY <1>1, <1>3 DEF Continued, TaskSet

\* Numbers of commands stay numbers of commands when the list grows or its
\* elements change.
LEMMA Grown ==
  ASSUME TasksTypeOK, tasks' \in Seq(TaskSet), DOMAIN tasks \subseteq DOMAIN tasks'
  PROVE  /\ queue \in Seq(DOMAIN tasks')
         /\ answers \in Seq([task : DOMAIN tasks', request : Requests, ok : BOOLEAN])
<1>1. [task : DOMAIN tasks, request : Requests, ok : BOOLEAN] \subseteq
        [task : DOMAIN tasks', request : Requests, ok : BOOLEAN]
  OBVIOUS
<1>2. queue \in Seq(DOMAIN tasks) /\ answers \in Seq([task : DOMAIN tasks, request : Requests, ok : BOOLEAN])
  BY DEF TasksTypeOK
<1> QED
  BY <1>1, <1>2, SeqMonotonic, Zenon

LEMMA StartType ==
  ASSUME TasksTypeOK, NEW kind \in Kinds, Start(kind)
  PROVE  TasksTypeOK'
<1> DEFINE new == Task(kind, FirstRequest(kind), Idle /\ Agreed)
           old == [i \in DOMAIN tasks |-> Disturbed(tasks[i])]
<1>1. tasks \in Seq(TaskSet)
  BY DEF TasksTypeOK, TaskSet
<1>2. old \in Seq(TaskSet) /\ Len(old) = Len(tasks)
  <2>1. \A i \in DOMAIN tasks : Disturbed(tasks[i]) \in TaskSet
    <3> SUFFICES ASSUME NEW i \in DOMAIN tasks PROVE Disturbed(tasks[i]) \in TaskSet
      OBVIOUS
    <3>1. tasks[i] \in TaskSet
      BY <1>1
    <3>2. (tasks[i].alone /\ Over(tasks[i])) \in BOOLEAN
      OBVIOUS
    <3> QED
      BY <3>1, <3>2 DEF Disturbed, TaskSet
  <2>2. DOMAIN tasks = 1 .. Len(tasks) /\ Len(tasks) \in Nat
    BY <1>1
  <2>3. old \in [1 .. Len(tasks) -> TaskSet]
    BY <2>1, <2>2
  <2> QED
    BY <2>2, <2>3, FunctionIsSeq
<1>3. new \in TaskSet
  <2>1. FirstRequest(kind) \in Requests
    BY DEF FirstRequest, Kinds, Requests
  <2>2. {} \in SUBSET Writes
    OBVIOUS
  <2>3. <<{}>> \in Seq(SUBSET Writes) /\ <<>> \in Seq(SUBSET Writes)
    BY <2>2
  <2>4. (Idle /\ Agreed) \in BOOLEAN /\ believed \in BOOLEAN
    BY DEF TasksTypeOK, Idle, Agreed
  <2> QED
    BY <2>1, <2>3, <2>4 DEF Task, TaskSet
<1>4. tasks' = Append(old, new) /\ queue' = Append(queue, Len(tasks) + 1)
      /\ believed' = believed /\ answers' = answers
  BY DEF Start
<1>5. tasks' \in Seq(TaskSet) /\ DOMAIN tasks' = 1 .. Len(tasks) + 1
  BY <1>2, <1>3, <1>4
<1>6. DOMAIN tasks = 1 .. Len(tasks) /\ Len(tasks) \in Nat
  BY <1>1
<1>7. Len(tasks) + 1 \in DOMAIN tasks' /\ DOMAIN tasks \subseteq DOMAIN tasks'
  BY <1>5, <1>6
<1>8. /\ queue \in Seq(DOMAIN tasks')
      /\ answers \in Seq([task : DOMAIN tasks', request : Requests, ok : BOOLEAN])
  BY <1>5, <1>7, Grown
<1>9. queue' \in Seq(DOMAIN tasks')
  BY <1>4, <1>7, <1>8
<1> QED
  BY <1>4, <1>5, <1>8, <1>9 DEF TasksTypeOK, TaskSet

LEMMA ResumeType ==
  ASSUME TasksTypeOK, Resume
  PROVE  TasksTypeOK'
<1> DEFINE reply == Head(answers)
           t == Continued(tasks[reply.task], reply)
<1>1. /\ answers \in Seq(Replies) /\ answers # <<>>
      /\ tasks \in Seq(TaskSet) /\ queue \in Seq(DOMAIN tasks)
  BY DEF TasksTypeOK, TaskSet, Replies, Resume
<1>2. reply \in Replies /\ Tail(answers) \in Seq(Replies)
  BY <1>1
<1>3. reply.task \in DOMAIN tasks /\ tasks[reply.task] \in TaskSet /\ DOMAIN tasks \subseteq Nat
  BY <1>1, <1>2 DEF Replies
<1>4. t \in TaskSet
  BY <1>2, <1>3, ContinuedType DEF Replies
<1>5. /\ believed' = Believes(reply.request, reply.ok)
      /\ tasks' = [tasks EXCEPT ![reply.task] = t]
      /\ queue' = IF Over(t) THEN queue ELSE Append(queue, reply.task)
      /\ answers' = Tail(answers)
  BY DEF Resume
<1>6. tasks' \in Seq(TaskSet) /\ DOMAIN tasks' = DOMAIN tasks
  BY <1>1, <1>3, <1>4, <1>5
<1>7. believed' \in BOOLEAN
  BY <1>5 DEF Believes, TasksTypeOK
<1>8. queue' \in Seq(DOMAIN tasks)
  <2>1. Append(queue, reply.task) \in Seq(DOMAIN tasks)
    BY <1>1, <1>3, AppendProperties
  <2> QED
    BY <1>1, <1>5, <2>1
<1> QED
  BY <1>2, <1>5, <1>6, <1>7, <1>8 DEF TasksTypeOK, TaskSet, Replies

LEMMA ServeType ==
  ASSUME TasksTypeOK, Serve
  PROVE  /\ TasksTypeOK'
         /\ \/ answers' = answers
            \/ \E reply \in Replies :
                 /\ answers' = Append(answers, reply)
                 /\ reply.request = tasks[Head(queue)].request
                 /\ reply.ok = (last'.ended = "ok")
                 /\ op' = NoOp
<1> DEFINE i == Head(queue)
           done == tasks[i].done
           reply == [task |-> i, request |-> tasks[i].request, ok |-> last'.ended = "ok"]
<1>1. /\ queue # <<>> /\ queue \in Seq(DOMAIN tasks)
      /\ tasks \in Seq(TaskSet) /\ answers \in Seq(Replies)
  BY DEF TasksTypeOK, TaskSet, Replies, Serve
<1>2. i \in DOMAIN tasks /\ tasks[i] \in TaskSet /\ Tail(queue) \in Seq(DOMAIN tasks)
  BY <1>1
<1>3. /\ Run(tasks[i].request)
      /\ tasks' = IF Issued = {} THEN tasks
                  ELSE [tasks EXCEPT ![i].done[Len(done)] = @ \cup Issued]
      /\ \/ op' = NoOp /\ queue' = Tail(queue) /\ answers' = Append(answers, reply)
         \/ queue' = queue /\ answers' = answers
      /\ believed' = believed
  BY DEF Serve
<1>4. tasks[i].request \in Requests
  BY <1>3 DEF Run, Requests
<1>5. reply \in Replies
  BY <1>2, <1>4 DEF Replies
<1>6. tasks' \in Seq(TaskSet) /\ DOMAIN tasks' = DOMAIN tasks
  <2>1. Issued \subseteq Writes
    BY DEF Issued
  <2>2. done \in Seq(SUBSET Writes)
    BY <1>2 DEF TaskSet
  <2> DEFINE more == [done EXCEPT ![Len(done)] = @ \cup Issued]
  <2>3. more \in Seq(SUBSET Writes)
    <3>1. CASE done = <<>>
      <4>1. DOMAIN done = {} /\ more = done
        BY <3>1
      <4> QED
        BY <2>2, <4>1
    <3>2. CASE done # <<>>
      <4>1. Len(done) \in 1 .. Len(done) /\ done[Len(done)] \in SUBSET Writes
        BY <2>2, <3>2
      <4>2. done[Len(done)] \cup Issued \in SUBSET Writes
        BY <2>1, <4>1
      <4> QED
        BY <2>2, <4>1, <4>2, ExceptSeq
    <3> QED
      BY <3>1, <3>2
  <2>4. [tasks[i] EXCEPT !.done = more] \in TaskSet
    BY <1>2, <2>3 DEF TaskSet
  <2>5. tasks' = tasks \/ tasks' = [tasks EXCEPT ![i] = [tasks[i] EXCEPT !.done = more]]
    BY <1>2, <1>3
  <2> QED
    BY <1>1, <1>2, <2>4, <2>5
<1>7. queue' \in Seq(DOMAIN tasks) /\ answers' \in Seq(Replies)
  <2>1. Append(answers, reply) \in Seq(Replies)
    BY <1>1, <1>5, AppendProperties
  <2> QED
    BY <1>1, <1>2, <1>3, <2>1
<1>8. TasksTypeOK'
  BY <1>3, <1>6, <1>7 DEF TasksTypeOK, TaskSet, Replies
<1> QED
  BY <1>3, <1>5, <1>8

LEMMA ReconnectType ==
  ASSUME TasksTypeOK, Reconnect
  PROVE  TasksTypeOK' /\ answers' = <<>> /\ flag' = FALSE
<1> DEFINE ended(t) == [t EXCEPT !.request = "end", !.failed = IF @ = "none" THEN t.request ELSE @]
<1>1. tasks \in Seq(TaskSet)
  BY DEF TasksTypeOK, TaskSet
<1>2. tasks' = [i \in DOMAIN tasks |-> IF Over(tasks[i]) THEN tasks[i] ELSE ended(tasks[i])]
  BY DEF Reconnect
<1>3. \A t \in TaskSet : ~Over(t) => ended(t) \in TaskSet
  BY DEF TaskSet, Over
<1>4. tasks' \in Seq(TaskSet)
  <2>1. DOMAIN tasks = 1 .. Len(tasks) /\ Len(tasks) \in Nat /\ \A i \in DOMAIN tasks : tasks[i] \in TaskSet
    BY <1>1
  <2>2. tasks' \in [1 .. Len(tasks) -> TaskSet]
    BY <1>2, <1>3, <2>1
  <2> QED
    BY <2>1, <2>2, FunctionIsSeq
<1>5. believed' = FALSE /\ queue' = <<>> /\ answers' = <<>> /\ flag' = FALSE
  BY DEF Reconnect, Reopen
<1>6. queue' \in Seq(DOMAIN tasks') /\ answers' \in Seq([task : DOMAIN tasks', request : Requests, ok : BOOLEAN])
  BY <1>5, EmptySeq
<1> QED
  BY <1>4, <1>5, <1>6 DEF TasksTypeOK, TaskSet

-----------------------------------------------------------------------------
(* The two flags.                                                              *)

\* What a request does to the adapter's flag is what its reply tells: only a
\* begin that succeeds raises it, and a commit or rollback that succeeds leaves
\* it down.
LEMMA RunTells ==
  ASSUME NEW request, Run(request), flag'
  PROVE  /\ flag \/ (request = "begin" /\ op' = NoOp /\ last'.ended = "ok")
         /\ request \in {"commit", "rollback"} => last'.ended # "ok"
<1>1. CASE request = "begin"
  <2>1. Begin
    BY <1>1 DEF Run
  <2>2. CASE ~flag
    <3>1. op' = NoOp
      BY <2>1 DEF Begin
    <3>2. PICK r \in RunBegin(db) : flag' = r.ok /\ AnswerBy("begin", r)
      BY <2>1, <2>2 DEF Begin
    <3>3. last' = [op |-> "begin", ended |-> "ok"]
      BY <3>2, Zenon DEF Answer, AnswerBy
    <3> QED
      BY <1>1, <3>1, <3>3
  <2> QED
    BY <1>1, <2>2
<1>2. CASE request \in {"commit", "rollback"}
  <2>1. Finish("commit", RunCommit(db)) \/ Finish("rollback", RunRollback(db))
    BY <1>2 DEF Run, Commit, Rollback
  <2>2. \A name, Results : Finish(name, Results) => flag /\ last'.ended # "ok"
    <3> SUFFICES ASSUME NEW name, NEW Results, Finish(name, Results)
                 PROVE  flag /\ last'.ended # "ok"
      OBVIOUS
    <3>1. flag
      BY DEF Finish
    <3>2. PICK r \in Results : flag' = ~r.ok /\ AnswerBy(name, r)
      BY <3>1 DEF Finish
    <3>3. last' = [op |-> name, ended |-> "failed"]
      BY <3>2, Zenon DEF Answer, AnswerBy
    <3> QED
      BY <3>1, <3>3
  <2> QED
    BY <2>1, <2>2, <1>2
<1>3. CASE request \in {"query", "update"}
  BY <1>3 DEF Run, Update, Query, Hand
<1>4. CASE request = "apply"
  <2>1. Apply
    BY <1>4 DEF Run
  <2> QED
    BY <2>1, <1>4 DEF Apply, ApplyRefused, ApplyStart, ApplyChange,
         Abandon, ApplyEnd
<1> QED
  BY <1>1, <1>2, <1>3, <1>4 DEF Run

\* A new reply at the end of those on their way.
LEMMA ServeTells ==
  ASSUME TInv, Serve, flag'
  PROVE  WillShow'
<1>1. /\ \/ answers' = answers
         \/ \E reply \in Replies :
              /\ answers' = Append(answers, reply)
              /\ reply.request = tasks[Head(queue)].request
              /\ reply.ok = (last'.ended = "ok")
              /\ op' = NoOp
      /\ answers \in Seq(Replies) /\ believed' = believed
      /\ Run(tasks[Head(queue)].request)
  BY ServeType DEF TInv, TasksTypeOK, Replies, Serve
<1>2. /\ \/ flag
         \/ tasks[Head(queue)].request = "begin" /\ op' = NoOp /\ last'.ended = "ok"
      /\ tasks[Head(queue)].request \in {"commit", "rollback"} => last'.ended # "ok"
  BY <1>1, RunTells
<1>3. CASE answers' = answers
  <2>1. flag
    BY <1>1, <1>2, <1>3 DEF Serve
  <2> QED
    BY <1>1, <1>3, <2>1 DEF TInv, WillShow
<1>4. ASSUME NEW reply \in Replies,
             answers' = Append(answers, reply),
             reply.request = tasks[Head(queue)].request,
             reply.ok = (last'.ended = "ok")
      PROVE  WillShow'
  <2>1. /\ DOMAIN answers = 1 .. Len(answers) /\ DOMAIN answers' = 1 .. Len(answers) + 1
        /\ Len(answers) \in Nat
        /\ answers'[Len(answers) + 1] = reply
        /\ \A j \in DOMAIN answers : answers'[j] = answers[j]
    BY <1>1, <1>4
  <2>2. ~Closes(reply)
    BY <1>2, <1>4 DEF Closes
  <2>3. CASE Opens(reply)
    BY <2>1, <2>3 DEF WillShow
  <2>4. CASE ~Opens(reply)
    <3>1. flag
      BY <1>2, <1>4, <2>4 DEF Opens
    <3>2. WillShow
      BY <3>1 DEF TInv
    <3> QED
      BY <1>1, <2>1, <2>2, <3>2 DEF WillShow
  <2> QED
    BY <2>3, <2>4
<1> QED
  BY <1>1, <1>3, <1>4

\* The oldest reply is heard.
LEMMA ResumeTells ==
  ASSUME TInv, Resume, flag'
  PROVE  WillShow'
<1>1. /\ answers \in Seq(Replies) /\ answers # <<>> /\ answers' = Tail(answers)
      /\ believed' = Believes(answers[1].request, answers[1].ok)
      /\ flag /\ WillShow
  BY DEF TInv, TasksTypeOK, Replies, Resume, sessionVars, vars
<1>2. /\ Len(answers) \in Nat \ {0} /\ DOMAIN answers = 1 .. Len(answers)
      /\ DOMAIN answers' = 1 .. Len(answers) - 1
      /\ \A j \in DOMAIN answers' : answers'[j] = answers[j + 1]
  BY <1>1
<1>3. CASE believed /\ \A j \in DOMAIN answers : ~Closes(answers[j])
  <2>1. ~Closes(answers[1])
    BY <1>2, <1>3
  <2>2. believed'
    BY <1>1, <1>3, <2>1 DEF Believes, Closes
  <2> QED
    BY <1>2, <1>3, <2>2 DEF WillShow
<1>4. ASSUME NEW i \in DOMAIN answers, Opens(answers[i]),
             \A j \in DOMAIN answers : j > i => ~Closes(answers[j])
      PROVE  WillShow'
  <2>1. CASE i = 1
    <3>1. believed'
      BY <1>1, <1>4, <2>1 DEF Believes, Opens
    <3> QED
      BY <1>2, <1>4, <2>1, <3>1 DEF WillShow
  <2>2. CASE i > 1
    <3>1. i - 1 \in DOMAIN answers' /\ Opens(answers'[i - 1])
      BY <1>2, <1>4, <2>2
    <3>2. \A j \in DOMAIN answers' : j > i - 1 => ~Closes(answers'[j])
      BY <1>2, <1>4, <2>2
    <3> QED
      BY <3>1, <3>2 DEF WillShow
  <2> QED
    BY <1>2, <2>1, <2>2
<1> QED
  BY <1>1, <1>3, <1>4 DEF WillShow

LEMMA TasksStart == TasksInit => TInv
<1> SUFFICES ASSUME TasksInit PROVE TInv
  OBVIOUS
<1>1. flag = FALSE /\ believed = FALSE /\ tasks = <<>> /\ queue = <<>> /\ answers = <<>>
  BY DEF TasksInit, Init
<1>2. <<>> \in Seq(TaskSet) /\ <<>> \in Seq(DOMAIN tasks) /\ <<>> \in Seq(Replies)
  BY EmptySeq
<1> QED
  BY <1>1, <1>2 DEF TInv, TasksTypeOK, TaskSet, Replies

LEMMA TasksStep == TInv /\ [TasksNext]_taskVars => TInv'
<1> SUFFICES ASSUME TInv, [TasksNext]_taskVars PROVE TInv'
  OBVIOUS
<1>1. ASSUME NEW kind \in Kinds, Start(kind) PROVE TInv'
  <2>1. TasksTypeOK'
    BY <1>1, StartType DEF TInv
  <2>2. flag' = flag /\ believed' = believed /\ answers' = answers
    BY <1>1 DEF Start, sessionVars, vars
  <2> QED
    BY <2>1, <2>2 DEF TInv, WillShow
<1>2. CASE Serve
  BY <1>2, ServeType, ServeTells DEF TInv
<1>3. CASE Resume
  BY <1>3, ResumeType, ResumeTells DEF TInv
<1>4. CASE Reconnect
  BY <1>4, ReconnectType DEF TInv
<1>5. CASE UNCHANGED taskVars
  BY <1>5 DEF TInv, TasksTypeOK, WillShow, taskVars, sessionVars, vars
<1> QED
  BY <1>1, <1>2, <1>3, <1>4, <1>5 DEF TasksNext

\* The editor's side keeps its types, and the replies on their way always
\* bring the editor's flag up if the adapter's is (session.lua:369-391).
THEOREM TasksSafety == TasksSpec => []TInv
BY TasksStart, TasksStep, PTL DEF TasksSpec

\* When no command is under way and the adapter holds a transaction open, the
\* winbar shows one, whatever was started, failed or ended in between.
THEOREM OpenIsShown == TasksSpec => []OpenShown
<1>1. TInv => OpenShown
  BY DEF TInv, TasksTypeOK, WillShow, OpenShown, Idle
<1> QED
  BY TasksSafety, <1>1, PTL
=============================================================================
