------------------------------- MODULE Daemon -------------------------------
(***************************************************************************)
(* The serve daemon of dbclient-core: a reader thread that takes requests  *)
(* from stdin in order, one thread per session with a queue of its own,    *)
(* detached threads that open sessions and tunnels, a registry under one   *)
(* lock, and the ssh processes behind the tunnels.                         *)
(*                                                                         *)
(* A request is known by its place in the order they were sent.  A session *)
(* and an ssh process carry the number of the request that asked for them: *)
(* the daemon's counter and the process ids do no more than tell them      *)
(* apart.  What a statement does is not modelled here (see DbSession): it  *)
(* runs, and ends or does not.                                             *)
(***************************************************************************)
EXTENDS Integers, Sequences, FiniteSets

CONSTANTS
  MaxRequests,   \* bound: requests a client sends in a behaviour
  Ops,           \* the operations it sends
  Slow,          \* sessions whose statements may never end by themselves
  MayClose,      \* sessions the client may close
  MayPanic       \* whether a session thread may panic

AllOps == {"open", "open-ssh", "work", "cancel", "close",
           "tunnel-open", "tunnel-close", "shutdown"}
Ids == 1 .. MaxRequests

ASSUME DaemonAssumption ==
  /\ MaxRequests \in Nat \ {0}
  /\ Ops \subseteq AllOps
  /\ Slow \subseteq Ids
  /\ MayClose \subseteq Ids
  /\ MayPanic \in BOOLEAN

VARIABLES
  sent,       \* the requests the client has written: [op, to]
  eof,        \* whether it has closed its end of the pipe
  read,       \* how many of them the reader has taken
  reader,     \* what the reader thread is doing
  sessions,   \* Registry.sessions
  tunnels,    \* Registry.tunnels
  thread,     \* each session's thread
  queue,      \* each session's channel: requests, and Shutdown
  job,        \* the request a session's thread is serving
  busy,       \* SessionEntry.busy
  cut,        \* sessions whose running statement has been cancelled
  helper,     \* the detached thread of a request
  ssh,        \* the ssh processes that are alive
  out         \* the replies written: [id, ok]

vars == <<sent, eof, read, reader, sessions, tunnels, thread, queue, job, busy,
          cut, helper, ssh, out>>
client == <<sent, eof>>
registry == <<sessions, tunnels>>
threads == <<thread, queue, job, busy, cut>>

Shutdown == 0                    \* Message::Shutdown, among the request numbers

Reading == [at |-> "reading"]
Cancelling(id) == [at |-> "cancelling", id |-> id]
Joining(id, tunnelled) == [at |-> "joining", id |-> id, tunnelled |-> tunnelled]
Stopping(left, now, owned) ==
  [at |-> "stopping", left |-> left, now |-> now, owned |-> owned]
Gone   == [at |-> "gone"]
Killed == [at |-> "killed"]
Up == reader \notin {Gone, Killed}

Readers == {Reading, Gone, Killed} \cup {Cancelling(id) : id \in Ids}
           \cup {Joining(id, b) : id \in Ids, b \in BOOLEAN}
           \cup [at : {"stopping"}, left : SUBSET Ids, now : 0 .. MaxRequests,
                 owned : SUBSET Ids]

Op(id) == sent[id].op
To(id) == sent[id].to
Reply(id, ok) == out' = Append(out, [id |-> id, ok |-> ok])
Replied(id) == \E i \in DOMAIN out : out[i].id = id
Succeeded(id) == \E i \in DOMAIN out : out[i].id = id /\ out[i].ok
Finished(s) == thread[s] \in {"ended", "dead"}

PostFirst(s, m) ==               \* mutant: the newest message is served first
  queue' = IF thread[s] = "dead" THEN queue ELSE [queue EXCEPT ![s] = <<m>> \o @]
PostShared(s, m) ==              \* mutant: one worker serves every session
  queue' = [queue EXCEPT ![1] = Append(@, m)]
\* A message for a thread that has panicked is dropped with its channel.
Post(s, m) == queue' = IF thread[s] = "dead" THEN queue
                       ELSE [queue EXCEPT ![s] = Append(@, m)]

Init ==
  /\ sent = <<>> /\ eof = FALSE /\ read = 0 /\ reader = Reading
  /\ sessions = {} /\ tunnels = {}
  /\ thread = [s \in Ids |-> "none"]
  /\ queue = [s \in Ids |-> <<>>]
  /\ job = [s \in Ids |-> 0]
  /\ busy = [s \in Ids |-> 0]
  /\ cut = {}
  /\ helper = [id \in Ids |-> "none"]
  /\ ssh = {}
  /\ out = <<>>

-----------------------------------------------------------------------------
(* The client: what it may write next.                                      *)

Targets(op) ==
  CASE op \in {"work", "cancel", "close"} ->
         {s \in DOMAIN sent : /\ Op(s) \in {"open", "open-ssh"} /\ Succeeded(s)
                              /\ op = "close" => s \in MayClose}
    [] op = "tunnel-close" ->
         {p \in DOMAIN sent : Op(p) = "tunnel-open" /\ Succeeded(p)}
    [] OTHER -> {0}

\* client.request, for any session it has been told of, closed ones included.
\* After a shutdown it has let go of the process.
Send ==
  /\ ~eof /\ Up /\ Len(sent) < MaxRequests
  /\ \A id \in DOMAIN sent : Op(id) # "shutdown"
  /\ \E op \in Ops : \E to \in Targets(op) :
       sent' = Append(sent, [op |-> op, to |-> to])
  /\ UNCHANGED <<eof, read, reader, registry, threads, helper, ssh, out>>

\* Neovim goes away without a shutdown request.
HangUp ==
  /\ ~eof /\ "shutdown" \in Ops
  /\ eof' = TRUE
  /\ UNCHANGED <<sent, read, reader, registry, threads, helper, ssh, out>>

\* 200 ms after it has asked for a shutdown the client sends SIGTERM.
Kill ==
  /\ Up /\ \E id \in DOMAIN sent : Op(id) = "shutdown"
  /\ reader' = Killed
  /\ UNCHANGED <<client, read, registry, threads, helper, ssh, out>>

-----------------------------------------------------------------------------
(* The reader thread: the loop of serve, and dispatch.                      *)

\* The next line is request id, an operation op.
Next1(id, op) ==
  /\ reader = Reading /\ read < Len(sent)
  /\ id = read + 1 /\ Op(id) = op
  /\ read' = id

Refuse(id) == Reply(id, FALSE)

DispatchWork ==
  \E id \in Ids :
    /\ Next1(id, "work")
    /\ IF To(id) \in sessions
       THEN Post(To(id), id) /\ UNCHANGED out
       ELSE Refuse(id) /\ UNCHANGED queue
    /\ UNCHANGED <<client, reader, registry, thread, job, busy, cut, helper, ssh>>

\* Opening a session and the tunnel operations get a thread of their own.  So do
\* operations that need no connection (splitting SQL, listing sessions): they
\* change nothing and are left out.
DispatchHelper ==
  \E id \in Ids, op \in {"open", "open-ssh", "tunnel-open", "tunnel-close"} :
    /\ Next1(id, op)
    /\ helper' = [helper EXCEPT ![id] =
                    CASE op = "open" -> "connecting"
                      [] op \in {"open-ssh", "tunnel-open"} -> "tunnelling"
                      [] op = "tunnel-close" -> "closing"]
    /\ UNCHANGED <<client, reader, registry, threads, ssh, out>>

\* cancel_session reads busy under the lock, and cancels after it.
DispatchCancel ==
  \E id \in Ids :
    /\ Next1(id, "cancel")
    /\ IF To(id) \in sessions /\ busy[To(id)] > 0
       THEN reader' = Cancelling(id) /\ UNCHANGED out
       ELSE Reply(id, To(id) \in sessions) /\ UNCHANGED reader
    /\ UNCHANGED <<client, registry, threads, helper, ssh>>

Cancel ==
  /\ reader.at = "cancelling"
  /\ reader' = Reading
  /\ LET s == To(reader.id)
     IN \/ /\ cut' = IF thread[s] = "running" THEN cut \cup {s} ELSE cut
           /\ Reply(reader.id, TRUE)
        \/ Reply(reader.id, FALSE) /\ UNCHANGED cut    \* the server refused it
  /\ UNCHANGED <<client, read, registry, thread, queue, job, busy, helper, ssh>>

TunnelKept(s) == tunnels         \* mutant: close forgets the tunnel
TunnelFreed(s) == tunnels \ {s}

\* close_session takes the session and its tunnel out of the registry under
\* one lock, and then waits for the thread, on the reader thread.
DispatchClose ==
  \E id \in Ids :
    /\ Next1(id, "close")
    /\ sessions' = sessions \ {To(id)}
    /\ tunnels' = TunnelFreed(To(id))
    /\ IF To(id) \in sessions
       THEN /\ Post(To(id), Shutdown)
            /\ reader' = Joining(id, To(id) \in tunnels)
            /\ UNCHANGED out
       ELSE Reply(id, TRUE) /\ UNCHANGED <<queue, reader>>
    /\ UNCHANGED <<client, thread, job, busy, cut, helper, ssh>>

JoinEarly(s) == TRUE             \* mutant: the thread is not waited for
Joinable(s) == Finished(s)

Joined ==
  /\ reader.at = "joining"
  /\ Joinable(To(reader.id))
  /\ ssh' = IF reader.tunnelled THEN ssh \ {To(reader.id)} ELSE ssh
  /\ Reply(reader.id, TRUE)
  /\ reader' = Reading
  /\ UNCHANGED <<client, read, registry, threads, helper>>

\* shutdown_all takes everything out of the registry at once.
TakeAll ==
  /\ reader' = Stopping(sessions, 0, tunnels)
  /\ sessions' = {} /\ tunnels' = {}

DispatchShutdown ==
  \E id \in Ids :
    /\ Next1(id, "shutdown")
    /\ Reply(id, TRUE)
    /\ TakeAll
    /\ UNCHANGED <<client, threads, helper, ssh>>

EndOfInput ==
  /\ reader = Reading /\ eof /\ read = Len(sent)
  /\ TakeAll
  /\ UNCHANGED <<client, read, threads, helper, ssh, out>>

StopSession ==
  /\ reader.at = "stopping" /\ reader.now = 0
  /\ \E s \in reader.left :
       /\ Post(s, Shutdown)
       /\ reader' = [reader EXCEPT !.now = s]
  /\ UNCHANGED <<client, read, registry, thread, job, busy, cut, helper, ssh, out>>

StopJoined ==
  /\ reader.at = "stopping" /\ reader.now # 0
  /\ Joinable(reader.now)
  /\ reader' = Stopping(reader.left \ {reader.now}, 0, reader.owned)
  /\ UNCHANGED <<client, read, registry, threads, helper, ssh, out>>

\* The tunnels go last; then main returns and takes every thread with it.
Exit ==
  /\ reader.at = "stopping" /\ reader.now = 0 /\ reader.left = {}
  /\ ssh' = ssh \ reader.owned
  /\ reader' = Gone
  /\ UNCHANGED <<client, read, registry, threads, helper, out>>

Reader ==
  \/ DispatchWork \/ DispatchHelper
  \/ DispatchCancel \/ Cancel
  \/ DispatchClose \/ Joined
  \/ DispatchShutdown \/ EndOfInput
  \/ StopSession \/ StopJoined \/ Exit

-----------------------------------------------------------------------------
(* The detached threads: open_session and the tunnel operations.            *)

HelperGoes(id, step) == helper' = [helper EXCEPT ![id] = step]
HelperFails(id) == HelperGoes(id, "none") /\ Reply(id, FALSE)

\* tunnel::open: ssh forwards the port, or it fails and is gone, or the call
\* fails with the process still there (an address that does not parse).
OpenTunnel(id) ==
  /\ helper[id] = "tunnelling"
  /\ \/ /\ ssh' = ssh \cup {id}
        /\ HelperGoes(id, IF Op(id) = "open-ssh" THEN "connecting" ELSE "storing")
        /\ UNCHANGED out
     \/ ssh' \in {ssh, ssh \cup {id}} /\ HelperFails(id)
  /\ UNCHANGED <<registry, threads>>

\* A connection that fails drops the tunnel's handle, which does not stop ssh.
Connect(id) ==
  /\ helper[id] = "connecting"
  /\ \/ HelperGoes(id, "registering") /\ UNCHANGED out
     \/ HelperFails(id)
  /\ UNCHANGED <<registry, threads, ssh>>

\* The session's thread starts, and the session and its tunnel are entered
\* into the registry under one lock.
Register(id) ==
  /\ helper[id] = "registering"
  /\ sessions' = sessions \cup {id}
  /\ tunnels' = IF Op(id) = "open-ssh" THEN tunnels \cup {id} ELSE tunnels
  /\ thread' = [thread EXCEPT ![id] = "idle"]
  /\ HelperGoes(id, "replying")
  /\ UNCHANGED <<queue, job, busy, cut, ssh, out>>

StoreTunnel(id) ==
  /\ helper[id] = "storing"
  /\ tunnels' = tunnels \cup {id}
  /\ HelperGoes(id, "replying")
  /\ UNCHANGED <<sessions, threads, ssh, out>>

\* tunnel-close kills by process id and only then forgets the tunnel; a
\* process that is gone already may or may not be an error.
CloseTunnel(id) ==
  /\ helper[id] = "closing"
  /\ \/ /\ ssh' = ssh \ {To(id)}
        /\ HelperGoes(id, "forgetting")
        /\ UNCHANGED out
     \/ To(id) \notin ssh /\ HelperFails(id) /\ UNCHANGED ssh
  /\ UNCHANGED <<registry, threads>>

ForgetTunnel(id) ==
  /\ helper[id] = "forgetting"
  /\ tunnels' = tunnels \ {To(id)}
  /\ HelperGoes(id, "replying")
  /\ UNCHANGED <<sessions, threads, ssh, out>>

HelperReplies(id) ==
  /\ helper[id] = "replying"
  /\ HelperGoes(id, "none")
  /\ Reply(id, TRUE)
  /\ UNCHANGED <<registry, threads, ssh>>

Helper(id) ==
  /\ Up
  /\ \/ OpenTunnel(id) \/ Connect(id) \/ Register(id) \/ StoreTunnel(id)
     \/ CloseTunnel(id) \/ ForgetTunnel(id) \/ HelperReplies(id)
  /\ UNCHANGED <<client, read, reader>>

-----------------------------------------------------------------------------
(* The session threads.                                                     *)

Take(s) ==
  /\ thread[s] = "idle" /\ queue[s] # <<>>
  /\ queue' = [queue EXCEPT ![s] = Tail(@)]
  /\ IF Head(queue[s]) = Shutdown
     THEN thread' = [thread EXCEPT ![s] = "ended"] /\ UNCHANGED <<job, busy>>
     ELSE /\ thread' = [thread EXCEPT ![s] = "running"]
          /\ job' = [job EXCEPT ![s] = Head(queue[s])]
          /\ busy' = [busy EXCEPT ![s] = @ + 1]
  /\ UNCHANGED <<cut, out>>

LoweredTwice(n) == n - 2         \* mutant: busy is lowered on both paths
Lowered(n) == n - 1

\* The statement is over: busy is lowered, then the reply written.
EndStatement(s) ==
  /\ thread[s] = "running"
  /\ thread' = [thread EXCEPT ![s] = "replying"]
  /\ busy' = [busy EXCEPT ![s] = Lowered(@)]
  /\ cut' = cut \ {s}
  /\ UNCHANGED <<queue, job, out>>

\* What the reply says is the session's business.
Answer(s) ==
  /\ thread[s] = "replying"
  /\ thread' = [thread EXCEPT ![s] = "idle"]
  /\ job' = [job EXCEPT ![s] = 0]
  /\ Reply(job[s], TRUE)
  /\ UNCHANGED <<queue, busy, cut>>

\* A panic in an adapter unwinds the thread; its channel goes with it and
\* busy stays up.
Panic(s) ==
  /\ MayPanic /\ thread[s] = "running"
  /\ thread' = [thread EXCEPT ![s] = "dead"]
  /\ queue' = [queue EXCEPT ![s] = <<>>]
  /\ job' = [job EXCEPT ![s] = 0]
  /\ cut' = cut \ {s}
  /\ UNCHANGED <<busy, out>>

Beside == UNCHANGED <<client, read, reader, registry, helper, ssh>>

ThreadMoves(s) == Up /\ (Take(s) \/ Answer(s)) /\ Beside
StatementEnds(s) == Up /\ EndStatement(s) /\ Beside

Next ==
  \/ Send \/ HangUp \/ Kill
  \/ Reader
  \/ \E id \in Ids :
       \/ Helper(id)
       \/ ThreadMoves(id) \/ StatementEnds(id)
       \/ Up /\ Panic(id) /\ Beside

\* Every thread runs, connecting and tunnelling come to an end, and so does a
\* statement, unless its session is a slow one and nobody cancels it.
Fairness ==
  /\ WF_vars(Reader)
  /\ \A id \in Ids :
       /\ WF_vars(Helper(id))
       /\ WF_vars(ThreadMoves(id))
       /\ WF_vars((id \notin Slow \/ id \in cut) /\ StatementEnds(id))

Spec == Init /\ [][Next]_vars
FairSpec == Spec /\ Fairness

-----------------------------------------------------------------------------
(* Properties.                                                              *)

Alive(s) == thread[s] \in {"idle", "running", "replying"}

\* Every variable stays in its type; a session runs one statement at most.
TypeOK ==
  /\ sent \in Seq([op : AllOps, to : 0 .. MaxRequests]) /\ Len(sent) <= MaxRequests
  /\ eof \in BOOLEAN /\ read \in 0 .. Len(sent)
  /\ reader \in Readers
  /\ sessions \subseteq Ids /\ tunnels \subseteq Ids /\ ssh \subseteq Ids /\ cut \subseteq Ids
  /\ thread \in [Ids -> {"none", "idle", "running", "replying", "ended", "dead"}]
  /\ queue \in [Ids -> Seq(0 .. MaxRequests)]
  /\ job \in [Ids -> 0 .. MaxRequests]
  /\ busy \in [Ids -> 0 .. 1]
  /\ helper \in [Ids -> {"none", "tunnelling", "connecting", "registering", "storing",
                         "closing", "forgetting", "replying"}]
  /\ out \in Seq([id : Ids, ok : BOOLEAN])

\* A session is served in the order it was asked, its close included, and no
\* request is answered twice, however the reader, the session threads and the
\* closing of other sessions interleave.
ServedInOrder ==
  \A i, j \in DOMAIN out :
    i < j =>
      /\ out[i].id # out[j].id
      /\ LET a == out[i].id
             b == out[j].id
         IN {Op(a), Op(b)} \subseteq {"work", "close"} /\ To(a) = To(b) => a < b

Served(w) == Replied(w) \/ thread[To(w)] = "dead"

\* Once a close is answered everything asked before it has been served, the
\* thread is over and the tunnel is down.
CloseDrains ==
  \A c \in DOMAIN sent : Op(c) = "close" /\ Replied(c) =>
    /\ \A w \in 1 .. c : Op(w) = "work" /\ To(w) = To(c) => Served(w)
    /\ Finished(To(c)) /\ To(c) \notin sessions
    /\ Op(To(c)) = "open-ssh" => To(c) \notin ssh

\* A daemon that exits by itself has served every request for a session that
\* it had read; none is lost in a channel.
ExitDrains ==
  reader = Gone => \A w \in 1 .. read : Op(w) = "work" => Served(w)

\* A session that goes through a tunnel has it for as long as its thread lives:
\* the tunnel is never taken down under a statement.
TunnelOutlivesSession ==
  \A s \in DOMAIN sent : Op(s) = "open-ssh" /\ Alive(s) => s \in ssh

\* The registry holds a session's tunnel exactly while it holds the session,
\* and a tunnel whose process is gone only while that is being noted.
RegistryPaired ==
  /\ \A s \in DOMAIN sent : Op(s) = "open-ssh" => (s \in sessions <=> s \in tunnels)
  /\ \A p \in tunnels \ ssh : \E id \in DOMAIN sent :
       Op(id) = "tunnel-close" /\ To(id) = p

Settled(id) ==
  \/ Replied(id) \/ ~Up
  \/ id \in DOMAIN sent /\ Op(id) = "work" /\ thread[To(id)] = "dead"

\* "a slow query on one connection never blocks the others" (server.rs): every
\* request that is not waiting for a slow session's statement is answered in
\* the end, the cancellation of that statement and the opening and closing of
\* other sessions included.
OthersNotBlocked ==
  \A id \in Ids :
    (id \in DOMAIN sent /\ (Op(id) = "work" => To(id) \notin Slow)) ~> Settled(id)

-----------------------------------------------------------------------------
(* What the documentation says and the code does not do.                    *)

\* "a tunnel, opened on connect and closed with the session"
\* (docs/src/config/connections.md): an ssh process belongs to a session or a
\* tunnel that is open, being opened or being closed.
NoStraySsh ==
  Up => \A p \in ssh :
    \/ p \in tunnels
    \/ helper[p] \in {"connecting", "registering", "storing"}
    \/ reader.at = "joining" /\ To(reader.id) = p
    \/ reader.at = "stopping" /\ p \in reader.owned
=============================================================================
