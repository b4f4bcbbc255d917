------------------------------- MODULE Client -------------------------------
(***************************************************************************)
(* The editor's side of the daemon: core/client.lua, which starts it, sends *)
(* requests and hands replies to their callbacks, the part of session.lua  *)
(* that opens and closes sessions, :DBClientRestart, and the data buffers   *)
(* that keep a session id.  The daemon itself is reduced to what it answers *)
(* (see Daemon for how it does).                                            *)
(*                                                                         *)
(* Everything here runs on the editor's event loop: a callback runs to its *)
(* end, and what the module interleaves is callbacks, the user and the      *)
(* daemons.  More than one daemon can be alive, since a new one is started  *)
(* as soon as the old one has been let go.                                  *)
(***************************************************************************)
EXTENDS Naturals, Sequences, SequencesExt, FiniteSets

CONSTANTS
  Conns,         \* the configured connections
  MaxProcs,      \* bound: daemons started in a behaviour
  MaxRequests,   \* bound: requests sent in a behaviour
  MaxPending     \* bound: requests waited for at once

ASSUME ClientAssumption ==
  MaxProcs \in Nat \ {0} /\ MaxRequests \in Nat \ {0} /\ MaxPending \in Nat \ {0}

Procs == 1 .. MaxProcs
Ids == 1 .. MaxRequests
Sids == 1 .. MaxRequests
None == [none |-> TRUE]          \* no connection

VARIABLES
  procs,      \* each daemon: none, up, dead, closing, reaped
  asked,      \* the daemons up that M.stop has told to end
  handle,     \* M.handle: a daemon, or 0
  restart,    \* whether :DBClientRestart is waiting to start a daemon
  req,        \* the requests sent, in order: [op, sid, conn, proc]
  pending,    \* M.pending: ids of requests without an answer
  out,        \* each daemon's output not read yet: frames, whole or in part
  stdout,     \* M.stdout: the pieces of lines read so far, <<daemon, request>>
  sess,       \* M.sessions: each session id's connection
  views,      \* data buffers: the session id they keep, and what it stood for
  served,     \* the requests daemons have carried out
  opened,     \* Registry.next_id of each daemon
  live,       \* the daemons' sessions: the connection of each id
  answers,    \* history: how often each callback was called
  torn,       \* history: requests whose reply was lost between two lines
  ran         \* history: statements run, and on which connection

daemons == <<served, opened, live, ran>>
manager == <<sess, views>>
history == <<answers, torn>>
vars == <<procs, asked, handle, restart, req, pending, out, stdout, manager,
          daemons, history>>

Frame(id, sid, part) == [id |-> id, sid |-> sid, part |-> part]

\* handle:is_closing() is true from the moment the loop has seen the exit.
Usable == handle # 0 /\ procs[handle] \notin {"closing", "reaped"}
Unstarted(p) == procs[p] = "none" /\ \A q \in 1 .. p - 1 : procs[q] # "none"

Init ==
  /\ procs = [p \in Procs |-> "none"]
  /\ asked = {} /\ handle = 0 /\ restart = FALSE
  /\ req = <<>> /\ pending = {}
  /\ out = [p \in Procs |-> <<>>] /\ stdout = <<>>
  /\ sess = [s \in Sids |-> None] /\ views = {}
  /\ served = {}
  /\ opened = [p \in Procs |-> 0]
  /\ live = [p \in Procs |-> [s \in Sids |-> None]]
  /\ answers = [id \in Ids |-> 0]
  /\ torn = {} /\ ran = {}

-----------------------------------------------------------------------------
(* Sending.                                                                 *)

\* M.ensure: the daemon in hand, or a new one.  The handle ends up as h.
Ensure(p, h) ==
  /\ handle' = h
  /\ \/ /\ Usable /\ p = handle
        /\ UNCHANGED <<procs, out, stdout>>
     \/ /\ ~Usable /\ Unstarted(p)
        /\ procs' = [procs EXCEPT ![p] = "up"]
        /\ stdout' = <<>>
        /\ UNCHANGED out

\* The binary is missing or does not start, or the pipe of a daemon that has
\* ended refuses the line: nothing is sent, and the caller is told at once.
NotSent ==
  /\ Usable => procs[handle] = "dead"
  /\ UNCHANGED <<procs, handle, out, stdout, req, pending>>

Sent(rs, p) ==
  /\ Len(req) + Len(rs) <= MaxRequests
  /\ Cardinality(pending) + Len(rs) <= MaxPending
  /\ req' = req \o [i \in DOMAIN rs |-> [rs[i] EXCEPT !.proc = p]]
  /\ pending' = pending \cup (Len(req) + 1 .. Len(req) + Len(rs))

\* M.request.
Request(r) ==
  \/ \E p \in Procs : Ensure(p, p) /\ Sent(<<r>>, p)
  \/ NotSent

Asking(op, sid, conn) ==
  [op |-> op, sid |-> sid, conn |-> conn, proc |-> 0]

\* session.connect looks for a session of that name before it asks, and not
\* again when the answer comes.
Connect ==
  /\ \E c \in Conns :
       /\ \A s \in Sids : sess[s] # c
       /\ Request(Asking("open", 0, c))
  /\ UNCHANGED <<asked, restart, manager, daemons, history>>

Disconnect ==
  /\ \E s \in Sids :
       /\ sess[s] # None
       /\ sess' = [sess EXCEPT ![s] = None]
       /\ Request(Asking("close", s, None))
  /\ UNCHANGED <<asked, restart, views, daemons, history>>

\* ui/data.lua: a data buffer keeps the id of the session it was opened on.
OpenBuffer ==
  /\ \E s \in Sids :
       /\ sess[s] # None
       /\ views' = views \cup {[sid |-> s, conn |-> sess[s]]}
  /\ UNCHANGED <<procs, asked, handle, restart, req, pending, out, stdout, sess,
                 daemons, history>>

\* Reloading or writing a buffer: the id only has to be one of a session.
Work ==
  /\ \E v \in views :
       /\ sess[v.sid] # None
       /\ Request(Asking("work", v.sid, v.conn))
  /\ UNCHANGED <<asked, restart, manager, daemons, history>>

Closing(open) == [i \in DOMAIN open |-> Asking("close", open[i], None)]

\* :DBClientRestart disconnects every session, through M.request and in the
\* order they were opened, which is any order here, lets go of the daemon
\* after asking it to stop, and starts another 300 ms later.
Restart ==
  /\ \E open \in SetToSeqs({s \in Sids : sess[s] # None}) :
       \/ /\ Usable \/ open # <<>>
          /\ \E p \in Procs :
               Ensure(p, 0) /\ Sent(Closing(open), p) /\ asked' = asked \cup {p}
       \/ /\ Usable => procs[handle] = "dead"     \* as in NotSent
          /\ handle' = 0
          /\ UNCHANGED <<procs, out, stdout, req, pending, asked>>
  /\ sess' = [s \in Sids |-> None]
  /\ restart' = TRUE
  /\ UNCHANGED <<views, daemons, history>>

StartAgain ==
  /\ restart
  /\ restart' = FALSE
  /\ \/ \E p \in Procs : Ensure(p, p) /\ UNCHANGED <<req, pending>>
     \/ NotSent
  /\ UNCHANGED <<asked, manager, daemons, history>>

-----------------------------------------------------------------------------
(* The daemons.                                                             *)

NextSid(p) == opened[p] + 1

Writes(p, id, sid) == out' = [out EXCEPT ![p] = Append(@, Frame(id, sid, "whole"))]

\* A daemon carries out one of its requests and writes the reply.
Serve(p, id) ==
  /\ procs[p] = "up" /\ id \in DOMAIN req /\ req[id].proc = p /\ id \notin served
  /\ served' = served \cup {id}
  /\ LET r == req[id]
     IN \/ /\ r.op = "open"
           /\ \/ /\ Writes(p, id, NextSid(p))
                 /\ opened' = [opened EXCEPT ![p] = @ + 1]
                 /\ live' = [live EXCEPT ![p][NextSid(p)] = r.conn]
              \/ Writes(p, id, 0) /\ UNCHANGED <<opened, live>>   \* cannot connect
           /\ UNCHANGED ran
        \/ /\ r.op = "close"
           /\ live' = [live EXCEPT ![p][r.sid] = None]
           /\ Writes(p, id, 0)
           /\ UNCHANGED <<opened, ran>>
        \/ /\ r.op = "work"
           /\ ran' = IF live[p][r.sid] = None THEN ran      \* unknown session
                     ELSE ran \cup {[id |-> id, conn |-> live[p][r.sid]]}
           /\ Writes(p, id, 0)
           /\ UNCHANGED <<opened, live>>
  /\ UNCHANGED <<procs, asked, handle, restart, req, pending, stdout, manager, history>>

\* A daemon ends: because it was asked to, killed by M.stop's SIGTERM, or by
\* itself.  The last line it was writing may be cut short.
Die(p) ==
  /\ procs[p] = "up"
  /\ procs' = [procs EXCEPT ![p] = "dead"]
  /\ \/ UNCHANGED out
     \/ /\ out[p] # <<>> /\ Last(out[p]).part = "whole"
        /\ out' = [out EXCEPT ![p] = Append(Front(@), [Last(@) EXCEPT !.part = "head"])]
  /\ asked' = asked \ {p}
  /\ live' = [live EXCEPT ![p] = [s \in Sids |-> None]]
  /\ opened' = [opened EXCEPT ![p] = 0]
  /\ UNCHANGED <<handle, restart, req, pending, stdout, manager, served, ran, history>>

-----------------------------------------------------------------------------
(* The callbacks of the event loop.                                         *)

\* The loop sees the exit and closes the process handle; the output may still
\* hold something, and on_exit comes after it.
Notice(p) ==
  /\ procs[p] = "dead"
  /\ procs' = [procs EXCEPT ![p] = "closing"]
  /\ UNCHANGED <<asked, handle, restart, req, pending, out, stdout, manager,
                 daemons, history>>

Entry(id) == IF id \in pending THEN id ELSE 0

PendingKept(id) == pending               \* mutant: the entry is not removed
PendingWithout(id) == pending \ {id}

\* handle_frame: an answer nobody waits for does nothing (nor does an
\* event, "ready" among them, for any part of this module).
HandleFrame(f) ==
  LET id == Entry(f.id)
  IN IF id = 0
     THEN UNCHANGED <<pending, sess, answers>>
     ELSE /\ pending' = PendingWithout(id)
          /\ answers' = [answers EXCEPT ![id] = @ + 1]
          /\ sess' = IF req[id].op = "open" /\ f.sid # 0
                     THEN [sess EXCEPT ![f.sid] = req[id].conn]
                     ELSE sess

\* What is not one line of one frame does not decode, and is dropped.
Garbled(ids) ==
  /\ torn' = torn \cup ids
  /\ UNCHANGED <<pending, sess, answers>>

KeepNothing(piece) == <<>>               \* mutant: only whole lines are kept
Keep(piece) == Append(stdout, piece)

\* consume: a chunk adds a whole line to what was read before, or ends a line,
\* or leaves the beginning of one.
Consume(p) ==
  /\ out[p] # <<>>
  /\ LET f == Head(out[p])
         piece == <<p, f.id>>
     IN \/ /\ f.part = "whole"                    \* the chunk breaks in the line
           /\ stdout' = Keep(piece)
           /\ out' = [out EXCEPT ![p] = <<[f EXCEPT !.part = "tail"]>> \o Tail(@)]
           /\ UNCHANGED <<pending, sess, history>>
        \/ /\ f.part = "head"                     \* the line that was cut short
           /\ stdout' = Keep(piece)
           /\ out' = [out EXCEPT ![p] = Tail(@)]
           /\ UNCHANGED <<pending, sess, history>>
        \/ /\ f.part \in {"whole", "tail"}
           /\ stdout' = <<>>
           /\ out' = [out EXCEPT ![p] = Tail(@)]
           /\ IF stdout = IF f.part = "whole" THEN <<>> ELSE <<piece>>
              THEN HandleFrame(f) /\ UNCHANGED torn
              ELSE Garbled({f.id} \cup {stdout[i][2] : i \in DOMAIN stdout})
  /\ UNCHANGED <<procs, asked, handle, restart, req, views, daemons>>

FailNone == {}                           \* mutant: on_exit only reports
Failing == pending

\* on_exit: whichever daemon it was, the handle is dropped and every pending
\* request is failed.
Exit(p) ==
  /\ procs[p] = "closing" /\ out[p] = <<>>
  /\ procs' = [procs EXCEPT ![p] = "reaped"]
  /\ handle' = 0
  /\ pending' = pending \ Failing
  /\ answers' = [id \in Ids |-> answers[id] + IF id \in Failing THEN 1 ELSE 0]
  /\ UNCHANGED <<asked, restart, req, out, stdout, manager, daemons, torn>>

\* The daemon works on what it was sent; the loop runs what is ready.
Works(p) == \E id \in Ids : Serve(p, id)
Loop(p) == Notice(p) \/ Consume(p) \/ Exit(p)

Next ==
  \/ Connect \/ Disconnect \/ OpenBuffer \/ Work \/ Restart \/ StartAgain
  \/ \E p \in Procs : Works(p) \/ Die(p) \/ Loop(p)

\* The event loop runs its callbacks, a daemon answers what it is asked and a
\* daemon told to stop ends.  The user, the timer and a crash need not come.
Fairness ==
  \A p \in Procs :
    WF_vars(Works(p)) /\ WF_vars(p \in asked /\ Die(p)) /\ WF_vars(Loop(p))

Spec == Init /\ [][Next]_vars
FairSpec == Spec /\ Fairness

-----------------------------------------------------------------------------
(* Properties.                                                              *)

\* Every variable stays in its type.
TypeOK ==
  /\ procs \in [Procs -> {"none", "up", "dead", "closing", "reaped"}]
  /\ asked \subseteq Procs /\ handle \in Procs \cup {0} /\ restart \in BOOLEAN
  /\ req \in Seq([op : {"open", "close", "work"}, sid : Sids \cup {0},
                  conn : Conns \cup {None}, proc : Procs])
  /\ pending \subseteq DOMAIN req /\ served \subseteq DOMAIN req /\ torn \subseteq DOMAIN req
  /\ out \in [Procs -> Seq([id : Ids, sid : Sids \cup {0},
                            part : {"whole", "head", "tail"}])]
  /\ stdout \in Seq(Procs \X Ids)
  /\ sess \in [Sids -> Conns \cup {None}]
  /\ views \subseteq [sid : Sids, conn : Conns]
  /\ opened \in [Procs -> 0 .. MaxRequests]
  /\ live \in [Procs -> [Sids -> Conns \cup {None}]]
  /\ answers \in [Ids -> 0 .. 1]
  /\ ran \subseteq [id : Ids, conn : Conns]

\* A callback is called once: a request is waited for until it is answered,
\* and never again, whatever daemons end, restart or answer late.
AnsweredOnce == \A id \in Ids : id \in pending <=> id \in DOMAIN req /\ answers[id] = 0

\* However its output is cut into chunks, a daemon that is alone loses no
\* reply; only the pieces of two daemons' lines can meet.
TornByTwo ==
  torn # {} => \E p, q \in Procs : p # q /\ procs[p] # "none" /\ procs[q] # "none"

\* Every request is answered in the end, unless its reply met another
\* daemon's line.
EveryRequestSettles ==
  \A id \in Ids : id \in DOMAIN req ~> answers[id] > 0 \/ id \in torn

-----------------------------------------------------------------------------
(* What the documentation says and the code does not do.                    *)

\* "buffers each remember which connection they belong to" (doc/dbclient.txt):
\* what is sent from a data buffer runs on that buffer's connection.
BufferKeepsConnection == \A r \in ran : r.conn = req[r.id].conn

=============================================================================
