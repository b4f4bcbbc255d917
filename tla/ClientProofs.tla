---------------------------- MODULE ClientProofs ----------------------------
(* Whatever the daemons and the user do, for any number of connections,        *)
(* daemons and requests: every callback is called once and with its own reply, *)
(* and a reply is lost only where two daemons' output meets.                   *)
EXTENDS Client, FiniteSetTheorems, SequenceTheorems, TLAPS

USE DEF Procs, Ids, Sids

Requests == [op : {"open", "close", "work"}, sid : Sids \cup {0},
             conn : Conns \cup {None}, proc : Procs]
Frames   == [id : Ids, sid : Sids \cup {0}, part : {"whole", "head", "tail"}]

-----------------------------------------------------------------------------
(* The invariant.                                                              *)

\* What the types of a request and of a session's id rest on: a daemon gives
\* out one id at most for every request it was sent.
Counted ==
  /\ Len(req) <= MaxRequests
  /\ \A p \in Procs : opened[p] <= Cardinality(served)

\* Only an open has no session to go to.
Addressed == \A i \in DOMAIN req : req[i].op # "open" => req[i].sid \in Sids

\* Answers are counted: one for a request that is not waited for any more.
Settled ==
  \A id \in Ids : answers[id] = IF id \in DOMAIN req \ pending THEN 1 ELSE 0

Single(p) == \A q \in Procs \ {p} : procs[q] = "none"

Begun(p) == out[p] # <<>> /\ out[p][1].part = "tail"

\* What is kept of a line is the beginning of the line that is being read, and
\* a line that was cut short is the last one of a daemon that has ended.
OwnLine(p) ==
  /\ \A i \in DOMAIN out[p] : /\ out[p][i].part = "tail" => i = 1
                              /\ out[p][i].part = "head" => i = Len(out[p]) /\ procs[p] # "up"
  /\ Begun(p) => stdout = <<<<p, out[p][1].id>>>>
  /\ ~Begun(p) /\ (out[p] # <<>> \/ procs[p] \in {"none", "up"}) => stdout = <<>>

Alone == \A p \in Procs : Single(p) => torn = {} /\ OwnLine(p)

\* A daemon that was not started has written nothing.
Silent == \A p \in Procs : procs[p] = "none" => out[p] = <<>>

\* What is read or to be read are replies of requests that were served.
Known ==
  /\ \A p \in Procs : \A i \in DOMAIN out[p] : out[p][i].id \in served
  /\ \A i \in DOMAIN stdout : stdout[i][2] \in served

IInv == TypeOK /\ Counted /\ Addressed /\ Settled /\ Alone /\ Silent /\ Known
-----------------------------------------------------------------------------
(* Requests are sent.                                                          *)

\* What the senders do to the daemons: nothing, or one more is started and the
\* pieces of lines are dropped.
Starts ==
  \/ UNCHANGED <<procs, out, stdout>>
  \/ \E p \in Procs : /\ Unstarted(p) /\ procs' = [procs EXCEPT ![p] = "up"]
                      /\ stdout' = <<>> /\ UNCHANGED out

\* What they do to the requests: some are added, and waited for.
Adds ==
  \E new \in Seq(Requests) :
    /\ \A i \in DOMAIN new : new[i].op # "open" => new[i].sid \in Sids
    /\ Len(req) + Len(new) <= MaxRequests
    /\ req' = req \o new
    /\ pending' = pending \cup (Len(req) + 1 .. Len(req) + Len(new))

LEMMA EnsureStarts ==
  ASSUME NEW p \in Procs, NEW h, Ensure(p, h)
  PROVE  Starts /\ handle' = h
BY DEF Ensure, Starts

LEMMA NothingAdded ==
  ASSUME IInv, UNCHANGED <<req, pending>>
  PROVE  Adds
<1>1. req \in Seq(Requests) /\ Len(req) <= MaxRequests
  BY DEF IInv, TypeOK, Counted, Requests
<1>2. req = req \o <<>>
  BY <1>1
<1>3. <<>> \in Seq(Requests) /\ Len(req) + Len(<<>>) = Len(req)
  BY <1>1
<1>4. pending = pending \cup (Len(req) + 1 .. Len(req) + Len(<<>>))
  BY <1>1
<1>5. \A i \in DOMAIN <<>> : <<>>[i].op # "open" => <<>>[i].sid \in Sids
  OBVIOUS
<1>6. \E new \in Seq(Requests) : new = <<>>
  BY <1>3
<1> QED
  BY <1>1, <1>2, <1>3, <1>4, <1>5, <1>6, UNCHANGED <<req, pending>> DEF Adds

\* The form of the requests a caller hands to M.request.
Asked == [op : {"open", "close", "work"}, sid : Sids \cup {0},
          conn : Conns \cup {None}, proc : {0}]

LEMMA SentAdds ==
  ASSUME IInv, NEW rs \in Seq(Asked), NEW p \in Procs, Sent(rs, p),
         \A i \in DOMAIN rs : rs[i].op # "open" => rs[i].sid \in Sids
  PROVE  Adds
<1> DEFINE new == [i \in DOMAIN rs |-> [rs[i] EXCEPT !.proc = p]]
<1>1. DOMAIN rs = 1 .. Len(rs) /\ Len(rs) \in Nat
  OBVIOUS
<1>2. \A i \in DOMAIN rs : rs[i] \in Asked
  OBVIOUS
<1>3. \A i \in DOMAIN rs : new[i] \in Requests
  BY <1>2 DEF Asked, Requests
<1>4. new \in [1 .. Len(rs) -> Requests]
  BY <1>1, <1>3
<1>5. new \in Seq(Requests) /\ Len(new) = Len(rs) /\ DOMAIN new = DOMAIN rs
  BY <1>1, <1>4, SeqDef
<1>6. \A i \in DOMAIN new : new[i].op # "open" => new[i].sid \in Sids
  BY <1>2, <1>5 DEF Asked
<1>7. Len(req) + Len(new) <= MaxRequests /\ req' = req \o new
      /\ pending' = pending \cup (Len(req) + 1 .. Len(req) + Len(new))
  BY <1>5 DEF Sent
<1> QED
  BY <1>5, <1>6, <1>7 DEF Adds

LEMMA RequestAdds ==
  ASSUME IInv, NEW r \in Asked, r.op # "open" => r.sid \in Sids, Request(r)
  PROVE  Starts /\ Adds /\ handle' \in Procs \cup {0}
<1>1. CASE NotSent
  BY <1>1, NothingAdded DEF NotSent, Starts, IInv, TypeOK
<1>2. ASSUME NEW p \in Procs, Ensure(p, p), Sent(<<r>>, p) PROVE Starts /\ Adds /\ handle' \in Procs \cup {0}
  <2>1. <<r>> \in Seq(Asked) /\ DOMAIN <<r>> = {1} /\ <<r>>[1] = r
    OBVIOUS
  <2> QED
    BY <1>2, <2>1, EnsureStarts, SentAdds
<1> QED
  BY <1>1, <1>2 DEF Request

\* The two together keep what the module says of requests and of output.
LEMMA SendersKeep ==
  ASSUME IInv, Starts, Adds, handle' \in Procs \cup {0},
         asked' \subseteq Procs, restart' \in BOOLEAN,
         sess' \in [Sids -> Conns \cup {None}], views' \subseteq [sid : Sids, conn : Conns],
         UNCHANGED <<daemons, history>>
  PROVE  IInv'
<1> USE DEF daemons, history
<1> PICK new \in Seq(Requests) :
      /\ \A i \in DOMAIN new : new[i].op # "open" => new[i].sid \in Sids
      /\ Len(req) + Len(new) <= MaxRequests
      /\ req' = req \o new
      /\ pending' = pending \cup (Len(req) + 1 .. Len(req) + Len(new))
  BY DEF Adds
<1>1. /\ req \in Seq(Requests) /\ Len(req) \in Nat /\ Len(new) \in Nat
      /\ req' \in Seq(Requests) /\ Len(req') = Len(req) + Len(new)
      /\ DOMAIN req = 1 .. Len(req) /\ DOMAIN new = 1 .. Len(new)
      /\ DOMAIN req' = 1 .. Len(req) + Len(new)
  BY DEF IInv, TypeOK, Requests
<1>2. \A i \in DOMAIN req' :
        req'[i] = IF i \in DOMAIN req THEN req[i] ELSE new[i - Len(req)]
  BY <1>1
<1>3. TypeOK'
  <2>1. pending' \subseteq DOMAIN req'
    BY <1>1 DEF IInv, TypeOK
  <2>2. procs' \in [Procs -> {"none", "up", "dead", "closing", "reaped"}]
    BY DEF Starts, IInv, TypeOK
  <2>4. <<>> \in Seq(Procs \X Ids)
    OBVIOUS
  <2>5. stdout' \in Seq(Procs \X Ids)
    BY <2>4 DEF Starts, IInv, TypeOK
  <2>3. out' = out
    BY DEF Starts
  <2>6. req' \in Seq([op : {"open", "close", "work"}, sid : Sids \cup {0},
                     conn : Conns \cup {None}, proc : Procs])
    BY <1>1 DEF Requests
  <2>7. served' \subseteq DOMAIN req' /\ torn' \subseteq DOMAIN req'
    BY <1>1 DEF IInv, TypeOK
  <2> HIDE DEF Procs, Ids, Sids
  <2> QED
    BY <2>1, <2>2, <2>3, <2>5, <2>6, <2>7 DEF IInv, TypeOK
<1>4. Counted'
  BY <1>1 DEF IInv, Counted
<1>5. Addressed'
  BY <1>1, <1>2 DEF IInv, Addressed
<1>6. Settled'
  <2> SUFFICES ASSUME NEW id \in Ids
               PROVE  id \in DOMAIN req' \ pending' <=> id \in DOMAIN req \ pending
    BY DEF IInv, Settled
  <2> QED
    BY <1>1 DEF IInv, TypeOK
<1>8. Alone' /\ Silent'
  <2>1. CASE UNCHANGED <<procs, out, stdout>>
    BY <2>1 DEF IInv, Alone, Silent, Single, OwnLine, Begun
  <2>2. ASSUME NEW p \in Procs, Unstarted(p), procs' = [procs EXCEPT ![p] = "up"],
               stdout' = <<>>, UNCHANGED out
        PROVE  Alone' /\ Silent'
    <3>1. procs[p] = "none" /\ out[p] = <<>>
          /\ procs \in [Procs -> {"none", "up", "dead", "closing", "reaped"}]
      BY <2>2 DEF Unstarted, IInv, Silent, TypeOK
    <3>2. Silent'
      BY <2>2, <3>1 DEF IInv, Silent
    <3>3. ASSUME NEW q \in Procs, Single(q)' PROVE q = p /\ Single(p)
      BY <2>2, <3>1, <3>3 DEF Single
    <3>4. OwnLine(p)'
      BY <2>2, <3>1 DEF OwnLine, Begun
    <3> QED
      BY <3>2, <3>3, <3>4 DEF IInv, Alone
  <2> QED
    BY <2>1, <2>2 DEF Starts
<1>9. Known'
  <2>1. stdout' = stdout \/ stdout' = <<>>
    BY DEF Starts
  <2>2. out' = out /\ served' = served
    BY DEF Starts
  <2> QED
    BY <2>1, <2>2 DEF IInv, Known
<1> QED
  BY <1>3, <1>4, <1>5, <1>6, <1>8, <1>9 DEF IInv

LEMMA AskingType ==
  ASSUME NEW op \in {"open", "close", "work"}, NEW sid \in Sids \cup {0},
         NEW conn \in Conns \cup {None}
  PROVE  Asking(op, sid, conn) \in Asked /\ Asking(op, sid, conn).op = op
         /\ Asking(op, sid, conn).sid = sid
BY DEF Asking, Asked

LEMMA ConnectHolds == ASSUME IInv, Connect PROVE IInv'
<1>1. PICK c \in Conns : Request(Asking("open", 0, c))
  BY DEF Connect
<1>2. Starts /\ Adds /\ handle' \in Procs \cup {0}
  BY <1>1, AskingType, RequestAdds
<1> QED
  BY <1>2, SendersKeep DEF Connect, manager, IInv, TypeOK

LEMMA DisconnectHolds == ASSUME IInv, Disconnect PROVE IInv'
<1>1. PICK s \in Sids : /\ sess' = [sess EXCEPT ![s] = None]
                        /\ Request(Asking("close", s, None))
  BY DEF Disconnect
<1>2. Starts /\ Adds /\ handle' \in Procs \cup {0}
  BY <1>1, AskingType, RequestAdds
<1>3. sess' \in [Sids -> Conns \cup {None}]
  BY <1>1 DEF IInv, TypeOK
<1> QED
  BY <1>2, <1>3, SendersKeep DEF Disconnect, IInv, TypeOK

LEMMA OpenBufferHolds == ASSUME IInv, OpenBuffer PROVE IInv'
<1>1. PICK s \in Sids : sess[s] # None /\ views' = views \cup {[sid |-> s, conn |-> sess[s]]}
  BY DEF OpenBuffer
<1>2. Starts /\ Adds
  BY NothingAdded DEF OpenBuffer, Starts
<1>3. views' \subseteq [sid : Sids, conn : Conns]
  BY <1>1 DEF IInv, TypeOK
<1> QED
  BY <1>2, <1>3, SendersKeep DEF OpenBuffer, IInv, TypeOK

LEMMA WorkHolds == ASSUME IInv, Work PROVE IInv'
<1>1. PICK v \in views : Request(Asking("work", v.sid, v.conn))
  BY DEF Work
<1>2. v.sid \in Sids /\ v.conn \in Conns
  BY DEF IInv, TypeOK
<1>3. Starts /\ Adds /\ handle' \in Procs \cup {0}
  BY <1>1, <1>2, AskingType, RequestAdds
<1> QED
  BY <1>3, SendersKeep DEF Work, manager, IInv, TypeOK

LEMMA ClosingType ==
  ASSUME NEW open \in SetToSeqs({s \in Sids : sess[s] # None})
  PROVE  /\ Closing(open) \in Seq(Asked)
         /\ \A i \in DOMAIN Closing(open) : Closing(open)[i].sid \in Sids
<1> DEFINE S == {s \in Sids : sess[s] # None}
<1>1. IsFiniteSet(S) /\ Cardinality(S) \in Nat
  <2>1. IsFiniteSet(1 .. MaxRequests)
    BY FS_Interval, ClientAssumption
  <2> QED
    BY <2>1, FS_Subset, FS_CardinalityType
<1>2. open \in [1 .. Cardinality(S) -> S]
  BY DEF SetToSeqs
<1>3. DOMAIN Closing(open) = 1 .. Cardinality(S)
      /\ \A i \in 1 .. Cardinality(S) : Closing(open)[i] = Asking("close", open[i], None)
  BY <1>2 DEF Closing
<1>4. \A i \in 1 .. Cardinality(S) : Closing(open)[i] \in Asked /\ Closing(open)[i].sid \in Sids
  BY <1>2, <1>3, AskingType
<1>5. Closing(open) \in [1 .. Cardinality(S) -> Asked]
  BY <1>3, <1>4 DEF Closing
<1> QED
  BY <1>1, <1>3, <1>4, <1>5, SeqDef

LEMMA RestartHolds == ASSUME IInv, Restart PROVE IInv'
<1>1. PICK open \in SetToSeqs({s \in Sids : sess[s] # None}) :
        \/ \E p \in Procs : Ensure(p, 0) /\ Sent(Closing(open), p) /\ asked' = asked \cup {p}
        \/ handle' = 0 /\ UNCHANGED <<procs, out, stdout, req, pending, asked>>
  BY DEF Restart
<1>2. Starts /\ Adds /\ handle' \in Procs \cup {0} /\ asked' \subseteq Procs
  <2>1. CASE handle' = 0 /\ UNCHANGED <<procs, out, stdout, req, pending, asked>>
    BY <2>1, NothingAdded DEF Starts, IInv, TypeOK
  <2>2. ASSUME NEW p \in Procs, Ensure(p, 0), Sent(Closing(open), p), asked' = asked \cup {p}
        PROVE  Starts /\ Adds /\ handle' \in Procs \cup {0} /\ asked' \subseteq Procs
    BY <2>2, EnsureStarts, ClosingType, SentAdds DEF IInv, TypeOK
  <2> QED
    BY <1>1, <2>1, <2>2
<1> QED
  BY <1>2, SendersKeep DEF Restart, IInv, TypeOK

LEMMA StartAgainHolds == ASSUME IInv, StartAgain PROVE IInv'
<1>1. Starts /\ Adds /\ handle' \in Procs \cup {0}
  <2>1. CASE NotSent
    BY <2>1, NothingAdded DEF NotSent, Starts, IInv, TypeOK
  <2>2. ASSUME NEW p \in Procs, Ensure(p, p), UNCHANGED <<req, pending>>
        PROVE  Starts /\ Adds /\ handle' \in Procs \cup {0}
    BY <2>2, EnsureStarts, NothingAdded
  <2> QED
    BY <2>1, <2>2 DEF StartAgain
<1> QED
  BY <1>1, SendersKeep DEF StartAgain, manager, IInv, TypeOK

-----------------------------------------------------------------------------
(* A daemon answers, or ends.                                                  *)

States == {"none", "up", "dead", "closing", "reaped"}

\* The types, taken apart.
LEMMA RequestTypes ==
  ASSUME IInv
  PROVE  /\ req \in Seq(Requests) /\ Len(req) \in Nat /\ DOMAIN req = 1 .. Len(req)
         /\ Len(req) <= MaxRequests /\ MaxRequests \in Nat
         /\ \A id \in DOMAIN req : id \in Ids /\ req[id] \in Requests
         /\ served \subseteq 1 .. Len(req) /\ IsFiniteSet(served) /\ Cardinality(served) \in Nat
         /\ \A p \in Procs : opened[p] \in Nat /\ opened[p] <= Cardinality(served)
<1>1. MaxRequests \in Nat
  BY ClientAssumption
<1>2. req \in Seq(Requests) /\ Len(req) <= MaxRequests /\ served \subseteq DOMAIN req
  BY DEF IInv, TypeOK, Counted, Requests
<1>3. Len(req) \in Nat /\ DOMAIN req = 1 .. Len(req)
  BY <1>2
<1>4. \A id \in DOMAIN req : id \in Ids /\ req[id] \in Requests
  BY <1>1, <1>2, <1>3
<1>5. IsFiniteSet(1 .. Len(req))
  BY <1>3, FS_Interval
<1>6. IsFiniteSet(served)
  BY <1>2, <1>3, <1>5, FS_Subset
<1>7. Cardinality(served) \in Nat
  BY <1>6, FS_CardinalityType
<1>8. opened \in [Procs -> 0 .. MaxRequests] /\ \A p \in Procs : opened[p] <= Cardinality(served)
  BY DEF IInv, TypeOK, Counted
<1>9. \A p \in Procs : opened[p] \in Nat
  BY <1>1, <1>8
<1> QED
  BY <1>1, <1>2, <1>3, <1>4, <1>6, <1>7, <1>8, <1>9

LEMMA DaemonTypes ==
  ASSUME IInv
  PROVE  /\ out \in [Procs -> Seq(Frames)] /\ procs \in [Procs -> States]
         /\ opened \in [Procs -> 0 .. MaxRequests] /\ asked \subseteq Procs
         /\ live \in [Procs -> [Sids -> Conns \cup {None}]]
         /\ ran \subseteq [id : Ids, conn : Conns]
         /\ \A p \in Procs : /\ out[p] \in Seq(Frames) /\ Len(out[p]) \in Nat
                             /\ DOMAIN out[p] = 1 .. Len(out[p])
                             /\ \A i \in 1 .. Len(out[p]) : out[p][i] \in Frames
<1>1. /\ out \in [Procs -> Seq(Frames)] /\ procs \in [Procs -> States]
      /\ opened \in [Procs -> 0 .. MaxRequests] /\ asked \subseteq Procs
      /\ live \in [Procs -> [Sids -> Conns \cup {None}]]
      /\ ran \subseteq [id : Ids, conn : Conns]
  BY DEF IInv, TypeOK, Frames, States
<1> QED
  BY <1>1

\* One more request is served, and the daemon has another id to give out.
LEMMA OneMoreServed ==
  ASSUME IInv, NEW id \in DOMAIN req \ served, NEW p \in Procs
  PROVE  /\ Cardinality(served) \in Nat
         /\ Cardinality(served \cup {id}) = Cardinality(served) + 1
         /\ Cardinality(served) + 1 <= MaxRequests
         /\ NextSid(p) \in Sids
<1>1. IsFiniteSet(1 .. Len(req)) /\ Cardinality(1 .. Len(req)) = Len(req)
  <2>1. Len(req) \in Nat
    BY RequestTypes
  <2>2. /\ IsFiniteSet(1 .. Len(req))
        /\ Cardinality(1 .. Len(req)) = IF 1 > Len(req) THEN 0 ELSE Len(req) - 1 + 1
    BY <2>1, FS_Interval
  <2> QED
    BY <2>1, <2>2
<1>2. served \cup {id} \subseteq 1 .. Len(req)
  BY RequestTypes
<1>3. Cardinality(served \cup {id}) <= Len(req)
  BY <1>1, <1>2, FS_Subset
<1>4. Cardinality(served \cup {id}) = Cardinality(served) + 1
  BY RequestTypes, FS_AddElement
<1> QED
  BY <1>3, <1>4, RequestTypes DEF NextSid

\* What a daemon that is up does to its output.
LEMMA Written ==
  ASSUME IInv, NEW p \in Procs, procs[p] = "up", NEW id \in Ids, NEW sid \in Sids \cup {0},
         Writes(p, id, sid), served' = served \cup {id}, UNCHANGED <<procs, stdout, torn>>
  PROVE  out' \in [Procs -> Seq(Frames)] /\ Alone' /\ Silent' /\ Known'
<1> DEFINE f == Frame(id, sid, "whole")
<1>1. f \in Frames /\ f.part = "whole" /\ f.id = id
  BY DEF Frame, Frames
<1>2. out \in [Procs -> Seq(Frames)]
  BY DEF IInv, TypeOK, Frames
<1>3. out' = [out EXCEPT ![p] = Append(@, f)]
  BY DEF Writes
<1>4. Append(out[p], f) \in Seq(Frames)
  BY <1>1, <1>2
<1>5. out' \in [Procs -> Seq(Frames)] /\ out'[p] = Append(out[p], f)
      /\ \A q \in Procs \ {p} : out'[q] = out[q]
  BY <1>2, <1>3, <1>4
<1>6. Silent'
  BY <1>5 DEF IInv, Silent
<1>7. ASSUME NEW q \in Procs, Single(q)' PROVE q = p /\ Single(p) /\ torn = {} /\ OwnLine(p)
  BY <1>7 DEF Single, IInv, Alone
<1>8. ASSUME OwnLine(p) PROVE OwnLine(p)'
  <2>1. Len(out[p]) \in Nat /\ DOMAIN out[p] = 1 .. Len(out[p]) /\ Len(out'[p]) = Len(out[p]) + 1
        /\ DOMAIN out'[p] = 1 .. Len(out[p]) + 1
        /\ \A i \in DOMAIN out'[p] : out'[p][i] = IF i = Len(out[p]) + 1 THEN f ELSE out[p][i]
    BY <1>2, <1>4, <1>5
  <2>2. out[p] = <<>> <=> Len(out[p]) = 0
    BY <1>2
  <2>3. Begun(p)' <=> Begun(p)
    BY <1>1, <1>5, <2>1, <2>2 DEF Begun
  <2>4. Begun(p) => out'[p][1] = out[p][1]
    BY <2>1, <2>2 DEF Begun
  <2>5. \A i \in DOMAIN out'[p] : /\ out'[p][i].part = "tail" => i = 1
                                  /\ out'[p][i].part # "head"
    <3> SUFFICES ASSUME NEW i \in DOMAIN out'[p]
                 PROVE  out'[p][i].part \notin {"tail", "head"} \/ (i = 1 /\ out'[p][i].part = "tail")
      OBVIOUS
    <3>1. CASE i = Len(out[p]) + 1
      <4>1. out'[p][i] = f
        BY <2>1, <3>1
      <4> HIDE DEF f
      <4> QED
        BY <1>1, <4>1
    <3>2. CASE i \in DOMAIN out[p] /\ out'[p][i] = out[p][i]
      BY <1>8, <3>2 DEF OwnLine
    <3> QED
      BY <2>1, <3>1, <3>2
  <2> QED
    BY <1>8, <2>3, <2>4, <2>5 DEF OwnLine
<1>9. Known'
  <2>1. \A i \in DOMAIN out'[p] : (i \in DOMAIN out[p] /\ out'[p][i] = out[p][i]) \/ out'[p][i] = f
    BY <1>2, <1>5
  <2> QED
    BY <1>1, <1>5, <2>1 DEF IInv, Known
<1> QED
  BY <1>5, <1>6, <1>7, <1>8, <1>9 DEF Alone

LEMMA ServeHolds == ASSUME IInv, NEW p \in Procs, NEW id \in Ids, Serve(p, id) PROVE IInv'
<1> USE DEF manager, history
<1>1. id \in DOMAIN req \ served /\ procs[p] = "up" /\ served' = served \cup {id}
      /\ UNCHANGED <<procs, asked, handle, restart, req, pending, stdout, sess, views, answers, torn>>
  BY DEF Serve
<1>2. req[id] \in Requests
  BY <1>1, RequestTypes
<1>3. /\ Cardinality(served) \in Nat /\ Cardinality(served') = Cardinality(served) + 1
      /\ Cardinality(served) + 1 <= MaxRequests /\ NextSid(p) \in Sids
  BY <1>1, OneMoreServed
<1>4. \E sid \in Sids \cup {0} : Writes(p, id, sid)
  BY <1>3 DEF Serve
<1>5. opened' = opened \/ opened' = [opened EXCEPT ![p] = @ + 1]
  BY DEF Serve
<1>6. live' \in [Procs -> [Sids -> Conns \cup {None}]]
  <2> DEFINE r == req[id]
  <2>1. live \in [Procs -> [Sids -> Conns \cup {None}]] /\ r.conn \in Conns \cup {None}
        /\ None \in Conns \cup {None}
    BY <1>2, DaemonTypes DEF Requests
  <2>2. \/ live' = live
        \/ live' = [live EXCEPT ![p][NextSid(p)] = r.conn]
        \/ live' = [live EXCEPT ![p][r.sid] = None]
    BY DEF Serve
  <2>3. \A s, c : c \in Conns \cup {None} =>
          [live EXCEPT ![p][s] = c] \in [Procs -> [Sids -> Conns \cup {None}]]
    BY <2>1
  <2> HIDE DEF r, NextSid, Procs, Ids, Sids
  <2> QED
    BY <2>1, <2>2, <2>3
<1>7. ran' \subseteq [id : Ids, conn : Conns]
  <2>1. CASE ran' = ran
    BY <2>1 DEF IInv, TypeOK
  <2>2. CASE /\ req[id].op = "work" /\ live[p][req[id].sid] # None
             /\ ran' = ran \cup {[id |-> id, conn |-> live[p][req[id].sid]]}
    <3>1. req[id].sid \in Sids
      BY <1>1, <2>2 DEF IInv, Addressed
    <3>2. live[p][req[id].sid] \in Conns
      <4>1. live[p] \in [Sids -> Conns \cup {None}]
        BY DaemonTypes
      <4> QED
        BY <2>2, <3>1, <4>1
    <3> QED
      BY <2>2, <3>2, DaemonTypes
  <2> QED
    BY <2>1, <2>2 DEF Serve
<1>8. out' \in [Procs -> Seq(Frames)] /\ Alone' /\ Silent' /\ Known'
  BY <1>1, <1>4, Written
<1>9. Counted' /\ opened' \in [Procs -> 0 .. MaxRequests]
  <2>1. /\ opened \in [Procs -> 0 .. MaxRequests] /\ MaxRequests \in Nat
        /\ \A q \in Procs : opened[q] \in Nat /\ opened[q] <= Cardinality(served)
    <3>1. opened \in [Procs -> 0 .. MaxRequests]
      BY DaemonTypes
    <3> QED
      BY <3>1, RequestTypes
  <2>2. ASSUME NEW q \in Procs PROVE opened'[q] \in Nat /\ opened'[q] <= Cardinality(served')
    <3>1. opened'[q] = opened[q] \/ opened'[q] = opened[q] + 1
      BY <1>5, <2>1
    <3> QED
      BY <1>3, <2>1, <3>1
  <2>3. opened' \in [Procs -> 0 .. MaxRequests]
    BY <1>3, <1>5, <2>1, <2>2
  <2> QED
    BY <1>1, <2>2, <2>3 DEF IInv, Counted
<1>10. TypeOK'
  <2>1. served' \subseteq DOMAIN req'
    BY <1>1 DEF IInv, TypeOK
  <2> HIDE DEF Procs, Ids, Sids
  <2> QED
    BY <1>1, <1>6, <1>7, <1>8, <1>9, <2>1 DEF IInv, TypeOK, Frames
<1> QED
  BY <1>1, <1>8, <1>9, <1>10 DEF IInv, Addressed, Settled

\* What is cut short is the last line of what a daemon has written.
LEMMA DieHolds == ASSUME IInv, NEW p \in Procs, Die(p) PROVE IInv'
<1> USE DEF manager, history
<1>1. /\ procs[p] = "up" /\ procs' = [procs EXCEPT ![p] = "dead"] /\ asked' = asked \ {p}
      /\ live' = [live EXCEPT ![p] = [s \in Sids |-> None]] /\ opened' = [opened EXCEPT ![p] = 0]
      /\ UNCHANGED <<handle, restart, req, pending, stdout, sess, views, served, ran, answers, torn>>
  BY DEF Die
<1>2. out \in [Procs -> Seq(Frames)] /\ procs \in [Procs -> States]
  BY DaemonTypes
<1> DEFINE n == Len(out[p])
           cut == [out[p] EXCEPT ![n] = [@ EXCEPT !.part = "head"]]
<1>3. ASSUME ~UNCHANGED out
      PROVE  /\ n \in Nat \ {0} /\ out[p][n].part = "whole" /\ cut \in Seq(Frames)
             /\ out' = [out EXCEPT ![p] = cut]
  <2>1. out[p] # <<>> /\ Last(out[p]).part = "whole"
        /\ out' = [out EXCEPT ![p] = Append(Front(@), [Last(@) EXCEPT !.part = "head"])]
    BY <1>3 DEF Die
  <2>2. n \in Nat \ {0} /\ out[p] \in Seq(Frames) /\ Last(out[p]) = out[p][n] /\ out[p][n] \in Frames
    BY <1>2, <2>1 DEF Last
  <2>3. [out[p][n] EXCEPT !.part = "head"] \in Frames
    BY <2>2 DEF Frames
  <2>4. cut \in Seq(Frames) /\ Len(cut) = n
    BY <2>2, <2>3
  <2>5. Append(Front(out[p]), [out[p][n] EXCEPT !.part = "head"]) = cut
    <3>1. Front(out[p]) \in Seq(Frames) /\ Len(Front(out[p])) = n - 1
          /\ \A i \in 1 .. n - 1 : Front(out[p])[i] = out[p][i]
      BY <2>2 DEF Front
    <3> QED
      BY <2>2, <2>3, <2>4, <3>1
  <2> QED
    BY <2>1, <2>2, <2>4, <2>5
<1>4. out' \in [Procs -> Seq(Frames)] /\ \A q \in Procs \ {p} : out'[q] = out[q]
  BY <1>2, <1>3
<1>5. TypeOK'
  <2>1. procs' \in [Procs -> {"none", "up", "dead", "closing", "reaped"}] /\ asked' \subseteq Procs
        /\ live' \in [Procs -> [Sids -> Conns \cup {None}]] /\ opened' \in [Procs -> 0 .. MaxRequests]
    <3>1. 0 \in 0 .. MaxRequests
      BY RequestTypes
    <3>2. [s \in Sids |-> None] \in [Sids -> Conns \cup {None}]
      OBVIOUS
    <3> QED
      BY <1>1, <3>1, <3>2, DaemonTypes DEF States
  <2> HIDE DEF Procs, Ids, Sids
  <2> QED
    BY <1>1, <1>4, <2>1 DEF IInv, TypeOK, Frames
<1>6. Counted'
  <2>1. \A q \in Procs : opened'[q] <= Cardinality(served)
    BY <1>1, RequestTypes, DaemonTypes
  <2> QED
    BY <1>1, <2>1 DEF IInv, Counted
<1>7. Silent'
  BY <1>1, <1>2, <1>4 DEF IInv, Silent
<1>8. ASSUME NEW q \in Procs, Single(q)' PROVE q = p /\ torn = {} /\ OwnLine(p)
  BY <1>1, <1>2, <1>8 DEF Single, IInv, Alone
<1>9. ASSUME OwnLine(p) PROVE OwnLine(p)'
  <2>1. CASE UNCHANGED out
    BY <1>1, <1>2, <1>9, <2>1 DEF OwnLine, Begun
  <2>2. CASE ~UNCHANGED out
    <3>1. /\ out'[p] = cut /\ out[p] \in Seq(Frames) /\ Len(out'[p]) = n /\ DOMAIN out'[p] = DOMAIN out[p]
          /\ n \in DOMAIN out[p] /\ out[p][n] \in Frames /\ out[p][n].part = "whole"
          /\ out'[p] # <<>> /\ out[p] # <<>>
      <4>1. out'[p] = cut /\ n \in Nat \ {0} /\ cut \in Seq(Frames)
        BY <1>2, <1>3, <2>2
      <4> QED
        BY <1>2, <1>3, <2>2, <4>1
    <3>2. \A i \in DOMAIN out[p] : i # n => out'[p][i] = out[p][i]
      BY <3>1
    <3>3. out'[p][n].part = "head"
      BY <3>1 DEF Frames
    <3>4. Begun(p)' <=> Begun(p)
      BY <3>1, <3>2, <3>3 DEF Begun
    <3>5. Begun(p) => out'[p][1] = out[p][1]
      BY <3>1, <3>2, <3>3 DEF Begun
    <3>6. procs'[p] # "up"
      BY <1>1, <1>2
    <3> QED
      BY <1>1, <1>9, <3>1, <3>2, <3>3, <3>4, <3>5, <3>6 DEF OwnLine
  <2> QED
    BY <2>1, <2>2
<1>10. Known'
  <2>1. \A i \in DOMAIN cut : i \in DOMAIN out[p] /\ cut[i].id = out[p][i].id
    BY <1>2 DEF Frames
  <2>2. out'[p] = out[p] \/ out'[p] = cut
    BY <1>2, <1>3
  <2> HIDE DEF cut
  <2>3. \A i \in DOMAIN out'[p] : out'[p][i].id \in served
    BY <2>1, <2>2 DEF IInv, Known
  <2> QED
    BY <1>1, <1>4, <2>3 DEF IInv, Known
<1> QED
  BY <1>1, <1>5, <1>6, <1>7, <1>8, <1>9, <1>10 DEF IInv, Addressed, Settled, Alone

-----------------------------------------------------------------------------
(* The event loop.                                                             *)

LEMMA NoticeHolds == ASSUME IInv, NEW p \in Procs, Notice(p) PROVE IInv'
<1> USE DEF manager, daemons, history
<1>1. /\ procs[p] = "dead" /\ procs' = [procs EXCEPT ![p] = "closing"]
      /\ UNCHANGED <<asked, handle, restart, req, pending, out, stdout, manager, daemons, history>>
  BY DEF Notice
<1>2. procs' \in [Procs -> States] /\ procs'[p] = "closing"
      /\ \A q \in Procs \ {p} : procs'[q] = procs[q]
  BY <1>1, DaemonTypes DEF States
<1>3. TypeOK'
  <2> HIDE DEF Procs, Ids, Sids
  <2> QED
    BY <1>1, <1>2 DEF IInv, TypeOK, States
<1>4. Silent'
  BY <1>1, <1>2 DEF IInv, Silent
<1>5. Alone'
  <2> SUFFICES ASSUME NEW q \in Procs, Single(q)' PROVE torn = {} /\ OwnLine(q)'
    BY <1>1 DEF Alone
  <2>1. q = p /\ torn = {} /\ OwnLine(p)
    BY <1>1, <1>2 DEF Single, IInv, Alone
  <2> QED
    BY <1>1, <1>2, <2>1 DEF OwnLine, Begun
<1> QED
  BY <1>1, <1>3, <1>4, <1>5 DEF IInv, Counted, Addressed, Settled, Known

LEMMA ExitHolds == ASSUME IInv, NEW p \in Procs, Exit(p) PROVE IInv'
<1> USE DEF manager, daemons, Failing
<1>1. /\ procs[p] = "closing" /\ procs' = [procs EXCEPT ![p] = "reaped"] /\ out[p] = <<>>
      /\ handle' = 0 /\ pending' = {}
      /\ answers' = [id \in Ids |-> answers[id] + IF id \in pending THEN 1 ELSE 0]
      /\ UNCHANGED <<asked, restart, req, out, stdout, manager, daemons, torn>>
  BY DEF Exit
<1>2. procs' \in [Procs -> States] /\ procs'[p] = "reaped"
      /\ \A q \in Procs \ {p} : procs'[q] = procs[q]
  BY <1>1, DaemonTypes DEF States
<1>3. Settled'
  <2> SUFFICES ASSUME NEW id \in Ids
               PROVE  answers'[id] = IF id \in DOMAIN req THEN 1 ELSE 0
    BY <1>1 DEF Settled
  <2> QED
    BY <1>1 DEF IInv, Settled, TypeOK
<1>4. TypeOK'
  <2>1. answers' \in [Ids -> 0 .. 1]
    BY <1>1, <1>3 DEF Settled
  <2> HIDE DEF Procs, Ids, Sids
  <2> QED
    BY <1>1, <1>2, <2>1 DEF IInv, TypeOK, States
<1>5. Silent'
  BY <1>1, <1>2 DEF IInv, Silent
<1>6. Alone'
  <2> SUFFICES ASSUME NEW q \in Procs, Single(q)' PROVE torn = {} /\ OwnLine(q)'
    BY <1>1 DEF Alone
  <2>1. q = p /\ torn = {} /\ OwnLine(p)
    BY <1>1, <1>2 DEF Single, IInv, Alone
  <2> QED
    BY <1>1, <1>2, <2>1 DEF OwnLine, Begun
<1> QED
  BY <1>1, <1>3, <1>4, <1>5, <1>6 DEF IInv, Counted, Addressed, Known

\* What an answer does besides the output it was read from.
Answered ==
  /\ pending' \subseteq DOMAIN req /\ sess' \in [Sids -> Conns \cup {None}]
  /\ answers' \in [Ids -> 0 .. 1]
  /\ Settled'

LEMMA HandleFrameAnswers ==
  ASSUME IInv, NEW f \in Frames, HandleFrame(f), req' = req
  PROVE  Answered
<1> USE DEF Entry, PendingWithout
<1>1. /\ pending \subseteq DOMAIN req /\ sess \in [Sids -> Conns \cup {None}]
      /\ answers \in [Ids -> 0 .. 1]
      /\ Settled
  BY DEF IInv, TypeOK
<1>2. f.id \in Ids /\ f.id # 0 /\ f.sid \in Sids \cup {0}
  BY DEF Frames
<1>3. CASE f.id \notin pending
  BY <1>1, <1>3 DEF HandleFrame, Answered, Settled
<1>4. CASE f.id \in pending
  <2>1. /\ pending' = pending \ {f.id} /\ answers' = [answers EXCEPT ![f.id] = @ + 1]
        /\ sess' = IF req[f.id].op = "open" /\ f.sid # 0
                   THEN [sess EXCEPT ![f.sid] = req[f.id].conn] ELSE sess
    BY <1>2, <1>4 DEF HandleFrame
  <2>2. req[f.id].conn \in Conns \cup {None}
    BY <1>1, <1>4, RequestTypes DEF Requests
  <2>3. sess' \in [Sids -> Conns \cup {None}]
    BY <1>1, <2>1, <2>2
  <2>4. answers[f.id] = 0 /\ f.id \in DOMAIN req
    BY <1>1, <1>2, <1>4 DEF Settled
  <2>5. Settled' /\ answers' \in [Ids -> 0 .. 1]
    BY <1>1, <1>2, <2>1, <2>4 DEF Settled
  <2> QED
    BY <1>1, <2>1, <2>3, <2>5 DEF Answered
<1> QED
  BY <1>3, <1>4

\* Reading does not touch what the others know of a daemon.
Reading(p) ==
  /\ \A q \in Procs \ {p} : out'[q] = out[q]
  /\ UNCHANGED <<procs, asked, handle, restart, req, views, daemons>>

\* What there is to show of a chunk of p's output.
LEMMA ReadHolds ==
  ASSUME IInv, NEW p \in Procs, out[p] # <<>>, Reading(p), Answered,
         out' \in [Procs -> Seq(Frames)], stdout' \in Seq(Procs \X Ids),
         torn' \subseteq DOMAIN req,
         \A i \in DOMAIN out'[p] : out'[p][i].id \in served,
         \A i \in DOMAIN stdout' : stdout'[i][2] \in served,
         Single(p) /\ OwnLine(p) => torn' = torn /\ OwnLine(p)'
  PROVE  IInv'
<1> USE DEF Reading, daemons
<1>1. TypeOK'
  <2> HIDE DEF Procs, Ids, Sids
  <2> QED
    BY DEF IInv, TypeOK, Answered, Frames
<1>2. Silent'
  BY DEF IInv, Silent
<1>3. Alone'
  <2> SUFFICES ASSUME NEW q \in Procs, Single(q)' PROVE torn' = {} /\ OwnLine(q)'
    BY DEF Alone
  <2>1. q = p /\ Single(p) /\ torn = {} /\ OwnLine(p)
    BY DEF Single, IInv, Alone, Silent
  <2> QED
    BY <2>1
<1>4. Known'
  BY DEF IInv, Known
<1> QED
  BY <1>1, <1>2, <1>3, <1>4 DEF IInv, Counted, Addressed, Answered

LEMMA NotAnswered ==
  ASSUME IInv, UNCHANGED <<req, pending, sess, answers>>
  PROVE  Answered
BY DEF IInv, TypeOK, Answered, Settled

\* A daemon's line and what is kept of it fit.
LEMMA LineIs ==
  ASSUME NEW p \in Procs, NEW s, out'[p] = s,
         \A i \in DOMAIN s : /\ s[i].part = "tail" => i = 1
                             /\ s[i].part = "head" => i = Len(s) /\ procs'[p] # "up",
         s # <<>> /\ s[1].part = "tail" => stdout' = <<<<p, s[1].id>>>>,
         ~(s # <<>> /\ s[1].part = "tail") =>
           stdout' = <<>> \/ (s = <<>> /\ procs'[p] \notin {"none", "up"})
  PROVE  OwnLine(p)'
<1>1. Begun(p)' <=> s # <<>> /\ s[1].part = "tail"
  BY DEF Begun
<1>2. Begun(p)' => stdout' = <<<<p, out'[p][1].id>>>>
  BY <1>1
<1>3. ~Begun(p)' /\ (out'[p] # <<>> \/ procs'[p] \in {"none", "up"}) => stdout' = <<>>
  BY <1>1
<1>4. \A i \in DOMAIN out'[p] : /\ out'[p][i].part = "tail" => i = 1
                                /\ out'[p][i].part = "head" => i = Len(out'[p]) /\ procs'[p] # "up"
  OBVIOUS
<1> QED
  BY <1>2, <1>3, <1>4 DEF OwnLine, Begun

LEMMA ConsumeHolds == ASSUME IInv, NEW p \in Procs, Consume(p) PROVE IInv'
<1> USE DEF daemons, history
<1> DEFINE o == out[p]
           f == Head(o)
           piece == <<p, f.id>>
<1>1. /\ o \in Seq(Frames) /\ o # <<>> /\ Len(o) \in Nat \ {0} /\ DOMAIN o = 1 .. Len(o)
      /\ f = o[1] /\ f \in Frames
      /\ UNCHANGED <<procs, asked, handle, restart, req, views, daemons>>
  <2>1. o # <<>> /\ o \in Seq(Frames)
    BY DaemonTypes DEF Consume
  <2> QED
    BY <2>1 DEF Consume
<1>2. PICK t \in Seq(Frames) :
        /\ t = Tail(o) /\ Len(t) = Len(o) - 1 /\ DOMAIN t = 1 .. Len(o) - 1
        /\ \A i \in 1 .. Len(o) - 1 : t[i] = o[i + 1]
  <2>1. /\ Tail(o) \in Seq(Frames) /\ Len(Tail(o)) = Len(o) - 1 /\ DOMAIN Tail(o) = 1 .. Len(o) - 1
        /\ \A i \in 1 .. Len(o) - 1 : Tail(o)[i] = o[i + 1]
    BY <1>1
  <2> QED
    BY <2>1
<1>3. f.id \in served /\ f.id \in Ids /\ piece \in Procs \X Ids
  BY <1>1 DEF IInv, Known, Frames
<1>4. /\ served \subseteq DOMAIN req /\ stdout \in Seq(Procs \X Ids)
      /\ \A i \in DOMAIN o : o[i].id \in served
      /\ \A i \in DOMAIN stdout : stdout[i][2] \in served
  BY DEF IInv, TypeOK, Known
<1>5. out \in [Procs -> Seq(Frames)]
  BY DaemonTypes
<1>6. /\ Append(stdout, piece) \in Seq(Procs \X Ids)
      /\ \A i \in DOMAIN Append(stdout, piece) : Append(stdout, piece)[i][2] \in served
  <2>1. /\ Append(stdout, piece) \in Seq(Procs \X Ids)
        /\ \A i \in DOMAIN Append(stdout, piece) :
             (i \in DOMAIN stdout /\ Append(stdout, piece)[i] = stdout[i]) \/ Append(stdout, piece)[i] = piece
    BY <1>3, <1>4
  <2>2. piece[2] \in served
    BY <1>3
  <2> HIDE DEF piece
  <2> QED
    BY <1>4, <2>1, <2>2
\* The chunk breaks in the line.
<1>7. CASE /\ f.part = "whole" /\ stdout' = Append(stdout, piece)
           /\ out' = [out EXCEPT ![p] = <<[f EXCEPT !.part = "tail"]>> \o Tail(o)]
           /\ UNCHANGED <<pending, sess, history>>
  <2>1. PICK g \in Frames : g = [f EXCEPT !.part = "tail"] /\ g.part = "tail" /\ g.id = f.id
    <3>1. [f EXCEPT !.part = "tail"] \in Frames /\ [f EXCEPT !.part = "tail"].part = "tail"
          /\ [f EXCEPT !.part = "tail"].id = f.id
      BY <1>1 DEF Frames
    <3> QED
      BY <3>1
  <2>2. PICK rest \in Seq(Frames) :
          /\ rest = <<g>> \o t /\ Len(rest) = Len(o) /\ DOMAIN rest = DOMAIN o /\ rest[1] = g
          /\ rest # <<>>
          /\ \A i \in DOMAIN rest : i # 1 => rest[i] = o[i]
    <3>1. /\ <<g>> \o t \in Seq(Frames) /\ Len(<<g>> \o t) = Len(o) /\ DOMAIN (<<g>> \o t) = DOMAIN o
          /\ (<<g>> \o t)[1] = g /\ <<g>> \o t # <<>>
          /\ \A i \in DOMAIN (<<g>> \o t) : i # 1 => (<<g>> \o t)[i] = o[i]
      <4> HIDE DEF o, f
      <4> QED
        BY <1>1, <1>2, <2>1
    <3> QED
      BY <3>1
  <2>3. out' \in [Procs -> Seq(Frames)] /\ out'[p] = rest /\ Reading(p)
    BY <1>1, <1>2, <1>5, <1>7, <2>1, <2>2 DEF Reading
  <2>4. \A i \in DOMAIN rest : rest[i].id \in served
    BY <1>3, <1>4, <2>1, <2>2
  <2>5. ASSUME OwnLine(p) PROVE OwnLine(p)'
    <3>1. stdout = <<>>
      BY <1>1, <1>7, <2>5 DEF OwnLine, Begun
    <3>2. stdout' = <<<<p, rest[1].id>>>>
      <4>1. Append(<<>>, piece) = <<piece>>
        BY <1>3
      <4>2. piece = <<p, rest[1].id>>
        BY <2>1, <2>2
      <4> HIDE DEF o, f, piece
      <4> QED
        BY <1>7, <3>1, <4>1, <4>2
    <3>3. \A i \in DOMAIN o : /\ rest[i].part = "tail" => i = 1
                              /\ rest[i].part = "head" => i = Len(o) /\ procs[p] # "up"
      BY <2>1, <2>2, <2>5 DEF OwnLine
    <3>4. \A i \in DOMAIN rest : /\ rest[i].part = "tail" => i = 1
                                 /\ rest[i].part = "head" => i = Len(rest) /\ procs'[p] # "up"
      <4>1. procs' = procs /\ DOMAIN rest = DOMAIN o /\ Len(rest) = Len(o)
        BY <1>1, <2>2
      <4> HIDE DEF o
      <4> QED
        BY <3>3, <4>1
    <3>5. rest # <<>> /\ rest[1].part = "tail" /\ out'[p] = rest
      BY <2>1, <2>2, <2>3
    <3> QED
      BY <3>2, <3>4, <3>5, LineIs
  <2>6. Answered
    BY <1>1, <1>7, NotAnswered
  <2>7. torn' = torn /\ torn \subseteq DOMAIN req
    BY <1>7 DEF IInv, TypeOK
  <2>8. o # <<>>
    BY <1>1
  <2> HIDE DEF f, piece
  <2> QED
    BY <1>6, <1>7, <2>3, <2>4, <2>5, <2>6, <2>7, <2>8, ReadHolds
\* In the other cases the head is read to its end.
<1>8. ASSUME out' = [out EXCEPT ![p] = Tail(o)]
      PROVE  /\ out' \in [Procs -> Seq(Frames)] /\ out'[p] = t /\ Reading(p)
             /\ \A i \in DOMAIN t : t[i].id \in served
             /\ \A i \in DOMAIN t : i + 1 \in DOMAIN o /\ t[i] = o[i + 1]
  BY <1>1, <1>2, <1>4, <1>5, <1>8 DEF Reading
\* The line that was cut short.
<1>9. CASE /\ f.part = "head" /\ stdout' = Append(stdout, piece)
           /\ out' = [out EXCEPT ![p] = Tail(o)]
           /\ UNCHANGED <<pending, sess, history>>
  <2>1. Answered
    BY <1>1, <1>9, NotAnswered
  <2>2. ASSUME OwnLine(p) PROVE OwnLine(p)'
    <3>1. Len(o) = 1 /\ procs[p] # "up"
      <4>1. 1 \in DOMAIN o /\ o[1].part = "head"
        BY <1>1, <1>9
      <4> QED
        BY <2>2, <4>1 DEF OwnLine
    <3>2. t = <<>> /\ procs[p] # "none"
      BY <1>1, <1>2, <3>1 DEF IInv, Silent
    <3> QED
      BY <1>1, <1>8, <1>9, <3>1, <3>2, LineIs
  <2>3. torn' = torn /\ torn \subseteq DOMAIN req
    BY <1>9 DEF IInv, TypeOK
  <2>4. o # <<>>
    BY <1>1
  <2> HIDE DEF f, piece
  <2> QED
    BY <1>6, <1>8, <1>9, <2>1, <2>2, <2>3, <2>4, ReadHolds
\* A line is read to its end.
<1>10. CASE /\ f.part \in {"whole", "tail"} /\ stdout' = <<>>
            /\ out' = [out EXCEPT ![p] = Tail(o)]
            /\ IF stdout = IF f.part = "whole" THEN <<>> ELSE <<piece>>
               THEN HandleFrame(f) /\ UNCHANGED torn
               ELSE Garbled({f.id} \cup {stdout[i][2] : i \in DOMAIN stdout})
  <2>1. Answered
    <3>1. CASE HandleFrame(f)
      BY <1>1, <3>1, HandleFrameAnswers
    <3>2. CASE UNCHANGED <<pending, sess, answers>>
      BY <1>1, <3>2, NotAnswered
    <3> QED
      BY <1>10, <3>1, <3>2 DEF Garbled
  <2>2. torn' \subseteq DOMAIN req
    <3>1. torn \subseteq DOMAIN req
      BY DEF IInv, TypeOK
    <3>2. {f.id} \cup {stdout[i][2] : i \in DOMAIN stdout} \subseteq DOMAIN req
      BY <1>3, <1>4
    <3> QED
      BY <1>10, <3>1, <3>2 DEF Garbled
  <2>3. ASSUME OwnLine(p) PROVE torn' = torn /\ OwnLine(p)'
    <3>1. stdout = IF f.part = "whole" THEN <<>> ELSE <<piece>>
      BY <1>1, <1>10, <2>3 DEF OwnLine, Begun
    <3>2. torn' = torn
      BY <1>10, <3>1
    <3>3. \A i \in DOMAIN t : /\ t[i].part # "tail"
                              /\ t[i].part = "head" => i = Len(t) /\ procs[p] # "up"
      <4> SUFFICES ASSUME NEW i \in DOMAIN t
                   PROVE  /\ t[i].part # "tail"
                          /\ t[i].part = "head" => i = Len(t) /\ procs[p] # "up"
        OBVIOUS
      <4>1. i + 1 \in DOMAIN o /\ t[i] = o[i + 1] /\ i + 1 # 1 /\ Len(t) = Len(o) - 1
        BY <1>1, <1>2
      <4>2. /\ o[i + 1].part = "tail" => i + 1 = 1
            /\ o[i + 1].part = "head" => i + 1 = Len(o) /\ procs[p] # "up"
        BY <2>3, <4>1 DEF OwnLine
      <4> HIDE DEF o
      <4> QED
        BY <4>1, <4>2
    <3>4. ~(t # <<>> /\ t[1].part = "tail")
      <4>1. t # <<>> => 1 \in DOMAIN t
        OBVIOUS
      <4> QED
        BY <3>3, <4>1
    <3>5. out'[p] = t /\ procs' = procs /\ stdout' = <<>>
      BY <1>1, <1>8, <1>10
    <3> HIDE DEF o, f, piece
    <3> QED
      BY <3>2, <3>3, <3>4, <3>5, LineIs
  <2>4. stdout' \in Seq(Procs \X Ids) /\ \A i \in DOMAIN stdout' : stdout'[i][2] \in served
    BY <1>10
  <2>9. o # <<>>
    BY <1>1
  <2> HIDE DEF f, piece
  <2> QED
    BY <2>9, <1>8, <1>10, <2>1, <2>2, <2>3, <2>4, ReadHolds
<1> QED
  BY <1>7, <1>9, <1>10 DEF Consume, Keep

-----------------------------------------------------------------------------
(* The theorems.                                                               *)

LEMMA InitHolds == Init => IInv
<1> SUFFICES ASSUME Init PROVE IInv
  OBVIOUS
<1>1. MaxRequests \in Nat
  BY ClientAssumption
<1>2. Counted
  <2>1. Cardinality({}) = 0 /\ Len(<<>>) = 0
    BY FS_EmptySet
  <2> QED
    BY <1>1, <2>1 DEF Init, Counted
<1>3. TypeOK
  <2>1. req \in Seq([op : {"open", "close", "work"}, sid : Sids \cup {0},
                    conn : Conns \cup {None}, proc : Procs]) /\ DOMAIN req = {}
    BY DEF Init
  <2>2. out \in [Procs -> Seq([id : Ids, sid : Sids \cup {0}, part : {"whole", "head", "tail"}])]
        /\ stdout \in Seq(Procs \X Ids)
    BY DEF Init
  <2>3. 0 \in 0 .. MaxRequests
    BY <1>1
  <2>4. /\ [p \in Procs |-> "none"] \in [Procs -> {"none", "up", "dead", "closing", "reaped"}]
        /\ [s \in Sids |-> None] \in [Sids -> Conns \cup {None}]
        /\ [p \in Procs |-> [s \in Sids |-> None]] \in [Procs -> [Sids -> Conns \cup {None}]]
        /\ [p \in Procs |-> 0] \in [Procs -> 0 .. MaxRequests]
        /\ [id \in Ids |-> 0] \in [Ids -> 0 .. 1]
    BY <2>3
  <2> HIDE DEF Procs, Ids, Sids
  <2> QED
    BY <2>1, <2>2, <2>4 DEF Init, TypeOK
<1> QED
  BY <1>2, <1>3 DEF Init, IInv, Addressed, Settled, Alone, OwnLine, Begun, Silent, Known

LEMMA NextHolds == IInv /\ [Next]_vars => IInv'
<1> SUFFICES ASSUME IInv, [Next]_vars PROVE IInv'
  OBVIOUS
<1>1. CASE UNCHANGED vars
  BY <1>1 DEF vars, manager, daemons, history, IInv, TypeOK, Counted, Addressed, Settled,
              Alone, Single, OwnLine, Begun, Silent, Known
<1>2. CASE Connect \/ Disconnect \/ OpenBuffer \/ Work \/ Restart \/ StartAgain
  BY <1>2, ConnectHolds, DisconnectHolds, OpenBufferHolds, WorkHolds, RestartHolds, StartAgainHolds
<1>3. ASSUME NEW p \in Procs, Works(p) \/ Die(p) \/ Loop(p) PROVE IInv'
  BY <1>3, ServeHolds, DieHolds, NoticeHolds, ConsumeHolds, ExitHolds DEF Works, Loop
<1> QED
  BY <1>1, <1>2, <1>3 DEF Next

\* The invariant holds of every behaviour.
THEOREM ClientSafety == Spec => []IInv
<1> QED
  BY InitHolds, NextHolds, PTL DEF Spec

\* Every variable stays in its type, a callback's count of calls included: no
\* callback is called twice (handle_frame and fail_pending in core/client.lua).
THEOREM ClientTypes == Spec => []TypeOK
<1>1. IInv => TypeOK
  BY DEF IInv
<1> QED
  BY <1>1, ClientSafety, PTL

\* A callback is called once, whatever daemons end, restart or answer late: a
\* request is in M.pending exactly until it is answered.
THEOREM CallbacksOnce == Spec => []AnsweredOnce
<1>1. IInv => AnsweredOnce
  BY DEF IInv, TypeOK, Settled, AnsweredOnce
<1> QED
  BY <1>1, ClientSafety, PTL

\* A reply is lost only once two daemons have been started, however the output
\* is cut into chunks and wherever a daemon ends (consume in core/client.lua).
THEOREM TornOnlyByTwo == Spec => []TornByTwo
<1>1. ASSUME IInv PROVE TornByTwo
  <2> SUFFICES ASSUME torn # {},
                      \A p, q \in Procs : p = q \/ procs[p] = "none" \/ procs[q] = "none"
               PROVE  FALSE
    BY DEF TornByTwo
  <2>1. 1 \in Procs
    BY ClientAssumption
  <2>2. PICK p \in Procs : Single(p)
    BY <2>1 DEF Single
  <2> QED
    BY <1>1, <2>2 DEF IInv, Alone
<1> QED
  BY <1>1, ClientSafety, PTL
=============================================================================
