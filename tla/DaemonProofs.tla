---------------------------- MODULE DaemonProofs ----------------------------
(* What the serve daemon promises, for any number of requests and any mix of  *)
(* operations: types, order, no request lost at a close or an exit, tunnels   *)
(* that outlive their sessions, a registry whose two halves agree.            *)
EXTENDS Daemon, SequenceTheorems, TLAPS

-----------------------------------------------------------------------------
(* The inductive invariant, in three layers.                                  *)

Opening(id) == Op(id) \in {"open", "open-ssh"}
OnSession(id) == Op(id) \in {"work", "cancel", "close"}

\* A request names a session, or a tunnel, that the client was told of.
Targeted ==
  \A c \in DOMAIN sent :
    /\ OnSession(c) => To(c) \in DOMAIN sent /\ Opening(To(c)) /\ Succeeded(To(c))
    /\ Op(c) = "tunnel-close" =>
         To(c) \in DOMAIN sent /\ Op(To(c)) = "tunnel-open" /\ Succeeded(To(c))

\* Steps of a helper before what it opens is in the registry.
Early == {"tunnelling", "connecting", "registering", "storing"}

\* A helper works for a request that was read and has no reply yet.
HelperFits(id) ==
  /\ id <= read /\ ~Replied(id) /\ ~OnSession(id)
  /\ helper[id] = "tunnelling" => Op(id) \in {"open-ssh", "tunnel-open"}
  /\ helper[id] \in {"connecting", "registering"} => Opening(id)
  /\ helper[id] = "storing" => Op(id) = "tunnel-open"
  /\ helper[id] \in {"closing", "forgetting"} => Op(id) = "tunnel-close"
  /\ helper[id] = "replying" /\ Opening(id) => thread[id] # "none"
  /\ helper[id] \in Early => thread[id] = "none" /\ id \notin tunnels
HelpersFit == \A id \in Ids : helper[id] # "none" => HelperFits(id)

Serving(s) == thread[s] \in {"running", "replying"}
Waiting(s, w) == \E i \in DOMAIN queue[s] : queue[s][i] = w
Asked(s, w) == w \in 1 .. read /\ Op(w) = "work" /\ To(w) = s

\* A thread is that of a session that was asked for, and its work too.
ThreadsFit ==
  /\ \A s \in sessions : thread[s] # "none"
  /\ \A p \in tunnels : p <= read
  /\ \A s \in Ids :
       /\ thread[s] # "none" => s <= read /\ Opening(s)
       /\ busy[s] = IF thread[s] \in {"running", "dead"} THEN 1 ELSE 0
       /\ \A m \in 1 .. MaxRequests : Waiting(s, m) => Asked(s, m)
       /\ Serving(s) => Asked(s, job[s])

\* What is answered was read; a session the client was told of has a thread.
ReplyFits(r) == r.id <= read /\ (r.ok /\ Opening(r.id) => thread[r.id] # "none")
RepliesFit == \A i \in DOMAIN out : ReplyFits(out[i])

\* The reader is with the last request it read, and has not answered it.
ReaderFits ==
  reader.at \in {"cancelling", "joining"} =>
    /\ reader.id = read /\ ~Replied(read)
    /\ Op(read) = IF reader.at = "cancelling" THEN "cancel" ELSE "close"

Structure ==
  TypeOK /\ Targeted /\ HelpersFit /\ ThreadsFit /\ RepliesFit /\ ReaderFits

\* The sessions that are out of the registry and not known to be over.
Leaving ==
  CASE reader.at = "joining" -> {To(reader.id)}
    [] reader.at = "stopping" -> reader.left
    [] OTHER -> {}

\* A thread outside the registry is over, unless the reader is about to wait for
\* it.
Accounted ==
  Up => \A s \in Ids :
    /\ thread[s] # "none" /\ s \notin sessions /\ s \notin Leaving => Finished(s)
    /\ s \in Leaving => thread[s] # "none" /\ s \notin sessions

\* The tunnels that reader is to take down are nobody's any more.
OwnedApart ==
  reader.at = "stopping" => \A p \in reader.owned :
    /\ p \notin tunnels /\ p <= read /\ helper[p] \notin Early
    /\ Op(p) = "open-ssh" => thread[p] # "none" /\ p \notin sessions

\* An ssh process is there while what was opened over it is used.
Tunnelled ==
  /\ \A id \in Ids : helper[id] = "storing" => id \in ssh
  /\ \A id \in Ids : helper[id] \in {"connecting", "registering"} /\ Op(id) = "open-ssh" => id \in ssh
  /\ reader.at = "joining" =>
       To(reader.id) \notin tunnels /\ (Op(To(reader.id)) = "open-ssh" => reader.tunnelled)
  /\ TunnelOutlivesSession
  /\ RegistryPaired

\* The tunnel of a session that was closed is down.
TunnelsDown ==
  reader.at \in {"reading", "cancelling", "joining"} =>
    \A s \in Ids : /\ thread[s] # "none" /\ s \notin sessions /\ s \notin Leaving
                   /\ Op(s) = "open-ssh"
                   => s \notin ssh

Registers == Accounted /\ OwnedApart /\ Tunnelled /\ TunnelsDown

\* A request for a session that is not answered, and all that is came before it.
Before(s, q) ==
  ~Replied(q) /\ \A k \in DOMAIN out : Asked(s, out[k].id) => out[k].id < q

\* What waits in a channel, and what is being served, is in the order it was
\* asked, after all that was answered; nothing comes after Shutdown.
QueueInOrder(s) ==
  /\ \A i \in DOMAIN queue[s] : queue[s][i] # Shutdown =>
       Before(s, queue[s][i]) /\ (Serving(s) => job[s] < queue[s][i])
  /\ \A i, j \in DOMAIN queue[s] : i < j =>
       queue[s][i] # Shutdown /\ (queue[s][j] # Shutdown => queue[s][i] < queue[s][j])
  /\ Serving(s) => Before(s, job[s])
  /\ queue[s] # <<>> => Alive(s)

\* Shutdown is sent once, after the session has left the registry.
ShutdownOnce(s) ==
  Waiting(s, Shutdown) \/ thread[s] = "ended" =>
    s \notin sessions /\ (reader.at = "stopping" => s \notin reader.left \/ reader.now = s)

\* Nothing that was read is lost.
NothingLost(s) ==
  \A w \in Ids : Asked(s, w) =>
    Served(w) \/ Waiting(s, w) \/ (Serving(s) /\ job[s] = w)

\* A session that registers while the daemon stops was asked for nothing that
\* was read.
LateUnasked ==
  reader.at = "stopping" => \A w \in Ids : \A s \in sessions : ~Asked(s, w)

Queues ==
  /\ \A s \in Ids : QueueInOrder(s) /\ ShutdownOnce(s) /\ NothingLost(s)
  /\ LateUnasked /\ ServedInOrder /\ CloseDrains /\ ExitDrains

IInv == Structure /\ Registers /\ Queues

-----------------------------------------------------------------------------
(* Types.                                                                     *)

Stages == {"none", "tunnelling", "connecting", "registering", "storing",
           "closing", "forgetting", "replying"}
ReplySet == [id : Ids, ok : BOOLEAN]

\* What the assumptions say of request numbers.
LEMMA Numbers ==
  /\ MaxRequests \in Nat \ {0} /\ Ops \subseteq AllOps
  /\ \A id \in Ids : id \in Nat /\ 1 <= id /\ id <= MaxRequests /\ id \in 0 .. MaxRequests
  /\ \A id \in Nat : 1 <= id /\ id <= MaxRequests => id \in Ids
BY DaemonAssumption DEF Ids

\* What a reply adds.
LEMMA ReplyAdds ==
  ASSUME TypeOK, NEW id \in Ids, NEW ok \in BOOLEAN, Reply(id, ok)
  PROVE  /\ out' \in Seq(ReplySet)
         /\ Len(out) \in Nat /\ DOMAIN out = 1 .. Len(out) /\ DOMAIN out' = 1 .. Len(out) + 1
         /\ out'[Len(out) + 1] = [id |-> id, ok |-> ok]
         /\ \A i \in DOMAIN out : out'[i] = out[i]
<1>1. out \in Seq(ReplySet) /\ [id |-> id, ok |-> ok] \in ReplySet
  BY DEF TypeOK, ReplySet
<1>2. out' = Append(out, [id |-> id, ok |-> ok])
  BY DEF Reply
<1> QED
  BY <1>1, <1>2, AppendProperties

\* A reply tells the client of one request more.
LEMMA ReplyTells ==
  ASSUME TypeOK, NEW id \in Ids, NEW ok \in BOOLEAN, Reply(id, ok)
  PROVE  /\ \A x : Replied(x)' <=> Replied(x) \/ x = id
         /\ \A x : Succeeded(x)' <=> Succeeded(x) \/ (x = id /\ ok)
<1>1. /\ Len(out) \in Nat /\ DOMAIN out = 1 .. Len(out) /\ DOMAIN out' = 1 .. Len(out) + 1
      /\ out'[Len(out) + 1] = [id |-> id, ok |-> ok]
      /\ \A i \in DOMAIN out : out'[i] = out[i]
  BY ReplyAdds
<1>2. DOMAIN out' = DOMAIN out \cup {Len(out) + 1}
  BY <1>1
<1>3. \A x : Replied(x)' <=> Replied(x) \/ x = id
  BY <1>1, <1>2 DEF Replied
<1>4. \A x : Succeeded(x)' <=> Succeeded(x) \/ (x = id /\ ok)
  BY <1>1, <1>2 DEF Succeeded
<1> QED
  BY <1>3, <1>4

\* A message put into a channel, or lost with it.
LEMMA PostAdds ==
  ASSUME TypeOK, NEW s \in Ids, NEW m \in 0 .. MaxRequests, Post(s, m)
  PROVE  /\ queue' \in [Ids -> Seq(0 .. MaxRequests)]
         /\ \A r \in Ids \ {s} : queue'[r] = queue[r]
         /\ thread[s] = "dead" => queue'[s] = queue[s]
         /\ thread[s] # "dead" => queue'[s] = Append(queue[s], m)
<1>1. queue \in [Ids -> Seq(0 .. MaxRequests)]
  BY DEF TypeOK
<1>2. Append(queue[s], m) \in Seq(0 .. MaxRequests)
  BY <1>1, AppendProperties
<1> QED
  BY <1>1, <1>2 DEF Post

\* The reader's requests: the next one is a request that was sent.
LEMMA NextIsSent ==
  ASSUME TypeOK, NEW id \in Ids, NEW op, Next1(id, op)
  PROVE  /\ id = read + 1 /\ read' = id /\ id \in DOMAIN sent /\ Op(id) = op /\ reader = Reading
         /\ To(id) \in 0 .. MaxRequests /\ read' \in 0 .. Len(sent)
<1>1. sent \in Seq([op : AllOps, to : 0 .. MaxRequests]) /\ read \in 0 .. Len(sent)
  BY DEF TypeOK
<1>2. id = read + 1 /\ read' = id /\ read < Len(sent) /\ Op(id) = op /\ reader = Reading
  BY DEF Next1
<1>3. Len(sent) \in Nat /\ DOMAIN sent = 1 .. Len(sent)
  BY <1>1
<1>4. id \in DOMAIN sent /\ id \in 0 .. Len(sent)
  BY <1>1, <1>2, <1>3
<1>5. sent[id] \in [op : AllOps, to : 0 .. MaxRequests]
  BY <1>1, <1>3, <1>4, ElementOfSeq
<1> QED
  BY <1>2, <1>4, <1>5 DEF To

\* The reader's states.
LEMMA ReaderStates ==
  /\ {Reading, Gone, Killed} \subseteq Readers
  /\ \A id \in Ids : Cancelling(id) \in Readers
  /\ \A id \in Ids : \A b \in BOOLEAN : Joining(id, b) \in Readers
  /\ \A left \in SUBSET Ids, now \in 0 .. MaxRequests, owned \in SUBSET Ids :
       Stopping(left, now, owned) \in Readers
<1>1. \A left \in SUBSET Ids, now \in 0 .. MaxRequests, owned \in SUBSET Ids :
       Stopping(left, now, owned) \in Readers
  BY DEF Stopping, Readers
<1>2. \A id \in Ids : Cancelling(id) \in Readers
  BY DEF Readers
<1>3. \A id \in Ids : \A b \in BOOLEAN : Joining(id, b) \in Readers
  BY DEF Readers
<1>4. {Reading, Gone, Killed} \subseteq Readers
  BY DEF Readers
<1> QED
  BY <1>1, <1>2, <1>3, <1>4

\* The fields of a reader that is stopping, cancelling or joining.
LEMMA ReaderShape ==
  ASSUME TypeOK
  PROVE  /\ reader.at = "stopping" =>
              reader \in [at : {"stopping"}, left : SUBSET Ids, now : 0 .. MaxRequests, owned : SUBSET Ids]
         /\ reader.at \in {"cancelling", "joining"} => reader.id \in Ids
<1>1. reader.at = "stopping" =>
        reader \in [at : {"stopping"}, left : SUBSET Ids, now : 0 .. MaxRequests, owned : SUBSET Ids]
  BY DEF TypeOK, Readers, Reading, Cancelling, Joining, Gone, Killed
<1>2. reader.at \in {"cancelling", "joining"} => reader.id \in Ids
  BY DEF TypeOK, Readers, Reading, Cancelling, Joining, Gone, Killed
<1> QED
  BY <1>1, <1>2

\* The client appends one request, within the bound.
LEMMA SendAppends ==
  ASSUME TypeOK, Send
  PROVE  /\ Len(sent) < MaxRequests
         /\ \E op \in AllOps : \E to \in Targets(op) \cap (0 .. MaxRequests) :
              sent' = Append(sent, [op |-> op, to |-> to])
         /\ \E m \in [op : AllOps, to : 0 .. MaxRequests] : sent' = Append(sent, m)
<1> USE Numbers
<1>1. Len(sent) < MaxRequests /\ Len(sent) \in Nat /\ DOMAIN sent = 1 .. Len(sent)
  BY DEF TypeOK, Send
<1>2. PICK op \in Ops : \E to \in Targets(op) : sent' = Append(sent, [op |-> op, to |-> to])
  BY DEF Send
<1>3. \A to \in Targets(op) : to \in 0 .. MaxRequests
  BY <1>1 DEF Targets
<1>4. PICK to \in Targets(op) : sent' = Append(sent, [op |-> op, to |-> to])
  BY <1>2
<1>5. [op |-> op, to |-> to] \in [op : AllOps, to : 0 .. MaxRequests] /\ op \in AllOps
      /\ to \in Targets(op) \cap (0 .. MaxRequests)
  BY <1>3
<1> QED
  BY <1>1, <1>4, <1>5

\* Send keeps the types.
LEMMA SendType == TypeOK /\ Send => TypeOK'
<1> SUFFICES ASSUME TypeOK, Send PROVE TypeOK'
  OBVIOUS
<1> USE Numbers
<1> DEFINE R == [op : AllOps, to : 0 .. MaxRequests]
<1>1. sent \in Seq(R) /\ Len(sent) < MaxRequests /\ Len(sent) \in Nat
  BY DEF TypeOK, Send
<1>2. PICK m \in R : sent' = Append(sent, m)
  BY SendAppends
<1>3. sent' \in Seq(R) /\ Len(sent') = Len(sent) + 1
  BY <1>1, <1>2, AppendProperties
<1> HIDE DEF R
<1>4. read' \in 0 .. Len(sent') /\ Len(sent') <= MaxRequests
  BY <1>1, <1>3 DEF TypeOK, Send
<1> QED
  BY <1>3, <1>4 DEF R, TypeOK, Send, registry, threads

\* The first thing a helper does.
Starts(op, stage) ==
  \/ op = "open" /\ stage = "connecting"
  \/ op \in {"open-ssh", "tunnel-open"} /\ stage = "tunnelling"
  \/ op = "tunnel-close" /\ stage = "closing"

\* What DispatchHelper does, for the operation it is given.
LEMMA HelperStarts ==
  ASSUME DispatchHelper
  PROVE  \E id \in Ids : \E op \in AllOps, stage \in Stages :
           Next1(id, op) /\ Starts(op, stage) /\ helper' = [helper EXCEPT ![id] = stage]
<1> DEFINE stage(op) == CASE op = "open" -> "connecting"
                          [] op \in {"open-ssh", "tunnel-open"} -> "tunnelling"
                          [] op = "tunnel-close" -> "closing"
<1>1. PICK id \in Ids : \E op \in {"open", "open-ssh", "tunnel-open", "tunnel-close"} :
        Next1(id, op) /\ helper' = [helper EXCEPT ![id] = stage(op)]
  BY DEF DispatchHelper
<1>2. \A op \in {"open", "open-ssh", "tunnel-open", "tunnel-close"} :
        Starts(op, stage(op)) /\ op \in AllOps /\ stage(op) \in Stages
  BY DEF Starts, AllOps, Stages
<1> HIDE DEF stage
<1> QED
  BY <1>1, <1>2

\* The reader's steps keep the types.
LEMMA ReaderType == ASSUME TypeOK, Targeted, ReaderFits, Reader PROVE TypeOK'
<1> USE Numbers
<1> USE DEF ReplySet, client, registry, threads
<1>0. reader.at = "stopping" =>
        reader \in [at : {"stopping"}, left : SUBSET Ids, now : 0 .. MaxRequests, owned : SUBSET Ids]
  BY ReaderShape
<1>a. reader.at \in {"cancelling", "joining"} => reader.id \in Ids
  BY ReaderShape
<1>b. TakeAll => reader' \in Readers /\ sessions' = {} /\ tunnels' = {}
  <2>1. sessions \in SUBSET Ids /\ tunnels \in SUBSET Ids /\ 0 \in 0 .. MaxRequests
    BY DEF TypeOK
  <2> QED
    BY <2>1, ReaderStates DEF TakeAll
<1>1. CASE DispatchWork
  <2>1. PICK id \in Ids : /\ Next1(id, "work")
                          /\ IF To(id) \in sessions THEN Post(To(id), id) /\ UNCHANGED out
                                                    ELSE Refuse(id) /\ UNCHANGED queue
    BY <1>1 DEF DispatchWork
  <2>2. read' \in 0 .. Len(sent)
    BY <2>1, NextIsSent
  <2>3. queue' \in [Ids -> Seq(0 .. MaxRequests)]
    <3>1. CASE To(id) \in sessions
      <4>1. To(id) \in Ids /\ id \in 0 .. MaxRequests
        <5>1. sessions \subseteq Ids
          BY DEF TypeOK
        <5> QED
          BY <3>1, <5>1
      <4>2. Post(To(id), id)
        BY <2>1, <3>1, Zenon
      <4> QED
        BY <4>1, <4>2, PostAdds
    <3>2. CASE To(id) \notin sessions
      BY <2>1, <3>2 DEF TypeOK
    <3> QED
      BY <3>1, <3>2
  <2>4. out' \in Seq(ReplySet)
    BY <2>1, ReplyAdds DEF TypeOK, Refuse
  <2> QED
    BY <1>1, <2>2, <2>3, <2>4 DEF TypeOK, DispatchWork
<1>2. CASE DispatchHelper
  <2>1. PICK id \in Ids : \E op \in AllOps, stage \in Stages :
          Next1(id, op) /\ Starts(op, stage) /\ helper' = [helper EXCEPT ![id] = stage]
    BY <1>2, HelperStarts
  <2>2. PICK stage \in Stages : helper' = [helper EXCEPT ![id] = stage]
    BY <2>1 DEF Starts
  <2>3. read' \in 0 .. Len(sent)
    BY <2>1, NextIsSent
  <2>4. helper' \in [Ids -> Stages]
    <3>1. helper \in [Ids -> Stages]
      BY DEF TypeOK, Stages
    <3> QED
      BY <2>2, <3>1
  <2> QED
    BY <1>2, <2>3, <2>4 DEF TypeOK, DispatchHelper, Stages
<1>3. CASE DispatchCancel
  <2>1. PICK id \in Ids : /\ Next1(id, "cancel")
                          /\ \/ reader' = Cancelling(id) /\ UNCHANGED out
                             \/ Reply(id, To(id) \in sessions) /\ UNCHANGED reader
    BY <1>3 DEF DispatchCancel
  <2>2. read' \in 0 .. Len(sent)
    BY <2>1, NextIsSent
  <2>3. reader' \in Readers
    BY <2>1, ReaderStates DEF TypeOK
  <2>4. out' \in Seq(ReplySet)
    <3>1. (To(id) \in sessions) \in BOOLEAN
      OBVIOUS
    <3>2. out' = out \/ Reply(id, To(id) \in sessions)
      BY <2>1
    <3> QED
      BY <3>1, <3>2, ReplyAdds DEF TypeOK
  <2> QED
    BY <1>3, <2>2, <2>3, <2>4 DEF TypeOK, DispatchCancel
<1>4. CASE Cancel
  <2>1. reader.id \in Ids
    BY <1>4, <1>a DEF Cancel
  <2>2. cut' \subseteq Ids
    <3>1. cut' = cut \/ (thread[To(reader.id)] = "running" /\ cut' = cut \cup {To(reader.id)})
      BY <1>4 DEF Cancel
    <3>2. To(reader.id) \in Ids
      <4>1. reader.id = read /\ Op(read) = "cancel" /\ read \in DOMAIN sent
        BY <1>4, <2>1 DEF Cancel, ReaderFits, TypeOK
      <4> QED
        BY <4>1 DEF Targeted, OnSession, TypeOK
    <3> QED
      BY <3>1, <3>2 DEF TypeOK
  <2>3. out' \in Seq(ReplySet)
    <3>1. Reply(reader.id, TRUE) \/ Reply(reader.id, FALSE)
      BY <1>4 DEF Cancel
    <3> QED
      BY <2>1, <3>1, ReplyAdds
  <2>4. reader' \in Readers
    BY <1>4, ReaderStates DEF Cancel
  <2> QED
    BY <1>4, <2>2, <2>3, <2>4 DEF TypeOK, Cancel
<1>5. CASE DispatchClose
  <2>1. PICK id \in Ids :
          /\ Next1(id, "close")
          /\ sessions' = sessions \ {To(id)} /\ tunnels' = TunnelFreed(To(id))
          /\ IF To(id) \in sessions
             THEN /\ Post(To(id), Shutdown)
                  /\ reader' = Joining(id, To(id) \in tunnels)
                  /\ UNCHANGED out
             ELSE Reply(id, TRUE) /\ UNCHANGED <<queue, reader>>
    BY <1>5 DEF DispatchClose
  <2>2. read' \in 0 .. Len(sent)
    BY <2>1, NextIsSent
  <2>3. reader' \in Readers
    <3>1. (To(id) \in tunnels) \in BOOLEAN
      OBVIOUS
    <3>2. reader' = reader \/ reader' = Joining(id, To(id) \in tunnels)
      BY <2>1
    <3> QED
      BY <3>1, <3>2, ReaderStates DEF TypeOK
  <2>4. out' \in Seq(ReplySet)
    BY <2>1, ReplyAdds DEF TypeOK
  <2>5. queue' \in [Ids -> Seq(0 .. MaxRequests)]
    <3>1. CASE To(id) \in sessions
      <4>1. To(id) \in Ids /\ Shutdown \in 0 .. MaxRequests
        <5>1. sessions \subseteq Ids
          BY DEF TypeOK
        <5> QED
          BY <3>1, <5>1 DEF Shutdown
      <4>2. Post(To(id), Shutdown)
        BY <2>1, <3>1, Zenon
      <4> QED
        BY <4>1, <4>2, PostAdds
    <3>2. CASE To(id) \notin sessions
      BY <2>1, <3>2 DEF TypeOK
    <3> QED
      BY <3>1, <3>2
  <2>6. sessions' \subseteq Ids /\ tunnels' \subseteq Ids
    BY <2>1 DEF TypeOK, TunnelFreed
  <2> QED
    BY <1>5, <2>2, <2>3, <2>4, <2>5, <2>6 DEF TypeOK, DispatchClose
<1>6. CASE Joined
  <2>1. reader.id \in Ids
    BY <1>6, <1>a DEF Joined
  <2>2. out' \in Seq(ReplySet)
    BY <1>6, <2>1, ReplyAdds DEF Joined
  <2> QED
    BY <1>6, <2>2, ReaderStates DEF TypeOK, Joined
<1>7. CASE DispatchShutdown
  <2>1. PICK id \in Ids : Next1(id, "shutdown") /\ Reply(id, TRUE)
    BY <1>7 DEF DispatchShutdown
  <2>2. read' \in 0 .. Len(sent)
    BY <2>1, NextIsSent
  <2>3. out' \in Seq(ReplySet)
    BY <2>1, ReplyAdds
  <2> QED
    BY <1>7, <2>2, <2>3, <1>b DEF DispatchShutdown, TypeOK
<1>8. CASE EndOfInput
  BY <1>8, <1>b DEF EndOfInput, TypeOK
<1>9. CASE StopSession
  <2>1. PICK s \in reader.left : Post(s, Shutdown) /\ reader' = [reader EXCEPT !.now = s]
    BY <1>9 DEF StopSession
  <2>2. s \in Ids /\ reader' \in Readers
    <3>1. s \in Ids /\ reader' = Stopping(reader.left, s, reader.owned)
      BY <1>0, <1>9, <2>1 DEF StopSession, Stopping
    <3> QED
      BY <1>0, <1>9, <3>1, ReaderStates DEF StopSession
  <2>3. queue' \in [Ids -> Seq(0 .. MaxRequests)]
    BY <2>1, <2>2, PostAdds DEF Shutdown
  <2> QED
    BY <1>9, <2>2, <2>3 DEF TypeOK, StopSession
<1>10. CASE StopJoined
  <2>1. reader' \in Readers
    BY <1>0, <1>10, ReaderStates DEF StopJoined
  <2> QED
    BY <1>10, <2>1 DEF TypeOK, StopJoined
<1>11. CASE Exit
  BY <1>11, ReaderStates DEF TypeOK, Exit
<1> QED
  BY <1>1, <1>2, <1>3, <1>4, <1>5, <1>6, <1>7, <1>8, <1>9, <1>10, <1>11 DEF Reader

\* A helper's steps keep the types.
LEMMA HelperType == ASSUME TypeOK, NEW id \in Ids, Helper(id) PROVE TypeOK'
<1> USE Numbers
<1> USE DEF ReplySet, Stages, client, registry, threads
<1>1. helper' \in [Ids -> Stages]
  BY DEF TypeOK, Helper, HelperGoes, HelperFails, OpenTunnel, Connect, Register, StoreTunnel,
         CloseTunnel, ForgetTunnel, HelperReplies
<1>2. out' \in Seq(ReplySet)
  <2>1. out' = out \/ Reply(id, TRUE) \/ Reply(id, FALSE)
    BY DEF Helper, HelperFails, OpenTunnel, Connect, Register, StoreTunnel,
         CloseTunnel, ForgetTunnel, HelperReplies
  <2> QED
    BY <2>1, ReplyAdds DEF TypeOK
<1>3. sessions' \subseteq Ids /\ tunnels' \subseteq Ids /\ ssh' \subseteq Ids
  BY DEF TypeOK, Helper, OpenTunnel, Connect, Register, StoreTunnel,
         CloseTunnel, ForgetTunnel, HelperReplies
<1>4. /\ queue' = queue /\ job' = job /\ busy' = busy /\ cut' = cut
      /\ thread' = thread \/ thread' = [thread EXCEPT ![id] = "idle"]
  BY DEF Helper, OpenTunnel, Connect, Register, StoreTunnel,
         CloseTunnel, ForgetTunnel, HelperReplies
<1> QED
  BY <1>1, <1>2, <1>3, <1>4 DEF TypeOK, Helper

\* A session thread's steps keep the types.
LEMMA ThreadType ==
  ASSUME TypeOK, ThreadsFit, NEW s \in Ids,
         ThreadMoves(s) \/ StatementEnds(s) \/ (Panic(s) /\ Beside)
  PROVE  TypeOK'
<1> USE Numbers
<1> USE DEF ReplySet, Beside, client, registry
<1>0. /\ thread \in [Ids -> {"none", "idle", "running", "replying", "ended", "dead"}]
      /\ queue \in [Ids -> Seq(0 .. MaxRequests)] /\ job \in [Ids -> 0 .. MaxRequests]
      /\ busy \in [Ids -> 0 .. 1] /\ cut \subseteq Ids /\ out \in Seq(ReplySet)
      /\ queue[s] \in Seq(0 .. MaxRequests)
  BY DEF TypeOK
<1>b. UNCHANGED <<client, read, reader, registry, helper, ssh>>
  BY DEF ThreadMoves, StatementEnds
<1>1. CASE Take(s)
  <2>1. Head(queue[s]) \in 0 .. MaxRequests /\ Tail(queue[s]) \in Seq(0 .. MaxRequests)
    BY <1>0, <1>1, HeadTailProperties DEF Take
  <2>2. busy[s] = 0
    BY <1>1 DEF Take, ThreadsFit
  <2>3. /\ thread' \in [Ids -> {"none", "idle", "running", "replying", "ended", "dead"}]
        /\ job' \in [Ids -> 0 .. MaxRequests] /\ busy' \in [Ids -> 0 .. 1]
        /\ queue' \in [Ids -> Seq(0 .. MaxRequests)] /\ cut' = cut /\ out' = out
    <3>1. CASE Head(queue[s]) = Shutdown
      BY <1>0, <1>1, <2>1, <3>1 DEF Take
    <3>2. CASE Head(queue[s]) # Shutdown
      <4> DEFINE h == Head(queue[s])
                 t == Tail(queue[s])
      <4>1. /\ thread' = [thread EXCEPT ![s] = "running"] /\ job' = [job EXCEPT ![s] = h]
            /\ busy' = [busy EXCEPT ![s] = 1] /\ queue' = [queue EXCEPT ![s] = t]
            /\ cut' = cut /\ out' = out
        BY <1>0, <1>1, <2>2, <3>2 DEF Take
      <4> HIDE DEF h, t
      <4>2. h \in 0 .. MaxRequests /\ t \in Seq(0 .. MaxRequests)
        BY <2>1 DEF h, t
      <4> QED
        BY <1>0, <4>1, <4>2
    <3> QED
      BY <3>1, <3>2
  <2> QED
    BY <1>b, <2>3 DEF TypeOK
<1>2. CASE Answer(s)
  <2>1. job[s] \in Ids
    <3>1. Asked(s, job[s]) /\ job[s] \in 0 .. MaxRequests
      BY <1>0, <1>2 DEF Answer, ThreadsFit, Serving
    <3> QED
      BY <3>1 DEF Asked
  <2>2. out' \in Seq(ReplySet)
    BY <1>2, <2>1, ReplyAdds DEF Answer
  <2>3. /\ thread' \in [Ids -> {"none", "idle", "running", "replying", "ended", "dead"}]
        /\ job' \in [Ids -> 0 .. MaxRequests]
        /\ queue' = queue /\ busy' = busy /\ cut' = cut
    BY <1>0, <1>2 DEF Answer
  <2> QED
    BY <1>b, <2>2, <2>3 DEF TypeOK
<1>3. CASE EndStatement(s)
  <2>1. busy[s] = 1
    BY <1>3 DEF EndStatement, ThreadsFit
  <2>2. /\ thread' \in [Ids -> {"none", "idle", "running", "replying", "ended", "dead"}]
        /\ busy' \in [Ids -> 0 .. 1] /\ cut' \subseteq Ids
        /\ queue' = queue /\ job' = job /\ out' = out
    BY <1>0, <1>3, <2>1 DEF EndStatement, Lowered
  <2> QED
    BY <1>b, <2>2 DEF TypeOK
<1>4. CASE Panic(s)
  <2>1. <<>> \in Seq(0 .. MaxRequests)
    BY EmptySeq
  <2>2. /\ thread' \in [Ids -> {"none", "idle", "running", "replying", "ended", "dead"}]
        /\ job' \in [Ids -> 0 .. MaxRequests] /\ cut' \subseteq Ids
        /\ queue' \in [Ids -> Seq(0 .. MaxRequests)] /\ busy' = busy /\ out' = out
    BY <1>0, <1>4, <2>1 DEF Panic
  <2> QED
    BY <1>b, <2>2 DEF TypeOK
<1> QED
  BY <1>1, <1>2, <1>3, <1>4 DEF ThreadMoves, StatementEnds

\* Every step keeps the types.
LEMMA TypeStep == Structure /\ [Next]_vars => TypeOK'
<1> SUFFICES ASSUME Structure, [Next]_vars PROVE TypeOK'
  OBVIOUS
<1>1. CASE Send
  BY <1>1, SendType DEF Structure
<1>2. CASE HangUp
  BY <1>2 DEF Structure, TypeOK, HangUp, registry, threads
<1>3. CASE Kill
  BY <1>3, ReaderStates DEF Structure, TypeOK, Kill, client, registry, threads
<1>4. CASE Reader
  BY <1>4, ReaderType DEF Structure
<1>5. ASSUME NEW id \in Ids, Helper(id) PROVE TypeOK'
  BY <1>5, HelperType DEF Structure
<1>6. ASSUME NEW s \in Ids, ThreadMoves(s) \/ StatementEnds(s) \/ (Panic(s) /\ Beside) PROVE TypeOK'
  BY <1>6, ThreadType DEF Structure
<1>7. CASE UNCHANGED vars
  BY <1>7 DEF Structure, TypeOK, vars
<1> QED
  BY <1>1, <1>2, <1>3, <1>4, <1>5, <1>6, <1>7 DEF Next

-----------------------------------------------------------------------------
(* What every step leaves as it was.                                          *)

\* Requests and replies stay, a thread is never forgotten, and one that is over
\* stays over.
Kept ==
  /\ read <= read'
  /\ \A c \in DOMAIN sent : c \in DOMAIN sent' /\ sent'[c] = sent[c]
  /\ \A x : Replied(x) => Replied(x)'
  /\ \A x : Succeeded(x) => Succeeded(x)'
  /\ \A s \in Ids : /\ thread[s] # "none" => thread'[s] # "none"
                    /\ Finished(s) => thread'[s] = thread[s]

\* Whoever replies: the reader to the request it has just read or was busy
\* with, a helper to its own, a session thread to the one it served.
ReplyOf(id, ok) ==
  \/ /\ id = read + 1 /\ read' = id /\ reader = Reading /\ id \in DOMAIN sent /\ ~Opening(id)
     /\ Op(id) \in {"work", "close"} => To(id) \notin sessions
  \/ /\ reader.at \in {"cancelling", "joining"} /\ id = reader.id /\ reader' = Reading
     /\ reader.at = "joining" => Joined
  \/ /\ helper[id] # "none" /\ helper' = [helper EXCEPT ![id] = "none"] /\ reader' = reader
     /\ ok => helper[id] = "replying"
  \/ \E s \in Ids : thread[s] = "replying" /\ job[s] = id /\ thread'[s] = "idle" /\ reader' = reader

\* A step writes nothing, or one reply, by one of those four.
LEMMA Repliers ==
  ASSUME Structure, [Next]_vars
  PROVE  \/ out' = out
         \/ \E id \in Ids, ok \in BOOLEAN : Reply(id, ok) /\ ReplyOf(id, ok)
<1> USE Numbers
<1>1. CASE Send \/ HangUp \/ Kill \/ UNCHANGED vars
  BY <1>1 DEF Send, HangUp, Kill, vars
<1>2. CASE Reader
  <2>1. CASE DispatchWork \/ DispatchCancel \/ DispatchClose \/ DispatchShutdown
    <3>1. PICK id \in Ids, op \in {"work", "cancel", "close", "shutdown"} : /\ Next1(id, op)
             /\ \/ out' = out
                \/ \E ok \in BOOLEAN : Reply(id, ok) /\ (op \in {"work", "close"} => To(id) \notin sessions)
      <4>1. CASE DispatchWork
        <5>1. PICK id \in Ids :
                /\ Next1(id, "work")
                /\ IF To(id) \in sessions THEN out' = out ELSE Reply(id, FALSE)
          BY <4>1 DEF DispatchWork, Refuse
        <5> QED
          BY <5>1
      <4>2. CASE DispatchCancel
        <5>1. PICK id \in Ids : Next1(id, "cancel") /\ (out' = out \/ Reply(id, To(id) \in sessions))
          BY <4>2 DEF DispatchCancel
        <5>2. (To(id) \in sessions) \in BOOLEAN
          OBVIOUS
        <5> QED
          BY <5>1, <5>2
      <4>3. CASE DispatchClose
        <5>1. PICK id \in Ids :
                /\ Next1(id, "close")
                /\ IF To(id) \in sessions THEN out' = out ELSE Reply(id, TRUE)
          BY <4>3 DEF DispatchClose
        <5> QED
          BY <5>1
      <4>4. CASE DispatchShutdown
        BY <4>4 DEF DispatchShutdown
      <4> QED
        BY <2>1, <4>1, <4>2, <4>3, <4>4
    <3>2. id = read + 1 /\ read' = id /\ reader = Reading /\ id \in DOMAIN sent /\ ~Opening(id) /\ Op(id) = op
      BY <3>1, NextIsSent DEF Structure, Opening
    <3>3. ASSUME NEW ok \in BOOLEAN, Reply(id, ok), op \in {"work", "close"} => To(id) \notin sessions
          PROVE  ReplyOf(id, ok)
      BY <3>2, <3>3 DEF ReplyOf
    <3>4. CASE \E ok \in BOOLEAN : Reply(id, ok) /\ (op \in {"work", "close"} => To(id) \notin sessions)
      <4>1. PICK ok \in BOOLEAN : Reply(id, ok) /\ (op \in {"work", "close"} => To(id) \notin sessions)
        BY <3>4
      <4>2. Reply(id, ok) /\ ReplyOf(id, ok)
        BY <3>3, <4>1
      <4> QED
        BY <4>2
    <3> QED
      BY <3>1, <3>4
  <2>2. CASE Cancel \/ Joined
    <3>1. reader.id \in Ids
      BY <2>2, ReaderShape DEF Cancel, Joined, Structure
    <3>2. reader.at \in {"cancelling", "joining"} /\ reader' = Reading
          /\ (Reply(reader.id, TRUE) \/ Reply(reader.id, FALSE))
          /\ (reader.at = "joining" => Joined)
      BY <2>2 DEF Cancel, Joined
    <3> QED
      BY <3>1, <3>2 DEF ReplyOf
  <2>3. CASE DispatchHelper \/ EndOfInput \/ StopSession \/ StopJoined \/ Exit
    BY <2>3 DEF DispatchHelper, EndOfInput, StopSession, StopJoined, Exit
  <2> QED
    BY <1>2, <2>1, <2>2, <2>3 DEF Reader
<1>3. ASSUME NEW id \in Ids, Helper(id)
      PROVE  out' = out \/ \E ok \in BOOLEAN : Reply(id, ok) /\ ReplyOf(id, ok)
  <2>1. helper[id] # "none" /\ reader' = reader
    BY <1>3 DEF Helper, OpenTunnel, Connect, Register, StoreTunnel, CloseTunnel, ForgetTunnel, HelperReplies
  <2>2. \/ out' = out
        \/ /\ helper' = [helper EXCEPT ![id] = "none"]
           /\ (helper[id] = "replying" /\ Reply(id, TRUE)) \/ Reply(id, FALSE)
    BY <1>3 DEF Helper, OpenTunnel, Connect, Register, StoreTunnel, CloseTunnel, ForgetTunnel,
         HelperReplies, HelperFails, HelperGoes
  <2> QED
    BY <2>1, <2>2 DEF ReplyOf
<1>4. ASSUME NEW s \in Ids, ThreadMoves(s) \/ StatementEnds(s) \/ (Panic(s) /\ Beside)
      PROVE  \/ out' = out
             \/ \E id \in Ids, ok \in BOOLEAN : Reply(id, ok) /\ ReplyOf(id, ok)
  <2>1. CASE Answer(s)
    <3>1. thread[s] = "replying" /\ thread'[s] = "idle" /\ Reply(job[s], TRUE) /\ reader' = reader
      BY <1>4, <2>1 DEF Answer, Structure, TypeOK, ThreadMoves, StatementEnds, Beside
    <3>2. Asked(s, job[s]) /\ job[s] \in 0 .. MaxRequests
      BY <3>1 DEF Structure, TypeOK, ThreadsFit, Serving
    <3>3. job[s] \in Ids
      BY <3>2 DEF Asked
    <3> QED
      BY <3>1, <3>3 DEF ReplyOf
  <2>2. CASE ~Answer(s)
    BY <1>4, <2>2 DEF ThreadMoves, StatementEnds, Take, EndStatement, Panic
  <2> QED
    BY <2>1, <2>2
<1> QED
  BY <1>1, <1>2, <1>3, <1>4 DEF Next

\* Every step keeps that.
LEMMA KeptStep == ASSUME Structure, [Next]_vars PROVE Kept
<1> USE Numbers
<1>1. \A x : (Replied(x) => Replied(x)') /\ (Succeeded(x) => Succeeded(x)')
  <2>1. CASE out' = out
    BY <2>1 DEF Replied, Succeeded
  <2>2. ASSUME NEW id \in Ids, NEW ok \in BOOLEAN, Reply(id, ok)
        PROVE  \A x : (Replied(x) => Replied(x)') /\ (Succeeded(x) => Succeeded(x)')
    BY <2>2, ReplyTells DEF Structure
  <2> QED
    BY <2>1, <2>2, Repliers
<1>2. read <= read'
  <2>1. read \in Nat
    BY DEF Structure, TypeOK
  <2>2. \A id \in Ids, op \in AllOps : Next1(id, op) => read <= read'
    BY <2>1 DEF Next1
  <2>3. Reader => read <= read'
    <3>1. DispatchWork \/ DispatchHelper \/ DispatchCancel \/ DispatchClose \/ DispatchShutdown
            => \E id \in Ids, op \in AllOps : Next1(id, op)
      BY DEF DispatchWork, DispatchHelper, DispatchCancel, DispatchClose, DispatchShutdown, AllOps
    <3>2. Cancel \/ Joined \/ EndOfInput \/ StopSession \/ StopJoined \/ Exit => read' = read
      BY DEF Cancel, Joined, EndOfInput, StopSession, StopJoined, Exit
    <3> QED
      BY <2>1, <2>2, <3>1, <3>2 DEF Reader
  <2> QED
    BY <2>1, <2>3 DEF Next, Send, HangUp, Kill, Helper, ThreadMoves, StatementEnds, Beside, vars
<1>3. \A c \in DOMAIN sent : c \in DOMAIN sent' /\ sent'[c] = sent[c]
  <2>1. CASE Send
    <3>1. \E m \in [op : AllOps, to : 0 .. MaxRequests] : sent' = Append(sent, m)
      BY <2>1, SendAppends DEF Structure
    <3>2. sent \in Seq([op : AllOps, to : 0 .. MaxRequests])
      BY DEF Structure, TypeOK
    <3> QED
      BY <3>1, <3>2
  <2>2. CASE ~Send
    <3>1. sent' = sent
      BY <2>2 DEF Next, HangUp, Kill, Helper, ThreadMoves, StatementEnds, Beside, vars, client,
         Reader, DispatchWork, DispatchHelper, DispatchCancel, Cancel, DispatchClose, Joined,
         DispatchShutdown, EndOfInput, StopSession, StopJoined, Exit
    <3> QED
      BY <3>1
  <2> QED
    BY <2>1, <2>2
<1>4. ASSUME NEW s \in Ids
      PROVE  (thread[s] # "none" => thread'[s] # "none") /\ (Finished(s) => thread'[s] = thread[s])
  <2>0. thread \in [Ids -> {"none", "idle", "running", "replying", "ended", "dead"}]
    BY DEF Structure, TypeOK
  <2>1. CASE thread' = thread
    BY <2>1 DEF Finished
  <2>2. ASSUME NEW id \in Ids, Helper(id), Register(id)
        PROVE (thread[s] # "none" => thread'[s] # "none") /\ (Finished(s) => thread'[s] = thread[s])
    <3>1. thread[id] = "none" /\ thread' = [thread EXCEPT ![id] = "idle"]
      BY <2>2 DEF Register, Structure, HelpersFit, HelperFits, Early
    <3> QED
      BY <2>0, <3>1 DEF Finished
  <2>3. ASSUME NEW r \in Ids, Take(r) \/ Answer(r) \/ EndStatement(r) \/ Panic(r)
        PROVE (thread[s] # "none" => thread'[s] # "none") /\ (Finished(s) => thread'[s] = thread[s])
    <3>1. thread[r] \in {"idle", "running", "replying"}
      BY <2>3 DEF Take, Answer, EndStatement, Panic
    <3>2. \E t \in {"idle", "running", "replying", "ended", "dead"} : thread' = [thread EXCEPT ![r] = t]
      BY <2>3 DEF Take, Answer, EndStatement, Panic
    <3> QED
      BY <2>0, <3>1, <3>2 DEF Finished
  <2>4. \/ thread' = thread
        \/ \E id \in Ids : Helper(id) /\ Register(id)
        \/ \E r \in Ids : Take(r) \/ Answer(r) \/ EndStatement(r) \/ Panic(r)
    BY DEF Next, Send, HangUp, Kill, Helper, ThreadMoves, StatementEnds, vars, threads,
         Reader, DispatchWork, DispatchHelper, DispatchCancel, Cancel, DispatchClose, Joined,
         DispatchShutdown, EndOfInput, StopSession, StopJoined, Exit,
         OpenTunnel, Connect, StoreTunnel, CloseTunnel, ForgetTunnel, HelperReplies
  <2> QED
    BY <2>1, <2>2, <2>3, <2>4
<1> QED
  BY <1>1, <1>2, <1>3, <1>4 DEF Kept

\* A request that was read stays what it is.
LEMMA ReadStays ==
  ASSUME Structure, Kept
  PROVE  /\ \A c \in DOMAIN sent : Op(c)' = Op(c) /\ To(c)' = To(c)
         /\ \A w \in Ids : w <= read => w \in DOMAIN sent /\ Op(w)' = Op(w) /\ To(w)' = To(w)
         /\ read \in Nat /\ 1 .. read \subseteq Ids
<1> USE Numbers
<1>1. \A c \in DOMAIN sent : Op(c)' = Op(c) /\ To(c)' = To(c)
  BY DEF Kept, Op, To
<1>2. /\ read \in Nat /\ Len(sent) \in Nat /\ read <= Len(sent) /\ DOMAIN sent = 1 .. Len(sent)
      /\ Len(sent) <= MaxRequests
  BY DEF Structure, TypeOK
<1> QED
  BY <1>1, <1>2

\* The requests after a step are those before, and what Send adds.
LEMMA SentStep ==
  ASSUME Structure, [Next]_vars
  PROVE  \/ sent' = sent
         \/ /\ \E c \in Ids : /\ c \notin DOMAIN sent /\ DOMAIN sent' = DOMAIN sent \cup {c}
                             /\ To(c)' \in Targets(Op(c)')
            /\ UNCHANGED <<eof, read, reader, registry, threads, helper, ssh, out>>
<1> USE Numbers
<1>1. CASE Send
  <2>1. PICK op \in AllOps : \E to \in Targets(op) \cap (0 .. MaxRequests) :
          sent' = Append(sent, [op |-> op, to |-> to])
    BY <1>1, SendAppends DEF Structure
  <2>2. PICK to \in Targets(op) \cap (0 .. MaxRequests) : sent' = Append(sent, [op |-> op, to |-> to])
    BY <2>1
  <2>3. /\ sent \in Seq([op : AllOps, to : 0 .. MaxRequests])
        /\ [op |-> op, to |-> to] \in [op : AllOps, to : 0 .. MaxRequests]
        /\ Len(sent) \in Nat /\ Len(sent) < MaxRequests
    BY <1>1, SendAppends DEF Structure, TypeOK
  <2>4. /\ DOMAIN sent = 1 .. Len(sent) /\ DOMAIN sent' = 1 .. Len(sent) + 1
        /\ sent'[Len(sent) + 1] = [op |-> op, to |-> to]
    BY <2>2, <2>3
  <2>5. PICK c \in Ids : c = Len(sent) + 1
    BY <2>3
  <2>6. Op(c)' = op /\ To(c)' = to
    BY <2>4, <2>5 DEF Op, To
  <2>7. c \notin DOMAIN sent /\ DOMAIN sent' = DOMAIN sent \cup {c}
    BY <2>3, <2>4, <2>5
  <2>8. UNCHANGED <<eof, read, reader, registry, threads, helper, ssh, out>>
    BY <1>1 DEF Send
  <2> QED
    BY <2>2, <2>6, <2>7, <2>8
<1>2. CASE ~Send
  BY <1>2 DEF Next, HangUp, Kill, Helper, ThreadMoves, StatementEnds, Beside, vars, client,
         Reader, DispatchWork, DispatchHelper, DispatchCancel, Cancel, DispatchClose, Joined,
         DispatchShutdown, EndOfInput, StopSession, StopJoined, Exit
<1> QED
  BY <1>1, <1>2

\* What a request names is settled when it is sent.
LEMMA TargetedStep == ASSUME Structure, Kept, [Next]_vars PROVE Targeted'
<1> USE Numbers
<1>1. ASSUME NEW c \in DOMAIN sent
      PROVE  /\ OnSession(c)' => To(c)' \in DOMAIN sent' /\ Opening(To(c))' /\ Succeeded(To(c))'
             /\ Op(c)' = "tunnel-close" =>
                  To(c)' \in DOMAIN sent' /\ Op(To(c))' = "tunnel-open" /\ Succeeded(To(c))'
  <2>1. Op(c)' = Op(c) /\ To(c)' = To(c)
    BY ReadStays
  <2>2. To(c) \in DOMAIN sent =>
          To(c) \in DOMAIN sent' /\ Op(To(c))' = Op(To(c)) /\ (Succeeded(To(c)) => Succeeded(To(c))')
    BY ReadStays, <2>1 DEF Kept, Op
  <2> QED
    BY <2>1, <2>2 DEF Structure, Targeted, OnSession, Opening
<1>2. ASSUME NEW c \in DOMAIN sent', c \notin DOMAIN sent
      PROVE  /\ OnSession(c)' => To(c)' \in DOMAIN sent' /\ Opening(To(c))' /\ Succeeded(To(c))'
             /\ Op(c)' = "tunnel-close" =>
                  To(c)' \in DOMAIN sent' /\ Op(To(c))' = "tunnel-open" /\ Succeeded(To(c))'
  <2>1. To(c)' \in Targets(Op(c)')
    BY <1>2, SentStep
  <2> DEFINE to == To(c)'
  <2>2. OnSession(c)' => to \in DOMAIN sent /\ Opening(to) /\ Succeeded(to)
    BY <2>1 DEF Targets, OnSession, Opening
  <2>3. Op(c)' = "tunnel-close" => to \in DOMAIN sent /\ Op(to) = "tunnel-open" /\ Succeeded(to)
    BY <2>1 DEF Targets
  <2>4. \A t \in DOMAIN sent : t \in DOMAIN sent' /\ sent'[t] = sent[t] /\ (Succeeded(t) => Succeeded(t)')
    BY DEF Kept
  <2> QED
    BY <2>2, <2>3, <2>4 DEF Opening, Op
<1> QED
  BY <1>1, <1>2 DEF Targeted

\* The steps that start a thread, or put a tunnel into the registry, are those
\* of the helper that opened it.
LEMMA HelperFrame ==
  ASSUME Structure, [Next]_vars, NEW id \in Ids
  PROVE  /\ \/ helper'[id] = helper[id]
            \/ Helper(id)
            \/ \E op \in AllOps, stage \in Stages : Next1(id, op) /\ Starts(op, stage)
                 /\ helper' = [helper EXCEPT ![id] = stage]
                 /\ UNCHANGED <<registry, threads, out>>
         /\ thread[id] = "none" => thread'[id] = "none" \/ (Helper(id) /\ Register(id))
         /\ id \in tunnels' => id \in tunnels \/ (Helper(id) /\ (Register(id) \/ StoreTunnel(id)))
         /\ id \in sessions' => id \in sessions \/ (Helper(id) /\ Register(id))
<1> USE DEF registry, threads
<1>0. /\ thread \in [Ids -> {"none", "idle", "running", "replying", "ended", "dead"}]
      /\ helper \in [Ids -> Stages]
  BY DEF Structure, TypeOK, Stages
<1>1. CASE Send \/ HangUp \/ Kill \/ UNCHANGED vars
  BY <1>1 DEF Send, HangUp, Kill, vars
<1>2. CASE DispatchHelper
  <2>1. PICK h \in Ids : \E op \in AllOps, stage \in Stages :
          Next1(h, op) /\ Starts(op, stage) /\ helper' = [helper EXCEPT ![h] = stage]
    BY <1>2, HelperStarts
  <2>2. UNCHANGED <<registry, threads, out>>
    BY <1>2 DEF DispatchHelper
  <2> QED
    BY <1>0, <2>1, <2>2
<1>3. CASE Reader /\ ~DispatchHelper
  <2>1. helper' = helper /\ thread' = thread /\ tunnels' \subseteq tunnels /\ sessions' \subseteq sessions
    BY <1>3 DEF Reader, DispatchWork, DispatchCancel, Cancel, DispatchClose, Joined,
         DispatchShutdown, EndOfInput, StopSession, StopJoined, Exit, TakeAll, TunnelFreed
  <2> QED
    BY <2>1
<1>4. ASSUME NEW h \in Ids, Helper(h)
      PROVE  /\ helper'[id] = helper[id] \/ h = id
             /\ thread[id] = "none" => thread'[id] = "none" \/ (h = id /\ Register(id))
             /\ id \in tunnels' => id \in tunnels \/ (h = id /\ (Register(id) \/ StoreTunnel(id)))
             /\ id \in sessions' => id \in sessions \/ (h = id /\ Register(id))
  <2>1. CASE h # id
    <3>1. helper'[id] = helper[id]
      BY <1>0, <1>4, <2>1 DEF Helper, OpenTunnel, Connect, Register, StoreTunnel, CloseTunnel, ForgetTunnel,
           HelperReplies, HelperFails, HelperGoes
    <3>2. thread'[id] = thread[id] /\ (id \in tunnels' => id \in tunnels) /\ (id \in sessions' => id \in sessions)
      BY <1>0, <1>4, <2>1 DEF Helper, OpenTunnel, Connect, Register, StoreTunnel, CloseTunnel, ForgetTunnel,
           HelperReplies
    <3> QED
      BY <3>1, <3>2
  <2>2. CASE h = id /\ ~Register(id)
    BY <1>0, <1>4, <2>2 DEF Helper, OpenTunnel, Connect, StoreTunnel, CloseTunnel, ForgetTunnel, HelperReplies
  <2> QED
    BY <2>1, <2>2
<1>5. ASSUME NEW s \in Ids, ThreadMoves(s) \/ StatementEnds(s) \/ (Panic(s) /\ Beside)
      PROVE  /\ helper' = helper /\ tunnels' = tunnels /\ sessions' = sessions
             /\ thread[id] = "none" => thread'[id] = "none"
  BY <1>0, <1>5 DEF ThreadMoves, StatementEnds, Beside, Take, Answer, EndStatement, Panic
<1>6. \/ Send \/ HangUp \/ Kill \/ UNCHANGED vars
      \/ DispatchHelper
      \/ Reader /\ ~DispatchHelper
      \/ \E h \in Ids : Helper(h)
      \/ \E s \in Ids : ThreadMoves(s) \/ StatementEnds(s) \/ (Panic(s) /\ Beside)
  BY DEF Next
<1> QED
  BY <1>1, <1>2, <1>3, <1>4, <1>5, <1>6

\* The reader stays with the request it is busy with.
LEMMA ReaderFrame ==
  ASSUME Structure, [Next]_vars
  PROVE  /\ reader.at # "reading" => read' = read
         /\ reader'.at \in {"cancelling", "joining"} =>
              \/ reader' = reader
              \/ \E id \in Ids : /\ Next1(id, "cancel") /\ reader' = Cancelling(id)
                                 /\ UNCHANGED <<out, registry, threads>>
              \/ \E id \in Ids : /\ Next1(id, "close") /\ reader' = Joining(id, To(id) \in tunnels)
                                 /\ To(id) \in sessions /\ UNCHANGED out /\ DispatchClose
<1> USE DEF registry, threads
<1>1. reader.at # "reading" => \A id \in Ids, op \in AllOps : ~Next1(id, op)
  BY DEF Next1, Reading
<1>2. CASE Reader
  <2>1. CASE DispatchCancel
    BY <1>1, <2>1 DEF DispatchCancel, AllOps
  <2>2. CASE DispatchClose
    <3>1. PICK id \in Ids : /\ Next1(id, "close")
                            /\ IF To(id) \in sessions
                               THEN reader' = Joining(id, To(id) \in tunnels) /\ UNCHANGED out
                               ELSE UNCHANGED reader
      BY <2>2 DEF DispatchClose
    <3> QED
      BY <1>1, <2>2, <3>1 DEF AllOps
  <2>3. CASE DispatchWork \/ DispatchHelper
    BY <1>1, <2>3 DEF DispatchWork, DispatchHelper, AllOps
  <2>4. CASE DispatchShutdown
    <3>1. \E id \in Ids : Next1(id, "shutdown")
      BY <2>4 DEF DispatchShutdown
    <3>2. reader'.at = "stopping"
      BY <2>4 DEF DispatchShutdown, TakeAll, Stopping
    <3> QED
      BY <1>1, <3>1, <3>2 DEF AllOps
  <2>5. CASE Cancel \/ Joined \/ EndOfInput \/ StopJoined \/ Exit
    <3>1. read' = read
      BY <2>5 DEF Cancel, Joined, EndOfInput, StopJoined, Exit
    <3>2. CASE Cancel \/ Joined
      <4>1. reader' = Reading
        BY <3>2 DEF Cancel, Joined
      <4>2. reader'.at = "reading"
        BY <4>1 DEF Reading
      <4> QED
        BY <3>1, <4>2
    <3>3. CASE EndOfInput
      BY <3>1, <3>3 DEF EndOfInput, TakeAll, Stopping
    <3>4. CASE StopJoined
      BY <3>1, <3>4 DEF StopJoined, Stopping
    <3>5. CASE Exit
      BY <3>1, <3>5 DEF Exit, Gone
    <3> QED
      BY <2>5, <3>2, <3>3, <3>4, <3>5
  <2>6. CASE StopSession
    <3>1. read' = read /\ reader.at = "stopping" /\ \E s \in reader.left : reader' = [reader EXCEPT !.now = s]
      BY <2>6 DEF StopSession
    <3>2. reader'.at = "stopping"
      BY <3>1, ReaderShape DEF Structure
    <3> QED
      BY <3>1, <3>2
  <2> QED
    BY <1>2, <2>1, <2>2, <2>3, <2>4, <2>5, <2>6 DEF Reader
<1>3. CASE ~Reader
  BY <1>3 DEF Next, Send, HangUp, Kill, Killed, Helper, ThreadMoves, StatementEnds, Beside, vars
<1> QED
  BY <1>2, <1>3

\* The request a reply is for was read, and had none if the reader or a helper
\* gives it.
LEMMA RepliersFit ==
  ASSUME Structure, [Next]_vars, NEW id \in Ids, NEW ok \in BOOLEAN, Reply(id, ok), ReplyOf(id, ok)
  PROVE  /\ id <= read'
         /\ ok /\ Opening(id) => thread[id] # "none"
         /\ id = read + 1 \/ (id <= read /\ OnSession(id) /\ id = read /\ reader' = Reading
                                /\ reader.at \in {"cancelling", "joining"})
              \/ (helper[id] # "none" /\ helper'[id] = "none")
              \/ (id <= read /\ Op(id) = "work" /\ reader' = reader)
<1> USE Numbers
<1>0. read \in Nat /\ read' \in Nat /\ read <= read' /\ helper \in [Ids -> Stages]
  <2>1. read <= read'
    BY KeptStep DEF Kept
  <2>2. read' \in Nat
    BY TypeStep DEF TypeOK
  <2>3. read \in Nat /\ helper \in [Ids -> Stages]
    BY DEF Structure, TypeOK, Stages
  <2> QED
    BY <2>1, <2>2, <2>3
<1>1. CASE id = read + 1 /\ read' = id /\ reader = Reading /\ id \in DOMAIN sent /\ ~Opening(id)
  BY <1>0, <1>1
<1>2. CASE reader.at \in {"cancelling", "joining"} /\ id = reader.id /\ reader' = Reading
  <2>1. id = read /\ Op(id) \in {"cancel", "close"}
    BY <1>2 DEF Structure, ReaderFits
  <2> QED
    BY <1>0, <1>2, <2>1 DEF OnSession, Opening
<1>3. CASE /\ helper[id] # "none" /\ helper' = [helper EXCEPT ![id] = "none"] /\ reader' = reader
           /\ ok => helper[id] = "replying"
  BY <1>0, <1>3 DEF Structure, HelpersFit, HelperFits
<1>4. CASE \E s \in Ids : thread[s] = "replying" /\ job[s] = id /\ thread'[s] = "idle" /\ reader' = reader
  <2>1. id \in 1 .. read /\ Op(id) = "work"
    BY <1>4 DEF Structure, ThreadsFit, Serving, Asked
  <2> QED
    BY <1>0, <1>4, <2>1 DEF Opening
<1> QED
  BY <1>1, <1>2, <1>3, <1>4 DEF ReplyOf

\* Every reply is to a request that was read.
LEMMA RepliesStep == ASSUME Structure, Kept, [Next]_vars PROVE RepliesFit'
<1> USE Numbers
<1>0. /\ read \in Nat /\ read' \in Nat /\ read <= read'
      /\ thread \in [Ids -> {"none", "idle", "running", "replying", "ended", "dead"}]
  BY TypeStep DEF Kept, Structure, TypeOK
<1>1. out \in Seq(ReplySet)
  BY DEF Structure, TypeOK, ReplySet
<1>2. /\ Len(out) \in Nat /\ DOMAIN out = 1 .. Len(out)
      /\ \A i \in DOMAIN out : out[i] \in ReplySet
  BY <1>1
<1>3. ASSUME NEW r \in ReplySet, ReplyFits(r) PROVE ReplyFits(r)'
  <2>1. r.id \in Ids /\ r.id <= read
    BY <1>3 DEF ReplySet, ReplyFits
  <2>2. r.id <= read' /\ Op(r.id)' = Op(r.id) /\ (thread[r.id] # "none" => thread'[r.id] # "none")
    BY <1>0, <2>1, ReadStays DEF Kept
  <2> QED
    BY <1>3, <2>2 DEF ReplyFits, Opening
<1>4. ASSUME NEW id \in Ids, NEW ok \in BOOLEAN, Reply(id, ok), ReplyOf(id, ok)
      PROVE  ReplyFits([id |-> id, ok |-> ok])'
  <2>1. id <= read' /\ (ok /\ Opening(id) => thread[id] # "none")
    BY <1>4, RepliersFit
  <2>2. Opening(id)' => Opening(id)
    <3>1. CASE id \in DOMAIN sent
      BY <3>1, ReadStays DEF Opening
    <3>2. CASE id \notin DOMAIN sent
      <4>1. id > read
        BY <3>2, ReadStays
      <4>2. sent' = sent
        BY <1>4, <2>1, <4>1, SentStep, <1>0
      <4> QED
        BY <4>2 DEF Opening, Op
    <3> QED
      BY <3>1, <3>2
  <2> QED
    BY <2>1, <2>2 DEF ReplyFits, Kept
<1>5. CASE out' = out
  BY <1>2, <1>3, <1>5 DEF Structure, RepliesFit
<1>6. ASSUME NEW id \in Ids, NEW ok \in BOOLEAN, Reply(id, ok), ReplyOf(id, ok) PROVE RepliesFit'
  <2> SUFFICES ASSUME NEW i \in DOMAIN out' PROVE ReplyFits(out[i])'
    BY DEF RepliesFit
  <2>1. /\ DOMAIN out' = 1 .. Len(out) + 1 /\ out'[Len(out) + 1] = [id |-> id, ok |-> ok]
        /\ \A k \in DOMAIN out : out'[k] = out[k]
    BY <1>6, ReplyAdds DEF Structure
  <2>2. CASE i \in DOMAIN out
    <3>1. PICK r \in ReplySet : r = out[i]
      BY <1>2, <2>2
    <3>2. ReplyFits(r)'
      BY <1>3, <2>2, <3>1 DEF Structure, RepliesFit
    <3> QED
      BY <2>1, <2>2, <3>1, <3>2
  <2>3. CASE i = Len(out) + 1
    <3>1. ReplyFits([id |-> id, ok |-> ok])'
      BY <1>4, <1>6
    <3> QED
      BY <2>1, <2>3, <3>1
  <2> QED
    BY <1>2, <2>1, <2>2, <2>3
<1> QED
  BY <1>5, <1>6, Repliers

\* The reader answers what it is busy with before it reads on.
LEMMA ReaderStep == ASSUME Structure, Kept, [Next]_vars PROVE ReaderFits'
<1> USE Numbers
<1>0. read \in Nat /\ \A i \in DOMAIN out : out[i].id <= read
  BY DEF Structure, TypeOK, RepliesFit, ReplyFits
<1>1. CASE reader.at \in {"cancelling", "joining"} /\ reader' = reader
  <2>1. read' = read /\ reader.id = read /\ ~Replied(read) /\ read \in Ids
    BY <1>1, ReaderFrame, ReaderShape DEF Structure, ReaderFits
  <2>2. Op(read) = (IF reader.at = "cancelling" THEN "cancel" ELSE "close") /\ OnSession(read)
    BY <1>1 DEF Structure, ReaderFits, OnSession
  <2>3. PICK w \in Ids : w = read
    BY <2>1
  <2>4. Op(w)' = Op(w) /\ ~Replied(w) /\ OnSession(w)
    BY <2>1, <2>2, <2>3, ReadStays
  <2>5. ~Replied(w)'
    <3>1. CASE out' = out
      BY <2>4, <3>1 DEF Replied
    <3>2. ASSUME NEW id \in Ids, NEW ok \in BOOLEAN, Reply(id, ok), ReplyOf(id, ok) PROVE id # w
      <4>1. \/ id = read + 1
            \/ (reader' = Reading /\ reader.at \in {"cancelling", "joining"})
            \/ helper[id] # "none"
            \/ Op(id) = "work"
        BY <3>2, RepliersFit
      <4>2. ~(reader' = Reading)
        BY <1>1 DEF Reading
      <4>3. helper[id] # "none" => ~OnSession(id)
        BY DEF Structure, HelpersFit, HelperFits
      <4>4. Op(w) # "work"
        BY <2>2, <2>3
      <4> QED
        BY <1>0, <2>3, <2>4, <4>1, <4>2, <4>3, <4>4
    <3>3. ASSUME NEW id \in Ids, NEW ok \in BOOLEAN, Reply(id, ok), ReplyOf(id, ok) PROVE ~Replied(w)'
      BY <2>4, <3>2, <3>3, ReplyTells DEF Structure
    <3> QED
      BY <3>1, <3>3, Repliers
  <2> QED
    BY <1>1, <2>1, <2>2, <2>3, <2>4, <2>5 DEF ReaderFits
<1>2. ASSUME NEW id \in Ids, NEW op \in {"cancel", "close"}, Next1(id, op), UNCHANGED out,
             reader'.id = id, reader'.at = IF op = "cancel" THEN "cancelling" ELSE "joining"
      PROVE  ReaderFits'
  <2>1. id = read + 1 /\ read' = id /\ id \in DOMAIN sent /\ Op(id) = op
    BY <1>2, NextIsSent DEF Structure
  <2>2. Op(id)' = op
    BY <2>1, ReadStays
  <2>3. ~Replied(id)'
    BY <1>0, <1>2, <2>1 DEF Replied
  <2> QED
    BY <1>2, <2>1, <2>2, <2>3 DEF ReaderFits
<1>3. CASE reader'.at \in {"cancelling", "joining"} /\ ~(reader' = reader)
  <2>1. CASE \E id \in Ids : Next1(id, "cancel") /\ reader' = Cancelling(id) /\ UNCHANGED out
    <3>1. PICK id \in Ids : Next1(id, "cancel") /\ reader' = Cancelling(id) /\ UNCHANGED out
      BY <2>1
    <3>2. reader'.id = id /\ reader'.at = "cancelling"
      BY <3>1 DEF Cancelling
    <3> QED
      BY <1>2, <3>1, <3>2
  <2>2. CASE \E id \in Ids : Next1(id, "close") /\ reader' = Joining(id, To(id) \in tunnels) /\ UNCHANGED out
    <3>1. PICK id \in Ids : Next1(id, "close") /\ reader' = Joining(id, To(id) \in tunnels) /\ UNCHANGED out
      BY <2>2
    <3>2. reader'.id = id /\ reader'.at = "joining"
      BY <3>1 DEF Joining
    <3> QED
      BY <1>2, <3>1, <3>2
  <2>3. \/ \E id \in Ids : Next1(id, "cancel") /\ reader' = Cancelling(id) /\ UNCHANGED out
        \/ \E id \in Ids : Next1(id, "close") /\ reader' = Joining(id, To(id) \in tunnels) /\ UNCHANGED out
    BY <1>3, ReaderFrame
  <2> QED
    BY <2>1, <2>2, <2>3
<1>4. CASE reader'.at \notin {"cancelling", "joining"}
  BY <1>4 DEF ReaderFits
<1> QED
  BY <1>1, <1>3, <1>4

\* A helper's request has no reply until the helper is over.
LEMMA HelpersStep == ASSUME Structure, Kept, [Next]_vars PROVE HelpersFit'
<1> USE Numbers
<1>0. /\ read \in Nat /\ read' \in Nat /\ read <= read'
      /\ thread \in [Ids -> {"none", "idle", "running", "replying", "ended", "dead"}]
      /\ helper \in [Ids -> Stages]
      /\ \A i \in DOMAIN out : out[i].id <= read
  BY TypeStep DEF Kept, Structure, TypeOK, RepliesFit, ReplyFits, Stages
<1> SUFFICES ASSUME NEW id \in Ids, helper'[id] # "none" PROVE HelperFits(id)'
  BY DEF HelpersFit
\* Nobody replies to it but its helper, which is then over.
<1>1. helper[id] # "none" => ~Replied(id)'
  <2> SUFFICES ASSUME helper[id] # "none" PROVE ~Replied(id)'
    OBVIOUS
  <2>1. ~Replied(id) /\ ~OnSession(id) /\ id <= read
    BY DEF Structure, HelpersFit, HelperFits
  <2>2. CASE out' = out
    BY <2>1, <2>2 DEF Replied
  <2>3. ASSUME NEW r \in Ids, NEW ok \in BOOLEAN, Reply(r, ok), ReplyOf(r, ok) PROVE ~Replied(id)'
    <3>1. r # id
      BY <1>0, <2>1, <2>3, RepliersFit DEF OnSession
    <3> QED
      BY <2>1, <2>3, <3>1, ReplyTells DEF Structure
  <2> QED
    BY <2>2, <2>3, Repliers
<1>2. CASE helper'[id] = helper[id]
  <2>1. HelperFits(id) /\ ~Replied(id)' /\ id <= read'
    BY <1>0, <1>1, <1>2 DEF Structure, HelpersFit, HelperFits
  <2>2. Op(id)' = Op(id)
    BY <2>1, ReadStays DEF HelperFits
  <2>3. ~Helper(id) \/ ~(Register(id) \/ StoreTunnel(id))
    <3>1. Register(id) \/ StoreTunnel(id) => helper'[id] = "replying" /\ helper[id] # "replying"
      BY <1>0 DEF Register, StoreTunnel, HelperGoes
    <3> QED
      BY <1>2, <3>1
  <2>4. (thread[id] = "none" => thread'[id] = "none") /\ (id \in tunnels' => id \in tunnels)
    BY <2>3, HelperFrame
  <2>5. thread[id] # "none" => thread'[id] # "none"
    BY DEF Kept
  <2> QED
    BY <1>2, <2>1, <2>2, <2>4, <2>5 DEF HelperFits, Opening, OnSession
<1>3. ASSUME NEW op \in AllOps, NEW stage \in Stages, Next1(id, op), Starts(op, stage),
             helper' = [helper EXCEPT ![id] = stage], UNCHANGED <<registry, threads, out>>
      PROVE  HelperFits(id)'
  <2>1. id = read + 1 /\ read' = id /\ id \in DOMAIN sent /\ Op(id) = op /\ helper'[id] = stage
    BY <1>0, <1>3, NextIsSent DEF Structure
  <2>2. Op(id)' = op /\ ~Replied(id)'
    BY <1>0, <1>3, <2>1, ReadStays DEF Replied
  <2>3. thread'[id] = "none" /\ id \notin tunnels'
    BY <1>0, <1>3, <2>1 DEF registry, threads, Structure, ThreadsFit
  <2> QED
    BY <1>3, <2>1, <2>2, <2>3 DEF HelperFits, Starts, OnSession, Opening, Early
<1>4. CASE Helper(id) /\ helper'[id] # helper[id]
  <2>1. HelperFits(id) /\ ~Replied(id)' /\ id <= read' /\ read' = read
    BY <1>0, <1>1, <1>4 DEF Structure, HelpersFit, HelperFits, Helper, OpenTunnel, Connect, Register, StoreTunnel,
         CloseTunnel, ForgetTunnel, HelperReplies
  <2>2. Op(id)' = Op(id)
    BY <2>1, ReadStays DEF HelperFits
  <2>3. \/ /\ helper[id] = "tunnelling" /\ thread' = thread /\ tunnels' = tunnels
           /\ helper'[id] = IF Op(id) = "open-ssh" THEN "connecting" ELSE "storing"
        \/ /\ helper[id] = "connecting" /\ helper'[id] = "registering" /\ thread' = thread /\ tunnels' = tunnels
        \/ helper[id] = "registering" /\ helper'[id] = "replying" /\ thread'[id] = "idle"
        \/ helper[id] = "storing" /\ helper'[id] = "replying"
        \/ helper[id] = "closing" /\ helper'[id] = "forgetting"
        \/ helper[id] = "forgetting" /\ helper'[id] = "replying"
    BY <1>0, <1>4 DEF Helper, OpenTunnel, Connect, Register, StoreTunnel,
         CloseTunnel, ForgetTunnel, HelperReplies, HelperGoes, HelperFails, registry, threads
  <2> QED
    BY <2>1, <2>2, <2>3 DEF HelperFits, OnSession, Opening, Early
<1> QED
  BY <1>2, <1>3, <1>4, HelperFrame

\* What a step puts into a channel, and takes out of it.
LEMMA QueueFrame ==
  ASSUME Structure, [Next]_vars, NEW s \in Ids
  PROVE  \/ queue'[s] = queue[s]
         \/ /\ thread[s] # "dead" /\ thread'[s] = thread[s] /\ job' = job
            /\ \/ \E id \in Ids : /\ Next1(id, "work") /\ To(id) = s /\ s \in sessions
                                  /\ queue'[s] = Append(queue[s], id)
                                  /\ UNCHANGED <<sessions, out, reader>>
               \/ \E id \in Ids : /\ Next1(id, "close") /\ To(id) = s /\ s \in sessions
                                  /\ queue'[s] = Append(queue[s], Shutdown)
                                  /\ sessions' = sessions \ {s} /\ UNCHANGED out
                                  /\ reader'.at = "joining"
               \/ /\ reader.at = "stopping" /\ reader.now = 0 /\ s \in reader.left
                  /\ reader' = [reader EXCEPT !.now = s]
                  /\ queue'[s] = Append(queue[s], Shutdown) /\ UNCHANGED <<sessions, out, read>>
         \/ Take(s) /\ Beside
         \/ Panic(s) /\ Beside
<1> USE Numbers DEF threads
<1>0. /\ queue \in [Ids -> Seq(0 .. MaxRequests)]
      /\ thread \in [Ids -> {"none", "idle", "running", "replying", "ended", "dead"}]
      /\ sessions \subseteq Ids
  BY DEF Structure, TypeOK
<1>1. CASE DispatchWork
  <2>1. PICK id \in Ids : /\ Next1(id, "work")
                          /\ IF To(id) \in sessions THEN Post(To(id), id) /\ UNCHANGED out ELSE UNCHANGED queue
    BY <1>1 DEF DispatchWork
  <2>2. CASE To(id) \in sessions /\ To(id) = s /\ thread[s] # "dead"
    <3>1. queue'[s] = Append(queue[s], id)
      BY <1>0, <2>1, <2>2 DEF Post
    <3>2. UNCHANGED <<sessions, out, reader, thread, job>>
      BY <1>1, <2>1, <2>2 DEF DispatchWork, registry
    <3> QED
      BY <2>1, <2>2, <3>1, <3>2
  <2>3. CASE To(id) \notin sessions \/ To(id) # s \/ thread[s] = "dead"
    BY <1>0, <2>1, <2>3 DEF Post
  <2> QED
    BY <2>2, <2>3
<1>2. CASE DispatchClose
  <2>1. PICK id \in Ids : /\ Next1(id, "close") /\ sessions' = sessions \ {To(id)}
                          /\ IF To(id) \in sessions
                             THEN Post(To(id), Shutdown) /\ UNCHANGED out /\ reader' = Joining(id, To(id) \in tunnels)
                             ELSE UNCHANGED queue
    BY <1>2 DEF DispatchClose
  <2>2. CASE To(id) \in sessions /\ To(id) = s /\ thread[s] # "dead"
    <3>1. queue'[s] = Append(queue[s], Shutdown)
      BY <1>0, <2>1, <2>2 DEF Post
    <3>2. UNCHANGED <<out, thread, job>> /\ reader'.at = "joining"
      BY <1>2, <2>1, <2>2 DEF DispatchClose, Joining
    <3> QED
      BY <2>1, <2>2, <3>1, <3>2
  <2>3. CASE To(id) \notin sessions \/ To(id) # s \/ thread[s] = "dead"
    BY <1>0, <2>1, <2>3 DEF Post
  <2> QED
    BY <2>2, <2>3
<1>3. CASE StopSession
  <2>1. PICK r \in reader.left : Post(r, Shutdown) /\ reader' = [reader EXCEPT !.now = r]
    BY <1>3 DEF StopSession
  <2>2. r \in Ids /\ reader.at = "stopping" /\ reader.now = 0
    BY <1>3, <2>1, ReaderShape DEF Structure, StopSession
  <2>3. CASE r = s /\ thread[s] # "dead"
    <3>1. queue'[s] = Append(queue[s], Shutdown)
      BY <1>0, <2>1, <2>2, <2>3 DEF Post
    <3>2. UNCHANGED <<sessions, out, read, thread, job>>
      BY <1>3 DEF StopSession, registry
    <3> QED
      BY <2>1, <2>2, <2>3, <3>1, <3>2
  <2>4. CASE r # s \/ thread[s] = "dead"
    BY <1>0, <2>1, <2>2, <2>4 DEF Post
  <2> QED
    BY <2>3, <2>4
<1>4. ASSUME NEW r \in Ids, ThreadMoves(r) \/ StatementEnds(r) \/ (Panic(r) /\ Beside)
      PROVE  queue'[s] = queue[s] \/ ((Take(s) \/ Panic(s)) /\ Beside)
  <2>1. CASE Take(r)
    BY <1>0, <1>4, <2>1 DEF Take, ThreadMoves, StatementEnds
  <2>2. CASE Panic(r) /\ Beside
    BY <1>0, <2>2 DEF Panic
  <2>3. CASE Answer(r) \/ EndStatement(r)
    BY <2>3 DEF Answer, EndStatement
  <2> QED
    BY <1>4, <2>1, <2>2, <2>3 DEF ThreadMoves, StatementEnds
<1>5. CASE Send \/ HangUp \/ Kill \/ UNCHANGED vars \/ DispatchHelper \/ DispatchCancel \/ Cancel \/ Joined
           \/ DispatchShutdown \/ EndOfInput \/ StopJoined \/ Exit
  BY <1>5 DEF Send, HangUp, Kill, vars, DispatchHelper, DispatchCancel, Cancel, Joined,
       DispatchShutdown, EndOfInput, StopJoined, Exit
<1>6. ASSUME NEW h \in Ids, Helper(h) PROVE queue' = queue
  BY <1>6 DEF Helper, OpenTunnel, Connect, Register, StoreTunnel, CloseTunnel, ForgetTunnel, HelperReplies
<1> QED
  BY <1>1, <1>2, <1>3, <1>4, <1>5, <1>6 DEF Next, Reader

\* What waits is what waited, and the request that was just read.
LEMMA WaitingStep ==
  ASSUME Structure, [Next]_vars, NEW s \in Ids, NEW m \in 1 .. MaxRequests, Waiting(s, m)'
  PROVE  Waiting(s, m) \/ (m = read + 1 /\ Next1(m, "work") /\ To(m) = s)
<1> USE Numbers
<1>1. queue[s] \in Seq(0 .. MaxRequests) /\ Shutdown = 0
  BY DEF Structure, TypeOK, Shutdown
<1>2. PICK i \in DOMAIN queue'[s] : queue'[s][i] = m
  BY DEF Waiting
<1>3. ASSUME NEW x \in 0 .. MaxRequests, queue'[s] = Append(queue[s], x), x # m PROVE Waiting(s, m)
  <2>1. i \in DOMAIN queue[s] /\ queue[s][i] = m
    BY <1>1, <1>2, <1>3
  <2> QED
    BY <2>1 DEF Waiting
<1>4. CASE queue'[s] = queue[s]
  BY <1>2, <1>4 DEF Waiting
<1>5. CASE \E id \in Ids : Next1(id, "work") /\ To(id) = s /\ queue'[s] = Append(queue[s], id)
  <2>1. PICK id \in Ids : Next1(id, "work") /\ To(id) = s /\ queue'[s] = Append(queue[s], id)
    BY <1>5
  <2>2. id = read + 1
    BY <2>1, NextIsSent DEF Structure
  <2> QED
    BY <1>3, <2>1, <2>2
<1>6. CASE queue'[s] = Append(queue[s], Shutdown)
  <2>1. Shutdown \in 0 .. MaxRequests /\ Shutdown # m
    BY <1>1
  <2> QED
    BY <1>3, <1>6, <2>1
<1>7. CASE Take(s)
  <2>1. queue[s] # <<>> /\ queue'[s] = Tail(queue[s])
    BY <1>7 DEF Take, Structure, TypeOK
  <2>2. i + 1 \in DOMAIN queue[s] /\ queue[s][i + 1] = m
    BY <1>1, <1>2, <2>1
  <2> QED
    BY <2>2 DEF Waiting
<1>8. CASE Panic(s)
  <2>1. queue'[s] = <<>>
    BY <1>8 DEF Panic, Structure, TypeOK
  <2> QED
    BY <1>2, <2>1
<1> QED
  BY <1>4, <1>5, <1>6, <1>7, <1>8, QueueFrame

\* A session's thread moves by itself, but for its start.
LEMMA ThreadFrame ==
  ASSUME Structure, [Next]_vars, NEW s \in Ids
  PROVE  \/ thread'[s] = thread[s] /\ job'[s] = job[s] /\ busy'[s] = busy[s]
         \/ Helper(s) /\ Register(s)
         \/ (Take(s) \/ Answer(s) \/ EndStatement(s) \/ Panic(s)) /\ Beside
<1> USE Numbers
<1>0. /\ thread \in [Ids -> {"none", "idle", "running", "replying", "ended", "dead"}]
      /\ job \in [Ids -> 0 .. MaxRequests] /\ busy \in [Ids -> 0 .. 1]
  BY DEF Structure, TypeOK
<1>1. ASSUME NEW id \in Ids, Helper(id), Register(id), id # s
      PROVE  thread'[s] = thread[s] /\ job'[s] = job[s] /\ busy'[s] = busy[s]
  BY <1>0, <1>1 DEF Register
<1>2. ASSUME NEW r \in Ids, Take(r) \/ Answer(r) \/ EndStatement(r) \/ Panic(r), r # s
      PROVE  thread'[s] = thread[s] /\ job'[s] = job[s] /\ busy'[s] = busy[s]
  BY <1>0, <1>2 DEF Take, Answer, EndStatement, Panic
<1>3. \/ UNCHANGED <<thread, job, busy>>
      \/ \E id \in Ids : Helper(id) /\ Register(id)
      \/ \E r \in Ids : (Take(r) \/ Answer(r) \/ EndStatement(r) \/ Panic(r)) /\ Beside
  BY DEF Next, Send, HangUp, Kill, Helper, ThreadMoves, StatementEnds, vars, threads,
         Reader, DispatchWork, DispatchHelper, DispatchCancel, Cancel, DispatchClose, Joined,
         DispatchShutdown, EndOfInput, StopSession, StopJoined, Exit,
         OpenTunnel, Connect, StoreTunnel, CloseTunnel, ForgetTunnel, HelperReplies
<1> QED
  BY <1>1, <1>2, <1>3

\* Threads, channels and jobs belong to sessions that were asked for.
LEMMA ThreadsStep == ASSUME Structure, Kept, [Next]_vars PROVE ThreadsFit'
<1> USE Numbers
<1>0. /\ thread \in [Ids -> {"none", "idle", "running", "replying", "ended", "dead"}]
      /\ job \in [Ids -> 0 .. MaxRequests] /\ busy \in [Ids -> 0 .. 1]
      /\ queue \in [Ids -> Seq(0 .. MaxRequests)]
      /\ read \in Nat /\ read' \in Nat /\ read <= read'
      /\ sessions \subseteq Ids /\ tunnels \subseteq Ids /\ sessions' \subseteq Ids /\ tunnels' \subseteq Ids
  BY TypeStep DEF Kept, Structure, TypeOK
<1>1. ASSUME NEW s \in sessions' PROVE thread'[s] # "none"
  <2>1. s \in Ids
    BY <1>0
  <2>2. s \in sessions \/ Register(s)
    BY <1>1, <2>1, HelperFrame
  <2>3. CASE s \in sessions
    BY <2>1, <2>3 DEF Kept, Structure, ThreadsFit
  <2>4. CASE Register(s)
    BY <1>0, <2>1, <2>4 DEF Register
  <2> QED
    BY <2>2, <2>3, <2>4
<1>2. ASSUME NEW p \in tunnels' PROVE p <= read'
  <2>1. p \in Ids
    BY <1>0
  <2>2. p \in tunnels \/ (Helper(p) /\ (Register(p) \/ StoreTunnel(p)))
    BY <1>2, <2>1, HelperFrame
  <2>3. p <= read
    BY <2>1, <2>2 DEF Structure, ThreadsFit, HelpersFit, HelperFits, Register, StoreTunnel
  <2> QED
    BY <1>0, <2>1, <2>3
<1>3. ASSUME NEW s \in Ids, thread'[s] # "none" PROVE s <= read' /\ Opening(s)'
  <2>1. thread[s] # "none" \/ (Helper(s) /\ Register(s))
    BY <1>3, HelperFrame
  <2>2. s <= read /\ Opening(s)
    BY <2>1 DEF Structure, ThreadsFit, HelpersFit, HelperFits, Register
  <2>3. Op(s)' = Op(s)
    BY <2>2, ReadStays
  <2> QED
    BY <1>0, <2>2, <2>3 DEF Opening
<1>4. ASSUME NEW s \in Ids
      PROVE  busy'[s] = IF thread'[s] \in {"running", "dead"} THEN 1 ELSE 0
  <2>1. busy[s] = IF thread[s] \in {"running", "dead"} THEN 1 ELSE 0
    BY DEF Structure, ThreadsFit
  <2>2. CASE Helper(s) /\ Register(s)
    <3>1. thread[s] = "none"
      BY <2>2 DEF Structure, HelpersFit, HelperFits, Register, Early
    <3> QED
      BY <1>0, <2>1, <2>2, <3>1 DEF Register
  <2>3. CASE Take(s)
    BY <1>0, <2>1, <2>3 DEF Take
  <2>4. CASE Answer(s)
    BY <1>0, <2>1, <2>4 DEF Answer
  <2>5. CASE EndStatement(s)
    BY <1>0, <2>1, <2>5 DEF EndStatement, Lowered
  <2>6. CASE Panic(s)
    BY <1>0, <2>1, <2>6 DEF Panic
  <2> QED
    BY <2>1, <2>2, <2>3, <2>4, <2>5, <2>6, ThreadFrame
\* What was asked of a session stays asked.
<1>a. ASSUME NEW s \in Ids, NEW w \in Ids, Asked(s, w) PROVE Asked(s, w)'
  <2>1. w <= read /\ Op(w)' = Op(w) /\ To(w)' = To(w)
    BY <1>0, <1>a, ReadStays DEF Asked
  <2> QED
    BY <1>0, <1>a, <2>1 DEF Asked
<1>5. ASSUME NEW s \in Ids, NEW m \in 1 .. MaxRequests, Waiting(s, m)' PROVE Asked(s, m)'
  <2>0. m \in Ids
    BY DEF Ids
  <2>1. CASE Waiting(s, m)
    BY <1>a, <2>0, <2>1 DEF Structure, ThreadsFit
  <2>2. CASE m = read + 1 /\ Next1(m, "work") /\ To(m) = s
    <3>1. m \in DOMAIN sent /\ Op(m) = "work" /\ read' = m
      BY <2>0, <2>2, NextIsSent DEF Structure
    <3>2. Op(m)' = "work" /\ To(m)' = s
      BY <2>2, <3>1, ReadStays
    <3> QED
      BY <1>0, <2>0, <3>1, <3>2 DEF Asked
  <2> QED
    BY <1>5, <2>1, <2>2, WaitingStep
<1>6. ASSUME NEW s \in Ids, Serving(s)' PROVE Asked(s, job[s])'
  <2>1. ASSUME Serving(s), job'[s] = job[s] PROVE Asked(s, job[s])'
    <3>1. PICK w \in 0 .. MaxRequests : w = job[s]
      BY <1>0
    <3>2. Asked(s, w)
      BY <2>1, <3>1 DEF Structure, ThreadsFit
    <3>3. Asked(s, w)'
      BY <1>a, <3>2 DEF Asked
    <3> QED
      BY <2>1, <3>1, <3>3 DEF Asked, Op, To
  <2>2. CASE Take(s)
    <3>1. thread'[s] = "running" /\ Head(queue[s]) # Shutdown /\ job'[s] = Head(queue[s]) /\ queue[s] # <<>>
      BY <1>0, <1>6, <2>2 DEF Take, Serving
    <3>2. PICK w \in 0 .. MaxRequests : w = Head(queue[s]) /\ w = queue[s][1] /\ 1 \in DOMAIN queue[s]
      BY <1>0, <3>1, HeadTailProperties
    <3>3. w \in 1 .. MaxRequests /\ Waiting(s, w)
      BY <3>1, <3>2 DEF Shutdown, Waiting
    <3>4. w \in Ids /\ Asked(s, w)
      BY <3>3 DEF Structure, ThreadsFit, Ids
    <3>5. Asked(s, w)'
      BY <1>a, <3>4
    <3> QED
      BY <3>1, <3>2, <3>5 DEF Asked, Op, To
  <2>3. CASE EndStatement(s)
    <3>1. Serving(s) /\ job'[s] = job[s]
      BY <2>3 DEF EndStatement, Serving
    <3> QED
      BY <2>1, <3>1
  <2>4. CASE Answer(s) \/ Panic(s) \/ Register(s)
    <3>1. thread'[s] \in {"idle", "dead"}
      BY <1>0, <2>4 DEF Answer, Panic, Register
    <3> QED
      BY <1>6, <3>1 DEF Serving
  <2>5. CASE thread'[s] = thread[s] /\ job'[s] = job[s]
    BY <1>6, <2>1, <2>5 DEF Serving
  <2> QED
    BY <2>2, <2>3, <2>4, <2>5, ThreadFrame
<1> QED
  BY <1>1, <1>2, <1>3, <1>4, <1>5, <1>6 DEF ThreadsFit

\* The first layer is inductive by itself.
LEMMA StructureStep == Structure /\ [Next]_vars => Structure'
<1> SUFFICES ASSUME Structure, [Next]_vars PROVE Structure'
  OBVIOUS
<1>1. Kept
  BY KeptStep
<1> QED
  BY <1>1, TypeStep, TargetedStep, HelpersStep, ThreadsStep, RepliesStep, ReaderStep DEF Structure

\* It holds at the start.
LEMMA StructureInit == Init => Structure
<1> SUFFICES ASSUME Init PROVE Structure
  OBVIOUS
<1> USE Numbers DEF Init
<1>1. TypeOK
  <2>1. /\ sent \in Seq([op : AllOps, to : 0 .. MaxRequests]) /\ Len(sent) = 0
        /\ out \in Seq([id : Ids, ok : BOOLEAN]) /\ <<>> \in Seq(0 .. MaxRequests)
    BY EmptySeq
  <2>2. reader \in Readers
    BY ReaderStates
  <2>4. 0 \in 0 .. Len(sent) /\ 0 \in 0 .. MaxRequests /\ 0 \in 0 .. 1 /\ 0 <= MaxRequests
    BY <2>1
  <2>3. queue \in [Ids -> Seq(0 .. MaxRequests)]
    BY <2>1
  <2> QED
    BY <2>1, <2>2, <2>3, <2>4 DEF TypeOK
<1>2. DOMAIN sent = {} /\ DOMAIN out = {} /\ \A s \in Ids : DOMAIN queue[s] = {}
  OBVIOUS
<1>3. Targeted /\ HelpersFit /\ RepliesFit
  BY <1>2 DEF Targeted, HelpersFit, RepliesFit
<1>4. ThreadsFit
  BY <1>2 DEF ThreadsFit, Serving, Waiting
<1>5. ReaderFits
  BY DEF ReaderFits, Reading
<1> QED
  BY <1>1, <1>3, <1>4, <1>5 DEF Structure

-----------------------------------------------------------------------------
(* The registry and the ssh processes.                                        *)

\* A close takes a session out and waits for its thread.
CloseTakes(id) ==
  /\ Next1(id, "close") /\ To(id) \in sessions
  /\ sessions' = sessions \ {To(id)} /\ tunnels' = tunnels \ {To(id)}
  /\ reader' = Joining(id, To(id) \in tunnels)
  /\ UNCHANGED <<sent, thread, helper, ssh>>
EmptyRegistry == reader = Reading /\ TakeAll /\ UNCHANGED <<sent, thread, helper, ssh>>
Pauses ==
  /\ reader.at \in {"reading", "cancelling"} /\ reader'.at \in {"reading", "cancelling"}
  /\ UNCHANGED <<registry, thread, ssh>>

\* The ways a step moves the reader, as far as the registry goes.
LEMMA ReaderMoves ==
  ASSUME Structure, [Next]_vars
  PROVE  \/ reader' = reader \/ ~Up' \/ Pauses
         \/ \E id \in Ids : CloseTakes(id)
         \/ EmptyRegistry \/ Joined \/ StopSession \/ StopJoined
<1> USE Numbers DEF registry, threads
<1>1. CASE DispatchCancel
  <2>1. PICK id \in Ids : Next1(id, "cancel") /\ (reader' = reader \/ reader' = Cancelling(id))
    BY <1>1 DEF DispatchCancel
  <2> QED
    BY <1>1, <2>1 DEF DispatchCancel, Next1, Pauses, Reading, Cancelling
<1>2. CASE Cancel
  BY <1>2 DEF Cancel, Pauses, Reading
<1>3. CASE DispatchClose
  <2>1. PICK id \in Ids :
          /\ Next1(id, "close")
          /\ sessions' = sessions \ {To(id)} /\ tunnels' = TunnelFreed(To(id))
          /\ IF To(id) \in sessions THEN reader' = Joining(id, To(id) \in tunnels) ELSE reader' = reader
    BY <1>3 DEF DispatchClose
  <2> QED
    BY <1>3, <2>1 DEF DispatchClose, CloseTakes, TunnelFreed, client
<1>4. CASE DispatchShutdown
  <2>1. reader = Reading
    BY <1>4 DEF DispatchShutdown, Next1
  <2> QED
    BY <1>4, <2>1 DEF DispatchShutdown, EmptyRegistry, client
<1>5. CASE EndOfInput
  BY <1>5 DEF EndOfInput, EmptyRegistry, client
<1>6. CASE Kill \/ Exit
  BY <1>6 DEF Kill, Exit, Up
<1>7. CASE Send \/ HangUp \/ UNCHANGED vars \/ DispatchWork \/ DispatchHelper
  BY <1>7 DEF Send, HangUp, vars, DispatchWork, DispatchHelper
<1>8. ASSUME NEW id \in Ids, Helper(id) \/ ThreadMoves(id) \/ StatementEnds(id) \/ (Panic(id) /\ Beside)
      PROVE  reader' = reader
  BY <1>8 DEF Helper, ThreadMoves, StatementEnds, Beside
<1> QED
  BY <1>1, <1>2, <1>3, <1>4, <1>5, <1>6, <1>7, <1>8 DEF Next, Reader

\* The ways a step changes the registry.
LEMMA RegistryFrame ==
  ASSUME Structure, [Next]_vars
  PROVE  \/ UNCHANGED registry
         \/ \E id \in Ids : Helper(id) /\ (Register(id) \/ StoreTunnel(id) \/ ForgetTunnel(id))
         \/ \E id \in Ids : /\ Next1(id, "close") /\ UNCHANGED <<sent, ssh>>
                            /\ sessions' = sessions \ {To(id)} /\ tunnels' = tunnels \ {To(id)}
                            /\ To(id) \notin sessions \/ CloseTakes(id)
         \/ EmptyRegistry
<1> USE Numbers DEF registry, threads
<1>3. CASE DispatchClose
  <2>1. PICK id \in Ids :
          /\ Next1(id, "close")
          /\ sessions' = sessions \ {To(id)} /\ tunnels' = TunnelFreed(To(id))
          /\ IF To(id) \in sessions THEN reader' = Joining(id, To(id) \in tunnels) ELSE reader' = reader
    BY <1>3 DEF DispatchClose
  <2>2. UNCHANGED <<sent, thread, helper, ssh>>
    BY <1>3 DEF DispatchClose, client
  <2> QED
    BY <2>1, <2>2 DEF CloseTakes, TunnelFreed
<1>4. CASE DispatchShutdown
  <2>1. reader = Reading
    BY <1>4 DEF DispatchShutdown, Next1
  <2> QED
    BY <1>4, <2>1 DEF DispatchShutdown, EmptyRegistry, client
<1>5. CASE EndOfInput
  BY <1>5 DEF EndOfInput, EmptyRegistry, client
<1>6. CASE Send \/ HangUp \/ Kill \/ UNCHANGED vars \/ DispatchWork \/ DispatchHelper \/ DispatchCancel \/ Cancel
           \/ Joined \/ StopSession \/ StopJoined \/ Exit
  BY <1>6 DEF Send, HangUp, Kill, vars, DispatchWork, DispatchHelper, DispatchCancel, Cancel, Joined,
       StopSession, StopJoined, Exit
<1>7. ASSUME NEW id \in Ids, Helper(id)
      PROVE  UNCHANGED registry \/ Register(id) \/ StoreTunnel(id) \/ ForgetTunnel(id)
  BY <1>7 DEF Helper, OpenTunnel, Connect, CloseTunnel, HelperReplies
<1>8. ASSUME NEW id \in Ids, ThreadMoves(id) \/ StatementEnds(id) \/ (Panic(id) /\ Beside)
      PROVE  UNCHANGED registry
  BY <1>8 DEF ThreadMoves, StatementEnds, Beside
<1> QED
  BY <1>3, <1>4, <1>5, <1>6, <1>7, <1>8 DEF Next, Reader

\* The session that a close waits for.
LEMMA JoiningFits ==
  ASSUME Structure, reader.at = "joining"
  PROVE  /\ reader.id = read /\ read \in DOMAIN sent /\ read \in Ids
         /\ To(read) \in Ids /\ Opening(To(read)) /\ thread[To(read)] # "none" /\ Replied(To(read))
<1> USE Numbers
<1>1. reader.id = read /\ Op(read) = "close" /\ read \in Ids
  BY ReaderShape DEF Structure, ReaderFits
<1>2. read \in DOMAIN sent
  BY <1>1 DEF Structure, TypeOK
<1>3. To(read) \in DOMAIN sent /\ Opening(To(read)) /\ Succeeded(To(read))
  BY <1>1, <1>2 DEF Structure, Targeted, OnSession
<1>4. To(read) \in Ids
  BY <1>3 DEF Structure, TypeOK
<1>5. PICK i \in DOMAIN out : out[i].id = To(read) /\ out[i].ok
  BY <1>3 DEF Succeeded
<1>6. thread[To(read)] # "none" /\ Replied(To(read))
  BY <1>3, <1>5 DEF Structure, RepliesFit, ReplyFits, Replied
<1> QED
  BY <1>1, <1>2, <1>3, <1>4, <1>6

\* Who joins the sessions that leave, and who is let go of: only a thread that
\* is over, and a session comes straight out of the registry.
LEMMA LeavingStep ==
  ASSUME Structure, Kept, [Next]_vars, Up', NEW s \in Ids
  PROVE  /\ s \in Leaving' => s \in Leaving \/ (s \in sessions /\ s \notin sessions')
         /\ s \in Leaving /\ s \notin Leaving' =>
              /\ Finished(s)
              /\ reader.at = "joining" => Joined /\ To(reader.id) = s
         /\ s \in sessions /\ s \notin sessions' => s \in Leaving'
<1> USE Numbers
<1>0. reader.at = "stopping" =>
        reader \in [at : {"stopping"}, left : SUBSET Ids, now : 0 .. MaxRequests, owned : SUBSET Ids]
  BY ReaderShape DEF Structure
<1>1. CASE reader' = reader
  <2>1. Leaving' = Leaving
    <3>1. CASE reader.at = "joining"
      <4>1. PICK w \in Ids : w = reader.id /\ w \in DOMAIN sent
        BY <3>1, JoiningFits
      <4>2. To(w)' = To(w)
        BY <4>1, ReadStays
      <4>3. To(reader.id)' = To(reader.id)
        BY <1>1, <4>1, <4>2 DEF To
      <4> QED
        BY <1>1, <3>1, <4>3 DEF Leaving
    <3>2. CASE reader.at # "joining"
      BY <1>1, <3>2 DEF Leaving
    <3> QED
      BY <3>1, <3>2
  <2>2. sessions \subseteq sessions'
    <3>1. \A id \in Ids : ~CloseTakes(id)
      BY <1>1 DEF CloseTakes, Next1, Reading, Joining
    <3>2. ~EmptyRegistry
      BY <1>1 DEF EmptyRegistry, TakeAll, Reading, Stopping
    <3> QED
      BY <3>1, <3>2, RegistryFrame DEF registry, Register, StoreTunnel, ForgetTunnel
  <2> QED
    BY <2>1, <2>2
<1>2. CASE Pauses
  <2>1. Leaving = {} /\ Leaving' = {} /\ sessions' = sessions
    BY <1>2 DEF Pauses, Leaving, registry
  <2> QED
    BY <2>1
<1>3. ASSUME NEW id \in Ids, CloseTakes(id)
      PROVE  Leaving = {} /\ Leaving' = {To(id)} /\ sessions' = sessions \ {To(id)} /\ To(id) \in sessions
  <2>1. Leaving = {}
    BY <1>3 DEF CloseTakes, Next1, Reading, Leaving
  <2>2. reader'.at = "joining" /\ reader'.id = id /\ sent' = sent
    BY <1>3 DEF CloseTakes, Joining
  <2>3. Leaving' = {To(id)}
    BY <2>2 DEF Leaving, To
  <2> QED
    BY <1>3, <2>1, <2>3 DEF CloseTakes
<1>4. CASE EmptyRegistry
  <2>1. Leaving = {} /\ Leaving' = sessions /\ sessions' = {}
    BY <1>4 DEF EmptyRegistry, TakeAll, Reading, Stopping, Leaving
  <2> QED
    BY <2>1
<1>5. CASE Joined
  <2>1. Leaving = {To(reader.id)} /\ Leaving' = {} /\ Finished(To(reader.id)) /\ sessions' = sessions
    BY <1>5 DEF Joined, Joinable, Leaving, Reading, registry
  <2> QED
    BY <1>5, <2>1
<1>6. CASE StopSession
  <2>1. reader'.at = "stopping" /\ reader'.left = reader.left /\ reader.at = "stopping" /\ sessions' = sessions
    BY <1>0, <1>6 DEF StopSession, registry
  <2> QED
    BY <2>1 DEF Leaving
<1>7. CASE StopJoined
  <2>1. /\ reader'.at = "stopping" /\ reader'.left = reader.left \ {reader.now} /\ reader.at = "stopping"
        /\ sessions' = sessions /\ Finished(reader.now)
    BY <1>0, <1>7 DEF StopJoined, Joinable, registry, Stopping
  <2> QED
    BY <2>1 DEF Leaving
<1> QED
  BY <1>1, <1>2, <1>3, <1>4, <1>5, <1>6, <1>7, ReaderMoves

\* A daemon that is gone does not come back.
LEMMA StaysDown == ASSUME [Next]_vars, Up' PROVE Up
<1> SUFFICES ASSUME ~Up, Next PROVE reader' = reader
  BY DEF Up, vars
<1>1. reader.at \in {"gone", "killed"} /\ reader # Reading
  BY DEF Up, Gone, Killed, Reading
<1>2. ~Reader
  BY <1>1 DEF Reader, Next1, DispatchWork, DispatchHelper, DispatchCancel, DispatchClose, DispatchShutdown,
     EndOfInput, Cancel, Joined, StopSession, StopJoined, Exit
<1>3. ~Send /\ ~Kill /\ \A id \in Ids : ~Helper(id) /\ ~ThreadMoves(id) /\ ~StatementEnds(id)
  BY DEF Send, Kill, Helper, ThreadMoves, StatementEnds
<1> QED
  BY <1>2, <1>3 DEF Next, HangUp

\* No live thread gets out of both the registry and the reader's hands.
LEMMA AccountedStep == ASSUME Structure, Accounted, Kept, [Next]_vars PROVE Accounted'
<1> SUFFICES ASSUME Up' PROVE Accounted'
  BY DEF Accounted
<1> USE Numbers
<1>0. /\ thread \in [Ids -> {"none", "idle", "running", "replying", "ended", "dead"}]
      /\ helper \in [Ids -> Stages]
  BY DEF Structure, TypeOK, Stages
<1>1. Up
  BY StaysDown
<1>2. ASSUME NEW s \in Ids, Helper(s), Register(s)
      PROVE  thread[s] = "none" /\ s \notin Leaving /\ s \in sessions' /\ s \notin sessions
  BY <1>1, <1>2 DEF Register, Structure, HelpersFit, HelperFits, Early, Accounted, ThreadsFit
<1>3. ASSUME NEW s \in Ids, thread'[s] # "none", s \notin sessions', s \notin Leaving' PROVE Finished(s)'
  <2>1. s \notin sessions /\ (s \in Leaving => Finished(s))
    BY <1>3, LeavingStep
  <2>2. thread[s] # "none"
    BY <1>2, <1>3, HelperFrame
  <2>3. Finished(s)
    BY <1>1, <2>1, <2>2 DEF Accounted
  <2> QED
    BY <2>3 DEF Kept, Finished
<1>5. ASSUME NEW s \in Ids, s \in Leaving' PROVE thread'[s] # "none" /\ s \notin sessions'
  <2>1. s \in Leaving \/ (s \in sessions /\ s \notin sessions')
    BY <1>5, LeavingStep
  <2>2. thread[s] # "none"
    BY <1>1, <2>1 DEF Accounted, Structure, ThreadsFit
  <2>3. s \notin sessions'
    BY <1>1, <1>2, <2>1, HelperFrame DEF Accounted
  <2> QED
    BY <2>2, <2>3 DEF Kept
<1> QED
  BY <1>3, <1>5 DEF Accounted

\* A helper on its way to the registry did not start after it got there.
LEMMA EarlyStays ==
  ASSUME Structure, [Next]_vars, NEW p \in Ids, reader # Reading, helper'[p] \in Early
  PROVE  helper[p] \in Early
<1> USE Numbers
<1>0. helper \in [Ids -> Stages]
  BY DEF Structure, TypeOK, Stages
<1>1. \A op \in AllOps : ~Next1(p, op)
  BY DEF Next1
<1>2. CASE Helper(p)
  BY <1>0, <1>2 DEF Helper, HelperGoes, HelperFails, OpenTunnel, Connect, Register, StoreTunnel,
         CloseTunnel, ForgetTunnel, HelperReplies, Early
<1> QED
  BY <1>1, <1>2, HelperFrame

\* The tunnels taken at the stop stay out of everybody's reach.
LEMMA OwnedStep == ASSUME Structure, Registers, Kept, [Next]_vars PROVE OwnedApart'
<1> USE Numbers
<1>0. reader.at = "stopping" =>
        reader \in [at : {"stopping"}, left : SUBSET Ids, now : 0 .. MaxRequests, owned : SUBSET Ids]
  BY ReaderShape DEF Structure
<1>n. tunnels \subseteq Ids /\ read \in Nat /\ read' \in Nat /\ read <= read' /\ DOMAIN sent = 1 .. Len(sent)
      /\ Len(sent) \in Nat /\ read <= Len(sent)
  BY TypeStep DEF Structure, TypeOK, Kept
<1>1. ASSUME reader.at = "stopping", reader'.at = "stopping", reader'.owned = reader.owned PROVE OwnedApart'
  <2> SUFFICES ASSUME NEW p \in reader.owned
               PROVE  /\ p \notin tunnels' /\ p <= read' /\ helper'[p] \notin Early
                      /\ Op(p)' = "open-ssh" => thread'[p] # "none" /\ p \notin sessions'
    BY <1>1 DEF OwnedApart
  <2>1. p \in Ids /\ reader # Reading
    BY <1>0, <1>1 DEF Reading
  <2>2. /\ p \notin tunnels /\ p <= read /\ helper[p] \notin Early
        /\ Op(p) = "open-ssh" => thread[p] # "none" /\ p \notin sessions
    BY <1>1 DEF Registers, OwnedApart
  <2>3. helper'[p] \notin Early
    BY <2>1, <2>2, EarlyStays
  <2>4. ~Register(p) /\ ~StoreTunnel(p)
    BY <2>2 DEF Register, StoreTunnel, Early
  <2>5. p \notin tunnels' /\ (p \in sessions' => p \in sessions)
    BY <2>1, <2>2, <2>4, HelperFrame
  <2>6. Op(p)' = Op(p)
    BY <2>1, <2>2, ReadStays
  <2> QED
    BY <1>n, <2>1, <2>2, <2>3, <2>5, <2>6 DEF Kept
<1>2. CASE EmptyRegistry
  <2>1. reader'.owned = tunnels /\ sessions' = {} /\ tunnels' = {} /\ UNCHANGED <<sent, thread, helper>>
    BY <1>2 DEF EmptyRegistry, TakeAll, Stopping
  <2> SUFFICES ASSUME NEW p \in tunnels
               PROVE  p <= read' /\ helper[p] \notin Early /\ (Op(p) = "open-ssh" => thread[p] # "none")
    BY <2>1 DEF OwnedApart, Op
  <2>2. p \in Ids /\ p <= read
    BY <1>n DEF Structure, ThreadsFit
  <2>3. helper[p] \notin Early
    BY <2>2 DEF Structure, HelpersFit, HelperFits, Early
  <2>4. Op(p) = "open-ssh" => p \in sessions
    BY <1>n, <2>2 DEF Registers, Tunnelled, RegistryPaired
  <2> QED
    BY <1>n, <2>2, <2>3, <2>4 DEF Structure, ThreadsFit
<1>3. CASE reader' = reader
  BY <1>1, <1>3 DEF OwnedApart
<1>4. CASE StopSession
  <2>1. reader'.owned = reader.owned /\ reader.at = "stopping" /\ reader'.at = "stopping"
    BY <1>0, <1>4 DEF StopSession
  <2> QED
    BY <1>1, <2>1
<1>5. CASE StopJoined
  <2>1. reader'.owned = reader.owned /\ reader.at = "stopping" /\ reader'.at = "stopping"
    BY <1>5 DEF StopJoined, Stopping
  <2> QED
    BY <1>1, <2>1
<1>6. CASE Pauses \/ Joined \/ \E id \in Ids : CloseTakes(id)
  <2>1. reader'.at # "stopping"
    <3>1. CASE Pauses
      BY <3>1 DEF Pauses
    <3>3. CASE Joined
      BY <3>3 DEF Joined, Reading
    <3>2. ASSUME NEW id \in Ids, CloseTakes(id) PROVE reader'.at # "stopping"
      BY <3>2 DEF CloseTakes, Joining
    <3> QED
      BY <1>6, <3>1, <3>2, <3>3
  <2> QED
    BY <2>1 DEF OwnedApart
<1>7. CASE ~Up'
  <2>1. reader'.at # "stopping"
    BY <1>7 DEF Up, Gone, Killed
  <2> QED
    BY <2>1 DEF OwnedApart
<1> QED
  BY <1>2, <1>3, <1>4, <1>5, <1>6, <1>7, ReaderMoves

\* An ssh process starts under its helper, and ends at the close of a tunnel, of
\* a session, or of the daemon.
LEMMA SshFrame ==
  ASSUME Structure, [Next]_vars, NEW p \in Ids
  PROVE  /\ p \in ssh' => p \in ssh \/ (Helper(p) /\ OpenTunnel(p))
         /\ p \in ssh /\ p \notin ssh' =>
              \/ \E h \in Ids : Helper(h) /\ CloseTunnel(h) /\ To(h) = p
              \/ Joined /\ reader.tunnelled /\ To(reader.id) = p
              \/ Exit /\ p \in reader.owned
<1> USE Numbers
<1>1. CASE Joined
  BY <1>1 DEF Joined
<1>2. CASE Exit
  BY <1>2 DEF Exit
<1>3. ASSUME NEW h \in Ids, Helper(h)
      PROVE  /\ p \in ssh' => p \in ssh \/ (Helper(p) /\ OpenTunnel(p))
             /\ p \in ssh /\ p \notin ssh' => CloseTunnel(h) /\ To(h) = p
  <2>1. CASE OpenTunnel(h)
    <3>1. ssh' \in {ssh, ssh \cup {h}}
      BY <2>1 DEF OpenTunnel
    <3> QED
      BY <1>3, <2>1, <3>1
  <2>2. CASE CloseTunnel(h)
    <3>1. ssh' \in {ssh, ssh \ {To(h)}}
      BY <2>2 DEF CloseTunnel
    <3> QED
      BY <2>2, <3>1
  <2>3. CASE Connect(h) \/ Register(h) \/ StoreTunnel(h) \/ ForgetTunnel(h) \/ HelperReplies(h)
    <3>1. ssh' = ssh
      BY <2>3 DEF Connect, Register, StoreTunnel, ForgetTunnel, HelperReplies
    <3> QED
      BY <3>1
  <2> QED
    BY <1>3, <2>1, <2>2, <2>3 DEF Helper
<1>4. CASE Send \/ HangUp \/ Kill \/ UNCHANGED vars \/ DispatchWork \/ DispatchHelper \/ DispatchCancel \/ Cancel
           \/ DispatchClose \/ DispatchShutdown \/ EndOfInput \/ StopSession \/ StopJoined
  <2>1. ssh' = ssh
    BY <1>4 DEF Send, HangUp, Kill, vars, DispatchWork, DispatchHelper, DispatchCancel, Cancel,
         DispatchClose, DispatchShutdown, EndOfInput, StopSession, StopJoined
  <2> QED
    BY <2>1
<1>5. ASSUME NEW r \in Ids, ThreadMoves(r) \/ StatementEnds(r) \/ (Panic(r) /\ Beside)
      PROVE  ssh' = ssh
  BY <1>5 DEF ThreadMoves, StatementEnds, Beside
<1> QED
  BY <1>1, <1>2, <1>3, <1>4, <1>5 DEF Next, Reader

\* What a tunnel-close names is an open tunnel, not that of a session.
LEMMA ClosingFits ==
  ASSUME Structure, NEW h \in Ids, helper[h] \in {"closing", "forgetting"}
  PROVE  /\ h \in DOMAIN sent /\ h <= read /\ Op(h) = "tunnel-close" /\ To(h) \in Ids
         /\ Op(To(h)) = "tunnel-open" /\ Replied(To(h)) /\ helper[To(h)] = "none"
<1>1. h <= read /\ Op(h) = "tunnel-close"
  BY DEF Structure, HelpersFit, HelperFits
<1>2. h \in DOMAIN sent
  BY <1>1, Numbers DEF Structure, TypeOK
<1>3. To(h) \in DOMAIN sent /\ Op(To(h)) = "tunnel-open" /\ Succeeded(To(h))
  BY <1>1, <1>2 DEF Structure, Targeted
<1>4. To(h) \in Ids
  BY <1>3, Numbers DEF Structure, TypeOK
<1>5. Replied(To(h))
  BY <1>3 DEF Succeeded, Replied
<1>6. helper[To(h)] = "none"
  BY <1>4, <1>5 DEF Structure, HelpersFit, HelperFits
<1> QED
  BY <1>1, <1>2, <1>3, <1>4, <1>5, <1>6

\* A process that is in use is not taken down.
Needed(p) == helper[p] \in Early \/ (Op(p) = "open-ssh" /\ Alive(p))

\* A tunnel-close names another kind of tunnel, a close has waited for the
\* thread, and the exit for all of them.
LEMMA NeededStays ==
  ASSUME Structure, Registers, [Next]_vars, NEW p \in Ids, p \in ssh, Needed(p)
  PROVE  p \in ssh'
<1> USE Numbers
<1>0. helper[p] \in Early => ~Replied(p) /\ thread[p] = "none"
  BY DEF Structure, HelpersFit, HelperFits, Early
<1>1. ASSUME NEW h \in Ids, Helper(h), CloseTunnel(h), To(h) = p PROVE FALSE
  <2>1. Op(p) = "tunnel-open" /\ Replied(p)
    BY <1>1, ClosingFits DEF CloseTunnel
  <2> QED
    BY <1>0, <2>1 DEF Needed
<1>2. ASSUME Joined, To(reader.id) = p PROVE FALSE
  <2>1. Replied(p) /\ Finished(p)
    BY <1>2, JoiningFits DEF Joined, Joinable
  <2> QED
    BY <1>0, <2>1 DEF Needed, Alive, Finished
<1>3. ASSUME Exit, p \in reader.owned PROVE FALSE
  <2>1. /\ p \notin tunnels /\ p <= read /\ helper[p] \notin Early
        /\ Op(p) = "open-ssh" => thread[p] # "none" /\ p \notin sessions
    BY <1>3 DEF Exit, Registers, OwnedApart
  <2>2. Op(p) = "open-ssh" /\ Alive(p)
    BY <2>1 DEF Needed
  <2>3. Up /\ Leaving = {}
    BY <1>3 DEF Exit, Up, Gone, Killed, Leaving
  <2>4. Finished(p)
    BY <2>1, <2>2, <2>3 DEF Registers, Accounted
  <2> QED
    BY <2>2, <2>4 DEF Alive, Finished
<1> QED
  BY <1>1, <1>2, <1>3, SshFrame

\* A helper that goes on has its process.
LEMMA StoringHasSsh ==
  ASSUME Structure, Registers, Kept, [Next]_vars, NEW id \in Ids
  PROVE  /\ helper'[id] = "storing" => id \in ssh'
         /\ helper'[id] \in {"connecting", "registering"} /\ Op(id)' = "open-ssh" => id \in ssh'
<1> USE Numbers
<1>0. helper \in [Ids -> Stages]
  BY DEF Structure, TypeOK, Stages
<1>1. CASE helper'[id] = helper[id]
  <2>1. helper[id] # "none" => Op(id)' = Op(id)
    BY ReadStays DEF Structure, HelpersFit, HelperFits
  <2>2. /\ helper[id] = "storing" => id \in ssh
        /\ helper[id] \in {"connecting", "registering"} /\ Op(id) = "open-ssh" => id \in ssh
    BY DEF Registers, Tunnelled
  <2>3. helper[id] \in Early /\ id \in ssh => id \in ssh'
    BY NeededStays DEF Needed
  <2> QED
    BY <1>1, <2>1, <2>2, <2>3 DEF Early
<1>2. ASSUME Helper(id), helper'[id] # helper[id], helper'[id] \in {"storing", "connecting", "registering"}
      PROVE  Op(id)' = "open-ssh" \/ helper'[id] = "storing" => id \in ssh'
  <2>1. Op(id)' = Op(id)
    BY <1>2, ReadStays DEF Structure, HelpersFit, HelperFits, Helper, OpenTunnel, Connect, Register,
         StoreTunnel, CloseTunnel, ForgetTunnel, HelperReplies
  <2>2. ~Register(id) /\ ~StoreTunnel(id) /\ ~CloseTunnel(id) /\ ~ForgetTunnel(id) /\ ~HelperReplies(id)
    BY <1>0, <1>2 DEF Register, StoreTunnel, CloseTunnel, ForgetTunnel, HelperReplies, HelperGoes, HelperFails
  <2>3. CASE OpenTunnel(id)
    BY <1>0, <1>2, <2>3 DEF OpenTunnel, HelperGoes, HelperFails
  <2>4. CASE Connect(id)
    <3>1. helper[id] = "connecting" /\ helper'[id] = "registering" /\ ssh' = ssh
      BY <1>0, <1>2, <2>4 DEF Connect, HelperGoes, HelperFails
    <3> QED
      BY <2>1, <3>1 DEF Registers, Tunnelled
  <2> QED
    BY <1>2, <2>2, <2>3, <2>4 DEF Helper
<1>3. ASSUME NEW op \in AllOps, NEW stage \in Stages, Next1(id, op), Starts(op, stage),
             helper' = [helper EXCEPT ![id] = stage]
      PROVE  helper'[id] \notin {"storing", "registering"} /\ (helper'[id] = "connecting" => Op(id)' = "open")
  <2>1. Op(id)' = op
    BY <1>3, NextIsSent, ReadStays DEF Structure
  <2> QED
    BY <1>0, <1>3, <2>1 DEF Starts
<1> QED
  BY <1>1, <1>2, <1>3, HelperFrame

\* A close takes the tunnel with the session.
LEMMA JoiningHasTunnel ==
  ASSUME Structure, Registers, Kept, [Next]_vars, reader'.at = "joining"
  PROVE  To(reader.id)' \notin tunnels' /\ (Op(To(reader.id))' = "open-ssh" => reader'.tunnelled)
<1> USE Numbers
<1>1. CASE reader' = reader
  <2>1. PICK w \in Ids : /\ w = reader.id /\ w \in DOMAIN sent /\ To(w) \in Ids /\ Opening(To(w))
                         /\ thread[To(w)] # "none" /\ Replied(To(w))
    BY <1>1, JoiningFits
  <2>2. PICK s \in Ids : s = To(w)
    BY <2>1
  <2>3. s \notin tunnels /\ (Op(s) = "open-ssh" => reader.tunnelled) /\ helper[s] = "none"
    BY <1>1, <2>1, <2>2 DEF Registers, Tunnelled, Structure, HelpersFit, HelperFits
  <2>4. s \notin tunnels'
    BY <2>3, HelperFrame DEF Register, StoreTunnel
  <2>5. To(w)' = s /\ Op(s)' = Op(s)
    BY <2>1, <2>2, ReadStays DEF Structure, ThreadsFit
  <2> QED
    BY <1>1, <2>1, <2>3, <2>4, <2>5 DEF To, Op
<1>2. ASSUME NEW id \in Ids, CloseTakes(id)
      PROVE  To(reader.id)' \notin tunnels' /\ (Op(To(reader.id))' = "open-ssh" => reader'.tunnelled)
  <2>1. /\ reader'.id = id /\ reader'.tunnelled = (To(id) \in tunnels) /\ sent' = sent
        /\ tunnels' = tunnels \ {To(id)} /\ To(id) \in sessions /\ Next1(id, "close")
    BY <1>2 DEF CloseTakes, Joining
  <2>2. To(id) \in DOMAIN sent
    BY <2>1, NextIsSent DEF Structure, Targeted, OnSession
  <2>3. Op(To(id)) = "open-ssh" => To(id) \in tunnels
    BY <2>1, <2>2 DEF Registers, Tunnelled, RegistryPaired
  <2> QED
    BY <2>1, <2>3 DEF To, Op
<1>3. CASE Pauses \/ Joined
  BY <1>3 DEF Pauses, Joined, Reading
<1>4. CASE EmptyRegistry \/ StopJoined
  BY <1>4 DEF EmptyRegistry, TakeAll, StopJoined, Stopping
<1>5. CASE StopSession
  BY <1>5, ReaderShape DEF StopSession, Structure
<1>6. CASE ~Up'
  BY <1>6 DEF Up, Gone, Killed
<1> QED
  BY <1>1, <1>2, <1>3, <1>4, <1>5, <1>6, ReaderMoves

\* TunnelOutlivesSession is kept.
LEMMA OutlivesStep ==
  ASSUME Structure, Registers, Kept, [Next]_vars PROVE TunnelOutlivesSession'
<1> USE Numbers
<1> SUFFICES ASSUME NEW s \in DOMAIN sent', Op(s)' = "open-ssh", Alive(s)' PROVE s \in ssh'
  BY DEF TunnelOutlivesSession
<1>0. s \in Ids /\ thread \in [Ids -> {"none", "idle", "running", "replying", "ended", "dead"}]
      /\ DOMAIN sent = 1 .. Len(sent) /\ Len(sent) \in Nat /\ read <= Len(sent) /\ read \in Nat
  <2>1. Len(sent') \in Nat /\ Len(sent') <= MaxRequests /\ DOMAIN sent' = 1 .. Len(sent')
    BY TypeStep DEF TypeOK
  <2>2. s \in Ids
    BY <2>1
  <2> QED
    BY <2>2 DEF Structure, TypeOK
<1>1. thread[s] # "none" \/ (Helper(s) /\ Register(s))
  BY <1>0, HelperFrame DEF Alive
<1>2. s <= read
  BY <1>0, <1>1 DEF Structure, ThreadsFit, HelpersFit, HelperFits, Register
<1>3. Op(s) = "open-ssh" /\ s \in DOMAIN sent
  BY <1>0, <1>2, ReadStays
<1>4. CASE thread[s] # "none"
  <2>1. Alive(s)
    BY <1>0, <1>4 DEF Kept, Finished, Alive
  <2>2. s \in ssh
    BY <1>3, <2>1 DEF Registers, Tunnelled, TunnelOutlivesSession
  <2> QED
    BY <1>0, <1>3, <2>1, <2>2, NeededStays DEF Needed
<1>5. CASE Helper(s) /\ Register(s)
  BY <1>0, <1>3, <1>5 DEF Registers, Tunnelled, Register
<1> QED
  BY <1>1, <1>4, <1>5

\* RegistryPaired is kept.
LEMMA PairedStep ==
  ASSUME Structure, Registers, Kept, [Next]_vars PROVE RegistryPaired'
<1> USE Numbers
<1>0. /\ DOMAIN sent = 1 .. Len(sent) /\ Len(sent) \in Nat /\ read <= Len(sent) /\ read \in Nat
      /\ sessions \subseteq Ids /\ tunnels \subseteq Ids
  BY DEF Structure, TypeOK
<1>b. tunnels' \subseteq Ids /\ DOMAIN sent' \subseteq Ids
  <2>1. /\ Len(sent') \in Nat /\ Len(sent') <= MaxRequests /\ DOMAIN sent' = 1 .. Len(sent')
        /\ tunnels' \subseteq Ids
    BY TypeStep DEF TypeOK
  <2> QED
    BY <2>1
<1>1. ASSUME NEW s \in DOMAIN sent', Op(s)' = "open-ssh" PROVE s \in sessions' <=> s \in tunnels'
  <2>0. s \in Ids
    BY <1>b
  <2>1. CASE s \notin DOMAIN sent
    <3>1. s \notin sessions /\ s \notin tunnels
      BY <1>0, <2>0, <2>1 DEF Structure, ThreadsFit
    <3>2. UNCHANGED registry
      BY <2>1, SentStep
    <3> QED
      BY <3>1, <3>2 DEF registry
  <2>2. CASE s \in DOMAIN sent
    <3>1. Op(s) = "open-ssh"
      BY <1>1, <2>2, ReadStays
    <3>2. s \in sessions <=> s \in tunnels
      BY <2>2, <3>1 DEF Registers, Tunnelled, RegistryPaired
    <3>3. CASE UNCHANGED registry \/ EmptyRegistry
      BY <3>2, <3>3 DEF registry, EmptyRegistry, TakeAll
    <3>4. ASSUME NEW id \in Ids, Helper(id), Register(id) PROVE s \in sessions' <=> s \in tunnels'
      BY <3>1, <3>2, <3>4 DEF Register
    <3>5. ASSUME NEW id \in Ids, Helper(id), StoreTunnel(id) PROVE s \in sessions' <=> s \in tunnels'
      <4>1. Op(id) = "tunnel-open" /\ tunnels' = tunnels \cup {id} /\ sessions' = sessions
        BY <3>5 DEF StoreTunnel, Structure, HelpersFit, HelperFits
      <4> QED
        BY <3>1, <3>2, <4>1
    <3>6. ASSUME NEW id \in Ids, Helper(id), ForgetTunnel(id) PROVE s \in sessions' <=> s \in tunnels'
      <4>1. Op(To(id)) = "tunnel-open" /\ tunnels' = tunnels \ {To(id)} /\ sessions' = sessions
        BY <3>6, ClosingFits DEF ForgetTunnel
      <4> QED
        BY <3>1, <3>2, <4>1
    <3>7. ASSUME NEW id \in Ids, sessions' = sessions \ {To(id)}, tunnels' = tunnels \ {To(id)}
          PROVE  s \in sessions' <=> s \in tunnels'
      BY <3>2, <3>7
    <3> QED
      BY <3>3, <3>4, <3>5, <3>6, <3>7, RegistryFrame
  <2> QED
    BY <2>1, <2>2
<1>2. ASSUME NEW p \in tunnels', p \notin ssh'
      PROVE  \E id \in DOMAIN sent' : Op(id)' = "tunnel-close" /\ To(id)' = p
  <2>0. p \in Ids
    BY <1>b
  <2>1. CASE p \in tunnels
    <3>1. \E id \in DOMAIN sent : Op(id) = "tunnel-close" /\ To(id) = p
      <4>1. CASE p \notin ssh
        BY <2>1, <4>1 DEF Registers, Tunnelled, RegistryPaired
      <4>2. ASSUME NEW h \in Ids, Helper(h), CloseTunnel(h), To(h) = p PROVE Op(h) = "tunnel-close" /\ h \in DOMAIN sent
        BY <4>2, ClosingFits DEF CloseTunnel
      <4>3. ~(Joined /\ To(reader.id) = p)
        BY <2>1 DEF Joined, Registers, Tunnelled
      <4>4. ~(Exit /\ p \in reader.owned)
        BY <2>1 DEF Exit, Registers, OwnedApart
      <4> QED
        BY <1>2, <2>0, <4>1, <4>2, <4>3, <4>4, SshFrame
    <3>2. PICK id \in DOMAIN sent : Op(id) = "tunnel-close" /\ To(id) = p
      BY <3>1
    <3>3. id \in DOMAIN sent' /\ Op(id)' = "tunnel-close" /\ To(id)' = p
      BY <3>2, ReadStays DEF Kept
    <3> QED
      BY <3>3
  <2>2. CASE p \notin tunnels
    <3>1. Helper(p) /\ (Register(p) \/ StoreTunnel(p))
      BY <1>2, <2>0, <2>2, HelperFrame
    <3>2. p \in ssh /\ ssh' = ssh
      BY <1>2, <2>0, <2>2, <3>1 DEF Register, StoreTunnel, Registers, Tunnelled
    <3> QED
      BY <1>2, <3>2
  <2> QED
    BY <2>1, <2>2
<1> QED
  BY <1>1, <1>2 DEF RegistryPaired

\* A session that is over has no process, until the daemon stops.
LEMMA TunnelsDownStep ==
  ASSUME Structure, Registers, Kept, [Next]_vars PROVE TunnelsDown'
<1> USE Numbers
<1> SUFFICES ASSUME reader'.at \in {"reading", "cancelling", "joining"}, NEW s \in Ids,
                    thread'[s] # "none", s \notin sessions', s \notin Leaving', Op(s)' = "open-ssh"
             PROVE  s \notin ssh'
  BY DEF TunnelsDown
<1>0. thread \in [Ids -> {"none", "idle", "running", "replying", "ended", "dead"}]
  BY DEF Structure, TypeOK
<1>1. Up' /\ Up
  <2>1. Up'
    BY DEF Up, Gone, Killed
  <2> QED
    BY <2>1, StaysDown
<1>2. reader.at \in {"reading", "cancelling", "joining"}
  <2>1. CASE reader' = reader
    BY <2>1
  <2>2. CASE Pauses \/ Joined
    BY <2>2 DEF Pauses, Joined
  <2>3. CASE \E id \in Ids : CloseTakes(id)
    BY <2>3 DEF CloseTakes, Next1, Reading
  <2>4. CASE EmptyRegistry \/ StopJoined
    BY <2>4 DEF EmptyRegistry, TakeAll, StopJoined, Stopping
  <2>5. CASE StopSession
    BY <2>5, ReaderShape DEF StopSession, Structure
  <2> QED
    BY <1>1, <2>1, <2>2, <2>3, <2>4, <2>5, ReaderMoves
<1>3. s \notin sessions
  BY <1>1, LeavingStep
<1>4. thread[s] # "none"
  <2>1. ~Register(s)
    BY DEF Register
  <2> QED
    BY <2>1, HelperFrame
<1>5. Op(s) = "open-ssh"
  BY <1>4, ReadStays DEF Structure, ThreadsFit
<1>6. CASE s \in Leaving
  <2>1. reader.at = "joining"
    BY <1>2, <1>6 DEF Leaving
  <2>2. Joined /\ To(reader.id) = s
    BY <1>1, <1>6, <2>1, LeavingStep
  <2>3. reader.tunnelled
    BY <1>5, <2>1, <2>2 DEF Registers, Tunnelled
  <2> QED
    BY <2>2, <2>3 DEF Joined
<1>7. CASE s \notin Leaving
  <2>1. s \notin ssh
    BY <1>2, <1>3, <1>4, <1>5, <1>7 DEF Registers, TunnelsDown
  <2>2. ~OpenTunnel(s)
    BY <1>4 DEF OpenTunnel, Structure, HelpersFit, HelperFits, Early
  <2> QED
    BY <2>1, <2>2, SshFrame
<1> QED
  BY <1>6, <1>7

\* The second layer is inductive, given the first.
LEMMA RegistersStep == Structure /\ Registers /\ [Next]_vars => Registers'
<1> SUFFICES ASSUME Structure, Registers, [Next]_vars PROVE Registers'
  OBVIOUS
<1>1. Kept
  BY KeptStep
<1>2. Accounted' /\ OwnedApart' /\ TunnelsDown'
  BY <1>1, AccountedStep, OwnedStep, TunnelsDownStep DEF Registers
<1>3. Tunnelled'
  BY <1>1, StoringHasSsh, JoiningHasTunnel, OutlivesStep, PairedStep DEF Tunnelled
<1> QED
  BY <1>2, <1>3 DEF Registers

\* It holds at the start.
LEMMA RegistersInit == Init => Registers
<1> SUFFICES ASSUME Init PROVE Registers
  OBVIOUS
<1> USE DEF Init, Reading
<1>1. DOMAIN sent = {} /\ reader.at = "reading"
  OBVIOUS
<1>2. Accounted /\ OwnedApart /\ TunnelsDown
  BY <1>1 DEF Accounted, OwnedApart, TunnelsDown, Leaving
<1>3. Tunnelled
  BY <1>1 DEF Tunnelled, TunnelOutlivesSession, RegistryPaired
<1> QED
  BY <1>2, <1>3 DEF Registers

-----------------------------------------------------------------------------
(* Order, and that nothing is lost.                                           *)

\* A session's channel and its thread, together.
LEMMA SessionFrame ==
  ASSUME Structure, [Next]_vars, NEW s \in Ids
  PROVE  \/ Take(s) /\ Beside
         \/ Panic(s) /\ Beside
         \/ queue'[s] = queue[s] /\ thread'[s] = thread[s] /\ job'[s] = job[s]
         \/ queue'[s] = queue[s] /\ EndStatement(s) /\ Beside
         \/ queue'[s] = queue[s] /\ Answer(s) /\ Beside
         \/ queue'[s] = queue[s] /\ Helper(s) /\ Register(s)
         \/ /\ thread[s] # "dead" /\ thread'[s] = thread[s] /\ job'[s] = job[s]
            /\ \/ \E id \in Ids : /\ Next1(id, "work") /\ To(id) = s /\ s \in sessions
                                  /\ queue'[s] = Append(queue[s], id)
                                  /\ UNCHANGED <<sessions, out, reader>>
               \/ \E id \in Ids : /\ Next1(id, "close") /\ To(id) = s /\ s \in sessions
                                  /\ queue'[s] = Append(queue[s], Shutdown)
                                  /\ sessions' = sessions \ {s} /\ UNCHANGED out
                                  /\ reader'.at = "joining"
               \/ /\ reader.at = "stopping" /\ reader.now = 0 /\ s \in reader.left
                  /\ reader' = [reader EXCEPT !.now = s]
                  /\ queue'[s] = Append(queue[s], Shutdown) /\ UNCHANGED <<sessions, out, read>>
<1>1. CASE queue'[s] = queue[s]
  BY <1>1, ThreadFrame
<1>2. CASE (Take(s) \/ Panic(s)) /\ Beside
  BY <1>2
<1>3. CASE thread'[s] = thread[s] /\ job' = job
  BY <1>3, QueueFrame
<1> QED
  BY <1>1, <1>2, <1>3, QueueFrame

\* A session that is registered, or still to be waited for, takes requests.
LEMMA Registered ==
  ASSUME Structure, Registers, Queues, NEW s \in Ids
  PROVE  /\ s \in sessions => ~Waiting(s, Shutdown) /\ thread[s] \notin {"none", "ended"}
         /\ reader.at = "stopping" /\ s \in reader.left /\ reader.now = 0 =>
              ~Waiting(s, Shutdown) /\ thread[s] \notin {"none", "ended"} /\ s \notin sessions
         /\ reader = Reading /\ s \notin sessions => ~Alive(s)
<1> USE Numbers
<1>1. s \in sessions => ~Waiting(s, Shutdown) /\ thread[s] \notin {"none", "ended"}
  BY DEF Queues, ShutdownOnce, Structure, ThreadsFit
<1>2. ASSUME reader.at = "stopping", s \in reader.left, reader.now = 0
      PROVE  ~Waiting(s, Shutdown) /\ thread[s] \notin {"none", "ended"} /\ s \notin sessions
  <2>1. Up /\ s \in Leaving /\ reader.now # s
    BY <1>2 DEF Up, Gone, Killed, Leaving
  <2> QED
    BY <1>2, <2>1 DEF Queues, ShutdownOnce, Registers, Accounted
<1>3. ASSUME reader = Reading, s \notin sessions PROVE ~Alive(s)
  <2>1. Up /\ Leaving = {}
    BY <1>3 DEF Up, Gone, Killed, Reading, Leaving
  <2> QED
    BY <1>3, <2>1 DEF Registers, Accounted, Alive, Finished
<1> QED
  BY <1>1, <1>2, <1>3

\* A request that waits, or is being served, stays behind all that is answered.
LEMMA BeforeStep ==
  ASSUME Structure, Registers, Queues, Kept, [Next]_vars, NEW s \in Ids, NEW q \in Ids,
         Asked(s, q), Before(s, q), Alive(s), thread[s] = "replying" /\ thread'[s] = "idle" => job[s] < q
  PROVE  Before(s, q)'
<1> USE Numbers
<1>0. /\ read \in Nat /\ out \in Seq(ReplySet) /\ Len(out) \in Nat /\ DOMAIN out = 1 .. Len(out)
      /\ \A k \in DOMAIN out : out[k].id \in Ids /\ out[k].id <= read
      /\ q <= read /\ q \in DOMAIN sent
  <2>1. out \in Seq(ReplySet) /\ read \in Nat
    BY DEF Structure, TypeOK, ReplySet
  <2>2. ASSUME NEW k \in DOMAIN out PROVE out[k].id \in Ids /\ out[k].id <= read
    <3>1. out[k] \in ReplySet
      BY <2>1, ElementOfSeq
    <3> QED
      BY <3>1 DEF ReplySet, Structure, RepliesFit, ReplyFits
  <2>3. q <= read /\ q \in DOMAIN sent
    BY <2>1, ReadStays DEF Asked
  <2> QED
    BY <2>1, <2>2, <2>3
<1>1. ASSUME NEW w \in Ids, w <= read, Asked(s, w)' PROVE Asked(s, w)
  <2>1. Op(w)' = Op(w) /\ To(w)' = To(w)
    BY <1>1, ReadStays
  <2> QED
    BY <1>0, <1>1, <2>1 DEF Asked
<1>2. ASSUME NEW k \in DOMAIN out, NEW w, w = out[k].id, Asked(s, w)' PROVE w < q
  <2>1. w \in Ids /\ w <= read
    BY <1>0, <1>2
  <2> QED
    BY <1>1, <1>2, <2>1 DEF Before
<1>3. CASE out' = out
  <2> SUFFICES ASSUME NEW k \in DOMAIN out, NEW w, w = out[k].id, Asked(s, w)' PROVE w < q
    BY <1>3 DEF Before, Replied, Asked, Op, To
  <2> QED
    BY <1>2
<1>4. ASSUME NEW id \in Ids, NEW ok \in BOOLEAN, Reply(id, ok), ReplyOf(id, ok) PROVE Before(s, q)'
  <2>1. /\ DOMAIN out' = 1 .. Len(out) + 1 /\ out'[Len(out) + 1] = [id |-> id, ok |-> ok]
        /\ \A i \in DOMAIN out : out'[i] = out[i]
    BY <1>4, ReplyAdds DEF Structure
  <2>2. id # q /\ (Asked(s, id)' => id < q)
    <3>1. CASE /\ id = read + 1 /\ reader = Reading /\ id \in DOMAIN sent
               /\ Op(id) \in {"work", "close"} => To(id) \notin sessions
      <4>1. Op(id)' = Op(id) /\ To(id)' = To(id)
        BY <3>1, ReadStays
      <4>2. ~Asked(s, id)'
        BY <3>1, <4>1, Registered DEF Asked
      <4> QED
        BY <1>0, <3>1, <4>2
    <3>2. CASE reader.at \in {"cancelling", "joining"} /\ id = reader.id
      <4>1. id = read /\ Op(id) \in {"cancel", "close"}
        BY <3>2 DEF Structure, ReaderFits
      <4>2. Op(id)' = Op(id)
        BY <4>1, ReadStays
      <4> QED
        BY <4>1, <4>2 DEF Asked
    <3>3. CASE helper[id] # "none"
      <4>1. ~OnSession(id) /\ id <= read
        BY <3>3 DEF Structure, HelpersFit, HelperFits
      <4>2. Op(id)' = Op(id)
        BY <4>1, ReadStays
      <4> QED
        BY <4>1, <4>2 DEF Asked, OnSession
    <3>4. ASSUME NEW r \in Ids, thread[r] = "replying", job[r] = id, thread'[r] = "idle"
          PROVE  id # q /\ (Asked(s, id)' => id < q)
      <4>1. Asked(r, id) /\ id <= read
        BY <3>4 DEF Structure, ThreadsFit, Serving, Asked
      <4>2. To(id)' = To(id)
        BY <4>1, ReadStays
      <4>3. CASE r = s
        BY <3>4, <4>3
      <4>4. CASE r # s
        BY <4>1, <4>2, <4>4 DEF Asked
      <4> QED
        BY <4>3, <4>4
    <3> QED
      BY <1>4, <3>1, <3>2, <3>3, <3>4 DEF ReplyOf
  <2>3. ~Replied(q)'
    BY <1>4, <2>2, ReplyTells DEF Structure, Before
  <2>4. ASSUME NEW k \in DOMAIN out', NEW w, w = out'[k].id, Asked(s, w)' PROVE w < q
    <3>1. CASE k = Len(out) + 1
      BY <2>1, <2>2, <2>4, <3>1
    <3>2. CASE k \in DOMAIN out
      BY <1>2, <2>1, <2>4, <3>2
    <3> QED
      BY <1>0, <2>1, <3>1, <3>2
  <2> QED
    BY <2>3, <2>4 DEF Before, Asked, Op, To
<1> QED
  BY <1>3, <1>4, Repliers

\* The order in a channel is kept: posts go behind, the thread takes the head.
LEMMA QueueStep ==
  ASSUME Structure, Registers, Queues, Kept, [Next]_vars, NEW s \in Ids
  PROVE  QueueInOrder(s)'
<1> USE Numbers
<1>0. /\ queue[s] \in Seq(0 .. MaxRequests) /\ Len(queue[s]) \in Nat /\ DOMAIN queue[s] = 1 .. Len(queue[s])
      /\ \A i \in DOMAIN queue[s] : queue[s][i] \in 0 .. MaxRequests
      /\ thread \in [Ids -> {"none", "idle", "running", "replying", "ended", "dead"}]
      /\ job \in [Ids -> 0 .. MaxRequests] /\ queue \in [Ids -> Seq(0 .. MaxRequests)]
      /\ read \in Nat /\ Shutdown = 0
  BY DEF Structure, TypeOK, Shutdown
<1>q. QueueInOrder(s)
  BY DEF Queues
<1>1. ASSUME NEW i \in DOMAIN queue[s], NEW q, q = queue[s][i], q # Shutdown
      PROVE  q \in Ids /\ q <= read /\ Alive(s) /\ Before(s, q)' /\ (Serving(s) => job[s] < q)
  <2>1. q \in 1 .. MaxRequests /\ q \in Ids /\ Waiting(s, q)
    <3>1. q \in 1 .. MaxRequests
      BY <1>0, <1>1
    <3> QED
      BY <1>1, <3>1 DEF Ids, Waiting
  <2>2. Asked(s, q)
    BY <2>1 DEF Structure, ThreadsFit
  <2>3. Before(s, q) /\ (Serving(s) => job[s] < q)
    BY <1>1, <1>q DEF QueueInOrder
  <2>4. Alive(s)
    <3>1. queue[s] # <<>>
      BY <1>0
    <3> QED
      BY <3>1, <1>q DEF QueueInOrder
  <2>5. q <= read
    BY <1>0, <2>2 DEF Asked
  <2>6. Before(s, q)'
    BY <2>1, <2>2, <2>3, <2>4, BeforeStep DEF Serving
  <2> QED
    BY <2>1, <2>3, <2>4, <2>5, <2>6
<1>2. ASSUME Serving(s), thread'[s] # "idle", NEW q, q = job[s] PROVE q \in Ids /\ q <= read /\ Before(s, q)'
  <2>1. Asked(s, q) /\ Before(s, q) /\ Alive(s)
    BY <1>2, <1>q DEF QueueInOrder, Structure, ThreadsFit, Serving, Alive
  <2>2. q \in Ids /\ q <= read
    BY <1>0, <1>2, <2>1 DEF Asked
  <2> QED
    BY <1>2, <2>1, <2>2, BeforeStep
<1>3. ASSUME queue'[s] = queue[s], Alive(s) => Alive(s)',
             Serving(s)' => Serving(s) /\ job'[s] = job[s] /\ thread'[s] # "idle"
      PROVE  QueueInOrder(s)'
  <2>1. ASSUME NEW i \in DOMAIN queue'[s], NEW q, q = queue'[s][i], q # Shutdown
        PROVE  Before(s, q)' /\ (Serving(s)' => job'[s] < q)
    BY <1>1, <1>3, <2>1
  <2>2. Serving(s)' => Before(s, job[s])'
    <3>1. ASSUME Serving(s)', NEW q, q = job[s] PROVE Before(s, q)' /\ q = job'[s]
      BY <1>2, <1>3, <3>1
    <3> QED
      BY <3>1 DEF Before
  <2>3. queue'[s] # <<>> => Alive(s)'
    BY <1>3, <1>q DEF QueueInOrder
  <2>4. \A i, j \in DOMAIN queue'[s] : i < j =>
          queue'[s][i] # Shutdown /\ (queue'[s][j] # Shutdown => queue'[s][i] < queue'[s][j])
    BY <1>3, <1>q DEF QueueInOrder
  <2>5. \A i \in DOMAIN queue'[s] : queue'[s][i] # Shutdown =>
          Before(s, queue[s][i])' /\ (Serving(s)' => job'[s] < queue'[s][i])
    <3> SUFFICES ASSUME NEW i \in DOMAIN queue'[s], NEW q, q = queue'[s][i], q # Shutdown
                 PROVE  Before(s, q)' /\ (Serving(s)' => job'[s] < q)
      BY DEF Before
    <3> QED
      BY <2>1
  <2> QED
    BY <2>2, <2>3, <2>4, <2>5 DEF QueueInOrder
<1>4. ASSUME NEW m \in 0 .. MaxRequests, queue'[s] = Append(queue[s], m), thread'[s] = thread[s], job'[s] = job[s],
             ~Waiting(s, Shutdown), Alive(s), m = Shutdown \/ (m > read /\ out' = out /\ m \in Ids)
      PROVE  QueueInOrder(s)'
  <2>1. /\ DOMAIN queue'[s] = 1 .. Len(queue[s]) + 1 /\ queue'[s][Len(queue[s]) + 1] = m
        /\ \A i \in DOMAIN queue[s] : queue'[s][i] = queue[s][i]
    BY <1>0, <1>4, AppendProperties
  <2>2. ASSUME m # Shutdown PROVE Before(s, m)' /\ (Serving(s) => job[s] < m)
    <3>1. out' = out /\ m > read
      BY <1>4, <2>2
    <3>2. \A k \in DOMAIN out : out[k].id <= read
      BY DEF Structure, RepliesFit, ReplyFits
    <3>3. out \in Seq(ReplySet) /\ \A k \in DOMAIN out : out[k].id \in Nat
      <4>1. out \in Seq(ReplySet)
        BY DEF Structure, TypeOK, ReplySet
      <4>2. \A k \in DOMAIN out : out[k] \in ReplySet
        BY <4>1, ElementOfSeq
      <4> QED
        BY <4>1, <4>2 DEF ReplySet
    <3>4. \A k \in DOMAIN out : out[k].id < m
      BY <1>0, <3>1, <3>2, <3>3
    <3>5. Before(s, m)'
      BY <3>1, <3>4 DEF Before, Replied
    <3>6. Serving(s) => job[s] < m
      BY <1>0, <3>1 DEF Structure, ThreadsFit, Asked
    <3> QED
      BY <3>5, <3>6
  <2>3. \A i \in DOMAIN queue'[s] : queue'[s][i] # Shutdown =>
          Before(s, queue[s][i])' /\ (Serving(s)' => job'[s] < queue'[s][i])
    <3> SUFFICES ASSUME NEW i \in DOMAIN queue'[s], NEW q, q = queue'[s][i], q # Shutdown
                 PROVE  Before(s, q)' /\ (Serving(s)' => job'[s] < q)
      BY DEF Before
    <3>1. CASE i = Len(queue[s]) + 1
      BY <1>4, <2>1, <2>2, <3>1 DEF Serving
    <3>2. CASE i \in DOMAIN queue[s]
      BY <1>1, <1>4, <2>1, <3>2 DEF Serving
    <3> QED
      BY <1>0, <2>1, <3>1, <3>2
  <2>4. ASSUME NEW i \in DOMAIN queue'[s], NEW j \in DOMAIN queue'[s], i < j
        PROVE  queue'[s][i] # Shutdown /\ (queue'[s][j] # Shutdown => queue'[s][i] < queue'[s][j])
    <3>1. i \in DOMAIN queue[s] /\ (j \in DOMAIN queue[s] \/ j = Len(queue[s]) + 1)
      BY <1>0, <2>1, <2>4
    <3>2. queue[s][i] # Shutdown
      BY <1>4, <3>1 DEF Waiting
    <3>3. queue[s][i] <= read /\ queue[s][i] \in Ids
      BY <1>1, <3>1, <3>2
    <3>4. CASE j \in DOMAIN queue[s]
      BY <1>q, <2>1, <2>4, <3>1, <3>2, <3>4 DEF QueueInOrder
    <3>5. CASE j = Len(queue[s]) + 1
      BY <1>0, <1>4, <2>1, <3>1, <3>2, <3>3, <3>5
    <3> QED
      BY <3>1, <3>4, <3>5
  <2>5. Serving(s)' => Before(s, job[s])'
    <3>1. ASSUME Serving(s)', NEW q, q = job[s] PROVE Before(s, q)' /\ q = job'[s]
      <4>1. Serving(s) /\ thread'[s] # "idle"
        BY <1>4, <3>1 DEF Serving
      <4> QED
        BY <1>2, <1>4, <3>1, <4>1
    <3> QED
      BY <3>1 DEF Before
  <2>6. Alive(s)'
    BY <1>4 DEF Alive
  <2> QED
    BY <2>3, <2>4, <2>5, <2>6 DEF QueueInOrder
<1>5. CASE Panic(s)
  <2>1. queue'[s] = <<>> /\ thread'[s] = "dead"
    BY <1>0, <1>5 DEF Panic
  <2> QED
    BY <2>1 DEF QueueInOrder, Serving
<1>6. CASE Take(s)
  <2>1. /\ queue[s] # <<>> /\ queue'[s] = Tail(queue[s]) /\ thread[s] = "idle"
        /\ IF Head(queue[s]) = Shutdown THEN thread'[s] = "ended"
                                        ELSE thread'[s] = "running" /\ job'[s] = Head(queue[s])
    BY <1>0, <1>6 DEF Take
  <2>2. /\ Head(queue[s]) = queue[s][1] /\ 1 \in DOMAIN queue[s]
        /\ DOMAIN queue'[s] = 1 .. Len(queue[s]) - 1
        /\ \A i \in DOMAIN queue'[s] : i + 1 \in DOMAIN queue[s] /\ queue'[s][i] = queue[s][i + 1]
    BY <1>0, <2>1
  <2>3. CASE Head(queue[s]) = Shutdown
    <3>1. Len(queue[s]) = 1
      <4>1. CASE 2 \in DOMAIN queue[s]
        BY <1>q, <2>2, <2>3, <4>1 DEF QueueInOrder
      <4> QED
        BY <1>0, <2>2, <4>1
    <3>2. DOMAIN queue'[s] = {} /\ queue'[s] = <<>>
      <4>1. Len(queue'[s]) = 0 /\ queue'[s] \in Seq(0 .. MaxRequests)
        BY <1>0, <2>1, <3>1, HeadTailProperties
      <4> QED
        BY <4>1, EmptySeq
    <3>3. ~Serving(s)'
      BY <2>1, <2>3 DEF Serving
    <3> QED
      BY <3>2, <3>3 DEF QueueInOrder
  <2>4. CASE Head(queue[s]) # Shutdown
    <3>1. ASSUME NEW i \in DOMAIN queue'[s], NEW q, q = queue'[s][i], q # Shutdown
          PROVE  Before(s, q)' /\ job'[s] < q
      <4>1. i + 1 \in DOMAIN queue[s] /\ q = queue[s][i + 1] /\ 1 < i + 1
        BY <1>0, <2>2, <3>1
      <4>2. queue[s][1] < q
        BY <1>q, <2>2, <2>4, <3>1, <4>1 DEF QueueInOrder
      <4> QED
        BY <1>1, <2>1, <2>2, <2>4, <3>1, <4>1, <4>2
    <3>2. ASSUME NEW q, q = job'[s] PROVE Before(s, q)'
      BY <1>1, <2>1, <2>2, <2>4, <3>2
    <3>3. ASSUME NEW i \in DOMAIN queue'[s], NEW j \in DOMAIN queue'[s], i < j
          PROVE  queue'[s][i] # Shutdown /\ (queue'[s][j] # Shutdown => queue'[s][i] < queue'[s][j])
      <4>1. i + 1 \in DOMAIN queue[s] /\ j + 1 \in DOMAIN queue[s] /\ i + 1 < j + 1
        BY <1>0, <2>2, <3>3
      <4> QED
        BY <1>q, <2>2, <4>1 DEF QueueInOrder
    <3>4. Alive(s)' /\ Serving(s)'
      BY <2>1, <2>4 DEF Alive, Serving
    <3>5. \A i \in DOMAIN queue'[s] : queue'[s][i] # Shutdown =>
            Before(s, queue[s][i])' /\ (Serving(s)' => job'[s] < queue'[s][i])
      <4> SUFFICES ASSUME NEW i \in DOMAIN queue'[s], NEW q, q = queue'[s][i], q # Shutdown
                   PROVE  Before(s, q)' /\ (Serving(s)' => job'[s] < q)
        BY DEF Before
      <4> QED
        BY <3>1
    <3>6. Before(s, job[s])'
      BY <3>2 DEF Before
    <3> QED
      BY <3>3, <3>4, <3>5, <3>6 DEF QueueInOrder
  <2> QED
    BY <2>3, <2>4
<1>7. CASE queue'[s] = queue[s] /\ ((thread'[s] = thread[s] /\ job'[s] = job[s]) \/ EndStatement(s))
  <2>1. Serving(s)' => Serving(s) /\ job'[s] = job[s] /\ thread'[s] # "idle"
    BY <1>0, <1>7 DEF Serving, EndStatement
  <2>2. Alive(s) => Alive(s)'
    BY <1>0, <1>7 DEF Alive, EndStatement
  <2> QED
    BY <1>3, <1>7, <2>1, <2>2
<1>8. CASE queue'[s] = queue[s] /\ (Answer(s) \/ Register(s))
  <2>1. thread'[s] = "idle"
    BY <1>0, <1>8 DEF Answer, Register
  <2> QED
    BY <1>3, <1>8, <2>1 DEF Serving, Alive
<1>9. CASE /\ thread[s] # "dead" /\ thread'[s] = thread[s] /\ job'[s] = job[s]
           /\ \/ \E id \in Ids : /\ Next1(id, "work") /\ To(id) = s /\ s \in sessions
                                 /\ queue'[s] = Append(queue[s], id)
                                 /\ UNCHANGED <<sessions, out, reader>>
              \/ s \in sessions /\ queue'[s] = Append(queue[s], Shutdown)
              \/ reader.at = "stopping" /\ reader.now = 0 /\ s \in reader.left /\ queue'[s] = Append(queue[s], Shutdown)
  <2>1. ~Waiting(s, Shutdown) /\ Alive(s)
    BY <1>0, <1>9, Registered DEF Alive
  <2>2. CASE queue'[s] = Append(queue[s], Shutdown)
    <3>1. Shutdown \in 0 .. MaxRequests
      BY <1>0
    <3> QED
      BY <1>4, <1>9, <2>1, <2>2, <3>1
  <2>3. CASE \E id \in Ids : Next1(id, "work") /\ queue'[s] = Append(queue[s], id) /\ out' = out
    <3>1. PICK id \in Ids : Next1(id, "work") /\ queue'[s] = Append(queue[s], id) /\ out' = out
      BY <2>3
    <3>2. id \in 0 .. MaxRequests /\ id > read
      BY <1>0, <3>1 DEF Next1
    <3> QED
      BY <1>4, <1>9, <2>1, <3>1, <3>2
  <2> QED
    BY <1>9, <2>2, <2>3
<1> QED
  BY <1>5, <1>6, <1>7, <1>8, <1>9, SessionFrame

\* A Shutdown that waits was waiting, or is what the reader has just sent.
LEMMA ShutdownStep ==
  ASSUME Structure, Registers, Queues, Kept, [Next]_vars, NEW s \in Ids
  PROVE  ShutdownOnce(s)'
<1> USE Numbers
<1>0. /\ queue \in [Ids -> Seq(0 .. MaxRequests)] /\ queue[s] \in Seq(0 .. MaxRequests)
      /\ thread \in [Ids -> {"none", "idle", "running", "replying", "ended", "dead"}]
      /\ Shutdown = 0 /\ s # 0
  BY DEF Structure, TypeOK, Shutdown
<1>s. reader.at = "stopping" =>
        reader \in [at : {"stopping"}, left : SUBSET Ids, now : 0 .. MaxRequests, owned : SUBSET Ids]
  BY ReaderShape DEF Structure
\* It stays out of the registry, and is not waited for twice.
<1>1. ASSUME Waiting(s, Shutdown) \/ thread[s] = "ended"
      PROVE  s \notin sessions' /\ (reader'.at = "stopping" => s \notin reader'.left \/ reader'.now = s)
  <2>1. s \notin sessions /\ (reader.at = "stopping" => s \notin reader.left \/ reader.now = s)
    BY <1>1 DEF Queues, ShutdownOnce
  <2>2. thread[s] # "none"
    <3>1. CASE Waiting(s, Shutdown)
      <4>1. queue[s] # <<>>
        BY <1>0, <3>1 DEF Waiting
      <4> QED
        BY <4>1 DEF Queues, QueueInOrder, Alive
    <3> QED
      BY <1>1, <3>1
  <2>3. ~Register(s) \/ ~Helper(s)
    BY <2>2 DEF Register, Structure, HelpersFit, HelperFits, Early
  <2>4. s \notin sessions'
    BY <2>1, <2>3, HelperFrame
  <2>5. CASE reader' = reader
    BY <2>1, <2>4, <2>5
  <2>6. CASE EmptyRegistry
    BY <2>1, <2>4, <2>6 DEF EmptyRegistry, TakeAll, Stopping
  <2>7. CASE StopSession
    <3>1. reader.at = "stopping" /\ reader.now = 0 /\ reader'.left = reader.left
      BY <1>s, <2>7 DEF StopSession
    <3> QED
      BY <1>0, <2>1, <2>4, <3>1
  <2>8. CASE StopJoined
    BY <2>1, <2>4, <2>8 DEF StopJoined, Stopping
  <2>9. CASE Pauses
    BY <2>4, <2>9 DEF Pauses
  <2>10. CASE Joined
    BY <2>4, <2>10 DEF Joined, Reading
  <2>11. CASE \E id \in Ids : CloseTakes(id)
    BY <2>4, <2>11 DEF CloseTakes, Joining
  <2>12. CASE ~Up'
    BY <2>4, <2>12 DEF Up, Gone, Killed
  <2> QED
    BY <2>5, <2>6, <2>7, <2>8, <2>9, <2>10, <2>11, <2>12, ReaderMoves
<1>2. CASE Take(s)
  <2>1. queue[s] # <<>> /\ queue'[s] = Tail(queue[s])
        /\ (thread'[s] = "ended" => Head(queue[s]) = Shutdown)
    BY <1>0, <1>2 DEF Take
  <2>2. Waiting(s, Shutdown)' \/ thread'[s] = "ended" => Waiting(s, Shutdown)
    <3>1. ASSUME NEW i \in DOMAIN queue'[s], queue'[s][i] = 0 PROVE Waiting(s, Shutdown)
      <4>1. i + 1 \in DOMAIN queue[s] /\ queue[s][i + 1] = 0
        BY <1>0, <2>1, <3>1
      <4> QED
        BY <1>0, <4>1 DEF Waiting
    <3>2. 1 \in DOMAIN queue[s] /\ Head(queue[s]) = queue[s][1]
      BY <1>0, <2>1
    <3> QED
      BY <1>0, <2>1, <3>1, <3>2 DEF Waiting, Shutdown
  <2> QED
    BY <1>1, <2>2 DEF ShutdownOnce
<1>3. CASE Panic(s)
  BY <1>0, <1>3 DEF Panic, ShutdownOnce, Waiting
<1>4. CASE queue'[s] = queue[s] /\ (thread'[s] = thread[s] \/ EndStatement(s) \/ Answer(s) \/ Register(s))
  <2>1. thread'[s] = "ended" => thread[s] = "ended"
    BY <1>0, <1>4 DEF EndStatement, Answer, Register
  <2>2. Waiting(s, Shutdown)' => Waiting(s, Shutdown)
    BY <1>4 DEF Waiting, Shutdown
  <2> QED
    BY <1>1, <2>1, <2>2 DEF ShutdownOnce
<1>5. CASE \E id \in Ids : queue'[s] = Append(queue[s], id) /\ thread'[s] = thread[s]
  <2>1. PICK id \in Ids : queue'[s] = Append(queue[s], id) /\ thread'[s] = thread[s]
    BY <1>5
  <2>2. Waiting(s, Shutdown)' => Waiting(s, Shutdown)
    BY <1>0, <2>1 DEF Waiting
  <2> QED
    BY <1>1, <2>1, <2>2 DEF ShutdownOnce
<1>6. CASE s \in sessions /\ sessions' = sessions \ {s} /\ reader'.at = "joining"
  BY <1>6 DEF ShutdownOnce
<1>7. CASE /\ reader.at = "stopping" /\ reader.now = 0 /\ s \in reader.left
           /\ reader' = [reader EXCEPT !.now = s] /\ sessions' = sessions
  <2>1. reader'.now = s /\ s \notin sessions'
    BY <1>s, <1>7, Registered
  <2> QED
    BY <2>1 DEF ShutdownOnce
<1> QED
  BY <1>2, <1>3, <1>4, <1>5, <1>6, <1>7, SessionFrame

\* A session that registers during the stop has had no work.
LEMMA LateStep ==
  ASSUME Structure, Registers, Queues, Kept, [Next]_vars PROVE LateUnasked'
<1> USE Numbers
<1> SUFFICES ASSUME reader'.at = "stopping", NEW w \in Ids, NEW s \in sessions', Asked(s, w)' PROVE FALSE
  BY DEF LateUnasked
<1>0. s \in Ids /\ read \in Nat
  BY TypeStep DEF Structure, TypeOK
<1>1. CASE reader.at = "stopping"
  <2>1. w <= read /\ read' = read
    BY <1>0, <1>1, ReaderFrame DEF Asked
  <2>2. w \in DOMAIN sent /\ Op(w) = "work" /\ To(w) = s
    BY <2>1, ReadStays DEF Asked
  <2>3. Asked(s, w)
    BY <1>0, <2>1, <2>2 DEF Asked
  <2>4. s \notin sessions
    BY <1>1, <2>3 DEF Queues, LateUnasked
  <2>5. Helper(s) /\ Register(s)
    BY <1>0, <2>4, HelperFrame
  <2>6. ~Replied(s)
    BY <1>0, <2>5 DEF Register, Structure, HelpersFit, HelperFits
  <2>7. Succeeded(s)
    BY <2>2 DEF Structure, Targeted, OnSession
  <2> QED
    BY <2>6, <2>7 DEF Succeeded, Replied
<1>2. CASE reader.at # "stopping"
  <2>1. EmptyRegistry
    <3>1. ~(reader' = reader) /\ ~Pauses /\ ~StopSession /\ ~StopJoined
      BY <1>2 DEF Pauses, StopSession, StopJoined
    <3>4. ~Joined
      <4>1. Joined => reader'.at = "reading"
        BY DEF Joined, Reading
      <4> QED
        BY <4>1
    <3>2. \A id \in Ids : ~CloseTakes(id)
      BY DEF CloseTakes, Joining
    <3>3. Up'
      BY DEF Up, Gone, Killed
    <3> QED
      BY <3>1, <3>2, <3>3, <3>4, ReaderMoves
  <2> QED
    BY <2>1 DEF EmptyRegistry, TakeAll
<1> QED
  BY <1>1, <1>2

\* The reader reads one request at a time; work is posted or refused.
WorkGoes(id) ==
  /\ thread' = thread
  /\ IF To(id) \in sessions THEN Post(To(id), id) ELSE Reply(id, FALSE)

\* One request is read at a time.
LEMMA ReadMoves ==
  ASSUME Structure, [Next]_vars
  PROVE  read' = read \/ \E id \in Ids, op \in AllOps : Next1(id, op) /\ (op = "work" => WorkGoes(id))
<1>1. CASE DispatchWork
  <2>1. PICK id \in Ids : /\ Next1(id, "work")
                          /\ IF To(id) \in sessions THEN Post(To(id), id) ELSE Reply(id, FALSE)
    BY <1>1 DEF DispatchWork, Refuse
  <2>2. thread' = thread
    BY <1>1 DEF DispatchWork
  <2> QED
    BY <2>1, <2>2 DEF WorkGoes, AllOps
<1>2. CASE DispatchHelper
  <2>1. \E id \in Ids, op \in AllOps \ {"work"} : Next1(id, op)
    BY <1>2 DEF DispatchHelper, AllOps
  <2> QED
    BY <2>1
<1>3. CASE DispatchCancel \/ DispatchClose \/ DispatchShutdown
  <2>1. \E id \in Ids, op \in AllOps \ {"work"} : Next1(id, op)
    BY <1>3 DEF DispatchCancel, DispatchClose, DispatchShutdown, AllOps
  <2> QED
    BY <2>1
<1>4. CASE ~(DispatchWork \/ DispatchHelper \/ DispatchCancel \/ DispatchClose \/ DispatchShutdown)
  BY <1>4 DEF Next, Send, HangUp, Kill, Reader, Cancel, Joined, EndOfInput, StopSession, StopJoined, Exit,
     Helper, ThreadMoves, StatementEnds, Beside, vars
<1> QED
  BY <1>1, <1>2, <1>3, <1>4

\* A request for a session that waits is taken, served and answered, in time.
LEMMA LossStep ==
  ASSUME Structure, Registers, Queues, Kept, [Next]_vars, NEW s \in Ids PROVE NothingLost(s)'
<1> USE Numbers
<1>0. /\ queue \in [Ids -> Seq(0 .. MaxRequests)] /\ queue[s] \in Seq(0 .. MaxRequests)
      /\ thread \in [Ids -> {"none", "idle", "running", "replying", "ended", "dead"}]
      /\ job \in [Ids -> 0 .. MaxRequests] /\ Shutdown = 0 /\ read \in Nat
  BY DEF Structure, TypeOK, Shutdown
<1> SUFFICES ASSUME NEW w \in Ids, Asked(s, w)'
             PROVE  Replied(w)' \/ thread'[s] = "dead" \/ Waiting(s, w)' \/ (Serving(s)' /\ job'[s] = w)
  BY DEF NothingLost, Served, Asked
<1>1. CASE w <= read
  <2>1. Asked(s, w)
    BY <1>0, <1>1, ReadStays DEF Asked
  <2>2. Replied(w) \/ thread[s] = "dead" \/ Waiting(s, w) \/ (Serving(s) /\ job[s] = w)
    BY <2>1 DEF Queues, NothingLost, Served, Asked
  <2>3. Replied(w) => Replied(w)'
    BY DEF Kept
  <2>4. thread[s] = "dead" => thread'[s] = "dead"
    BY DEF Kept, Finished
  <2>5. CASE Waiting(s, w)
    <3>1. PICK i \in DOMAIN queue[s] : queue[s][i] = w
      BY <2>5 DEF Waiting
    <3>2. CASE Take(s)
      <4>1. /\ queue[s] # <<>> /\ queue'[s] = Tail(queue[s])
            /\ Head(queue[s]) # Shutdown => thread'[s] = "running" /\ job'[s] = Head(queue[s])
        BY <1>0, <3>2 DEF Take
      <4>2. Head(queue[s]) = queue[s][1] /\ 1 \in DOMAIN queue[s]
        BY <1>0, <4>1
      <4>3. CASE i = 1
        BY <1>0, <3>1, <4>1, <4>2, <4>3 DEF Serving
      <4>4. CASE i # 1
        <5>1. i - 1 \in DOMAIN queue'[s] /\ queue'[s][i - 1] = w
          BY <1>0, <3>1, <4>1, <4>4
        <5> QED
          BY <5>1 DEF Waiting
      <4> QED
        BY <4>3, <4>4
    <3>3. CASE Panic(s)
      BY <1>0, <3>3 DEF Panic
    <3>4. CASE queue'[s] = queue[s]
      BY <3>1, <3>4 DEF Waiting
    <3>5. ASSUME NEW m \in 0 .. MaxRequests, queue'[s] = Append(queue[s], m) PROVE Waiting(s, w)'
      <4>1. i \in DOMAIN queue'[s] /\ queue'[s][i] = w
        BY <1>0, <3>1, <3>5
      <4> QED
        BY <4>1 DEF Waiting
    <3>6. Shutdown \in 0 .. MaxRequests
      BY <1>0
    <3> QED
      BY <3>2, <3>3, <3>4, <3>5, <3>6, SessionFrame
  <2>6. CASE Serving(s) /\ job[s] = w
    <3>1. CASE EndStatement(s)
      BY <1>0, <2>6, <3>1 DEF EndStatement, Serving
    <3>2. CASE Answer(s)
      <4>1. Reply(w, TRUE)
        BY <2>6, <3>2 DEF Answer
      <4> QED
        BY <4>1, ReplyTells DEF Structure
    <3>3. CASE Panic(s)
      BY <1>0, <3>3 DEF Panic
    <3>4. CASE Take(s) \/ Register(s)
      <4>1. Serving(s) => thread[s] # "none" /\ thread[s] # "idle"
        BY DEF Serving
      <4> QED
        BY <2>6, <3>4, <4>1 DEF Take, Register, Structure, HelpersFit, HelperFits, Early
    <3>5. CASE thread'[s] = thread[s] /\ job'[s] = job[s]
      BY <2>6, <3>5 DEF Serving
    <3> QED
      BY <3>1, <3>2, <3>3, <3>4, <3>5, ThreadFrame
  <2> QED
    BY <2>2, <2>3, <2>4, <2>5, <2>6
<1>2. CASE w > read
  <2>1. ~(read' = read)
    BY <1>0, <1>2 DEF Asked
  <2>2. PICK id \in Ids, op \in AllOps : Next1(id, op) /\ (op = "work" => WorkGoes(id))
    BY <2>1, ReadMoves
  <2>3. id = read + 1 /\ read' = id /\ id \in DOMAIN sent /\ Op(id) = op
    BY <2>2, NextIsSent DEF Structure
  <2>4. id = w
    BY <1>0, <1>2, <2>3 DEF Asked
  <2>5. Op(w) = "work" /\ To(w) = s
    BY <2>3, <2>4, ReadStays DEF Asked
  <2>6. WorkGoes(w)
    BY <2>2, <2>3, <2>4, <2>5
  <2>7. CASE To(w) \in sessions
    <3>1. Post(s, w) /\ thread' = thread
      BY <2>5, <2>6, <2>7 DEF WorkGoes
    <3>2. CASE thread[s] # "dead"
      <4>1. queue'[s] = Append(queue[s], w)
        BY <1>0, <3>1, <3>2 DEF Post
      <4>2. Len(queue[s]) + 1 \in DOMAIN queue'[s] /\ queue'[s][Len(queue[s]) + 1] = w
        BY <1>0, <4>1
      <4> QED
        BY <4>2 DEF Waiting
    <3> QED
      BY <3>1, <3>2
  <2>8. CASE To(w) \notin sessions
    <3>1. Reply(w, FALSE)
      BY <2>6, <2>8 DEF WorkGoes
    <3> QED
      BY <3>1, ReplyTells DEF Structure
  <2> QED
    BY <2>7, <2>8
<1> QED
  BY <1>0, <1>1, <1>2

\* A request whose session takes no more requests and has none left is served.
LEMMA NothingLeft ==
  ASSUME Structure, Registers, Queues, NEW s \in Ids, NEW w \in Ids, Asked(s, w), ~Alive(s)
  PROVE  Served(w)
<1>1. ~Serving(s) /\ queue[s] = <<>>
  BY DEF Queues, QueueInOrder, Serving, Alive
<1>2. ~Waiting(s, w)
  BY <1>1 DEF Waiting
<1> QED
  BY <1>1, <1>2 DEF Queues, NothingLost

\* What is served stays served.
LEMMA ServedStays ==
  ASSUME Structure, Kept, NEW w \in Ids, w <= read, Op(w) = "work", Served(w)
  PROVE  Served(w)'
<1>1. To(w)' = To(w) /\ To(w) \in Ids
  <2>1. w \in DOMAIN sent /\ To(w)' = To(w)
    BY ReadStays
  <2>2. To(w) \in DOMAIN sent
    BY <2>1 DEF Structure, Targeted, OnSession
  <2> QED
    BY <2>1, <2>2, Numbers DEF Structure, TypeOK
<1> QED
  BY <1>1 DEF Served, Kept, Finished

\* What is answered was asked.
LEMMA RepliedSent ==
  ASSUME Structure, [Next]_vars, NEW id \in Ids, NEW ok \in BOOLEAN, Reply(id, ok), ReplyOf(id, ok)
  PROVE  id \in DOMAIN sent
<1>1. Kept
  BY KeptStep
<1>2. CASE reader.at \in {"cancelling", "joining"} /\ id = reader.id
  BY <1>1, <1>2, Numbers, ReadStays DEF Structure, ReaderFits
<1>3. CASE helper[id] # "none"
  BY <1>1, <1>3, ReadStays DEF Structure, HelpersFit, HelperFits
<1>4. ASSUME NEW r \in Ids, thread[r] = "replying", job[r] = id PROVE id \in DOMAIN sent
  BY <1>1, <1>4, Numbers, ReadStays DEF Structure, ThreadsFit, Serving, Asked
<1> QED
  BY <1>2, <1>3, <1>4 DEF ReplyOf

\* ServedInOrder is kept.
LEMMA OrderStep ==
  ASSUME Structure, Registers, Queues, Kept, [Next]_vars PROVE ServedInOrder'
<1> USE Numbers
<1>0. /\ read \in Nat /\ out \in Seq(ReplySet) /\ Len(out) \in Nat /\ DOMAIN out = 1 .. Len(out)
      /\ \A k \in DOMAIN out : out[k].id \in Ids /\ out[k].id <= read
      /\ thread \in [Ids -> {"none", "idle", "running", "replying", "ended", "dead"}]
  <2>1. out \in Seq(ReplySet) /\ read \in Nat /\ Len(out) \in Nat /\ DOMAIN out = 1 .. Len(out)
        /\ thread \in [Ids -> {"none", "idle", "running", "replying", "ended", "dead"}]
    BY DEF Structure, TypeOK, ReplySet
  <2>2. ASSUME NEW k \in DOMAIN out PROVE out[k].id \in Ids /\ out[k].id <= read
    <3>1. out[k] \in ReplySet
      BY <2>1, ElementOfSeq
    <3> QED
      BY <3>1 DEF ReplySet, Structure, RepliesFit, ReplyFits
  <2> QED
    BY <2>1, <2>2
\* Whoever replies does so once, and in order.
<1>1. ASSUME NEW b \in Ids, NEW ok \in BOOLEAN, Reply(b, ok), ReplyOf(b, ok),
             NEW i \in DOMAIN out, NEW a, a = out[i].id
      PROVE  a # b /\ ({Op(a), Op(b)} \subseteq {"work", "close"} /\ To(a) = To(b) => a < b)
  <2>0. a \in Ids /\ a <= read /\ Replied(a) /\ a \in DOMAIN sent
    BY <1>0, <1>1, ReadStays DEF Replied
  <2>1. CASE b = read + 1
    BY <1>0, <2>0, <2>1
  <2>2. CASE reader.at \in {"cancelling", "joining"} /\ b = reader.id
    <3>1. b = read /\ ~Replied(b)
      BY <2>2 DEF Structure, ReaderFits
    <3>2. a # b
      BY <2>0, <3>1 DEF Replied
    <3>4. a \in Nat /\ read \in Nat /\ a <= read /\ b = read
      BY <1>0, <2>0, <3>1
    <3>3. a < b
      BY <3>2, <3>4
    <3> QED
      BY <3>2, <3>3
  <2>3. CASE helper[b] # "none"
    BY <2>0, <2>3 DEF Structure, HelpersFit, HelperFits, OnSession
  <2>4. ASSUME NEW r \in Ids, thread[r] = "replying", job[r] = b
        PROVE  a # b /\ ({Op(a), Op(b)} \subseteq {"work", "close"} /\ To(a) = To(b) => a < b)
    <3>1. Asked(r, b) /\ Before(r, b)
      BY <2>4 DEF Structure, ThreadsFit, Queues, QueueInOrder, Serving
    <3>2. a # b
      BY <2>0, <3>1 DEF Before
    <3>3. ASSUME Op(a) = "work", To(a) = To(b) PROVE a < b
      <4>1. Asked(r, a)
        BY <1>0, <2>0, <3>1, <3>3 DEF Asked
      <4> QED
        BY <1>1, <3>1, <4>1 DEF Before
    <3>4. ASSUME Op(a) = "close", To(a) = To(b) PROVE FALSE
      <4>1. Finished(r)
        BY <2>0, <3>1, <3>4 DEF Queues, CloseDrains, Asked
      <4> QED
        BY <2>4, <4>1 DEF Finished
    <3> QED
      BY <3>2, <3>3, <3>4
  <2> QED
    BY <1>1, <2>1, <2>2, <2>3, <2>4 DEF ReplyOf
<1>2. ASSUME NEW i \in DOMAIN out, NEW j \in DOMAIN out, i < j
      PROVE  out[i].id # out[j].id /\ ({Op(out[i].id), Op(out[j].id)} \subseteq {"work", "close"}
               /\ To(out[i].id) = To(out[j].id) => out[i].id < out[j].id)
  BY <1>2 DEF Queues, ServedInOrder
<1>p. ASSUME NEW a \in Ids, a <= read PROVE Op(a)' = Op(a) /\ To(a)' = To(a)
  BY <1>p, ReadStays
<1>3. CASE out' = out
  <2> SUFFICES ASSUME NEW i \in DOMAIN out, NEW j \in DOMAIN out, i < j,
                      NEW a, a = out[i].id, NEW b, b = out[j].id
               PROVE  a # b /\ ({Op(a)', Op(b)'} \subseteq {"work", "close"} /\ To(a)' = To(b)' => a < b)
    BY <1>3 DEF ServedInOrder, Op, To
  <2> QED
    BY <1>0, <1>2, <1>p
<1>4. ASSUME NEW id \in Ids, NEW ok \in BOOLEAN, Reply(id, ok), ReplyOf(id, ok) PROVE ServedInOrder'
  <2>1. /\ DOMAIN out' = 1 .. Len(out) + 1 /\ out'[Len(out) + 1] = [id |-> id, ok |-> ok]
        /\ \A i \in DOMAIN out : out'[i] = out[i]
    BY <1>4, ReplyAdds DEF Structure
  <2> SUFFICES ASSUME NEW i \in DOMAIN out', NEW j \in DOMAIN out', i < j,
                      NEW a, a = out'[i].id, NEW b, b = out'[j].id
               PROVE  a # b /\ ({Op(a)', Op(b)'} \subseteq {"work", "close"} /\ To(a)' = To(b)' => a < b)
    BY DEF ServedInOrder, Op, To
  <2>2. i \in DOMAIN out /\ a = out[i].id /\ a \in Ids /\ a <= read /\ Op(a)' = Op(a) /\ To(a)' = To(a)
    BY <1>0, <1>p, <2>1
  <2>3. CASE j \in DOMAIN out
    BY <1>0, <1>2, <1>p, <2>1, <2>2, <2>3
  <2>4. CASE j = Len(out) + 1
    <3>1. b = id
      BY <2>1, <2>4
    <3>2. id \in DOMAIN sent
      BY <1>4, RepliedSent
    <3>3. Op(b)' = Op(b) /\ To(b)' = To(b)
      BY <3>1, <3>2, ReadStays
    <3> QED
      BY <1>1, <1>4, <2>2, <3>1, <3>3
  <2> QED
    BY <1>0, <2>1, <2>3, <2>4
<1> QED
  BY <1>3, <1>4, Repliers

\* Whoever answers a close has found the session over.
LEMMA CloseAnswered ==
  ASSUME Structure, Registers, Queues, Kept, [Next]_vars, NEW c \in Ids, Op(c) = "close",
         NEW ok \in BOOLEAN, Reply(c, ok), ReplyOf(c, ok)
  PROVE  LET s == To(c)
         IN /\ c \in DOMAIN sent /\ c <= read' /\ s \in Ids /\ Opening(s) /\ thread[s] # "none"
            /\ Finished(s) /\ s \notin sessions
            /\ Op(s) = "open-ssh" => s \notin ssh'
<1> USE Numbers
<1>1. c \in DOMAIN sent /\ c <= read'
  BY RepliedSent, RepliersFit
<1>2. PICK s \in Ids : s = To(c) /\ Opening(s) /\ thread[s] # "none"
  <2>1. To(c) \in DOMAIN sent /\ Opening(To(c)) /\ Succeeded(To(c))
    BY <1>1 DEF Structure, Targeted, OnSession
  <2>2. To(c) \in Ids
    BY <2>1 DEF Structure, TypeOK
  <2>3. PICK i \in DOMAIN out : out[i].id = To(c) /\ out[i].ok
    BY <2>1 DEF Succeeded
  <2>4. thread[To(c)] # "none"
    BY <2>1, <2>3 DEF Structure, RepliesFit, ReplyFits
  <2> QED
    BY <2>1, <2>2, <2>4
<1>3. CASE reader = Reading /\ c = read + 1 /\ s \notin sessions
  <2>1. Up /\ Leaving = {} /\ reader.at = "reading"
    BY <1>3 DEF Up, Gone, Killed, Reading, Leaving
  <2>2. Finished(s)
    BY <1>2, <1>3, <2>1 DEF Registers, Accounted
  <2>3. Op(s) = "open-ssh" => s \notin ssh
    BY <1>2, <1>3, <2>1 DEF Registers, TunnelsDown
  <2>4. ~OpenTunnel(s)
    BY <1>2 DEF OpenTunnel, Structure, HelpersFit, HelperFits, Early
  <2> QED
    BY <1>1, <1>2, <1>3, <2>2, <2>3, <2>4, SshFrame
<1>4. CASE Joined /\ c = reader.id
  <2>1. reader.at = "joining" /\ Finished(s) /\ ssh' = IF reader.tunnelled THEN ssh \ {s} ELSE ssh
    BY <1>2, <1>4 DEF Joined, Joinable
  <2>2. Up /\ s \in Leaving
    BY <1>2, <1>4, <2>1 DEF Up, Gone, Killed, Leaving
  <2>3. s \notin sessions
    BY <2>2 DEF Registers, Accounted
  <2>4. Op(s) = "open-ssh" => reader.tunnelled
    BY <1>2, <1>4, <2>1 DEF Registers, Tunnelled
  <2> QED
    BY <1>1, <1>2, <2>1, <2>3, <2>4
<1>5. CASE reader.at = "cancelling" /\ c = reader.id
  BY <1>5 DEF Structure, ReaderFits
<1>6. CASE helper[c] # "none"
  BY <1>6 DEF Structure, HelpersFit, HelperFits, OnSession
<1>7. ASSUME NEW r \in Ids, thread[r] = "replying", job[r] = c PROVE FALSE
  BY <1>7 DEF Structure, ThreadsFit, Serving, Asked
<1> QED
  BY <1>2, <1>3, <1>4, <1>5, <1>6, <1>7 DEF ReplyOf

\* CloseDrains is kept.
LEMMA CloseStep ==
  ASSUME Structure, Registers, Queues, Kept, [Next]_vars PROVE CloseDrains'
<1> USE Numbers
<1> SUFFICES ASSUME NEW c \in DOMAIN sent', Op(c)' = "close", Replied(c)'
             PROVE  /\ \A w \in 1 .. c : Op(w)' = "work" /\ To(w)' = To(c)' => Served(w)'
                    /\ Finished(To(c))' /\ To(c)' \notin sessions'
                    /\ Op(To(c))' = "open-ssh" => To(c)' \notin ssh'
  BY DEF CloseDrains
<1>0. /\ thread \in [Ids -> {"none", "idle", "running", "replying", "ended", "dead"}]
      /\ read \in Nat /\ read <= Len(sent) /\ DOMAIN sent = 1 .. Len(sent) /\ Len(sent) \in Nat
      /\ Len(sent) <= MaxRequests
  BY DEF Structure, TypeOK
<1>1. PICK s \in Ids :
        /\ c \in Ids /\ c \in DOMAIN sent /\ Op(c) = "close" /\ To(c) = s /\ thread[s] # "none" /\ Opening(s)
        /\ Finished(s) /\ s \notin sessions /\ (Op(s) = "open-ssh" => s \notin ssh')
        /\ \A w \in Ids : w <= c /\ Op(w) = "work" /\ To(w) = s => w <= read /\ Served(w)
  <2>1. CASE Replied(c)
    <3>1. c <= read /\ c \in Ids
      <4>1. PICK i \in DOMAIN out : out[i].id = c
        BY <2>1 DEF Replied
      <4>2. c <= read
        BY <4>1 DEF Structure, RepliesFit, ReplyFits
      <4>3. out \in Seq(ReplySet)
        BY DEF Structure, TypeOK, ReplySet
      <4>4. out[i] \in ReplySet
        BY <4>1, <4>3, ElementOfSeq
      <4> QED
        BY <4>1, <4>2, <4>4 DEF ReplySet
    <3>2. c \in DOMAIN sent /\ Op(c) = "close"
      BY <3>1, ReadStays
    <3>3. PICK s \in Ids : s = To(c) /\ Opening(s)
      <4>1. To(c) \in DOMAIN sent /\ Opening(To(c))
        BY <3>2 DEF Structure, Targeted, OnSession
      <4> QED
        BY <1>0, <4>1
    <3>4. /\ \A w \in 1 .. c : Op(w) = "work" /\ To(w) = s => Served(w)
          /\ Finished(s) /\ s \notin sessions /\ (Op(s) = "open-ssh" => s \notin ssh)
      BY <2>1, <3>2, <3>3 DEF Queues, CloseDrains
    <3>5. thread[s] # "none" /\ ~OpenTunnel(s)
      BY <3>4 DEF Finished, OpenTunnel, Structure, HelpersFit, HelperFits, Early
    <3>6. Op(s) = "open-ssh" => s \notin ssh'
      BY <3>4, <3>5, SshFrame
    <3>7. ASSUME NEW w \in Ids, w <= c, Op(w) = "work", To(w) = s PROVE w <= read /\ Served(w)
      BY <1>0, <3>1, <3>4, <3>7
    <3> QED
      BY <3>1, <3>2, <3>3, <3>4, <3>5, <3>6, <3>7
  <2>2. CASE ~Replied(c)
    <3>1. PICK id \in Ids, ok \in BOOLEAN : Reply(id, ok) /\ ReplyOf(id, ok)
      <4>1. ~(out' = out)
        BY <2>2 DEF Replied
      <4> QED
        BY <4>1, Repliers
    <3>2. c = id
      BY <2>2, <3>1, ReplyTells DEF Structure
    <3>3. c \in DOMAIN sent /\ c \in Ids
      BY <3>1, <3>2, RepliedSent
    <3>4. Op(c) = "close"
      BY <3>3, ReadStays
    <3>5. /\ c <= read' /\ To(c) \in Ids /\ Opening(To(c)) /\ thread[To(c)] # "none"
          /\ Finished(To(c)) /\ To(c) \notin sessions /\ (Op(To(c)) = "open-ssh" => To(c) \notin ssh')
      BY <3>1, <3>2, <3>3, <3>4, CloseAnswered
    <3>6. c <= read + 1
      BY <1>0, <3>1, <3>2, <3>4, RepliersFit DEF Structure, HelpersFit, HelperFits
    <3>7. ASSUME NEW w \in Ids, w <= c, Op(w) = "work", To(w) = To(c) PROVE w <= read /\ Served(w)
      <4>1. w # c
        BY <3>4, <3>7
      <4>2. w <= read
        BY <1>0, <3>3, <3>6, <3>7, <4>1
      <4>3. Asked(To(c), w)
        BY <1>0, <3>7, <4>2 DEF Asked
      <4>4. ~Alive(To(c))
        BY <3>5 DEF Alive, Finished
      <4> QED
        BY <3>5, <4>2, <4>3, <4>4, NothingLeft
    <3> QED
      BY <3>3, <3>4, <3>5, <3>7
  <2> QED
    BY <2>1, <2>2
<1>2. To(c)' = s /\ Op(s)' = Op(s)
  <2>1. s <= read
    BY <1>1 DEF Structure, ThreadsFit
  <2> QED
    BY <1>1, <2>1, ReadStays
<1>3. thread'[s] \in {"ended", "dead"} /\ s \notin sessions'
  <2>1. thread'[s] = thread[s]
    BY <1>1 DEF Kept
  <2>2. ~Register(s)
    BY <1>1 DEF Register, Structure, HelpersFit, HelperFits, Early
  <2> QED
    BY <1>1, <2>1, <2>2, HelperFrame DEF Finished
<1>4. ASSUME NEW w \in 1 .. c, Op(w)' = "work", To(w)' = s PROVE Served(w)'
  <2>1. w \in Ids /\ w <= c /\ w \in DOMAIN sent
    BY <1>0, <1>1
  <2>2. Op(w) = "work" /\ To(w) = s
    BY <1>4, <2>1, ReadStays
  <2> QED
    BY <1>1, <2>1, <2>2, ServedStays
<1> QED
  BY <1>1, <1>2, <1>3, <1>4 DEF Finished, Op, To

\* ExitDrains is kept.
LEMMA ExitStep ==
  ASSUME Structure, Registers, Queues, Kept, [Next]_vars PROVE ExitDrains'
<1> USE Numbers
<1> SUFFICES ASSUME reader' = Gone, NEW w \in 1 .. read', Op(w)' = "work" PROVE Served(w)'
  BY DEF ExitDrains
<1>0. read \in Nat
  BY DEF Structure, TypeOK
<1>1. (reader = Gone \/ Exit) /\ read' = read
  <2>1. CASE reader' = reader
    <3>1. reader.at # "reading"
      BY <2>1 DEF Gone
    <3> QED
      BY <2>1, <3>1, ReaderFrame
  <2>2. CASE reader' # reader
    BY <2>2 DEF Next, Send, HangUp, Kill, Killed, Gone, vars, Helper, ThreadMoves, StatementEnds, Beside,
     Reader, DispatchWork, DispatchHelper, DispatchCancel, Cancelling, Cancel, Reading, DispatchClose, Joining,
     Joined, DispatchShutdown, EndOfInput, TakeAll, Stopping, StopSession, StopJoined, Exit
  <2> QED
    BY <2>1, <2>2
<1>2. w \in Ids /\ w <= read
  BY <1>0, <1>1, ReadStays
<1>3. Op(w) = "work" /\ w \in DOMAIN sent
  BY <1>2, ReadStays
<1>4. Served(w)
  <2>1. CASE reader = Gone
    BY <1>0, <1>2, <1>3, <2>1 DEF Queues, ExitDrains
  <2>2. CASE Exit
    <3>1. To(w) \in DOMAIN sent /\ Opening(To(w)) /\ Succeeded(To(w))
      BY <1>3 DEF Structure, Targeted, OnSession
    <3>2. PICK s \in Ids : s = To(w)
      BY <3>1 DEF Structure, TypeOK
    <3>3. Asked(s, w)
      BY <1>0, <1>2, <1>3, <3>2 DEF Asked
    <3>4. s \notin sessions
      BY <1>2, <2>2, <3>3 DEF Exit, Queues, LateUnasked
    <3>5. Up /\ Leaving = {}
      BY <2>2 DEF Exit, Up, Gone, Killed, Leaving
    <3>6. ~Alive(s)
      BY <3>4, <3>5 DEF Registers, Accounted, Alive, Finished
    <3> QED
      BY <1>2, <3>3, <3>6, NothingLeft
  <2> QED
    BY <1>1, <2>1, <2>2
<1> QED
  BY <1>2, <1>3, <1>4, ServedStays

\* The third layer is inductive, given the other two.
LEMMA QueuesStep == Structure /\ Registers /\ Queues /\ [Next]_vars => Queues'
<1> SUFFICES ASSUME Structure, Registers, Queues, [Next]_vars PROVE Queues'
  OBVIOUS
<1>1. Kept
  BY KeptStep
<1>2. \A s \in Ids : QueueInOrder(s)' /\ ShutdownOnce(s)' /\ NothingLost(s)'
  BY <1>1, QueueStep, ShutdownStep, LossStep
<1>3. LateUnasked' /\ ServedInOrder' /\ CloseDrains' /\ ExitDrains'
  BY <1>1, LateStep, OrderStep, CloseStep, ExitStep
<1> QED
  BY <1>2, <1>3 DEF Queues

\* It holds at the start.
LEMMA QueuesInit == Init => Queues
<1> SUFFICES ASSUME Init PROVE Queues
  OBVIOUS
<1> USE DEF Init
<1>1. DOMAIN sent = {} /\ DOMAIN out = {} /\ reader.at = "reading" /\ reader # Gone
      /\ \A s \in Ids : DOMAIN queue[s] = {} /\ queue[s] = <<>> /\ thread[s] = "none"
  BY DEF Reading, Gone
<1>2. \A s \in Ids : QueueInOrder(s) /\ ShutdownOnce(s)
  BY <1>1 DEF QueueInOrder, ShutdownOnce, Waiting, Serving
<1>3. \A s \in Ids : NothingLost(s)
  <2>1. \A s, w \in Ids : ~Asked(s, w)
    BY Numbers DEF Asked
  <2> QED
    BY <2>1 DEF NothingLost
<1>4. LateUnasked /\ ServedInOrder /\ CloseDrains /\ ExitDrains
  BY <1>1 DEF LateUnasked, ServedInOrder, CloseDrains, ExitDrains
<1> QED
  BY <1>2, <1>3, <1>4 DEF Queues

-----------------------------------------------------------------------------
(* The theorems.                                                              *)

\* The inductive invariant holds in every state the daemon reaches, whatever the
\* number of requests, the operations sent and the sessions that are slow.
THEOREM DaemonSafety == Spec => []IInv
<1>1. Init => IInv
  BY StructureInit, RegistersInit, QueuesInit DEF IInv
<1>2. IInv /\ [Next]_vars => IInv'
  BY StructureStep, RegistersStep, QueuesStep DEF IInv
<1> QED
  BY <1>1, <1>2, PTL DEF Spec

\* Every variable stays in its type; a session runs one statement at most.
THEOREM DaemonTypes == Spec => []TypeOK
<1>1. IInv => TypeOK
  BY DEF IInv, Structure
<1> QED
  BY <1>1, DaemonSafety, PTL

\* An ssh process outlives the sessions that go through it: it is not taken down
\* by a close, an exit or a tunnel-close while a thread can still use it.
THEOREM TunnelsOutlive == Spec => []TunnelOutlivesSession
<1>1. IInv => TunnelOutlivesSession
  BY DEF IInv, Registers, Tunnelled
<1> QED
  BY <1>1, DaemonSafety, PTL

\* The registry's sessions and tunnels agree, although closing a tunnel touches
\* the process and the registry in two steps.
THEOREM RegistryAgrees == Spec => []RegistryPaired
<1>1. IInv => RegistryPaired
  BY DEF IInv, Registers, Tunnelled
<1> QED
  BY <1>1, DaemonSafety, PTL

\* Replies for a session come in the order it was asked, each request once.
THEOREM RepliesInOrder == Spec => []ServedInOrder
<1>1. IInv => ServedInOrder
  BY DEF IInv, Queues
<1> QED
  BY <1>1, DaemonSafety, PTL

\* An answered close has drained its session and taken its tunnel down.
THEOREM CloseServesAll == Spec => []CloseDrains
<1>1. IInv => CloseDrains
  BY DEF IInv, Queues
<1> QED
  BY <1>1, DaemonSafety, PTL

\* A daemon that exits by itself has served all the session work it had read.
THEOREM ExitServesAll == Spec => []ExitDrains
<1>1. IInv => ExitDrains
  BY DEF IInv, Queues
<1> QED
  BY <1>1, DaemonSafety, PTL

=============================================================================
