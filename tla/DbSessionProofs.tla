--------------------------- MODULE DbSessionProofs ---------------------------
(***************************************************************************)
(* Proofs about DbSession, for every set of writes, backends and access    *)
(* levels and every batch size.                                            *)
(*                                                                         *)
(* The argument has two layers.  Moves says what one or several statements *)
(* can do to the server; the lemmas of the first part show it of each      *)
(* statement the adapter issues, and that it composes.  The second part    *)
(* derives from it that each action preserves IInv.  The third reads the   *)
(* steps of the server as steps of AtomicBatches.                          *)
(***************************************************************************)
EXTENDS DbSession, TLAPS

\* A server state in which only a transaction has dirty writes.
Sound(d) ==
  /\ d \in Servers
  /\ ~InTxn(d) => d.dirty = {}
  /\ d.dirty \cap d.durable = {}

\* From d to e, with W the writes issued on the way: what was dirty is kept,
\* saved or dropped as a whole, and nothing durable is lost.
Moves(d, e, W) ==
  /\ Sound(e)
  /\ \/ e.durable \ W = d.durable /\ e.dirty \ W = d.dirty
     \/ e.durable \ W = d.durable /\ e.dirty \ W = {}
     \/ e.durable \ W = d.durable \cup d.dirty /\ e.dirty \ W = {}

-----------------------------------------------------------------------------
(* What the statements do.                                                  *)

\* No statement, no move.
LEMMA Stays ==
  ASSUME NEW d, Sound(d)
  PROVE  Moves(d, d, {})
BY DEF Moves

LEMMA MovesSound ==
  ASSUME NEW d, NEW e, NEW W, Moves(d, e, W)
  PROVE  Sound(e)
BY DEF Moves

\* Two moves with the same new write make one.
LEMMA MovesTwice ==
  ASSUME NEW d, NEW e, NEW f, NEW W, Moves(d, e, W), Moves(e, f, W)
  PROVE  Moves(d, f, W)
BY DEF Moves, Sound

\* A move that issues no write is one that issues at most W, as long as W is
\* new to the server.
LEMMA MovesWiden ==
  ASSUME NEW d, NEW e, NEW W, Moves(d, e, {}),
         W \cap (d.dirty \cup d.durable) = {}
  PROVE  Moves(d, e, W)
BY DEF Moves, Sound

LEMMA ServerIs ==
  ASSUME NEW txn \in TxnStates, NEW dirty \in SUBSET Writes, NEW durable \in SUBSET Writes
  PROVE  /\ Server(txn, dirty, durable) \in Servers
         /\ Server(txn, dirty, durable).txn = txn
         /\ Server(txn, dirty, durable).dirty = dirty
         /\ Server(txn, dirty, durable).durable = durable
BY DEF Server, Servers

LEMMA Fields ==
  ASSUME NEW d, Sound(d)
  PROVE  d.txn \in TxnStates /\ d.dirty \in SUBSET Writes /\ d.durable \in SUBSET Writes
BY DEF Sound, Servers

\* A transaction may end by dropping its writes or by saving them.
LEMMA EndedMoves ==
  ASSUME NEW d, Sound(d)
  PROVE  /\ Moves(d, Ended(d.durable), {}) /\ ~InTxn(Ended(d.durable))
         /\ Ended(d.durable).dirty = {} /\ Ended(d.durable).durable = d.durable
BY Fields, ServerIs DEF Ended, Moves, Sound, InTxn, TxnStates

LEMMA SavedMoves ==
  ASSUME NEW d, Sound(d)
  PROVE  /\ Moves(d, Ended(d.durable \cup d.dirty), {})
         /\ ~InTxn(Ended(d.durable \cup d.dirty))
         /\ Ended(d.durable \cup d.dirty).durable = d.durable \cup d.dirty
         /\ Moves(d, Lost(d.durable \cup d.dirty), {})
BY Fields, ServerIs DEF Ended, Lost, Moves, Sound, InTxn, TxnStates

LEMMA LostMoves ==
  ASSUME NEW d, Sound(d)
  PROVE  /\ Moves(d, Lost(d.durable), {}) /\ Lost(d.durable).txn = "lost"
         /\ Lost(d.durable).dirty = {} /\ Lost(d.durable).durable = d.durable
BY Fields, ServerIs DEF Lost, Moves, Sound, InTxn, TxnStates

LEMMA DropsMove ==
  ASSUME NEW d, Sound(d), NEW r \in Drops(d)
  PROVE  /\ Moves(d, r.db, {}) /\ r.ok = FALSE
         /\ r.db.durable = d.durable /\ r.db.dirty = {} /\ r.db.txn = "lost"
<1>1. r = Err(Lost(d.durable))
  BY DEF Drops
<1>2. QED
  BY <1>1, LostMoves DEF Ok, Err

LEMMA FailuresMove ==
  ASSUME NEW d, Sound(d), NEW r \in Failures(d)
  PROVE  Moves(d, r.db, {}) /\ r.ok = FALSE /\ r.db.durable = d.durable
<1>1. \/ r \in Drops(d)
      \/ r = Err(d)
      \/ r = Err(Ended(d.durable))
      \/ d.txn = "open" /\ r = Err(Server("aborted", d.dirty, d.durable))
  BY DEF Failures
<1>2. CASE r \in Drops(d)
  BY <1>2, DropsMove
<1>3. CASE r = Err(d)
  BY <1>3, Stays DEF Ok, Err
<1>4. CASE r = Err(Ended(d.durable))
  BY <1>4, EndedMoves DEF Ok, Err
<1>5. CASE d.txn = "open" /\ r = Err(Server("aborted", d.dirty, d.durable))
  <2>1. /\ r.db \in Servers /\ r.db.txn = "aborted" /\ r.db.dirty = d.dirty
        /\ r.db.durable = d.durable /\ r.ok = FALSE
    BY <1>5, Fields, ServerIs DEF Ok, Err, TxnStates
  <2>2. QED
    BY <1>5, <2>1 DEF Moves, Sound, InTxn
<1>6. QED
  BY <1>1, <1>2, <1>3, <1>4, <1>5

LEMMA ReadMoves ==
  ASSUME NEW d, Sound(d), NEW r \in RunRead(d)
  PROVE  Moves(d, r.db, {}) /\ r.ok \in BOOLEAN /\ r.db.durable = d.durable
<1>1. r \in Failures(d) \/ r = Ok(d)
  BY DEF RunRead
<1>2. CASE r \in Failures(d)
  BY <1>2, FailuresMove
<1>3. CASE r = Ok(d)
  BY <1>3, Stays DEF Ok
<1>4. QED
  BY <1>1, <1>2, <1>3

LEMMA BeginMoves ==
  ASSUME NEW d, Sound(d), NEW r \in RunBegin(d)
  PROVE  /\ Moves(d, r.db, {}) /\ r.ok \in BOOLEAN
         /\ r.ok => r.db.txn = "open"
         /\ d.txn = "idle" => r.db.durable = d.durable /\ (~r.ok => r.db.txn = "lost")
<1>1. \/ r \in Drops(d)
      \/ d.txn = "idle" /\ r = Ok(Server("open", d.dirty, d.durable))
      \/ d.txn = "open" /\ r = Ok(d)
      \/ d.txn = "open" /\ r = Ok(Server("open", {}, d.durable \cup d.dirty))
      \/ d.txn # "idle" /\ r = Err(d)
  BY Fields DEF RunBegin, TxnStates
<1>2. CASE r \in Drops(d)
  BY <1>2, DropsMove
<1>3. CASE d.txn = "idle" /\ r = Ok(Server("open", d.dirty, d.durable))
  <2>1. /\ r.db \in Servers /\ r.db.txn = "open" /\ r.db.dirty = d.dirty
        /\ r.db.durable = d.durable /\ r.ok = TRUE
    BY <1>3, Fields, ServerIs DEF Ok, Err, TxnStates
  <2>2. Moves(d, r.db, {})
    BY <1>3, <2>1 DEF Moves, Sound, InTxn
  <2>3. QED
    BY <1>3, <2>1, <2>2
<1>4. CASE d.txn = "open" /\ r = Ok(d)
  BY <1>4, Stays DEF Ok, Err
<1>5. CASE d.txn = "open" /\ r = Ok(Server("open", {}, d.durable \cup d.dirty))
  <2>1. /\ r.db \in Servers /\ r.db.txn = "open" /\ r.db.dirty = {}
        /\ r.db.durable = d.durable \cup d.dirty /\ r.ok = TRUE
    BY <1>5, Fields, ServerIs DEF Ok, Err, TxnStates
  <2>2. Moves(d, r.db, {})
    BY <1>5, <2>1 DEF Moves, Sound, InTxn
  <2>3. QED
    BY <1>5, <2>1, <2>2
<1>6. CASE d.txn # "idle" /\ r = Err(d)
  BY <1>6, Stays DEF Ok, Err
<1>7. QED
  BY <1>1, <1>2, <1>3, <1>4, <1>5, <1>6

LEMMA CommitMoves ==
  ASSUME NEW d, Sound(d), NEW r \in RunCommit(d)
  PROVE  /\ Moves(d, r.db, {}) /\ r.ok \in BOOLEAN
         /\ r.ok => ~InTxn(r.db)
         /\ r.ok /\ d.txn = "open" => r.db.durable = d.durable \cup d.dirty
<1>1. \/ r \in Drops(d)
      \/ d.txn = "open" /\ r = Ok(Ended(d.durable \cup d.dirty))
      \/ d.txn = "open" /\ r = Err(Lost(d.durable \cup d.dirty))
      \/ r = Err(Ended(d.durable))
      \/ d.txn = "aborted" /\ r = Ok(Ended(d.durable))
      \/ d.txn = "idle" /\ r = Ok(d)
      \/ r = Err(d)
  BY Fields DEF RunCommit, TxnStates
<1>2. CASE r \in Drops(d)
  BY <1>2, DropsMove
<1>3. CASE d.txn = "open" /\ r = Ok(Ended(d.durable \cup d.dirty))
  BY <1>3, SavedMoves DEF Ok, Err
<1>4. CASE r = Err(Lost(d.durable \cup d.dirty))
  BY <1>4, SavedMoves DEF Err
<1>5. CASE r = Err(Ended(d.durable))
  BY <1>5, EndedMoves DEF Err
<1>6. CASE d.txn = "aborted" /\ r = Ok(Ended(d.durable))
  BY <1>6, EndedMoves DEF Ok, Err
<1>7. CASE d.txn = "idle" /\ r = Ok(d)
  BY <1>7, Stays DEF Ok, Err, InTxn
<1>8. CASE r = Err(d)
  BY <1>8, Stays DEF Ok, Err
<1>9. QED
  BY <1>1, <1>2, <1>3, <1>4, <1>5, <1>6, <1>7, <1>8

\* However a rollback goes, no transaction is left and nothing was saved.
LEMMA RollbackMoves ==
  ASSUME NEW d, Sound(d), NEW r \in RunRollback(d)
  PROVE  /\ Moves(d, r.db, {}) /\ r.ok \in BOOLEAN
         /\ ~InTxn(r.db)
         /\ r.db.dirty = {} /\ r.db.durable = d.durable
<1>1. \/ r \in Drops(d)
      \/ r = Ok(Ended(d.durable))
      \/ ~InTxn(d) /\ r \in {Ok(d), Err(d)}
  BY Fields DEF RunRollback, TxnStates, InTxn
<1>2. CASE r \in Drops(d)
  BY <1>2, DropsMove DEF InTxn
<1>3. CASE r = Ok(Ended(d.durable))
  BY <1>3, EndedMoves DEF Ok, Err
<1>4. CASE ~InTxn(d) /\ r = Ok(d)
  BY <1>4, Stays DEF Ok, Sound
<1>5. CASE ~InTxn(d) /\ r = Err(d)
  BY <1>5, Stays DEF Err, Sound
<1>6. QED
  BY <1>1, <1>2, <1>3, <1>4, <1>5

\* A write succeeds by becoming durable or dirty, and fails without trace.
LEMMA WriteMoves ==
  ASSUME NEW d, Sound(d), NEW w \in Writes, w \notin d.dirty \cup d.durable,
         NEW r \in RunWrite(d, w)
  PROVE  /\ Moves(d, r.db, {w}) /\ r.ok \in BOOLEAN
         /\ ~r.ok => Moves(d, r.db, {}) /\ r.db.durable = d.durable
         /\ r.ok => d.txn \in {"idle", "open"} /\ r.db.txn = d.txn
         /\ r.ok /\ d.txn = "open" =>
              r.db.dirty = d.dirty \cup {w} /\ r.db.durable = d.durable
<1>1. \/ r \in Failures(d)
      \/ d.txn = "idle" /\ r = Ok(Server("idle", d.dirty, d.durable \cup {w}))
      \/ d.txn = "open" /\ r = Ok(Server("open", d.dirty \cup {w}, d.durable))
  BY Fields DEF RunWrite, TxnStates
<1>2. CASE r \in Failures(d)
  BY <1>2, FailuresMove, MovesWiden
<1>3. CASE d.txn = "idle" /\ r = Ok(Server("idle", d.dirty, d.durable \cup {w}))
  <2>1. /\ r.db \in Servers /\ r.db.txn = "idle" /\ r.db.dirty = d.dirty
        /\ r.db.durable = d.durable \cup {w} /\ r.ok = TRUE
    BY <1>3, Fields, ServerIs DEF Ok, Err, TxnStates
  <2>2. Moves(d, r.db, {w})
    BY <1>3, <2>1 DEF Moves, Sound, InTxn
  <2>3. QED
    BY <1>3, <2>1, <2>2
<1>4. CASE d.txn = "open" /\ r = Ok(Server("open", d.dirty \cup {w}, d.durable))
  <2>1. /\ r.db \in Servers /\ r.db.txn = "open" /\ r.db.dirty = d.dirty \cup {w}
        /\ r.db.durable = d.durable /\ r.ok = TRUE
    BY <1>4, Fields, ServerIs DEF Ok, Err, TxnStates
  <2>2. Moves(d, r.db, {w})
    BY <1>4, <2>1 DEF Moves, Sound, InTxn
  <2>3. QED
    BY <1>4, <2>1, <2>2
<1>5. QED
  BY <1>1, <1>2, <1>3, <1>4

LEMMA DdlMoves ==
  ASSUME NEW d, Sound(d), NEW w \in Writes, w \notin d.dirty \cup d.durable,
         NEW r \in RunDdl(d, w)
  PROVE  Moves(d, r.db, {w}) /\ r.ok \in BOOLEAN
<1>1. \/ r \in RunWrite(d, w)
      \/ r \in Drops(d)
      \/ r = Ok(Ended(d.durable \cup d.dirty \cup {w}))
      \/ r = Err(Ended(d.durable \cup d.dirty))
  BY DEF RunDdl
<1>2. CASE r = Ok(Ended(d.durable \cup d.dirty \cup {w}))
  <2>1. /\ r.db \in Servers /\ r.db.txn = "idle" /\ r.db.dirty = {}
        /\ r.db.durable = d.durable \cup d.dirty \cup {w} /\ r.ok = TRUE
    BY <1>2, Fields, ServerIs DEF Ok, Err, Ended, TxnStates
  <2>2. Moves(d, r.db, {w})
    BY <2>1 DEF Moves, Sound, InTxn
  <2>3. QED
    BY <2>1, <2>2
<1>3. CASE r = Err(Ended(d.durable \cup d.dirty))
  BY <1>3, SavedMoves, MovesWiden DEF Ok, Err
<1>4. CASE r \in Drops(d)
  BY <1>4, DropsMove, MovesWiden
<1>5. QED
  BY <1>1, <1>2, <1>3, <1>4, WriteMoves

-----------------------------------------------------------------------------
(* What the actions preserve.                                               *)

\* IInv, but for the agreement of the flag and the server.
Held ==
  /\ TypeOK
  /\ WritesAccounted
  /\ BatchCovered
  /\ BatchesWhole
  /\ AppliedIsSaved
  /\ OriginsContained
  /\ ReadOnlyKeepsOut

\* A step moves the server, and what it issues on the way is new.
Settling == \E W \in SUBSET Writes : (\A w \in W : Fresh(w)) /\ Moves(db, db', W)

LEMMA HeldIsSound ==
  ASSUME Held
  PROVE  Sound(db) /\ Moves(db, db, {})
BY Stays DEF Held, TypeOK, WritesAccounted, Sound

\* A write nobody issued is new to the server.
LEMMA FreshIsNew ==
  ASSUME Held, NEW w \in Writes, Fresh(w)
  PROVE  /\ w \notin db.dirty \cup db.durable
         /\ w \notin refused /\ w \notin promised
         /\ \A b \in batches : w \notin b
         /\ w \notin op.done
BY DEF Held, WritesAccounted

\* Whole in e: the batch b is durable, in the open transaction, or gone.
Whole(b, e) ==
  \/ b \subseteq e.durable
  \/ b \cap e.durable = {} /\ b \subseteq e.dirty
  \/ b \cap e.durable = {} /\ b \cap e.dirty = {}

\* Finished batches stay whole, failed ones stay out and saved ones stay in,
\* whatever the server does while it takes fresh writes.
LEMMA BatchesKept ==
  ASSUME Held, NEW W \in SUBSET Writes, \A w \in W : Fresh(w), Moves(db, db', W)
  PROVE  /\ \A b \in batches : Whole(b, db')
         /\ refused \cap (db'.dirty \cup db'.durable) = {}
         /\ promised \subseteq db'.durable
<1>0. /\ \A w \in W : w \notin db.dirty \cup db.durable
      /\ \A w \in W : w \notin refused \cup promised
      /\ \A b \in batches : b \cap W = {}
  BY FreshIsNew
<1>1. ASSUME NEW b \in batches
      PROVE  Whole(b, db')
  <2>1. Whole(b, db)
    BY DEF Held, BatchesWhole, Whole
  <2>2. b \cap W = {}
    BY <1>0
  <2>3. QED
    BY <2>1, <2>2 DEF Moves, Sound, Whole
<1>2. refused \cap (db'.dirty \cup db'.durable) = {}
  BY <1>0 DEF Held, BatchesWhole, Moves
<1>3. promised \subseteq db'.durable
  BY <1>0 DEF Held, AppliedIsSaved, Moves
<1>4. QED
  BY <1>1, <1>2, <1>3

\* A step that starts outside a batch, moves the server and issues the writes
\* W keeps the invariant, if W are not writes of a batch and those only to be
\* explained do not last.
Quiet(W) ==
  /\ op = NoOp
  /\ op' \in Applies \cup {NoOp} /\ op'.done = {} /\ BatchCovered'
  /\ UNCHANGED <<fixed, batches, refused, promised>>
  /\ flag' \in BOOLEAN /\ last' \in [op : OpNames, ended : Endings]
  /\ origin' \in [Writes -> Origins]
  /\ \A w \in Writes \ W : origin'[w] = origin[w]
  /\ \A w \in W : origin'[w].by \in {"query", "analysis", "plan"}
  /\ \A w \in W : origin'[w].by = "analysis" /\ origin'[w].trust = "clear" =>
                    w \notin db'.dirty \cup db'.durable
  /\ access = "read" => \A w \in W : origin'[w].rows \/ origin'[w].by = "plan"
  /\ Moves(db, db', W)

LEMMA QuietHolds ==
  ASSUME Held, NEW W \in SUBSET Writes, \A w \in W : Fresh(w), Quiet(W)
  PROVE  Held' /\ Settling
<1> USE DEF Quiet
<1>1. Sound(db')
  BY DEF Moves
<1>2. TypeOK'
  BY <1>1 DEF Held, TypeOK, Sound, fixed
<1>3. WritesAccounted'
  <2>1. ASSUME NEW w \in Writes, Fresh(w)'
        PROVE  w \notin W /\ Fresh(w)
    BY <2>1 DEF Fresh
  <2>2. \A w \in Writes : Fresh(w)' =>
          w \notin db'.dirty \cup db'.durable \cup refused' \cup promised' \cup op'.done
    BY <2>1 DEF Held, WritesAccounted, Moves, NoOp
  <2>3. \A b \in batches' : \A w \in b : ~Fresh(w)'
    BY <2>1, <1>2 DEF Held, WritesAccounted, TypeOK
  <2>4. QED
    BY <1>1, <2>2, <2>3 DEF WritesAccounted, Sound
<1>4. BatchesWhole' /\ AppliedIsSaved'
  BY BatchesKept DEF BatchesWhole, AppliedIsSaved, Whole
<1>5. OriginsContained'
  BY <1>1 DEF Held, TypeOK, OriginsContained, Moves, NoOp, fixed, Sound, Servers
<1>6. ReadOnlyKeepsOut'
  BY <1>1 DEF Held, TypeOK, ReadOnlyKeepsOut, Moves, fixed, Sound, Servers
<1>7. Settling
  BY DEF Settling
<1>8. QED
  BY <1>2, <1>3, <1>4, <1>5, <1>6, <1>7 DEF Held

\* A step that ends a batch, or finds none, leaves no transaction and adds
\* nothing durable keeps the invariant; the batch, if it began in agreement,
\* and fresh writes may be reported as failed.
Dropped(W) ==
  /\ op' = NoOp
  /\ UNCHANGED <<fixed, batches, promised>>
  /\ flag' \in BOOLEAN /\ last' \in [op : OpNames, ended : Endings]
  /\ Sound(db') /\ ~InTxn(db') /\ db'.durable = db.durable
  /\ origin' \in [Writes -> Origins]
  /\ \A w \in Writes \ W : origin'[w] = origin[w]
  /\ \A w \in W : origin'[w].by # "none"
  /\ \/ refused' = refused
     \/ refused' = refused \cup op.done \cup W /\ op.kind = "apply" /\ op.sync

LEMMA DroppedHolds ==
  ASSUME Held, NEW W \in SUBSET Writes, \A w \in W : Fresh(w), Dropped(W)
  PROVE  Held' /\ Settling
<1> USE DEF Dropped
<1>1. db'.dirty = {} /\ db' \in Servers
  BY DEF Sound
<1>2. \A w \in W : w \notin db.dirty \cup db.durable
  BY FreshIsNew
<1>3. op.kind = "apply" /\ op.sync => op.done \subseteq db.dirty
  BY DEF Held, BatchCovered
<1>4. refused' \cap db.durable = {}
  BY <1>2, <1>3 DEF Held, BatchesWhole, WritesAccounted
<1>5. TypeOK'
  <2>1. op.done \in SUBSET Writes /\ refused \in SUBSET Writes
    BY DEF Held, TypeOK, Applies, NoOp
  <2>2. refused' \in SUBSET Writes
    BY <2>1
  <2>3. QED
    BY <1>1, <2>2 DEF Held, TypeOK, fixed
<1>6. WritesAccounted'
  <2>1. ASSUME NEW w \in Writes, Fresh(w)'
        PROVE  w \notin W /\ Fresh(w)
    BY <2>1 DEF Fresh
  <2>2. \A w \in Writes : Fresh(w)' =>
          w \notin db'.dirty \cup db'.durable \cup refused' \cup promised' \cup op'.done
    BY <2>1, <1>1 DEF Held, WritesAccounted, NoOp
  <2>3. \A b \in batches' : \A w \in b : ~Fresh(w)'
    BY <2>1, <1>5 DEF Held, WritesAccounted, TypeOK
  <2>4. QED
    BY <1>1, <2>2, <2>3 DEF WritesAccounted
<1>7. BatchCovered'
  BY DEF BatchCovered, NoOp
<1>8. BatchesWhole'
  BY <1>1, <1>4 DEF Held, BatchesWhole
<1>9. AppliedIsSaved'
  BY DEF Held, AppliedIsSaved
<1>10. OriginsContained'
  <2>1. ASSUME NEW w \in db.durable
        PROVE  w \in Writes /\ w \notin W /\ w \notin db.dirty /\ origin'[w] = origin[w]
    BY <1>2 DEF Held, TypeOK, Servers, WritesAccounted
  <2>2. QED
    BY <1>1, <1>3, <2>1 DEF Held, OriginsContained, fixed
<1>11. ReadOnlyKeepsOut'
  <2>1. ASSUME NEW w \in db.durable
        PROVE  w \in Writes /\ w \notin W /\ origin'[w] = origin[w]
    BY <1>2 DEF Held, TypeOK, Servers
  <2>2. QED
    BY <1>1, <2>1 DEF Held, ReadOnlyKeepsOut, fixed
<1>12. Moves(db, db', {})
  BY <1>1 DEF Moves
<1>13. Settling
  <2>1. \A w \in {} : Fresh(w)
    OBVIOUS
  <2>2. QED
    BY <1>12, <2>1 DEF Settling
<1>14. QED
  BY <1>5, <1>6, <1>7, <1>8, <1>9, <1>10, <1>11, <1>13 DEF Held

-----------------------------------------------------------------------------
(* The actions, one lemma each.                                             *)

\* The part of Quiet that most actions have in common.
LEMMA Unissued ==
  ASSUME Held, op = NoOp, op' = op, UNCHANGED <<fixed, history>>,
         flag' \in BOOLEAN, last' \in [op : OpNames, ended : Endings],
         Moves(db, db', {})
  PROVE  Held' /\ Settling
<1>1. Quiet({})
  BY DEF Quiet, Held, TypeOK, BatchCovered, NoOp, history
<1>2. QED
  BY <1>1, QuietHolds

LEMMA BeginHolds ==
  ASSUME IInv, Begin
  PROVE  IInv' /\ Settling
<1>1. Held
  BY DEF IInv, Held
<1>2. CASE flag /\ Answer("begin", "refused") /\ UNCHANGED <<flag, db>>
  <2>1. Held' /\ Settling
    BY <1>1, <1>2, HeldIsSound, Unissued
       DEF Begin, Answer, Held, TypeOK, OpNames, Endings, fixed, history
  <2>2. ~Settles'
    BY <1>2 DEF Settles, Answer
  <2>3. QED
    BY <2>1, <2>2 DEF IInv, Held, FlagTracksServer
<1>3. CASE ~flag /\ \E r \in RunBegin(db) : db' = r.db /\ flag' = r.ok /\ AnswerBy("begin", r)
  <2>1. PICK r \in RunBegin(db) : db' = r.db /\ flag' = r.ok /\ AnswerBy("begin", r)
    BY <1>3
  <2>2. /\ Moves(db, db', {}) /\ r.ok \in BOOLEAN
        /\ r.ok => db'.txn = "open"
    BY <1>1, <2>1, HeldIsSound, BeginMoves
  <2>3. last' = [op |-> "begin", ended |-> IF r.ok THEN "ok" ELSE "failed"]
    BY <2>1 DEF Answer, AnswerBy
  <2>4. Held' /\ Settling
    BY <1>1, <2>1, <2>2, <2>3, Unissued DEF Begin, OpNames, Endings
  <2>5. FlagTracksServer'
    BY <2>1, <2>2, <2>3 DEF FlagTracksServer, Settles, Agreed, InTxn
  <2>6. QED
    BY <2>4, <2>5 DEF IInv, Held
<1>4. QED
  BY <1>2, <1>3 DEF Begin

\* Commit and Rollback: Results stands for what the statement can do.
LEMMA FinishHolds ==
  ASSUME IInv, NEW name \in {"commit", "rollback"}, NEW Results, Finish(name, Results),
         \A r \in Results : Moves(db, r.db, {}) /\ r.ok \in BOOLEAN /\ (r.ok => ~InTxn(r.db))
  PROVE  IInv' /\ Settling
<1>1. Held
  BY DEF IInv, Held
<1>2. CASE ~flag /\ Answer(name, "refused") /\ UNCHANGED <<flag, db>>
  <2>1. Held' /\ Settling
    BY <1>1, <1>2, HeldIsSound, Unissued
       DEF Finish, Answer, Held, TypeOK, OpNames, Endings, fixed, history
  <2>2. ~Settles'
    BY <1>2 DEF Settles, Answer
  <2>3. QED
    BY <2>1, <2>2 DEF IInv, Held, FlagTracksServer
<1>3. CASE flag /\ \E r \in Results : db' = r.db /\ flag' = ~r.ok /\ AnswerBy(name, r)
  <2>1. PICK r \in Results : db' = r.db /\ flag' = ~r.ok /\ AnswerBy(name, r)
    BY <1>3
  <2>2. Moves(db, db', {}) /\ r.ok \in BOOLEAN /\ (r.ok => ~InTxn(db'))
    BY <2>1
  <2>3. last' = [op |-> name, ended |-> IF r.ok THEN "ok" ELSE "failed"]
    BY <2>1 DEF Answer, AnswerBy
  <2>4. Held' /\ Settling
    BY <1>1, <2>1, <2>2, <2>3, Unissued DEF Finish, OpNames, Endings
  <2>5. FlagTracksServer'
    BY <2>1, <2>2, <2>3 DEF FlagTracksServer, Settles, Agreed, InTxn
  <2>6. QED
    BY <2>4, <2>5 DEF IInv, Held
<1>4. QED
  BY <1>2, <1>3 DEF Finish

LEMMA CommitHolds ==
  ASSUME IInv, Commit
  PROVE  IInv' /\ Settling
<1>1. Sound(db)
  BY HeldIsSound DEF IInv, Held
<1>2. QED
  BY <1>1, FinishHolds, CommitMoves DEF Commit

LEMMA RollbackHolds ==
  ASSUME IInv, Rollback
  PROVE  IInv' /\ Settling
<1>1. Sound(db)
  BY HeldIsSound DEF IInv, Held
<1>2. QED
  BY <1>1, FinishHolds, RollbackMoves DEF Rollback

\* Answers that settle nothing leave FlagTracksServer without a claim.
LEMMA Unsettled ==
  ASSUME Held', last'.op \in {"query", "stream", "inspect", "explain", "join"} \/
                last'.ended \in {"refused", "unsettled"} \/ op' # NoOp
  PROVE  IInv'
BY DEF Held, IInv, FlagTracksServer, Settles

LEMMA FromIs ==
  ASSUME NEW by \in {"none", "query", "apply", "analysis", "plan"}, NEW class,
         NEW trust \in {"any", "clear", "held", "stale"}
  PROVE  /\ From(by, class, trust) \in Origins
         /\ From(by, class, trust).by = by
         /\ access = "read" /\ class = "with" => From(by, class, trust).rows
         /\ From(by, class, trust).trust = trust
BY DEF From, Origins

LEMMA TrustIs ==
  ASSUME flag \in BOOLEAN
  PROVE  /\ Trust \in {"clear", "held", "stale"}
         /\ Trust = "clear" <=> ~flag
         /\ flag => (Trust = "held" <=> InTxn(db))
BY DEF Trust

\* What a statement of any class does to the server.
LEMMA TypedMoves ==
  ASSUME Sound(db), NEW class \in Classes, NEW w \in Writes, w \notin db.dirty \cup db.durable,
         NEW r \in Typed(class, w)
  PROVE  /\ r.ok \in BOOLEAN
         /\ class \in Writing => Moves(db, r.db, {w})
         /\ class \notin Writing => Moves(db, r.db, {})
<1> USE DEF Writing
<1>1. CASE class = "read"
  BY <1>1, ReadMoves DEF Typed
<1>2. CASE class \in {"write", "with"}
  BY <1>2, WriteMoves DEF Typed
<1>3. CASE class = "ddl"
  BY <1>3, DdlMoves DEF Typed
<1>4. CASE class = "begin"
  BY <1>4, BeginMoves DEF Typed
<1>5. CASE class = "commit"
  BY <1>5, CommitMoves DEF Typed
<1>6. CASE class = "rollback"
  BY <1>6, RollbackMoves DEF Typed
<1>7. QED
  BY <1>1, <1>2, <1>3, <1>4, <1>5, <1>6 DEF Classes

\* Handing a typed statement to the server, as a query or as an export.
LEMMA HandHolds ==
  ASSUME IInv, op = NoOp, NEW name \in {"query", "stream"}, Hand(name)
  PROVE  IInv' /\ Settling
<1>1. Held /\ Sound(db)
  BY HeldIsSound DEF IInv, Held
<1>2. PICK class \in Classes, w \in Writes :
        /\ Fresh(w)
        /\ \/ /\ ~Allowed(class)
              /\ Answer(name, "refused")
              /\ UNCHANGED <<db, origin>>
           \/ /\ Allowed(class)
              /\ \E r \in Typed(class, w) : db' = r.db /\ AnswerBy(name, r)
              /\ origin' = IF class \in Writing
                           THEN [origin EXCEPT ![w] = From("query", class, "any")]
                           ELSE origin
  BY DEF Hand
<1>3. w \notin db.dirty \cup db.durable
  BY <1>1, <1>2, FreshIsNew
<1>4. op' = op /\ UNCHANGED <<flag, batches, refused, promised, fixed>>
  BY DEF Hand
<1>5. CASE ~Allowed(class) /\ Answer(name, "refused") /\ UNCHANGED <<db, origin>>
  <2>1. Held' /\ Settling
    BY <1>1, <1>4, <1>5, HeldIsSound, Unissued
       DEF Answer, Held, TypeOK, OpNames, Endings, history
  <2>2. QED
    BY <1>5, <2>1, Unsettled DEF Answer
<1>6. CASE /\ Allowed(class)
           /\ \E r \in Typed(class, w) : db' = r.db /\ AnswerBy(name, r)
           /\ origin' = IF class \in Writing
                        THEN [origin EXCEPT ![w] = From("query", class, "any")]
                        ELSE origin
  <2>1. PICK r \in Typed(class, w) : db' = r.db /\ AnswerBy(name, r)
    BY <1>6
  <2>2. /\ r.ok \in BOOLEAN
        /\ class \in Writing => Moves(db, db', {w})
        /\ class \notin Writing => Moves(db, db', {})
    BY <1>1, <1>3, <2>1, TypedMoves
  <2>3. last' \in [op : OpNames, ended : Endings] /\ last'.op = name
    BY <2>1, <2>2 DEF Answer, AnswerBy, OpNames, Endings
  <2>4. CASE class \notin Writing
    BY <1>1, <1>4, <1>6, <2>2, <2>3, <2>4, Unissued, Unsettled
       DEF Held, TypeOK, history
  <2>5. CASE class \in Writing
    <3>1. access = "read" => class = "with"
      BY <1>6, <2>5 DEF Allowed, Writing
    <3>2. /\ origin' \in [Writes -> Origins]
          /\ \A v \in Writes \ {w} : origin'[v] = origin[v]
          /\ origin'[w].by = "query" /\ (access = "read" => origin'[w].rows)
      BY <1>1, <1>6, <2>5, <3>1, FromIs DEF Held, TypeOK
    <3>3. Quiet({w})
      BY <1>1, <1>4, <2>2, <2>3, <2>5, <3>2
         DEF Quiet, Held, TypeOK, BatchCovered, NoOp
    <3>4. QED
      BY <1>1, <1>2, <2>3, <3>3, QuietHolds, Unsettled
  <2>6. QED
    BY <2>4, <2>5
<1>7. QED
  BY <1>2, <1>5, <1>6

LEMMA QueryHolds ==
  ASSUME IInv, Query
  PROVE  IInv' /\ Settling
BY HandHolds DEF Query

\* The statements of an export through a cursor move the server and issue no
\* write.
LEMMA ExportCursorHolds ==
  ASSUME IInv, op = NoOp, ExportCursor
  PROVE  IInv' /\ Settling
<1> DEFINE Fetch(d) ==
             \E r \in RunRead(d) :
               \E closed \in RunRead(r.db) :
                 \E end \in IF flag THEN {closed} ELSE RunCommit(closed.db) :
                   db' = end.db /\ AnswerBy("stream", r)
           Rest(d) ==
             \E begun \in IF flag THEN {Ok(d)} ELSE RunBegin(d) :
               IF ~begun.ok
               THEN db' = begun.db /\ Answer("stream", "failed")
               ELSE Fetch(begun.db)
<1>1. Held /\ Sound(db) /\ Moves(db, db, {})
  BY HeldIsSound DEF IInv, Held
<1>2. op' = op /\ UNCHANGED <<flag, history, fixed>>
  BY DEF ExportCursor
<1>3. Moves(db, db', {}) /\ last' \in [op : {"stream"}, ended : Endings]
  <2>1. CASE Answer("stream", "refused") /\ UNCHANGED db
    BY <1>1, <2>1 DEF Answer, Endings
  <2>2. CASE \E described \in RunRead(db) : Rest(described.db)
    <3>1. PICK described \in RunRead(db) : Rest(described.db)
      BY <2>2
    <3>2. Moves(db, described.db, {}) /\ Sound(described.db)
      BY <1>1, <3>1, ReadMoves, MovesSound
    <3>3. PICK begun \in IF flag THEN {Ok(described.db)} ELSE RunBegin(described.db) :
            IF ~begun.ok
            THEN db' = begun.db /\ Answer("stream", "failed")
            ELSE Fetch(begun.db)
      BY <3>1
    <3>4. Moves(db, begun.db, {}) /\ Sound(begun.db)
      <4>1. CASE begun \in RunBegin(described.db)
        <5>1. Moves(described.db, begun.db, {})
          BY <3>2, <4>1, BeginMoves
        <5>2. QED
          BY <3>2, <5>1, MovesTwice, MovesSound
      <4>2. CASE begun = Ok(described.db)
        BY <3>2, <4>2 DEF Ok
      <4>3. QED
        BY <3>3, <4>1, <4>2
    <3>5. CASE ~begun.ok
      BY <3>3, <3>4, <3>5 DEF Answer, Endings
    <3>6. CASE begun.ok
      <4>1. PICK r \in RunRead(begun.db) :
              \E closed \in RunRead(r.db) :
                \E end \in IF flag THEN {closed} ELSE RunCommit(closed.db) :
                  db' = end.db /\ AnswerBy("stream", r)
        BY <3>3, <3>6
      <4>2. Moves(db, r.db, {}) /\ Sound(r.db)
        <5>1. Moves(begun.db, r.db, {})
          BY <3>4, <4>1, ReadMoves
        <5>2. QED
          BY <3>4, <5>1, MovesTwice, MovesSound
      <4>3. PICK closed \in RunRead(r.db) :
              \E end \in IF flag THEN {closed} ELSE RunCommit(closed.db) :
                db' = end.db /\ AnswerBy("stream", r)
        BY <4>1
      <4>4. Moves(db, closed.db, {}) /\ Sound(closed.db)
        <5>1. Moves(r.db, closed.db, {})
          BY <4>2, <4>3, ReadMoves
        <5>2. QED
          BY <4>2, <5>1, MovesTwice, MovesSound
      <4>5. PICK end \in IF flag THEN {closed} ELSE RunCommit(closed.db) :
              db' = end.db /\ AnswerBy("stream", r)
        BY <4>3
      <4>6. Moves(db, end.db, {})
        <5>1. CASE end \in RunCommit(closed.db)
          <6>1. Moves(closed.db, end.db, {})
            BY <4>4, <5>1, CommitMoves
          <6>2. QED
            BY <4>4, <6>1, MovesTwice
        <5>2. CASE end = closed
          BY <4>4, <5>2
        <5>3. QED
          BY <4>5, <5>1, <5>2
      <4>7. QED
        BY <4>5, <4>6 DEF Answer, AnswerBy, Endings
    <3>7. QED
      BY <3>5, <3>6
  <2>3. QED
    BY <2>1, <2>2 DEF ExportCursor
<1>4. Held' /\ Settling
  BY <1>1, <1>2, <1>3, Unissued DEF Held, TypeOK, OpNames
<1>5. QED
  BY <1>3, <1>4, Unsettled

LEMMA StreamQueryHolds ==
  ASSUME IInv, StreamQuery
  PROVE  IInv' /\ Settling
BY ExportCursorHolds, HandHolds DEF StreamQuery

LEMMA InspectHolds ==
  ASSUME IInv, Inspect
  PROVE  IInv' /\ Settling
<1>1. Held /\ Sound(db)
  BY HeldIsSound DEF IInv, Held
<1>2. PICK r \in RunRead(db) : db' = r.db /\ AnswerBy("inspect", r)
  BY DEF Inspect
<1>3. Moves(db, db', {}) /\ last' \in [op : {"inspect"}, ended : Endings]
  BY <1>1, <1>2, ReadMoves DEF Answer, AnswerBy, Endings
<1>4. Held' /\ Settling
  BY <1>1, <1>3, Unissued DEF Inspect, Held, TypeOK, OpNames
<1>5. QED
  BY <1>3, <1>4, Unsettled

\* The plan of one statement, on MySQL perhaps at the second attempt.
LEMMA PlannedMoves ==
  ASSUME Sound(db), NEW r \in Planned(db)
  PROVE  r.ok \in BOOLEAN /\ Moves(db, r.db, {})
<1>1. CASE r \in RunRead(db)
  BY <1>1, ReadMoves
<1>2. CASE \E q \in RunRead(db) : r \in RunRead(q.db)
  <2>1. PICK q \in RunRead(db) : r \in RunRead(q.db)
    BY <1>2
  <2>2. Moves(db, q.db, {}) /\ Sound(q.db)
    BY <2>1, ReadMoves, MovesSound
  <2>3. r.ok \in BOOLEAN /\ Moves(q.db, r.db, {})
    BY <2>1, <2>2, ReadMoves
  <2>4. QED
    BY <2>2, <2>3, MovesTwice
<1>3. QED
  BY <1>1, <1>2 DEF Planned

\* A plan, and what runs behind the statement it was asked of.
LEMMA ExplainPlanHolds ==
  ASSUME IInv, ExplainPlan
  PROVE  IInv' /\ Settling
<1>1. Held /\ Sound(db) /\ flag \in BOOLEAN
  BY HeldIsSound DEF IInv, Held, TypeOK
<1>2. /\ op = NoOp /\ op' = op
      /\ UNCHANGED <<flag, batches, refused, promised, fixed>>
  BY DEF ExplainPlan
<1>3. CASE (\E r \in Planned(db) : db' = r.db /\ AnswerBy("explain", r)) /\ UNCHANGED origin
  <2>1. PICK r \in Planned(db) : db' = r.db /\ AnswerBy("explain", r)
    BY <1>3
  <2>2. Moves(db, db', {}) /\ last' \in [op : {"explain"}, ended : Endings]
    BY <1>1, <2>1, PlannedMoves DEF Answer, AnswerBy, Endings
  <2>3. Held' /\ Settling
    BY <1>1, <1>2, <1>3, <2>2, Unissued DEF Held, TypeOK, OpNames, history
  <2>4. QED
    BY <2>2, <2>3, Unsettled
<1>4. ASSUME NEW class \in Classes, NEW w \in Writes, Fresh(w),
             \E r \in ExplainTogether(class, w) : db' = r.db /\ AnswerBy("explain", r),
             origin' = IF class \in Writing
                       THEN [origin EXCEPT ![w] = From("plan", class, "any")]
                       ELSE origin
      PROVE  IInv' /\ Settling
  <2>1. w \notin db.dirty \cup db.durable
    BY <1>1, <1>4, FreshIsNew
  <2>2. PICK r \in ExplainTogether(class, w) : db' = r.db /\ AnswerBy("explain", r)
    BY <1>4
  <2>3. /\ r.ok \in BOOLEAN
        /\ class \in Writing => Moves(db, db', {w})
        /\ class \notin Writing => Moves(db, db', {})
    <3>1. CASE r \in Failures(db)
      <4>1. r.ok \in BOOLEAN /\ Moves(db, r.db, {})
        BY <1>1, <3>1, FailuresMove
      <4>2. QED
        BY <2>1, <2>2, <4>1, MovesWiden
    <3>2. CASE r \in Typed(class, w)
      BY <1>1, <2>1, <2>2, <3>2, TypedMoves
    <3>3. QED
      BY <3>1, <3>2 DEF ExplainTogether
  <2>4. last' \in [op : OpNames, ended : Endings] /\ last'.op = "explain"
    BY <2>2, <2>3 DEF Answer, AnswerBy, OpNames, Endings
  <2>5. CASE class \notin Writing
    BY <1>1, <1>2, <1>4, <2>3, <2>4, <2>5, Unissued, Unsettled
       DEF Held, TypeOK, history
  <2>6. CASE class \in Writing
    <3>1. /\ origin' \in [Writes -> Origins]
          /\ \A v \in Writes \ {w} : origin'[v] = origin[v]
          /\ origin'[w].by = "plan"
      BY <1>1, <1>4, <2>6, FromIs DEF Held, TypeOK
    <3>2. Quiet({w})
      BY <1>1, <1>2, <2>3, <2>4, <2>6, <3>1
         DEF Quiet, Held, TypeOK, BatchCovered, NoOp
    <3>3. QED
      BY <1>1, <1>4, <2>4, <3>2, QuietHolds, Unsettled
  <2>7. QED
    BY <2>5, <2>6
<1>5. QED
  BY <1>3, <1>4 DEF ExplainPlan

\* Analysing a write is a move that may leave it dirty; where a transaction is
\* open, or none can be, it saves nothing.
LEMMA AnalysedMoves ==
  ASSUME NEW d, Sound(d), NEW class \in {"read", "write", "with"}, NEW w \in Writes,
         w \notin d.dirty \cup d.durable, NEW r \in Analysed(d, class, w)
  PROVE  /\ r.ok \in BOOLEAN
         /\ class # "read" => Moves(d, r.db, {w})
         /\ class = "read" => Moves(d, r.db, {})
         /\ d.txn # "idle" => r.db.durable = d.durable
<1> DEFINE ran == IF class = "read" THEN RunRead(d) ELSE RunWrite(d, w)
<1>1. ASSUME NEW q \in ran
      PROVE  /\ q.ok \in BOOLEAN
             /\ class # "read" => Moves(d, q.db, {w})
             /\ class = "read" => Moves(d, q.db, {})
             /\ d.txn # "idle" => q.db.durable = d.durable
             /\ ~q.ok => Moves(d, q.db, {})
  <2>1. CASE class # "read"
    BY <1>1, <2>1, WriteMoves
  <2>2. CASE class = "read"
    BY <1>1, <2>2, ReadMoves
  <2>3. QED
    BY <2>1, <2>2
<1>2. CASE r \in ran
  BY <1>1, <1>2
<1>3. CASE \E q \in ran : ~q.ok /\ r \in RunRead(q.db)
  <2>1. PICK q \in ran : ~q.ok /\ r \in RunRead(q.db)
    BY <1>3
  <2>2. Moves(q.db, r.db, {}) /\ r.ok \in BOOLEAN /\ r.db.durable = q.db.durable
    BY <1>1, <2>1, ReadMoves DEF Moves
  <2>3. Moves(d, r.db, {})
    BY <1>1, <2>1, <2>2, MovesTwice
  <2>4. QED
    BY <1>1, <2>1, <2>2, <2>3, MovesWiden
<1>4. r \in ran \/ \E q \in ran : ~q.ok /\ r \in RunRead(q.db)
  BY DEF Analysed
<1>5. QED
  BY <1>2, <1>3, <1>4

\* What the three statements of an analysis do together: an EXPLAIN of a write
\* moves the server by that write, and while the flag is clear leaves nothing of
\* it there.
LEMMA BegunIs ==
  ASSUME Sound(db), db.txn \in {"idle", "open"}, NEW r \in RunBegin(db)
  PROVE  r.db.txn # "idle"
<1>1. \/ r \in Drops(db)
      \/ r.db.txn = "open"
  <2>1. CASE db.txn = "idle"
    <3>1. \/ r \in Drops(db) \/ r = Ok(Server("open", db.dirty, db.durable))
      BY <2>1 DEF RunBegin
    <3>2. QED
      BY <3>1 DEF Ok, Server
  <2>2. CASE db.txn = "open"
    <3>1. \/ r \in Drops(db) \/ r = Ok(db) \/ r = Err(db)
          \/ r = Ok(Server("open", {}, db.durable \cup db.dirty))
      BY <2>2 DEF RunBegin
    <3>2. QED
      BY <2>2, <3>1 DEF Ok, Err, Server
  <2>3. QED
    BY <2>1, <2>2
<1>2. QED
  BY <1>1, DropsMove

LEMMA ExplainMoves ==
  ASSUME Sound(db), flag \in BOOLEAN,
         NEW class \in {"read", "write", "with"}, NEW w \in Writes, w \notin db.dirty \cup db.durable,
         NEW begun \in IF flag THEN {Ok(db)} ELSE RunBegin(db),
         NEW r \in Analysed(begun.db, class, w),
         NEW end \in IF flag THEN {r} ELSE RunRollback(r.db)
  PROVE  /\ r.ok \in BOOLEAN
         /\ class # "read" => Moves(db, end.db, {w})
         /\ class = "read" => Moves(db, end.db, {})
         /\ ~flag => w \notin end.db.dirty \cup end.db.durable
<1>1. /\ Moves(db, begun.db, {}) /\ Sound(begun.db)
      /\ ~flag => begun.db.txn # "idle"
      /\ w \notin begun.db.dirty \cup begun.db.durable
  <2>1. CASE flag
    <3>1. begun = Ok(db)
      BY <2>1
    <3>2. begun.db = db
      BY <3>1 DEF Ok
    <3>3. QED
      BY <2>1, <3>2, Stays
  <2>2. CASE ~flag
    <3>1. begun \in RunBegin(db)
      BY <2>2
    <3>2. Moves(db, begun.db, {}) /\ begun.ok \in BOOLEAN
      BY <3>1, BeginMoves
    <3>3. begun.db.txn # "idle"
      <4>1. CASE db.txn \in {"idle", "open"}
        BY <3>1, <4>1, BegunIs
      <4>2. CASE db.txn \in {"aborted", "lost"}
        <5>1. begun \in Drops(db) \/ begun = Err(db)
          BY <3>1, <4>2 DEF RunBegin
        <5>2. CASE begun \in Drops(db)
          BY <5>2, DropsMove
        <5>3. CASE begun = Err(db)
          BY <4>2, <5>3 DEF Err
        <5>4. QED
          BY <5>1, <5>2, <5>3
      <4>3. QED
        BY <4>1, <4>2 DEF Sound, Servers, TxnStates
    <3>4. QED
      BY <3>2, <3>3 DEF Moves
  <2>3. QED
    BY <2>1, <2>2
<1>2. /\ r.ok \in BOOLEAN
      /\ class # "read" => Moves(begun.db, r.db, {w})
      /\ class = "read" => Moves(begun.db, r.db, {})
      /\ begun.db.txn # "idle" => r.db.durable = begun.db.durable
  <2>1. Sound(begun.db) /\ w \notin begun.db.dirty \cup begun.db.durable
    BY <1>1
  <2>2. QED
    BY <2>1, AnalysedMoves
<1>3. /\ class # "read" => Moves(db, r.db, {w})
      /\ class = "read" => Moves(db, r.db, {})
      /\ Sound(r.db)
  <2>1. Moves(db, begun.db, {w})
    BY <1>1, MovesWiden
  <2>2. class # "read" => Moves(db, r.db, {w})
    BY <1>2, <2>1, MovesTwice
  <2>3. class = "read" => Moves(db, r.db, {})
    BY <1>1, <1>2, MovesTwice
  <2>4. QED
    BY <2>2, <2>3, MovesSound
<1>4. CASE flag
  <2>1. end = r
    BY <1>4
  <2>2. QED
    BY <1>2, <1>3, <1>4, <2>1
<1>5. CASE ~flag
  <2>1. end \in RunRollback(r.db)
    BY <1>5
  <2>2. /\ Moves(r.db, end.db, {})
        /\ end.db.dirty = {} /\ end.db.durable = r.db.durable
    BY <1>3, <2>1, RollbackMoves
  <2>3. ASSUME Moves(db, r.db, {w})
        PROVE  Moves(db, end.db, {w})
    BY <1>3, <2>2, <2>3 DEF Moves, Sound
  <2>4. Moves(db, r.db, {}) => Moves(db, end.db, {})
    BY <2>2, MovesTwice
  <2>5. QED
    BY <1>1, <1>2, <1>3, <2>2, <2>3, <2>4
<1>6. QED
  BY <1>4, <1>5

LEMMA ExplainAnalyzeHolds ==
  ASSUME IInv, ExplainAnalyze
  PROVE  IInv' /\ Settling
<1>1. Held /\ Sound(db) /\ flag \in BOOLEAN
  BY HeldIsSound DEF IInv, Held, TypeOK
<1>2. PICK class \in {"read", "write", "with"}, w \in Writes :
        /\ Fresh(w)
        /\ \/ /\ ~Allowed(class)
              /\ Answer("explain", "refused")
              /\ UNCHANGED <<db, origin>>
           \/ /\ Allowed(class)
              /\ \E begun \in IF flag THEN {Ok(db)} ELSE RunBegin(db) :
                   IF ~begun.ok /\ backend = "postgres"
                   THEN db' = begun.db /\ Answer("explain", "failed")
                   ELSE \E r \in Analysed(begun.db, class, w) :
                          \E end \in Unwind(r) :
                            /\ db' = end.db
                            /\ AnswerBy("explain", r)
              /\ origin' = IF class = "read" THEN origin
                           ELSE [origin EXCEPT ![w] = From("analysis", class, Trust)]
  BY DEF ExplainAnalyze
<1>3. w \notin db.dirty \cup db.durable
  BY <1>1, <1>2, FreshIsNew
<1>4. /\ op = NoOp /\ op' = op
      /\ UNCHANGED <<flag, batches, refused, promised, fixed>>
  BY DEF ExplainAnalyze
<1>5. CASE ~Allowed(class) /\ Answer("explain", "refused") /\ UNCHANGED <<db, origin>>
  <2>1. Held' /\ Settling
    BY <1>1, <1>4, <1>5, HeldIsSound, Unissued
       DEF Answer, Held, TypeOK, OpNames, Endings, history
  <2>2. QED
    BY <1>5, <2>1, Unsettled DEF Answer
<1>6. CASE Allowed(class) /\ ~(~Allowed(class) /\ Answer("explain", "refused"))
  <2>1. PICK begun \in IF flag THEN {Ok(db)} ELSE RunBegin(db) :
          IF ~begun.ok /\ backend = "postgres"
          THEN db' = begun.db /\ Answer("explain", "failed")
          ELSE \E r \in Analysed(begun.db, class, w) :
                 \E end \in Unwind(r) :
                   /\ db' = end.db
                   /\ AnswerBy("explain", r)
    BY <1>2, <1>6
  <2>2. /\ class # "read" => Moves(db, db', {w})
        /\ class = "read" => Moves(db, db', {})
        /\ ~flag => w \notin db'.dirty \cup db'.durable
        /\ last' \in [op : {"explain"}, ended : Endings]
    <3>1. CASE ~begun.ok /\ backend = "postgres"
      <4>1. db' = begun.db /\ Answer("explain", "failed")
        BY <2>1, <3>1
      <4>2. Moves(db, begun.db, {})
        <5>1. CASE flag
          <6>1. begun = Ok(db)
            BY <5>1
          <6>2. QED
            BY <1>1, <6>1, Stays DEF Ok
        <5>2. CASE ~flag
          BY <1>1, <5>2, BeginMoves
        <5>3. QED
          BY <5>1, <5>2
      <4>3. Moves(db, begun.db, {w})
        BY <1>3, <4>2, MovesWiden
      <4>4. w \notin begun.db.dirty \cup begun.db.durable
        BY <1>3, <4>2 DEF Moves
      <4>5. QED
        BY <4>1, <4>2, <4>3, <4>4 DEF Answer, Endings
    <3>2. CASE ~(~begun.ok /\ backend = "postgres")
      <4>1. PICK r \in Analysed(begun.db, class, w) :
              \E end \in Unwind(r) :
                db' = end.db /\ AnswerBy("explain", r)
        BY <2>1, <3>2
      <4>2. PICK end \in Unwind(r) :
              db' = end.db /\ AnswerBy("explain", r)
        BY <4>1
      <4>3. /\ r.ok \in BOOLEAN
            /\ class # "read" => Moves(db, end.db, {w})
            /\ class = "read" => Moves(db, end.db, {})
            /\ ~flag => w \notin end.db.dirty \cup end.db.durable
        BY <1>1, <1>3, ExplainMoves DEF Unwind
      <4>4. QED
        BY <1>3, <4>2, <4>3 DEF Answer, AnswerBy, Endings
    <3>3. QED
      BY <3>1, <3>2
  <2>3. origin' = IF class = "read" THEN origin
                  ELSE [origin EXCEPT ![w] = From("analysis", class, Trust)]
    BY <1>2, <1>6
  <2>4. CASE class = "read"
    <3>1. Held' /\ Settling
      BY <1>1, <1>4, <2>2, <2>3, <2>4, Unissued DEF Held, TypeOK, OpNames, history
    <3>2. QED
      BY <2>2, <3>1, Unsettled
  <2>5. CASE class # "read"
    <3>1. access = "read" => class = "with"
      BY <1>6, <2>5 DEF Allowed
    <3>2. /\ origin' \in [Writes -> Origins]
          /\ \A v \in Writes \ {w} : origin'[v] = origin[v]
          /\ origin'[w].by = "analysis" /\ (access = "read" => origin'[w].rows)
          /\ origin'[w].trust = "clear" => ~flag
      <4>1. /\ From("analysis", class, Trust) \in Origins
            /\ From("analysis", class, Trust).by = "analysis"
            /\ access = "read" => From("analysis", class, Trust).rows
            /\ From("analysis", class, Trust).trust = "clear" => ~flag
        BY <1>1, <3>1, FromIs, TrustIs
      <4>2. QED
        BY <1>1, <2>3, <2>5, <4>1 DEF Held, TypeOK
    <3>3. Quiet({w})
      BY <1>1, <1>4, <2>2, <2>5, <3>2
         DEF Quiet, Held, TypeOK, BatchCovered, NoOp, OpNames
    <3>4. QED
      BY <1>1, <1>2, <2>2, <3>3, QuietHolds, Unsettled
  <2>6. QED
    BY <2>4, <2>5
<1>7. QED
  BY <1>2, <1>5, <1>6

LEMMA ApplyRefusedHolds ==
  ASSUME IInv, ApplyRefused
  PROVE  IInv' /\ Settling
<1>1. Held
  BY DEF IInv, Held
<1>2. last' = [op |-> "apply", ended |-> "refused"]
  BY DEF ApplyRefused, Answer
<1>3. Held' /\ Settling
  BY <1>1, <1>2, HeldIsSound, Unissued
     DEF ApplyRefused, Held, TypeOK, OpNames, Endings
<1>4. QED
  BY <1>2, <1>3, Unsettled

LEMMA ApplyStartHolds ==
  ASSUME IInv, ApplyStart
  PROVE  IInv' /\ Settling
<1>1. Held /\ Sound(db) /\ flag \in BOOLEAN
  BY HeldIsSound DEF IInv, Held, TypeOK
<1>2. PICK n \in 1 .. MaxBatch, r \in IF flag THEN {Ok(db)} ELSE RunBegin(db) :
        /\ db' = r.db
        /\ IF r.ok
           THEN /\ op' = Batch(~flag, n, {}, Trust # "stale")
                /\ UNCHANGED last
           ELSE Answer("apply", "unsettled") /\ UNCHANGED op
  BY DEF ApplyStart
<1>3. /\ op = NoOp /\ access # "read"
      /\ UNCHANGED <<flag, history, fixed>>
  BY DEF ApplyStart
<1>4. /\ Moves(db, db', {})
      /\ ~flag /\ r.ok => db'.txn = "open"
      /\ flag => db' = db
  <2>1. CASE flag
    <3>1. r = Ok(db)
      BY <2>1
    <3>2. QED
      BY <1>1, <1>2, <2>1, <3>1, Stays DEF Ok
  <2>2. CASE ~flag
    BY <1>1, <1>2, <2>2, BeginMoves
  <2>3. QED
    BY <2>1, <2>2
<1>5. CASE r.ok
  <2>1. /\ op' = Batch(~flag, n, {}, Trust # "stale")
        /\ last' = last
    BY <1>2, <1>5
  <2>2. op' \in Applies /\ op'.done = {}
    BY <1>1, <2>1, SessionAssumption DEF Applies, Batch
  <2>3. BatchCovered'
    <3>1. op'.own = ~flag' /\ access' # "read"
      BY <1>3, <2>1 DEF fixed, Batch
    <3>2. op'.own => db'.txn = "open" /\ op'.sync
      BY <1>1, <1>4, <1>5, <2>1, TrustIs DEF Batch
    <3>3. op'.sync => InTxn(db)'
      BY <1>1, <1>4, <1>5, <2>1, TrustIs DEF InTxn, Batch
    <3>4. QED
      BY <2>2, <3>1, <3>2, <3>3 DEF BatchCovered, InTxn
  <2>4. Quiet({})
    BY <1>1, <1>3, <1>4, <2>1, <2>2, <2>3 DEF Quiet, Held, TypeOK, history
  <2>5. Held' /\ Settling
    BY <1>1, <2>4, QuietHolds
  <2>6. op' # NoOp
    BY <2>1 DEF NoOp, Batch
  <2>7. QED
    BY <2>5, <2>6, Unsettled
<1>6. CASE ~r.ok
  <2>1. op' = op /\ last' = [op |-> "apply", ended |-> "unsettled"]
    BY <1>2, <1>6 DEF Answer
  <2>2. Held' /\ Settling
    BY <1>1, <1>3, <1>4, <2>1, Unissued DEF OpNames, Endings
  <2>3. QED
    BY <2>1, <2>2, Unsettled
<1>7. QED
  BY <1>5, <1>6

\* Abandoning a batch from any server state the failed change may have left.
LEMMA AbandonDrops ==
  ASSUME NEW d, Sound(d), d.durable = db.durable, Abandon(d)
  PROVE  /\ Sound(db') /\ ~InTxn(db') /\ db'.durable = db.durable
         /\ op' = NoOp /\ flag' = FALSE
         /\ last' = [op |-> "apply", ended |-> "failed"]
<1>1. PICK r \in RunRollback(d) : db' = r.db
  BY DEF Abandon
<1>2. /\ Moves(d, r.db, {}) /\ ~InTxn(r.db) /\ r.db.durable = d.durable
  BY <1>1, RollbackMoves
<1>3. QED
  BY <1>1, <1>2, MovesSound DEF Abandon, Answer

LEMMA BatchTrustIs ==
  ASSUME Held, op.kind = "apply"
  PROVE  /\ BatchTrust \in {"clear", "held", "stale"}
         /\ ~op.sync => BatchTrust = "stale"
BY DEF BatchTrust, Held, BatchCovered

\* A change that went in: the batch grows by one write, in its transaction if
\* it has one.
LEMMA ChangeDoneHolds ==
  ASSUME Held, op.kind = "apply", op.todo > 0, NEW w \in Writes, Fresh(w),
         origin' = [origin EXCEPT ![w] = From("apply", "write", BatchTrust)],
         NEW r \in RunWrite(db, w), r.ok, db' = r.db,
         op' = Batch(op.own, op.todo - 1, op.done \cup {w}, op.sync),
         UNCHANGED <<flag, last, refused, batches, promised, fixed>>
  PROVE  Held' /\ Settling
<1>0. op \in Applies
  BY DEF Held, TypeOK, NoOp
<1>1. /\ w \notin db.dirty \cup db.durable
      /\ w \notin refused /\ w \notin promised
      /\ \A b \in batches : w \notin b
  BY FreshIsNew
<1>2. /\ Moves(db, db', {w})
      /\ db.txn \in {"idle", "open"} /\ db'.txn = db.txn
      /\ db.txn = "open" => db'.dirty = db.dirty \cup {w} /\ db'.durable = db.durable
  BY <1>1, HeldIsSound, WriteMoves
<1>3. Sound(db')
  BY <1>2, MovesSound
<1>4. /\ op' \in Applies
      /\ op'.kind = "apply" /\ op'.own = op.own /\ op'.sync = op.sync
      /\ op'.done = op.done \cup {w}
  BY <1>0, SessionAssumption DEF Applies, Batch
<1>5. /\ origin' \in [Writes -> Origins]
      /\ \A v \in Writes \ {w} : origin'[v] = origin[v]
      /\ origin'[w].by = "apply" /\ (~op.sync => origin'[w].trust = "stale")
  BY BatchTrustIs, FromIs DEF Held, TypeOK
<1>6. TypeOK'
  BY <1>3, <1>4, <1>5 DEF Held, TypeOK, Sound, fixed
<1>7. WritesAccounted'
  <2>1. ASSUME NEW v \in Writes, Fresh(v)'
        PROVE  v # w /\ Fresh(v)
    BY <1>5, <2>1 DEF Fresh
  <2>2. \A v \in Writes : Fresh(v)' =>
          v \notin db'.dirty \cup db'.durable \cup refused' \cup promised' \cup op'.done
    BY <1>2, <1>4, <2>1 DEF Held, WritesAccounted, Moves
  <2>3. \A b \in batches' : \A v \in b : ~Fresh(v)'
    BY <2>1, <1>6 DEF Held, WritesAccounted, TypeOK
  <2>4. QED
    BY <1>3, <2>2, <2>3 DEF WritesAccounted, Sound
<1>8. BatchCovered'
  BY <1>2, <1>4 DEF Held, BatchCovered, InTxn, fixed
<1>9. BatchesWhole' /\ AppliedIsSaved'
  BY <1>2, BatchesKept DEF BatchesWhole, AppliedIsSaved, Whole
<1>10. OriginsContained'
  <2>1. ASSUME NEW v \in db'.dirty \cup db'.durable
        PROVE  v = w \/ v \in (db.dirty \cup db.durable) \cap (Writes \ {w})
    BY <1>2, <1>3 DEF Moves, Sound, Servers
  <2>2. QED
    BY <1>4, <1>5, <2>1 DEF Held, OriginsContained, fixed
<1>11. ReadOnlyKeepsOut'
  BY DEF Held, BatchCovered, ReadOnlyKeepsOut, fixed
<1>12. Settling
  BY <1>2 DEF Settling
<1>13. QED
  BY <1>6, <1>7, <1>8, <1>9, <1>10, <1>11, <1>12 DEF Held

LEMMA ApplyChangeHolds ==
  ASSUME IInv, ApplyChange
  PROVE  IInv' /\ Settling
<1>1. Held /\ Sound(db)
  BY HeldIsSound DEF IInv, Held
<1>2. PICK w \in Writes :
        /\ Fresh(w)
        /\ origin' = [origin EXCEPT ![w] = From("apply", "write", BatchTrust)]
        /\ \/ \E r \in RunWrite(db, w) :
                IF r.ok
                THEN /\ db' = r.db
                     /\ op' = Batch(op.own, op.todo - 1, op.done \cup {w}, op.sync)
                     /\ UNCHANGED <<flag, last, refused>>
                ELSE /\ Abandon(r.db)
                     /\ refused' = IF op.sync THEN refused \cup op.done \cup {w}
                                   ELSE refused
           \/ /\ db.txn \in {"idle", "open"}
              /\ Abandon(db)
              /\ refused' = IF op.sync THEN refused \cup op.done \cup {w}
                            ELSE refused
  BY DEF ApplyChange
<1>3. /\ op.kind = "apply" /\ op.todo > 0
      /\ UNCHANGED <<batches, promised, fixed>>
  BY DEF ApplyChange, More
<1>4. w \notin db.dirty \cup db.durable
  BY <1>1, <1>2, FreshIsNew
<1>5. ASSUME NEW d, Sound(d), d.durable = db.durable, Abandon(d),
             refused' = IF op.sync THEN refused \cup op.done \cup {w} ELSE refused
      PROVE  IInv' /\ Settling
  <2>1. /\ Sound(db') /\ ~InTxn(db') /\ db'.durable = db.durable
        /\ op' = NoOp /\ flag' = FALSE
        /\ last' = [op |-> "apply", ended |-> "failed"]
    BY <1>5, AbandonDrops
  <2>2. /\ origin' \in [Writes -> Origins]
        /\ \A v \in Writes \ {w} : origin'[v] = origin[v]
        /\ origin'[w].by # "none"
    BY <1>1, <1>2, <1>3, BatchTrustIs, FromIs DEF Held, TypeOK
  <2>3. \/ refused' = refused
        \/ refused' = refused \cup op.done \cup {w} /\ op.kind = "apply" /\ op.sync
    BY <1>3, <1>5
  <2>4. Dropped({w})
    BY <1>3, <2>1, <2>2, <2>3 DEF Dropped, OpNames, Endings
  <2>5. Held' /\ Settling
    BY <1>1, <1>2, <2>4, DroppedHolds
  <2>6. Agreed'
    <3>1. InTxn(db') = FALSE
      BY <2>1 DEF InTxn
    <3>2. QED
      BY <2>1, <3>1 DEF Agreed
  <2>7. QED
    BY <2>5, <2>6 DEF Held, IInv, FlagTracksServer
<1>6. CASE \E r \in RunWrite(db, w) :
             IF r.ok
             THEN /\ db' = r.db
                  /\ op' = Batch(op.own, op.todo - 1, op.done \cup {w}, op.sync)
                  /\ UNCHANGED <<flag, last, refused>>
             ELSE /\ Abandon(r.db)
                  /\ refused' = IF op.sync THEN refused \cup op.done \cup {w}
                                ELSE refused
  <2>1. PICK r \in RunWrite(db, w) :
             IF r.ok
             THEN /\ db' = r.db
                  /\ op' = Batch(op.own, op.todo - 1, op.done \cup {w}, op.sync)
                  /\ UNCHANGED <<flag, last, refused>>
             ELSE /\ Abandon(r.db)
                  /\ refused' = IF op.sync THEN refused \cup op.done \cup {w}
                                ELSE refused
    BY <1>6
  <2>2. CASE r.ok
    <3>1. Held' /\ Settling
      BY <1>1, <1>2, <1>3, <2>1, <2>2, ChangeDoneHolds
    <3>2. op' # NoOp
      BY <2>1, <2>2 DEF NoOp, Batch
    <3>3. QED
      BY <3>1, <3>2, Unsettled
  <2>3. CASE ~r.ok
    <3>1. Sound(r.db) /\ r.db.durable = db.durable
      BY <1>1, <1>4, <2>3, WriteMoves, MovesSound
    <3>2. QED
      BY <1>5, <2>1, <2>3, <3>1
  <2>4. QED
    BY <2>2, <2>3
<1>7. QED
  BY <1>1, <1>2, <1>5, <1>6

\* The batch has ended well and all its writes are saved, or still in the open
\* transaction: it joins the finished ones.
LEMMA FinishedHolds ==
  ASSUME Held, op.kind = "apply", op' = NoOp,
         UNCHANGED <<origin, refused, fixed>>, access # "sandbox",
         flag' \in BOOLEAN, last' \in [op : OpNames, ended : Endings],
         Moves(db, db', {}),
         batches' \in {batches, Applied},
         batches' = Applied /\ op.sync => Whole(op.done, db'),
         promised' \in {promised, promised \cup op.done},
         promised' = promised \/ op.done \subseteq db'.durable
  PROVE  Held' /\ Settling
<1>0. op.done \in SUBSET Writes /\ op.sync \in BOOLEAN /\ Sound(db')
  BY MovesSound DEF Held, TypeOK, NoOp, Applies
<1>1. batches' = batches \/ (batches' = batches \cup {op.done} /\ op.sync)
  BY <1>0 DEF Applied
<1>2. TypeOK'
  BY <1>0, <1>1 DEF Held, TypeOK, Sound, fixed
<1>3. WritesAccounted'
  <2>1. \A w \in Writes : Fresh(w)' => Fresh(w)
    BY DEF Fresh
  <2>2. \A w \in Writes : Fresh(w)' =>
          w \notin db'.dirty \cup db'.durable \cup refused' \cup promised' \cup op'.done
    BY <2>1 DEF Held, WritesAccounted, Moves, NoOp
  <2>3. \A w \in op.done : ~Fresh(w)'
    BY <1>0 DEF Held, WritesAccounted, Fresh
  <2>4. \A b \in batches' : \A w \in b : ~Fresh(w)'
    BY <1>1, <2>3 DEF Held, WritesAccounted, Fresh
  <2>5. QED
    BY <1>0, <2>2, <2>4 DEF WritesAccounted, Sound
<1>4. BatchCovered'
  BY DEF BatchCovered, NoOp
<1>5. \A b \in {} : Fresh(b)
  OBVIOUS
<1>6. /\ \A b \in batches : Whole(b, db')
      /\ refused \cap (db'.dirty \cup db'.durable) = {}
      /\ promised \subseteq db'.durable
  BY <1>5, BatchesKept
<1>7. BatchesWhole'
  BY <1>1, <1>6 DEF BatchesWhole, Whole, Applied
<1>8. AppliedIsSaved'
  BY <1>6 DEF AppliedIsSaved
<1>9. OriginsContained'
  <2>1. \A w \in db'.dirty \cup db'.durable : w \in db.dirty \cup db.durable
    BY DEF Moves
  <2>2. QED
    BY <2>1 DEF Held, OriginsContained, fixed
<1>10. ReadOnlyKeepsOut'
  BY DEF Held, BatchCovered, ReadOnlyKeepsOut, fixed
<1>11. Settling
  BY <1>5 DEF Settling
<1>12. QED
  BY <1>2, <1>3, <1>4, <1>7, <1>8, <1>9, <1>10, <1>11 DEF Held

LEMMA ApplyEndHolds ==
  ASSUME IInv, ApplyEnd
  PROVE  IInv' /\ Settling
<1>1. /\ Held /\ Sound(db) /\ flag \in BOOLEAN
      /\ op.kind = "apply" /\ op' = NoOp
      /\ op \in Applies
      /\ UNCHANGED <<origin, refused, fixed>>
  BY HeldIsSound DEF IInv, Held, TypeOK, ApplyEnd, NoOp
<1>2. /\ op.own = ~flag
      /\ op.own => db.txn = "open" /\ op.sync
      /\ op.sync => op.done \subseteq db.dirty
  BY <1>1 DEF Held, BatchCovered
<1>3. CASE /\ access = "sandbox"
           /\ \E r \in RunRollback(db) :
                /\ db' = r.db
                /\ flag' = (flag /\ ~r.ok)
                /\ Answer("apply", IF r.ok THEN "ok" ELSE "unsettled")
           /\ UNCHANGED <<batches, promised>>
  <2>1. PICK r \in RunRollback(db) :
           /\ db' = r.db
           /\ flag' = (flag /\ ~r.ok)
           /\ Answer("apply", IF r.ok THEN "ok" ELSE "unsettled")
    BY <1>3
  <2>2. /\ Moves(db, db', {}) /\ r.ok \in BOOLEAN
        /\ ~InTxn(db') /\ db'.durable = db.durable
    BY <1>1, <2>1, RollbackMoves
  <2>3. last' = [op |-> "apply", ended |-> IF r.ok THEN "ok" ELSE "unsettled"]
    BY <2>1 DEF Answer
  <2>4. Dropped({})
    BY <1>1, <1>3, <2>1, <2>2, <2>3, MovesSound
       DEF Dropped, Held, TypeOK, OpNames, Endings
  <2>5. Held' /\ Settling
    BY <1>1, <2>4, DroppedHolds
  <2>6. FlagTracksServer'
    <3>1. CASE r.ok
      <4>1. flag' = FALSE
        BY <1>1, <2>1, <3>1
      <4>2. InTxn(db') = FALSE
        BY <2>2 DEF InTxn
      <4>3. QED
        BY <4>1, <4>2 DEF FlagTracksServer, Agreed
    <3>2. CASE ~r.ok
      BY <2>3, <3>2 DEF FlagTracksServer, Settles
    <3>3. QED
      BY <3>1, <3>2
  <2>7. QED
    BY <2>5, <2>6 DEF Held, IInv
<1>4. CASE /\ access # "sandbox" /\ op.own
           /\ \E r \in RunCommit(db) :
                /\ db' = r.db
                /\ flag' = (flag /\ ~r.ok)
                /\ Answer("apply", IF r.ok THEN "ok" ELSE "unsettled")
                /\ batches' = IF r.ok THEN Applied ELSE batches
                /\ promised' = IF r.ok THEN promised \cup op.done ELSE promised
  <2>1. PICK r \in RunCommit(db) :
           /\ db' = r.db
           /\ flag' = (flag /\ ~r.ok)
           /\ Answer("apply", IF r.ok THEN "ok" ELSE "unsettled")
           /\ batches' = IF r.ok THEN Applied ELSE batches
           /\ promised' = IF r.ok THEN promised \cup op.done ELSE promised
    BY <1>4
  <2>2. /\ Moves(db, db', {}) /\ r.ok \in BOOLEAN
        /\ r.ok => ~InTxn(db') /\ db'.durable = db.durable \cup db.dirty
    BY <1>1, <1>2, <1>4, <2>1, CommitMoves
  <2>3. last' = [op |-> "apply", ended |-> IF r.ok THEN "ok" ELSE "unsettled"]
    BY <2>1 DEF Answer
  <2>4. flag' = FALSE
    BY <1>1, <1>2, <1>4, <2>1
  <2>5. CASE r.ok
    <3>1. op.done \subseteq db'.durable
      BY <1>2, <1>4, <2>2, <2>5
    <3>2. /\ batches' = Applied /\ promised' = promised \cup op.done
          /\ last' \in [op : OpNames, ended : Endings]
      BY <2>1, <2>3, <2>5 DEF OpNames, Endings
    <3>3. Held' /\ Settling
      BY <1>1, <1>4, <2>2, <2>4, <3>1, <3>2, FinishedHolds DEF Whole
    <3>4. Agreed'
      <4>1. InTxn(db') = FALSE
        BY <2>2, <2>5 DEF InTxn
      <4>2. QED
        BY <2>4, <4>1 DEF Agreed
    <3>5. QED
      BY <3>3, <3>4 DEF Held, IInv, FlagTracksServer
  <2>6. CASE ~r.ok
    <3>1. /\ batches' = batches /\ promised' = promised
          /\ last' \in [op : OpNames, ended : Endings]
          /\ last'.ended = "unsettled"
      BY <2>1, <2>3, <2>6 DEF OpNames, Endings
    <3>2. batches' = Applied /\ op.sync => Whole(op.done, db')
      <4>1. batches' = Applied /\ op.sync => op.done \in batches
        BY <3>1 DEF Applied
      <4>2. QED
        BY <1>1, <2>2, <4>1, BatchesKept
    <3>3. Held' /\ Settling
      BY <1>1, <1>4, <2>2, <2>4, <3>1, <3>2, FinishedHolds
    <3>4. QED
      BY <3>1, <3>3, Unsettled
  <2>7. QED
    BY <2>2, <2>5, <2>6
<1>5. CASE /\ access # "sandbox" /\ ~op.own
           /\ Answer("join", "ok")
           /\ batches' = Applied
           /\ UNCHANGED <<flag, db, promised>>
  <2>1. Moves(db, db', {})
    BY <1>1, <1>5, Stays
  <2>2. op.sync => Whole(op.done, db')
    BY <1>1, <1>2, <1>5 DEF Sound, Whole
  <2>3. last' \in [op : OpNames, ended : Endings] /\ last'.op = "join"
    BY <1>5 DEF Answer, OpNames, Endings
  <2>4. Held' /\ Settling
    BY <1>1, <1>5, <2>1, <2>2, <2>3, FinishedHolds
  <2>5. QED
    BY <2>3, <2>4, Unsettled
<1>6. QED
  BY <1>3, <1>4, <1>5 DEF ApplyEnd, Sandboxed, CommitBatch

LEMMA ReopenHolds ==
  ASSUME IInv, Reopen
  PROVE  IInv' /\ Settling
<1>1. Held /\ Sound(db)
  BY HeldIsSound DEF IInv, Held
<1>2. /\ Sound(db') /\ ~InTxn(db') /\ db'.durable = db.durable
  BY <1>1, EndedMoves, MovesSound DEF Reopen
<1>3. last' = [op |-> "open", ended |-> "ok"] /\ flag' = FALSE
  BY DEF Reopen, Answer
<1>4. Dropped({})
  BY <1>1, <1>2, <1>3 DEF Reopen, Dropped, Held, TypeOK, OpNames, Endings
<1>5. Held' /\ Settling
  BY <1>1, <1>4, DroppedHolds
<1>6. InTxn(db') = FALSE
  BY <1>2 DEF InTxn
<1>7. QED
  BY <1>3, <1>5, <1>6 DEF Held, IInv, FlagTracksServer, Agreed

-----------------------------------------------------------------------------
(* The theorems.                                                            *)

LEMMA InitHolds ==
  ASSUME Init
  PROVE  IInv
<1>1. db \in Servers /\ db.txn = "idle" /\ db.dirty = {} /\ db.durable = {}
  BY ServerIs DEF Init, Ended, TxnStates
<1>2. TypeOK
  BY <1>1 DEF Init, TypeOK, OpNames, Endings, Origins, NotIssued
<1>3. WritesAccounted /\ BatchCovered /\ BatchesWhole /\ AppliedIsSaved
  BY <1>1 DEF Init, WritesAccounted, BatchCovered, BatchesWhole, AppliedIsSaved, NoOp, Fresh, NotIssued
<1>4. OriginsContained /\ ReadOnlyKeepsOut
  BY <1>1 DEF Init, OriginsContained, ReadOnlyKeepsOut
<1>5. FlagTracksServer
  <2>1. InTxn(db) = FALSE /\ flag = FALSE
    BY <1>1 DEF Init, InTxn
  <2>2. QED
    BY <2>1 DEF FlagTracksServer, Agreed
<1>6. QED
  BY <1>2, <1>3, <1>4, <1>5 DEF IInv

LEMMA StutterHolds ==
  ASSUME IInv, UNCHANGED vars
  PROVE  IInv' /\ Settling
<1>1. IInv'
  BY DEF IInv, vars, TypeOK, WritesAccounted, BatchCovered, BatchesWhole, AppliedIsSaved,
         OriginsContained, ReadOnlyKeepsOut, FlagTracksServer, Settles, Agreed,
         Fresh, InTxn
<1>2. Moves(db, db', {})
  BY HeldIsSound DEF IInv, Held, vars
<1>3. \A w \in {} : Fresh(w)
  OBVIOUS
<1>4. QED
  BY <1>1, <1>2, <1>3 DEF Settling

\* Every step keeps the invariant and moves the server as a whole.
LEMMA NextHolds ==
  ASSUME IInv, [Next]_vars
  PROVE  IInv' /\ Settling
<1>1. CASE Begin
  BY <1>1, BeginHolds
<1>2. CASE Commit
  BY <1>2, CommitHolds
<1>3. CASE Rollback
  BY <1>3, RollbackHolds
<1>4. CASE Query
  BY <1>4, QueryHolds
<1>5. CASE StreamQuery
  BY <1>5, StreamQueryHolds
<1>6. CASE Inspect
  BY <1>6, InspectHolds
<1>7. CASE ExplainAnalyze
  BY <1>7, ExplainAnalyzeHolds
<1>8. CASE ApplyRefused
  BY <1>8, ApplyRefusedHolds
<1>9. CASE ApplyStart
  BY <1>9, ApplyStartHolds
<1>10. CASE ApplyChange
  BY <1>10, ApplyChangeHolds
<1>11. CASE ApplyEnd
  BY <1>11, ApplyEndHolds
<1>12. CASE Reopen
  BY <1>12, ReopenHolds
<1>13. CASE UNCHANGED vars
  BY <1>13, StutterHolds
<1>14. CASE ExplainPlan
  BY <1>14, ExplainPlanHolds
<1>15. QED
  BY <1>14, <1>1, <1>2, <1>3, <1>4, <1>5, <1>6, <1>7, <1>8, <1>9, <1>10, <1>11, <1>12, <1>13
     DEF Next

\* The inductive invariant: every operation of every adapter, and every crash
\* between two statements of a batch, keeps the conjunction the safety
\* properties follow from.
THEOREM Safety == Spec => []IInv
<1>1. Init => IInv
  BY InitHolds
<1>2. IInv /\ [Next]_vars => IInv'
  BY NextHolds
<1>3. QED
  BY <1>1, <1>2, PTL DEF Spec

\* Type correctness.
THEOREM TypeCorrect == Spec => []TypeOK
<1>1. IInv => TypeOK
  BY DEF IInv
<1>2. QED
  BY <1>1, Safety, PTL

\* A batch that did not begin under a stale flag is durable as a whole or not at
\* all, forever, and a batch reported as failed leaves nothing durable.
THEOREM ApplyIsAtomic == Spec => []ApplyAllOrNothing
<1>1. IInv => ApplyAllOrNothing
  BY DEF IInv, BatchesWhole, ApplyAllOrNothing
<1>2. QED
  BY <1>1, Safety, PTL

\* What apply-changes reports as applied and saved stays durable.
THEOREM AppliedStaysSaved == Spec => []AppliedIsSaved
<1>1. IInv => AppliedIsSaved
  BY DEF IInv
<1>2. QED
  BY <1>1, Safety, PTL

\* Row changes applied through a sandbox session never become durable, but for
\* those of a batch that began while the flag said a transaction was open and
\* the server had none.
THEOREM SandboxDiscards == Spec => []SandboxDiscardsApplied
<1>1. IInv => SandboxDiscardsApplied
  BY DEF IInv, OriginsContained, BatchCovered, WritesAccounted, SandboxDiscardsApplied
<1>2. QED
  BY <1>1, Safety, PTL

\* What EXPLAIN ANALYZE writes while the flag is clear never becomes durable,
\* whatever the server thinks of a transaction.
THEOREM ExplainSavesNothing == Spec => []ExplainDiscards
<1>1. IInv => ExplainDiscards
  BY DEF IInv, OriginsContained, ExplainDiscards
<1>2. QED
  BY <1>1, Safety, PTL

\* A read-only session writes only behind a keyword that returns rows, or behind
\* an explained statement in the text of a plain plan.
THEOREM ReadOnlyIsReadOnly == Spec => []ReadOnlyKeepsOut
<1>1. IInv => ReadOnlyKeepsOut
  BY DEF IInv
<1>2. QED
  BY <1>1, Safety, PTL

\* Whenever an operation settles the question, the adapter's flag and the
\* server agree.
THEOREM FlagIsRight == Spec => []FlagTracksServer
<1>1. IInv => FlagTracksServer
  BY DEF IInv
<1>2. QED
  BY <1>1, Safety, PTL

-----------------------------------------------------------------------------
(* DbSession implements AtomicBatches.  That a step moves the server as a   *)
(* whole is shown above; here it is read as a step, or no step, of the      *)
(* fates of the batches reported.  What it takes beside IInv is that        *)
(* batches have no write in common, and that none waits while the flag is   *)
(* clear.                                                                   *)

Apart ==
  /\ {} \notin batches
  /\ op.kind = "apply" =>
       /\ op.todo = 0 => op.done # {}
       /\ \A b \in batches : b \cap op.done = {}

\* While the flag is clear no batch waits, so that no transaction but the one it
\* joined can settle the fate of one.
WaitsUnderFlag == ~flag => \A b \in batches : b \cap db.dirty = {}

-----------------------------------------------------------------------------
(* Batches stay apart.                                                      *)

\* Most steps leave no batch under way and report none.
LEMMA OtherSteps ==
  ASSUME Next
  PROVE  \/ op' = NoOp /\ batches' = batches
         \/ ApplyStart \/ ApplyChange \/ ApplyEnd
BY DEF Next, Begin, Commit, Rollback, Finish, Query, StreamQuery, Hand, ExportCursor, Inspect,
       ExplainPlan, ExplainAnalyze, ApplyRefused, Reopen, history

\* A batch that starts has something to do, and has done nothing.
LEMMA StartApart ==
  ASSUME IInv, Apart, ApplyStart
  PROVE  Apart' /\ batches' = batches
<1>1. PICK n \in 1 .. MaxBatch :
        op' = op \/ op' = Batch(~flag, n, {}, Trust # "stale")
  BY DEF ApplyStart
<1>2. op = NoOp /\ batches' = batches /\ n # 0
  BY SessionAssumption DEF ApplyStart, history
<1>3. QED
  BY <1>1, <1>2 DEF Apart, NoOp, Batch

\* A change adds a write no finished batch has.
LEMMA ChangeApart ==
  ASSUME IInv, Apart, ApplyChange
  PROVE  Apart' /\ batches' = batches
<1>1. Held /\ Sound(db)
  BY HeldIsSound DEF IInv, Held
<1>2. PICK w \in Writes :
        /\ Fresh(w)
        /\ \/ op' = NoOp
           \/ \E r \in RunWrite(db, w) :
                /\ r.ok /\ db' = r.db
                /\ op' = Batch(op.own, op.todo - 1, op.done \cup {w}, op.sync)
  BY DEF ApplyChange, Abandon
<1>3. op.kind = "apply" /\ batches' = batches
  BY DEF ApplyChange
<1>4. CASE op' = NoOp
  BY <1>3, <1>4 DEF Apart, NoOp
<1>5. CASE \E r \in RunWrite(db, w) :
             /\ r.ok /\ db' = r.db
             /\ op' = Batch(op.own, op.todo - 1, op.done \cup {w}, op.sync)
  <2>1. PICK r \in RunWrite(db, w) :
          /\ r.ok /\ db' = r.db
          /\ op' = Batch(op.own, op.todo - 1, op.done \cup {w}, op.sync)
    BY <1>5
  <2>2. /\ op'.own = op.own /\ op'.sync = op.sync
        /\ op'.done = op.done \cup {w}
    BY <2>1 DEF Batch
  <2>3. w \notin db.dirty \cup db.durable /\ \A b \in batches : w \notin b
    BY <1>1, <1>2, FreshIsNew
  <2>4. QED
    BY <1>3, <2>2, <2>3 DEF Apart
<1>6. QED
  BY <1>2, <1>4, <1>5

\* What the end of a batch reports.
LEMMA EndReports ==
  ASSUME IInv, Apart, ApplyEnd
  PROVE  /\ op' = NoOp /\ Apart'
         /\ \/ batches' = batches
            \/ /\ op.sync /\ op.done # {} /\ op.done \notin batches
               /\ batches' = batches \cup {op.done}
               /\ \/ ~op.own /\ flag' = flag /\ db' = db
                  \/ op.own /\ ~InTxn(db') /\ db'.durable = db.durable \cup db.dirty
<1>1. /\ Held /\ Sound(db)
      /\ op.kind = "apply" /\ op' = NoOp /\ op.done # {}
      /\ \A b \in batches : b \cap op.done = {}
  BY HeldIsSound DEF IInv, Held, ApplyEnd, Apart
<1>2. op.own => db.txn = "open"
  BY <1>1 DEF Held, BatchCovered
<1>3. op.done \notin batches
  BY <1>1
<1>4. \/ batches' = batches
      \/ /\ op.sync /\ batches' = batches \cup {op.done}
         /\ \/ ~op.own /\ flag' = flag /\ db' = db
            \/ op.own /\ \E r \in RunCommit(db) : r.ok /\ db' = r.db
  BY DEF ApplyEnd, CommitBatch, Applied
<1>5. ASSUME NEW r \in RunCommit(db), r.ok, op.own
      PROVE  ~InTxn(r.db) /\ r.db.durable = db.durable \cup db.dirty
  BY <1>1, <1>2, <1>5, CommitMoves
<1>6. Apart'
  BY <1>1, <1>4 DEF Apart, NoOp
<1>7. QED
  BY <1>1, <1>3, <1>4, <1>5, <1>6

LEMMA NextApart ==
  ASSUME IInv, Apart, [Next]_vars
  PROVE  Apart'
<1>1. CASE op' = NoOp /\ batches' = batches
  BY <1>1 DEF Apart, NoOp
<1>2. CASE UNCHANGED vars
  BY <1>2 DEF Apart, vars
<1>3. QED
  BY <1>1, <1>2, OtherSteps, StartApart, ChangeApart, EndReports

\* The flag is cleared only by what leaves the server without a transaction.
LEMMA FlagCleared ==
  ASSUME IInv, IInv', [Next]_vars, flag, ~flag'
  PROVE  ~InTxn(db')
<1>1. op' = NoOp /\ Settles'
  <2>1. CASE Begin
    BY <2>1 DEF Begin
  <2>2. ASSUME NEW name \in {"commit", "rollback"}, NEW Results, Finish(name, Results)
        PROVE  op' = NoOp /\ Settles'
    <3>1. PICK r \in Results : flag' = ~r.ok /\ AnswerBy(name, r)
      BY <2>2 DEF Finish
    <3>2. last' = [op |-> name, ended |-> "ok"]
      BY <3>1 DEF AnswerBy, Answer
    <3>3. QED
      BY <2>2, <3>2 DEF Finish, Settles
  <2>3. CASE Commit \/ Rollback
    BY <2>2, <2>3 DEF Commit, Rollback
  <2>4. CASE Query \/ StreamQuery \/ Inspect \/ ExplainPlan \/ ExplainAnalyze \/ ApplyRefused
             \/ ApplyStart \/ UNCHANGED vars
    BY <2>4 DEF Query, StreamQuery, Hand, ExportCursor, Inspect, ExplainPlan, ExplainAnalyze,
         ApplyRefused, ApplyStart, vars
  <2>5. CASE ApplyChange
    <3>1. PICK d : Abandon(d)
      BY <2>5 DEF ApplyChange
    <3>2. QED
      BY <3>1 DEF Abandon, Answer, Settles
  <2>6. CASE ApplyEnd
    <3>1. op' = NoOp /\ op.own = ~flag
      BY <2>6 DEF ApplyEnd, IInv, BatchCovered
    <3>2. PICK r : flag' = (flag /\ ~r.ok) /\ Answer("apply", IF r.ok THEN "ok" ELSE "unsettled")
      BY <2>6, <3>1 DEF ApplyEnd
    <3>3. QED
      BY <3>1, <3>2 DEF Answer, Settles
  <2>7. CASE Reopen
    BY <2>7 DEF Reopen, Answer, Settles
  <2>8. QED
    BY <2>1, <2>3, <2>4, <2>5, <2>6, <2>7 DEF Next
<1>2. Agreed'
  BY <1>1 DEF IInv, FlagTracksServer
<1>3. QED
  BY <1>2 DEF Agreed

LEMMA NextWaits ==
  ASSUME IInv, IInv', Apart, WaitsUnderFlag, [Next]_vars
  PROVE  WaitsUnderFlag'
<1> SUFFICES ASSUME ~flag', NEW b \in batches'
             PROVE  b \cap db'.dirty = {}
  BY DEF WaitsUnderFlag
<1>1. CASE ~InTxn(db')
  BY <1>1 DEF IInv, WritesAccounted, InTxn
<1>2. CASE ~flag /\ b \in batches
  <2>1. PICK W \in SUBSET Writes : (\A w \in W : Fresh(w)) /\ Moves(db, db', W)
    BY NextHolds DEF Settling
  <2>2. b \cap W = {}
    BY <1>2, <2>1, FreshIsNew DEF IInv, Held
  <2>3. b \cap db.dirty = {}
    BY <1>2 DEF WaitsUnderFlag
  <2>4. QED
    BY <2>1, <2>2, <2>3 DEF Moves
<1>3. CASE b \notin batches
  <2>1. ApplyEnd
    BY <1>3, OtherSteps, StartApart, ChangeApart DEF vars
  <2>2. ~op.own => flag
    BY <2>1 DEF ApplyEnd, IInv, BatchCovered
  <2>3. QED
    BY <1>1, <1>3, <2>1, <2>2, EndReports
<1>4. QED
  BY <1>1, <1>2, <1>3, FlagCleared

-----------------------------------------------------------------------------
(* The fates of batches.                                                    *)

\* A whole batch has one of three fates, and where its writes are says which.
LEMMA FateIs ==
  ASSUME IInv, NEW b \in batches, b # {}
  PROVE  /\ Fate(b) = "saved" <=> b \subseteq db.durable
         /\ Fate(b) = "waiting" <=> b \subseteq db.dirty
         /\ Fate(b) = "gone" <=> b \cap (db.dirty \cup db.durable) = {}
         /\ Fate(b) \in {"saved", "waiting", "gone"}
<1>1. Whole(b, db) /\ db.dirty \cap db.durable = {}
  BY DEF IInv, BatchesWhole, WritesAccounted, Whole
<1>2. QED
  BY <1>1 DEF Fate, Whole

\* The same of the next state.
LEMMA FateBecomes ==
  ASSUME IInv', NEW b \in batches', b # {}
  PROVE  /\ Fate(b)' = "saved" <=> b \subseteq db'.durable
         /\ Fate(b)' = "waiting" <=> b \subseteq db'.dirty
         /\ Fate(b)' = "gone" <=> b \cap (db'.dirty \cup db'.durable) = {}
         /\ Fate(b)' \in {"saved", "waiting", "gone"}
<1>1. Whole(b, db') /\ db'.dirty \cap db'.durable = {}
  BY DEF IInv, BatchesWhole, WritesAccounted, Whole
<1>2. QED
  BY <1>1 DEF Fate, Whole

\* A step that reports no batch changes no fate, or ends the transaction of
\* those that wait.
LEMMA StepEnds ==
  ASSUME IInv, IInv', Apart, Settling, batches' = batches
  PROVE  Fates' = Fates \/ \E fate \in {"saved", "gone"} : Atomic!EndTransaction(fate)
<1>1. Held
  BY DEF IInv, Held
<1>2. PICK W \in SUBSET Writes : (\A w \in W : Fresh(w)) /\ Moves(db, db', W)
  BY DEF Settling
<1>3. \A b \in batches : b \cap W = {} /\ b # {}
  BY <1>1, <1>2, FreshIsNew DEF Apart
<1>4. DOMAIN Fates = batches /\ \A b \in batches : Fates[b] = Fate(b)
  BY DEF Fates
<1>5. Fates' = [b \in batches |-> Fate(b)']
  BY DEF Fates
<1>6. CASE db'.durable \ W = db.durable /\ db'.dirty \ W = db.dirty
  <2>1. ASSUME NEW b \in batches
        PROVE  Fate(b)' = Fate(b)
    BY <1>3, <1>6, FateIs, FateBecomes
  <2>2. QED
    BY <1>5, <2>1 DEF Fates
<1>7. CASE db'.durable \ W = db.durable /\ db'.dirty \ W = {}
  <2>1. ASSUME NEW b \in batches
        PROVE  Fate(b)' = IF Fate(b) = "waiting" THEN "gone" ELSE Fate(b)
    <3>1. Fate(b) = "waiting" => b \cap db.durable = {}
      BY <1>3, FateIs DEF IInv, WritesAccounted
    <3>2. QED
      BY <1>3, <1>7, <3>1, FateIs, FateBecomes
  <2>2. Atomic!EndTransaction("gone")
    BY <1>4, <1>5, <2>1 DEF Atomic!EndTransaction
  <2>3. QED
    BY <2>2
<1>8. CASE db'.durable \ W = db.durable \cup db.dirty /\ db'.dirty \ W = {}
  <2>1. ASSUME NEW b \in batches
        PROVE  Fate(b)' = IF Fate(b) = "waiting" THEN "saved" ELSE Fate(b)
    BY <1>3, <1>8, FateIs, FateBecomes
  <2>2. Atomic!EndTransaction("saved")
    BY <1>4, <1>5, <2>1 DEF Atomic!EndTransaction
  <2>3. QED
    BY <2>2
<1>9. QED
  BY <1>2, <1>6, <1>7, <1>8 DEF Moves

\* A step that reports a batch says that it is saved, and then no other
\* waited, or that it waits.
LEMMA StepReports ==
  ASSUME IInv, IInv', Apart, Apart', WaitsUnderFlag, ApplyEnd, batches' # batches
  PROVE  \E b \in (SUBSET Writes) \ {{}}, fate \in {"saved", "waiting"} : Atomic!Report(b, fate)
<1>1. PICK new : new = op.done
  OBVIOUS
<1>2. /\ op.sync /\ new # {} /\ new \notin batches
      /\ batches' = batches \cup {new}
      /\ \/ db' = db
         \/ op.own /\ ~InTxn(db') /\ db'.durable = db.durable \cup db.dirty
  BY <1>1, EndReports
<1>3. op.kind = "apply" /\ op.done \in SUBSET Writes
  BY DEF IInv, TypeOK, Applies, NoOp, ApplyEnd
<1>4. /\ new \in (SUBSET Writes) \ {{}}
      /\ new \subseteq db.dirty /\ db.dirty \cap db.durable = {}
      /\ op.own => \A b \in batches : b \cap db.dirty = {}
  <2>1. db.dirty \cap db.durable = {}
    BY DEF IInv, WritesAccounted
  <2>2. op.done \subseteq db.dirty
    BY <1>2, <1>3 DEF IInv, BatchCovered
  <2>3. op.own => \A b \in batches : b \cap db.dirty = {}
    BY <1>3 DEF IInv, BatchCovered, WaitsUnderFlag
  <2>4. QED
    BY <1>1, <1>2, <1>3, <2>1, <2>2, <2>3
<1>5. \A b \in batches : b \cap new = {} /\ b # {}
  BY <1>1, <1>3 DEF Apart
<1>6. DOMAIN Fates = batches /\ \A b \in batches : Fates[b] = Fate(b)
  BY DEF Fates
<1>7. Fates' = [b \in batches' |-> Fate(b)']
  BY DEF Fates
<1>8. \A b \in batches' : b # {}
  BY DEF Apart
<1>9. CASE db' = db
  <2>1. ASSUME NEW b \in batches
        PROVE  Fate(b)' = Fate(b)
    BY <1>9 DEF Fate
  <2>2. Fate(new)' = "waiting"
    BY <1>2, <1>4, <1>8, <1>9, FateBecomes
  <2>3. Atomic!Report(new, "waiting")
    BY <1>2, <1>6, <1>7, <2>1, <2>2 DEF Atomic!Report
  <2>4. QED
    BY <1>4, <2>3
<1>10. CASE op.own /\ ~InTxn(db') /\ db'.durable = db.durable \cup db.dirty
  <2>1. db'.dirty = {}
    BY <1>10 DEF IInv, WritesAccounted
  <2>2. ASSUME NEW b \in batches
        PROVE  Fate(b) # "waiting" /\ Fate(b)' = Fate(b)
    <3>1. Fate(b) # "waiting"
      BY <1>4, <1>5, <1>10, FateIs
    <3>2. b \in batches'
      BY <1>2
    <3>3. Fate(b) = "saved" => Fate(b)' = "saved"
      BY <1>5, <1>10, <3>2, FateIs, FateBecomes
    <3>4. Fate(b) = "gone" => Fate(b)' = "gone"
      BY <1>4, <1>5, <1>10, <2>1, <3>2, FateIs, FateBecomes
    <3>5. QED
      BY <1>5, <3>1, <3>3, <3>4, FateIs
  <2>3. Fate(new)' = "saved"
    BY <1>2, <1>4, <1>8, <1>10, FateBecomes
  <2>4. Atomic!Waiting = {}
    BY <1>6, <2>2 DEF Atomic!Waiting
  <2>5. Atomic!Report(new, "saved")
    BY <1>2, <1>6, <1>7, <2>2, <2>3, <2>4 DEF Atomic!Report
  <2>6. QED
    BY <1>4, <2>5
<1>11. QED
  BY <1>2, <1>9, <1>10

-----------------------------------------------------------------------------

\* To its caller a batch of row changes is one step, whichever statement or
\* failure ends the transaction it is in (apply_changes, commit, rollback, and
\* what users type): the batches reported are saved, or wait, or are gone,
\* each as a whole and those that wait together.
THEOREM Refines == Spec => ImplementsAtomicBatches
<1>1. Init => Apart /\ WaitsUnderFlag /\ Atomic!Init
  BY DEF Init, Apart, WaitsUnderFlag, NoOp, Atomic!Init, Fates
<1>2. /\ IInv /\ Apart /\ [Next]_vars => Apart'
      /\ IInv /\ IInv' /\ Apart /\ WaitsUnderFlag /\ [Next]_vars => WaitsUnderFlag'
  BY NextApart, NextWaits
<1>3. IInv /\ IInv' /\ Apart /\ Apart' /\ WaitsUnderFlag /\ [Next]_vars => [Atomic!Next]_Fates
  <2> SUFFICES ASSUME IInv, IInv', Apart, Apart', WaitsUnderFlag, [Next]_vars
               PROVE  [Atomic!Next]_Fates
    OBVIOUS
  <2>1. CASE batches' = batches
    <3>1. Settling
      BY NextHolds
    <3>2. Fates' = Fates \/ \E fate \in {"saved", "gone"} : Atomic!EndTransaction(fate)
      BY <2>1, <3>1, StepEnds
    <3>3. QED
      BY <3>2 DEF Atomic!Next
  <2>2. CASE batches' # batches
    <3>1. ApplyEnd
      BY <2>2, OtherSteps, StartApart, ChangeApart DEF vars
    <3>2. \E b \in (SUBSET Writes) \ {{}}, fate \in {"saved", "waiting"} : Atomic!Report(b, fate)
      BY <2>2, <3>1, StepReports
    <3>3. QED
      BY <3>2 DEF Atomic!Next
  <2>3. QED
    BY <2>1, <2>2
<1>4. QED
  BY <1>1, <1>2, <1>3, Safety, PTL DEF Spec, ImplementsAtomicBatches, Atomic!Spec
=============================================================================
