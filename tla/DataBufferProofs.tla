-------------------------- MODULE DataBufferProofs --------------------------
(* Proofs about the data buffer, for tables, pages and texts of any size: that *)
(* what is on screen, what was asked and what the table holds fit together,    *)
(* that the flag tells of unsaved edits, that no update is lost, that the undo *)
(* log puts a batch back, and that :w makes the table what the lines say.      *)
EXTENDS DataBuffer, FiniteSetTheorems, WellFoundedInduction, TLAPS

-----------------------------------------------------------------------------
(* Induction over the natural numbers, for sets instead of predicates.         *)

\* A set of natural numbers that is not empty has a least element.
LEMMA LeastOf ==
  ASSUME NEW T, T \subseteq Nat, T # {}
  PROVE  \E x \in T : \A y \in T : x <= y
<1> DEFINE R == OpToRel(<, Nat)
<1>1. IsWellFoundedOn(R, Nat)
  BY NatLessThanWellFounded
<1>2. R = {ss \in Nat \X Nat : ss[1] < ss[2]}
  BY DEF OpToRel
<1>3. \A x, y \in Nat : y < x => <<y, x>> \in R
  BY <1>2
<1> HIDE DEF R
<1>4. PICK x \in T : \A y \in T : ~ (<<y, x>> \in R)
  BY <1>1, WFMin
<1>5. \A y \in T : x <= y
  <2> TAKE y \in T
  <2>1. x \in Nat /\ y \in Nat
    OBVIOUS
  <2>2. ~ (y < x)
    BY <1>3, <1>4, <2>1
  <2> QED
    BY <2>1, <2>2
<1> QED
  BY <1>5

\* A set that holds m and with every number from m to n - 1 the next one holds
\* all numbers from m to n.
LEMMA Induction ==
  ASSUME NEW m \in Nat, NEW n \in Nat, NEW S,
         m \in S, \A i \in m .. n - 1 : i \in S => i + 1 \in S
  PROVE  m .. n \subseteq S
<1> DEFINE T == m .. n \ S
<1> SUFFICES ASSUME T # {} PROVE FALSE
  OBVIOUS
<1>0. T \subseteq Nat
  OBVIOUS
<1>1. PICK x \in T : \A y \in T : x <= y
  BY <1>0, LeastOf
<1>2. x # m /\ x \in m .. n
  OBVIOUS
<1>3. x \in Nat /\ x - 1 \in m .. n - 1 /\ x - 1 \in m .. n /\ ~ (x <= x - 1)
  BY <1>2
<1>4. x - 1 \in S
  BY <1>1, <1>3
<1>5. (x - 1) + 1 = x
  BY <1>2
<1> QED
  BY <1>2, <1>3, <1>4, <1>5

-----------------------------------------------------------------------------
(* Recursive functions are what their definitions say.                         *)

RanTo(t, changes, n, f) ==
  f = [i \in 0 .. n |-> IF i = 0 THEN [ok |-> TRUE, table |-> t]
                        ELSE ApplyNext(f[i - 1], changes[i])]

\* The runs of a batch, change by change, as the definition of Ran says.
LEMMA RanIs ==
  ASSUME NEW t, NEW changes, Len(changes) \in Nat
  PROVE  RanTo(t, changes, Len(changes), Ran(t, changes))
<1> DEFINE S == {n \in Nat : \E f : RanTo(t, changes, n, f)}
<1>1. 0 \in S
  <2> DEFINE f == [i \in 0 .. 0 |-> [ok |-> TRUE, table |-> t]]
  <2>1. RanTo(t, changes, 0, f)
    BY DEF RanTo
  <2> QED
    BY <2>1
<1>2. ASSUME NEW n \in 0 .. Len(changes) - 1, n \in S
      PROVE  n + 1 \in S
  <2>1. PICK f : RanTo(t, changes, n, f)
    BY <1>2
  <2> DEFINE last == ApplyNext(f[n], changes[n + 1])
             g == [i \in 0 .. n + 1 |-> IF i <= n THEN f[i] ELSE last]
  <2>2. \A i \in 0 .. n : g[i] = f[i]
    OBVIOUS
  <2>3. g[n + 1] = last
    OBVIOUS
  <2>4. \A i \in 0 .. n + 1 : g[i] = IF i = 0 THEN [ok |-> TRUE, table |-> t]
                                     ELSE ApplyNext(g[i - 1], changes[i])
    <3> TAKE i \in 0 .. n + 1
    <3>1. CASE i = 0
      BY <3>1, <2>1, <2>2 DEF RanTo
    <3>2. CASE i \in 1 .. n
      <4>1. i \in 0 .. n /\ i - 1 \in 0 .. n /\ i # 0
        BY <3>2
      <4>2. f[i] = ApplyNext(f[i - 1], changes[i])
        BY <4>1, <2>1 DEF RanTo
      <4> HIDE DEF g
      <4> QED
        BY <4>1, <4>2, <2>2
    <3>3. CASE i = n + 1
      <4>1. n \in 0 .. n /\ i - 1 = n /\ i # 0
        BY <3>3
      <4> HIDE DEF g
      <4> QED
        BY <4>1, <3>3, <2>2, <2>3
    <3> QED
      BY <3>1, <3>2, <3>3
  <2>5. RanTo(t, changes, n + 1, g)
    <3>1. g = [i \in 0 .. n + 1 |-> g[i]]
      OBVIOUS
    <3> HIDE DEF g
    <3> QED
      BY <3>1, <2>4 DEF RanTo
  <2> QED
    BY <2>5
<1>3. Len(changes) \in S
  <2> HIDE DEF S
  <2>1. 0 .. Len(changes) \subseteq S
    BY <1>1, <1>2, Induction, Zenon
  <2>2. Len(changes) \in 0 .. Len(changes)
    OBVIOUS
  <2> QED
    BY <2>1, <2>2
<1>4. \E f : RanTo(t, changes, Len(changes), f)
  BY <1>3
<1> QED
  BY <1>4 DEF RanTo, Ran

UndoingTo(t, changes, n, f) ==
  f = [i \in 0 .. n |-> IF i = 0 THEN t
                        ELSE IF Invertible(changes[i]) THEN RunInverse(f[i - 1], changes[i])
                        ELSE f[i - 1]]

\* The inverses, change by change, as the definition of Undoing says.
LEMMA UndoingIs ==
  ASSUME NEW t, NEW changes, Len(changes) \in Nat
  PROVE  UndoingTo(t, changes, Len(changes), Undoing(t, changes))
<1> DEFINE S == {n \in Nat : \E f : UndoingTo(t, changes, n, f)}
<1>1. 0 \in S
  <2> DEFINE f == [i \in 0 .. 0 |-> t]
  <2>1. UndoingTo(t, changes, 0, f)
    BY DEF UndoingTo
  <2> QED
    BY <2>1
<1>2. ASSUME NEW n \in 0 .. Len(changes) - 1, n \in S
      PROVE  n + 1 \in S
  <2>1. PICK f : UndoingTo(t, changes, n, f)
    BY <1>2
  <2> DEFINE last == IF Invertible(changes[n + 1]) THEN RunInverse(f[n], changes[n + 1]) ELSE f[n]
             g == [i \in 0 .. n + 1 |-> IF i <= n THEN f[i] ELSE last]
  <2>2. \A i \in 0 .. n : g[i] = f[i]
    OBVIOUS
  <2>3. g[n + 1] = last
    OBVIOUS
  <2>4. \A i \in 0 .. n + 1 : g[i] = IF i = 0 THEN t
                                     ELSE IF Invertible(changes[i])
                                     THEN RunInverse(g[i - 1], changes[i]) ELSE g[i - 1]
    <3> TAKE i \in 0 .. n + 1
    <3>1. CASE i = 0
      BY <3>1, <2>1, <2>2 DEF UndoingTo
    <3>2. CASE i \in 1 .. n
      <4>1. i \in 0 .. n /\ i - 1 \in 0 .. n /\ i # 0
        BY <3>2
      <4>2. f[i] = IF Invertible(changes[i]) THEN RunInverse(f[i - 1], changes[i]) ELSE f[i - 1]
        BY <4>1, <2>1 DEF UndoingTo
      <4> HIDE DEF g
      <4> QED
        BY <4>1, <4>2, <2>2
    <3>3. CASE i = n + 1
      <4>1. n \in 0 .. n /\ i - 1 = n /\ i # 0
        BY <3>3
      <4> HIDE DEF g
      <4> QED
        BY <4>1, <3>3, <2>2, <2>3
    <3> QED
      BY <3>1, <3>2, <3>3
  <2>5. UndoingTo(t, changes, n + 1, g)
    <3>1. g = [i \in 0 .. n + 1 |-> g[i]]
      OBVIOUS
    <3> HIDE DEF g
    <3> QED
      BY <3>1, <2>4 DEF UndoingTo
  <2> QED
    BY <2>5
<1>3. Len(changes) \in S
  <2> HIDE DEF S
  <2>1. 0 .. Len(changes) \subseteq S
    BY <1>1, <1>2, Induction, Zenon
  <2>2. Len(changes) \in 0 .. Len(changes)
    OBVIOUS
  <2> QED
    BY <2>1, <2>2
<1>4. \E f : UndoingTo(t, changes, Len(changes), f)
  BY <1>3
<1> QED
  BY <1>4 DEF UndoingTo, Undoing

FlattenedTo(s, n, f) ==
  f = [i \in 1 .. n |-> IF i = 1 THEN s[i] ELSE f[i - 1] \o s[i]]

\* Flattening, entry by entry, as the definition of FlattenSeq says.
LEMMA FlattenIs ==
  ASSUME NEW s, Len(s) \in Nat \ {0}
  PROVE  \E f : FlattenedTo(s, Len(s), f) /\ FlattenSeq(s) = f[Len(s)]
<1> DEFINE S == {n \in Nat : \E f : FlattenedTo(s, n, f)}
<1>1. 1 \in S
  <2> DEFINE f == [i \in 1 .. 1 |-> s[i]]
  <2>1. FlattenedTo(s, 1, f)
    BY DEF FlattenedTo
  <2> QED
    BY <2>1
<1>2. ASSUME NEW n \in 1 .. Len(s) - 1, n \in S
      PROVE  n + 1 \in S
  <2>1. PICK f : FlattenedTo(s, n, f)
    BY <1>2
  <2> DEFINE last == f[n] \o s[n + 1]
             g == [i \in 1 .. n + 1 |-> IF i <= n THEN f[i] ELSE last]
  <2>2. \A i \in 1 .. n : g[i] = f[i]
    OBVIOUS
  <2>3. g[n + 1] = last
    <3> HIDE DEF last
    <3> QED
      OBVIOUS
  <2>4. \A i \in 1 .. n + 1 : g[i] = IF i = 1 THEN s[i] ELSE g[i - 1] \o s[i]
    <3> TAKE i \in 1 .. n + 1
    <3>1. CASE i = 1
      <4>1. i \in 1 .. n
        BY <3>1
      <4>2. f[i] = s[i]
        BY <4>1, <3>1, <2>1 DEF FlattenedTo
      <4> HIDE DEF g
      <4> QED
        BY <4>1, <4>2, <3>1, <2>2
    <3>2. CASE i \in 2 .. n
      <4>1. i \in 1 .. n /\ i - 1 \in 1 .. n /\ i # 1
        BY <3>2
      <4>2. f[i] = f[i - 1] \o s[i]
        BY <4>1, <2>1 DEF FlattenedTo
      <4> HIDE DEF g
      <4> QED
        BY <4>1, <4>2, <2>2
    <3>3. CASE i = n + 1
      <4>1. n \in 1 .. n /\ i - 1 = n /\ i # 1
        BY <3>3
      <4> HIDE DEF g
      <4> QED
        BY <4>1, <3>3, <2>2, <2>3
    <3> QED
      BY <3>1, <3>2, <3>3
  <2>5. FlattenedTo(s, n + 1, g)
    <3>1. g = [i \in 1 .. n + 1 |-> g[i]]
      OBVIOUS
    <3> HIDE DEF g
    <3> QED
      BY <3>1, <2>4 DEF FlattenedTo
  <2> QED
    BY <2>5
<1>3. Len(s) \in S
  <2> HIDE DEF S
  <2>1. 1 .. Len(s) \subseteq S
    BY <1>1, <1>2, Induction, Zenon
  <2>2. Len(s) \in 1 .. Len(s)
    OBVIOUS
  <2> QED
    BY <2>1, <2>2
<1>4. \E f : FlattenedTo(s, Len(s), f)
  BY <1>3
<1> DEFINE F == CHOOSE f : FlattenedTo(s, Len(s), f)
<1>5. FlattenedTo(s, Len(s), F)
  BY <1>4
<1>6. FlattenSeq(s) = F[Len(s)]
  BY DEF FlattenSeq, FlattenedTo
<1> QED
  BY <1>5, <1>6

-----------------------------------------------------------------------------
(* Flattening entries of one element or none: at gives the entry that each     *)
(* element of the result is from.                                              *)

Picks(s, i, result, at) ==
  /\ at \in [1 .. Len(result) -> 1 .. i]
  /\ \A n \in 1 .. Len(result) : s[at[n]] = <<result[n]>>
  /\ \A m, n \in 1 .. Len(result) : m < n => at[m] < at[n]
  /\ \A j \in 1 .. i : s[j] # <<>> => \E n \in 1 .. Len(result) : at[n] = j

\* One entry more.
LEMMA PickNext ==
  ASSUME NEW V, NEW s, NEW i \in Nat, NEW r \in Seq(V), NEW at, Picks(s, i, r, at),
         s[i + 1] = <<>> \/ \E v \in V : s[i + 1] = <<v>>
  PROVE  r \o s[i + 1] \in Seq(V) /\ \E next : Picks(s, i + 1, r \o s[i + 1], next)
<1>1. CASE s[i + 1] = <<>>
  <2>1. r \o s[i + 1] = r
    BY <1>1
  <2>2. Picks(s, i + 1, r, at)
    BY <1>1 DEF Picks
  <2> QED
    BY <2>1, <2>2
<1>2. ASSUME NEW v \in V, s[i + 1] = <<v>>
      PROVE  r \o s[i + 1] \in Seq(V) /\ \E next : Picks(s, i + 1, r \o s[i + 1], next)
  <2> DEFINE q == r \o <<v>>
             next == [n \in 1 .. Len(r) + 1 |-> IF n <= Len(r) THEN at[n] ELSE i + 1]
  <2>1. q \in Seq(V) /\ Len(q) = Len(r) + 1 /\ q[Len(r) + 1] = v /\ Len(r) \in Nat
    OBVIOUS
  <2>2. \A n \in 1 .. Len(r) : q[n] = r[n]
    OBVIOUS
  <2>3. \A n \in 1 .. Len(r) : next[n] = at[n] /\ at[n] \in 1 .. i
    BY DEF Picks
  <2>4. next[Len(r) + 1] = i + 1
    BY <2>1
  <2>5. next \in [1 .. Len(q) -> 1 .. i + 1]
    <3>1. \A n \in 1 .. Len(r) + 1 : n # Len(r) + 1 => n \in 1 .. Len(r)
      BY <2>1
    <3>2. \A n \in 1 .. i : n \in 1 .. i + 1
      OBVIOUS
    <3>3. \A n \in 1 .. Len(r) + 1 : next[n] \in 1 .. i + 1
      <4> HIDE DEF next
      <4> QED
        BY <3>1, <3>2, <2>3, <2>4
    <3>4. next = [n \in 1 .. Len(r) + 1 |-> next[n]]
      OBVIOUS
    <3> HIDE DEF next, q
    <3> QED
      BY <2>1, <3>3, <3>4
  <2> HIDE DEF q, next
  <2>6. \A n \in 1 .. Len(q) : n \in 1 .. Len(r) \/ n = Len(r) + 1
    BY <2>1
  <2>7. \A n \in 1 .. Len(q) : s[next[n]] = <<q[n]>>
    BY <1>2, <2>1, <2>2, <2>3, <2>4, <2>6 DEF Picks
  <2>8. \A m, n \in 1 .. Len(q) : m < n => next[m] < next[n]
    <3> SUFFICES ASSUME NEW m \in 1 .. Len(q), NEW n \in 1 .. Len(q), m < n
                 PROVE  next[m] < next[n]
      OBVIOUS
    <3>1. m \in 1 .. Len(r) /\ at[m] \in Nat /\ at[m] <= i
      <4>1. m \in 1 .. Len(r)
        BY <2>1
      <4> QED
        BY <2>3, <4>1
    <3>2. CASE n \in 1 .. Len(r)
      BY <3>1, <3>2, <2>3 DEF Picks
    <3>3. CASE n = Len(r) + 1
      BY <3>1, <3>3, <2>3, <2>4
    <3> QED
      BY <3>2, <3>3, <2>6
  <2>9. \A j \in 1 .. i + 1 : s[j] # <<>> => \E n \in 1 .. Len(q) : next[n] = j
    <3> SUFFICES ASSUME NEW j \in 1 .. i + 1, s[j] # <<>>
                 PROVE  \E n \in 1 .. Len(q) : next[n] = j
      OBVIOUS
    <3>1. CASE j = i + 1
      <4>1. Len(r) + 1 \in 1 .. Len(q)
        BY <2>1
      <4> QED
        BY <4>1, <3>1, <2>4
    <3>2. CASE j \in 1 .. i
      <4>1. PICK n \in 1 .. Len(r) : at[n] = j
        BY <3>2 DEF Picks
      <4>2. n \in 1 .. Len(q)
        BY <2>1
      <4> QED
        BY <4>1, <4>2, <2>3
    <3> QED
      BY <3>1, <3>2
  <2>10. Picks(s, i + 1, q, next)
    BY <2>5, <2>7, <2>8, <2>9 DEF Picks
  <2> QED
    BY <2>1, <2>10, <1>2 DEF q
<1> QED
  BY <1>1, <1>2

\* The elements of a flattened sequence are its entries, in their order.
LEMMA FlattenOnes ==
  ASSUME NEW V, NEW s, Len(s) \in Nat, Len(s) = 0 => s = <<>>,
         \A i \in 1 .. Len(s) : s[i] = <<>> \/ \E v \in V : s[i] = <<v>>
  PROVE  FlattenSeq(s) \in Seq(V) /\ \E at : Picks(s, Len(s), FlattenSeq(s), at)
<1>1. CASE Len(s) = 0
  <2>1. FlattenSeq(s) = <<>>
    BY <1>1 DEF FlattenSeq
  <2> DEFINE at == [n \in 1 .. 0 |-> 0]
  <2>2. Picks(s, 0, <<>>, at)
    BY DEF Picks
  <2>3. <<>> \in Seq(V)
    OBVIOUS
  <2> QED
    BY <1>1, <2>1, <2>2, <2>3
<1>2. CASE Len(s) # 0
  <2>1. PICK f : FlattenedTo(s, Len(s), f) /\ FlattenSeq(s) = f[Len(s)]
    BY <1>2, FlattenIs
  <2>2. /\ f[1] = s[1]
        /\ \A i \in 1 .. Len(s) - 1 : f[i + 1] = f[i] \o s[i + 1]
    <3>1. 1 \in 1 .. Len(s)
      BY <1>2
    <3>2. f[1] = s[1]
      BY <2>1, <3>1 DEF FlattenedTo
    <3>3. ASSUME NEW i \in 1 .. Len(s) - 1
          PROVE  f[i + 1] = f[i] \o s[i + 1]
      <4>1. i + 1 \in 1 .. Len(s) /\ i + 1 # 1 /\ (i + 1) - 1 = i
        OBVIOUS
      <4>2. f[i + 1] = f[(i + 1) - 1] \o s[i + 1]
        BY <4>1, <2>1 DEF FlattenedTo
      <4> QED
        BY <4>1, <4>2
    <3> QED
      BY <3>2, <3>3
  <2> DEFINE S == {i \in Nat : f[i] \in Seq(V) /\ \E at : Picks(s, i, f[i], at)}
  <2>3. 1 \in S
    <3> DEFINE none == [n \in 1 .. 0 |-> 0]
    <3>1. Picks(s, 0, <<>>, none) /\ <<>> \in Seq(V)
      BY DEF Picks
    <3>2. s[1] = <<>> \/ \E v \in V : s[1] = <<v>>
      BY <1>2
    <3>3. <<>> \o s[0 + 1] \in Seq(V) /\ \E next : Picks(s, 0 + 1, <<>> \o s[0 + 1], next)
      <4> HIDE DEF none
      <4>1. s[0 + 1] = <<>> \/ \E v \in V : s[0 + 1] = <<v>>
        BY <3>2
      <4> QED
        BY <3>1, <4>1, PickNext
    <3>4. <<>> \o s[1] = s[1]
      BY <3>2
    <3> QED
      BY <3>3, <3>4, <2>2
  <2>4. ASSUME NEW i \in 1 .. Len(s) - 1, i \in S
        PROVE  i + 1 \in S
    <3>1. f[i] \in Seq(V) /\ i \in Nat
      BY <2>4
    <3>2. PICK at : Picks(s, i, f[i], at)
      BY <2>4
    <3>3. s[i + 1] = <<>> \/ \E v \in V : s[i + 1] = <<v>>
      OBVIOUS
    <3>4. f[i] \o s[i + 1] \in Seq(V) /\ \E next : Picks(s, i + 1, f[i] \o s[i + 1], next)
      BY <3>1, <3>2, <3>3, PickNext
    <3>5. f[i + 1] = f[i] \o s[i + 1]
      BY <2>2
    <3>6. i + 1 \in Nat /\ f[i + 1] \in Seq(V)
      BY <3>1, <3>4, <3>5
    <3>7. \E next : Picks(s, i + 1, f[i + 1], next)
      BY <3>4, <3>5, Zenon
    <3> QED
      BY <3>6, <3>7
  <2>5. Len(s) \in S
    <3> HIDE DEF S
    <3>1. 1 .. Len(s) \subseteq S
      BY <2>3, <2>4, Induction, Zenon
    <3>2. Len(s) \in 1 .. Len(s)
      BY <1>2
    <3> QED
      BY <3>1, <3>2
  <2> QED
    BY <2>1, <2>5
<1> QED
  BY <1>1, <1>2

-----------------------------------------------------------------------------
(* What rows, pages, lines and changes are made of.                            *)

KeyText  == Keys \cup {Blank, Cut}
Text     == Keys \cup Values \cup {Null, Blank, Cut}
Row      == {r \in [Columns -> Text] : r["id"] \in KeyText /\ r["b"] # Null}
Partial  == UNION {[C -> Text] : C \in SUBSET Columns}
Cells    == {f \in Partial : "id" \in DOMAIN f => f["id"] \in KeyText}
Line     == [mark : Nat, cells : Cells]

Update   == [op : {"update"}, set : Cells, pk : Cells, expect : Cells]
Insert   == [op : {"insert"}, values : Cells]
Delete   == [op : {"delete"}, pk : Cells, expect : Cells]
Change   == Update \cup Insert \cup Delete

Table(t) == t \subseteq Row /\ IsFiniteSet(t) /\ UniqueKeys(t)

IsPage(page) == page \in Seq(Row) /\ \A i, j \in DOMAIN page : page[i].id = page[j].id => i = j

\* What the constants give is made of the same texts; so is no cell at all.
LEMMA RowTypes ==
  /\ Rows \subseteq Row
  /\ Given \subseteq Cells
  /\ None \in Cells
  /\ \A k \in KeyText : [id |-> k] \in Cells
<1>1. Rows \subseteq Row
  BY ValuesAssumption DEF Rows, Row, Text, KeyText, Columns
<1>2. Given \subseteq Cells
  BY DEF Given, Cells, Partial, Text, KeyText
<1>3. None \in Cells
  <2>1. None \in [{} -> Text] /\ DOMAIN None = {}
    BY DEF None
  <2>2. {} \in SUBSET Columns
    OBVIOUS
  <2>3. None \in Partial
    BY <2>1, <2>2 DEF Partial
  <2> QED
    BY <2>1, <2>3 DEF Cells
<1>4. \A k \in KeyText : [id |-> k] \in Cells
  BY DEF Cells, Partial, Text, KeyText, Columns
<1> QED
  BY <1>1, <1>2, <1>3, <1>4

\* What a change sets in a row gives a row, where it is not NULL.
LEMMA OverlayIsRow ==
  ASSUME NEW r \in Row, NEW g \in Cells, Coerced(g)
  PROVE  Overlay(r, g) \in Row
<1>1. r \in [Columns -> Text] /\ r["id"] \in KeyText /\ r["b"] # Null
  BY DEF Row
<1>2. g \in [DOMAIN g -> Text] /\ DOMAIN g \subseteq Columns /\ ("id" \in DOMAIN g => g["id"] \in KeyText)
  BY DEF Cells, Partial
<1>3. "b" \in DOMAIN g => g["b"] # Null
  BY DEF Coerced, Nullable
<1>4. DOMAIN r \cup DOMAIN g = Columns /\ "id" \in Columns /\ "b" \in Columns
  BY <1>1, <1>2 DEF Columns
<1>5. Overlay(r, g) = [c \in Columns |-> IF c \in DOMAIN g THEN g[c] ELSE r[c]]
  BY <1>4 DEF Overlay
<1> QED
  BY <1>1, <1>2, <1>3, <1>4, <1>5 DEF Row

\* What an insert sets in a row of defaults gives a row.
LEMMA NewIsRow ==
  ASSUME NEW t, NEW g \in Cells, Coerced(g)
  PROVE  Overlay([id |-> Generated(t), a |-> Default.a, b |-> Default.b], g) \in Row
<1>1. Generated(t) \in Keys
  BY ValuesAssumption DEF Generated
<1>2. [id |-> Generated(t), a |-> Default.a, b |-> Default.b] \in Row
  BY <1>1, ValuesAssumption DEF Row, Text, KeyText, Columns, Default, Null
<1> QED
  BY <1>2, OverlayIsRow

\* A statement leaves a table.
LEMMA RunKeepsTable ==
  ASSUME NEW t, Table(t), NEW change \in Change
  PROVE  Table(Run(t, change).table)
<1>1. CASE change.op = "update"
  <2>1. Run(t, change) = RunUpdate(t, change) /\ change.set \in Cells
    BY <1>1 DEF Run, Change, Update, Insert, Delete
  <2> DEFINE hit     == {r \in t : Matches(r, change.pk, change.expect)}
             updated == (t \ hit) \cup {Overlay(r, change.set) : r \in hit}
             refused == \/ change.pk = None \/ change.set = None
                        \/ ~Coerced(change.set) \/ ~Coerced(change.pk) \/ ~Coerced(change.expect)
                        \/ ~UniqueKeys(updated) \/ Cardinality(updated) # Cardinality(t)
  <2>2. RunUpdate(t, change) = IF refused THEN Refused(t)
                               ELSE [ok |-> TRUE, count |-> Cardinality(hit), table |-> updated]
    BY DEF RunUpdate
  <2>3. CASE refused
    BY <2>1, <2>2, <2>3 DEF Refused
  <2>4. CASE ~refused
    <3>1. UniqueKeys(updated) /\ Coerced(change.set)
      BY <2>4
    <3>2. hit \subseteq t /\ IsFiniteSet(t) /\ t \subseteq Row
      BY DEF Table
    <3>3. IsFiniteSet(hit) /\ IsFiniteSet(t \ hit)
      BY <3>2, FS_Subset
    <3>4. IsFiniteSet({Overlay(r, change.set) : r \in hit})
      <4> DEFINE new == [r \in hit |-> Overlay(r, change.set)]
      <4>1. {new[r] : r \in hit} = {Overlay(r, change.set) : r \in hit}
        OBVIOUS
      <4>2. IsFiniteSet({new[r] : r \in hit})
        <5>1. new \in Surjection(hit, {new[r] : r \in hit})
          BY DEF Surjection
        <5> HIDE DEF new, hit
        <5> QED
          BY <5>1, <3>3, FS_Surjection
      <4> QED
        BY <4>1, <4>2
    <3>5. IsFiniteSet(updated)
      BY <3>3, <3>4, FS_Union
    <3>6. updated \subseteq Row
      BY <3>1, <3>2, <2>1, OverlayIsRow
    <3>7. Run(t, change).table = updated
      BY <2>1, <2>2, <2>4
    <3> HIDE DEF updated
    <3> QED
      BY <3>1, <3>5, <3>6, <3>7 DEF Table
  <2> QED
    BY <2>3, <2>4
<1>2. CASE change.op = "insert"
  <2>1. Run(t, change) = RunInsert(t, change) /\ change.values \in Cells
    BY <1>2 DEF Run, Change, Update, Insert, Delete
  <2> DEFINE row == Overlay([id |-> Generated(t), a |-> Default.a, b |-> Default.b], change.values)
             refused == \/ change.values = None \/ ~Coerced(change.values) \/ row \in t
                        \/ ~UniqueKeys(t \cup {row})
  <2>2. RunInsert(t, change) = IF refused THEN Refused(t)
                               ELSE [ok |-> TRUE, count |-> 1, table |-> t \cup {row}]
    BY DEF RunInsert
  <2>3. CASE refused
    BY <2>1, <2>2, <2>3 DEF Refused
  <2>4. CASE ~refused
    <3>1. UniqueKeys(t \cup {row}) /\ row \in Row
      BY <2>1, <2>4, NewIsRow
    <3>2. IsFiniteSet(t \cup {row})
      BY FS_AddElement DEF Table
    <3>3. Run(t, change).table = t \cup {row}
      BY <2>1, <2>2, <2>4
    <3> HIDE DEF row
    <3> QED
      BY <3>1, <3>2, <3>3 DEF Table
  <2> QED
    BY <2>3, <2>4
<1>3. CASE change.op = "delete"
  <2>1. Run(t, change) = RunDelete(t, change)
    BY <1>3 DEF Run
  <2>2. RunDelete(t, change).table \subseteq t
    BY DEF RunDelete, Refused
  <2> QED
    BY <2>1, <2>2, FS_Subset DEF Table, UniqueKeys
<1> QED
  BY <1>1, <1>2, <1>3 DEF Change, Update, Insert, Delete

\* A batch, change by change; once one has failed it has failed.
LEMMA RanStarts ==
  ASSUME NEW t, NEW changes, Len(changes) \in Nat
  PROVE  Ran(t, changes)[0] = [ok |-> TRUE, table |-> t]
<1> DEFINE ran == Ran(t, changes)
           size == Len(changes)
<1>1. RanTo(t, changes, size, ran) /\ 0 \in 0 .. size
  BY RanIs
<1> HIDE DEF ran, size
<1>2. ran[0] = [ok |-> TRUE, table |-> t]
  BY <1>1 DEF RanTo
<1> QED
  BY <1>2 DEF ran

\* Each entry is the one before it and one more change.
LEMMA RanSteps ==
  ASSUME NEW t, NEW changes, Len(changes) \in Nat
  PROVE  \A n \in 0 .. Len(changes) - 1 :
           Ran(t, changes)[n + 1] = ApplyNext(Ran(t, changes)[n], changes[n + 1])
<1> DEFINE ran == Ran(t, changes)
           size == Len(changes)
<1>1. RanTo(t, changes, size, ran) /\ size \in Nat
  BY RanIs
<1> HIDE DEF ran, size
<1>2. ASSUME NEW n \in 0 .. size - 1
      PROVE  ran[n + 1] = ApplyNext(ran[n], changes[n + 1])
  <2>1. n + 1 \in 0 .. size /\ n + 1 # 0 /\ (n + 1) - 1 = n
    BY <1>1
  <2>2. ran[n + 1] = ApplyNext(ran[(n + 1) - 1], changes[n + 1])
    BY <2>1, <1>1 DEF RanTo
  <2> QED
    BY <2>1, <2>2
<1> QED
  BY <1>2 DEF ran, size

\* A batch that is taken was taken at each of its changes.
LEMMA RanOnce ==
  ASSUME NEW t, NEW changes, Len(changes) \in Nat, Ran(t, changes)[Len(changes)].ok
  PROVE  \A n \in 0 .. Len(changes) : Ran(t, changes)[n].ok
<1> DEFINE ran == Ran(t, changes)
           size == Len(changes)
<1>1. size \in Nat /\ ran[size].ok /\ \A n \in 0 .. size - 1 : ran[n + 1] = ApplyNext(ran[n], changes[n + 1])
  BY RanSteps
<1> HIDE DEF ran, size
<1>2. ASSUME NEW n \in 0 .. size - 1, ran[n + 1].ok
      PROVE  ran[n].ok
  <2>1. ApplyNext(ran[n], changes[n + 1]).ok
    BY <1>1, <1>2
  <2> QED
    BY <2>1 DEF ApplyNext
<1> DEFINE S == {n \in Nat : ran[n].ok => \A m \in 0 .. n : ran[m].ok}
<1>3. 0 \in S
  OBVIOUS
<1>4. ASSUME NEW n \in 0 .. size - 1, n \in S
      PROVE  n + 1 \in S
  <2>1. \A m \in 0 .. n + 1 : m \in 0 .. n \/ m = n + 1
    OBVIOUS
  <2> QED
    BY <1>2, <1>4, <2>1
<1>5. size \in S
  <2> HIDE DEF S
  <2>1. 0 .. size \subseteq S
    BY <1>1, <1>3, <1>4, Induction, Zenon
  <2>2. size \in 0 .. size
    BY <1>1
  <2> QED
    BY <2>1, <2>2
<1> QED
  BY <1>1, <1>5 DEF ran, size

\* Every change of a batch leaves a table.
LEMMA RanKeepsTable ==
  ASSUME NEW t, Table(t), NEW changes \in Seq(Change)
  PROVE  \A n \in 0 .. Len(changes) : Table(Ran(t, changes)[n].table)
<1> DEFINE ran == Ran(t, changes)
<1>1. Len(changes) \in Nat /\ \A n \in 1 .. Len(changes) : changes[n] \in Change
  OBVIOUS
<1>2. /\ ran[0] = [ok |-> TRUE, table |-> t]
      /\ \A n \in 0 .. Len(changes) - 1 : ran[n + 1] = ApplyNext(ran[n], changes[n + 1])
  BY <1>1, RanStarts, RanSteps
<1> HIDE DEF ran
<1> DEFINE S == {n \in Nat : Table(ran[n].table)}
<1>3. 0 \in S
  BY <1>2
<1>4. ASSUME NEW n \in 0 .. Len(changes) - 1, n \in S
      PROVE  n + 1 \in S
  <2>1. ran[n + 1] = ApplyNext(ran[n], changes[n + 1])
    BY <1>2
  <2>2. n + 1 \in 1 .. Len(changes) /\ n + 1 \in Nat
    OBVIOUS
  <2>3. Table(ran[n].table)
    BY <1>4
  <2>4. Table(Run(ran[n].table, changes[n + 1]).table)
    BY <1>1, <2>2, <2>3, RunKeepsTable
  <2>5. Table(ran[n + 1].table)
    BY <2>1, <2>3, <2>4 DEF ApplyNext
  <2> QED
    BY <2>2, <2>5
<1>5. 0 .. Len(changes) \subseteq S
  <2> HIDE DEF S
  <2> QED
    BY <1>1, <1>3, <1>4, Induction, Zenon
<1> QED
  BY <1>5 DEF ran

\* A batch leaves a table, taken or not.
LEMMA ApplyKeepsTable ==
  ASSUME NEW t, Table(t), NEW changes \in Seq(Change)
  PROVE  Table(ApplyChanges(t, changes).table)
<1>1. Len(changes) \in 0 .. Len(changes)
  OBVIOUS
<1>2. Table(Ran(t, changes)[Len(changes)].table)
  BY <1>1, RanKeepsTable
<1> QED
  BY <1>2 DEF ApplyChanges

-----------------------------------------------------------------------------
(* Pages.                                                                      *)

Want == [filter : BOOLEAN, sort : Columns, offset : Nat]

\* A part of a sequence, element by element.
LEMMA PartOf ==
  ASSUME NEW S, NEW s \in Seq(S), NEW n \in Nat, NEW m \in Nat, m <= Len(s)
  PROVE  LET part == SubSeq(s, n + 1, m)
         IN  part \in Seq(S) /\ \A i \in 1 .. Len(part) : n + i \in 1 .. Len(s) /\ part[i] = s[n + i]
<1> DEFINE part == SubSeq(s, n + 1, m)
<1>1. part = [i \in 1 .. m - n |-> s[n + i]]
  OBVIOUS
<1>2. \A i \in 1 .. m - n : n + i \in 1 .. Len(s)
  OBVIOUS
<1>3. CASE n < m
  <2>1. m - n \in Nat
    BY <1>3
  <2> HIDE DEF part
  <2>2. part \in [1 .. m - n -> S]
    BY <1>1, <1>2
  <2>3. part \in Seq(S) /\ Len(part) = m - n
    BY <2>1, <2>2
  <2> QED
    BY <1>1, <1>2, <2>3 DEF part
<1>4. CASE m <= n
  <2>1. part = <<>>
    BY <1>4
  <2> QED
    BY <2>1
<1> QED
  BY <1>3, <1>4

\* No row is on a page twice.
LEMMA PagesArePages ==
  ASSUME NEW t, Table(t), NEW w \in Want, NEW page \in Pages(t, w, PageSize)
  PROVE  IsPage(page)
<1> DEFINE kept == {r \in t : Passes(r, w.filter)}
           D    == 1 .. Cardinality(kept)
<1>1. PICK s \in SetToSeqs(kept) :
        page = SubSeq(s, w.offset + 1, IF Len(s) < w.offset + PageSize THEN Len(s) ELSE w.offset + PageSize)
  BY DEF Pages
<1>2. kept \subseteq t /\ t \subseteq Row
  BY DEF Table
<1>3. Cardinality(kept) \in Nat
  BY <1>2, FS_Subset, FS_CardinalityType DEF Table
<1>4. s \in [D -> kept] /\ \A i, j \in D : i # j => s[i] # s[j]
  BY <1>1 DEF SetToSeqs
<1>5. s \in Seq(Row) /\ Len(s) = Cardinality(kept)
  <2> HIDE DEF kept
  <2>1. s \in Seq(kept) /\ Len(s) = Cardinality(kept)
    BY <1>3, <1>4
  <2> QED
    BY <1>2, <2>1
<1>6. \A i, j \in 1 .. Len(s) : s[i].id = s[j].id => i = j
  <2> SUFFICES ASSUME NEW i \in 1 .. Len(s), NEW j \in 1 .. Len(s), s[i].id = s[j].id
               PROVE  i = j
    OBVIOUS
  <2>1. s[i] \in t /\ s[j] \in t
    BY <1>2, <1>4, <1>5
  <2>2. s[i] = s[j]
    BY <2>1 DEF Table, UniqueKeys
  <2> QED
    BY <1>4, <1>5, <2>2
<1> DEFINE m == IF Len(s) < w.offset + PageSize THEN Len(s) ELSE w.offset + PageSize
<1>7. w.offset \in Nat /\ PageSize \in Nat /\ Len(s) \in Nat
  BY <1>5, BufferAssumption DEF Want
<1>8. m \in Nat /\ m <= Len(s)
  BY <1>7
<1> HIDE DEF m, kept
<1>9. page = SubSeq(s, w.offset + 1, m)
  BY <1>1 DEF m
<1> DEFINE n == w.offset
<1>10. page \in Seq(Row) /\ \A i \in 1 .. Len(page) : n + i \in 1 .. Len(s) /\ page[i] = s[n + i]
  <2>1. n \in Nat /\ m \in Nat /\ m <= Len(s) /\ s \in Seq(Row) /\ page = SubSeq(s, n + 1, m)
    BY <1>5, <1>7, <1>8, <1>9
  <2> HIDE DEF n
  <2> QED
    BY <2>1, PartOf
<1>11. ASSUME NEW i \in 1 .. Len(page), NEW j \in 1 .. Len(page), page[i].id = page[j].id
       PROVE  i = j
  <2>1. s[n + i].id = s[n + j].id /\ n + i \in 1 .. Len(s) /\ n + j \in 1 .. Len(s)
    BY <1>10, <1>11
  <2>2. n + i = n + j
    BY <1>6, <2>1
  <2> QED
    BY <1>7, <2>2
<1> QED
  BY <1>10, <1>11 DEF IsPage

-----------------------------------------------------------------------------
(* Which loaded row a line is.                                                 *)

Marked(text, n) ==
  \A l \in DOMAIN text :
    /\ text[l].mark \in 0 .. n
    /\ \A m \in DOMAIN text : text[m].mark = text[l].mark => m = l \/ text[l].mark = 0

\* A line is one row at most.
LEMMA RowOfIs ==
  ASSUME NEW page, IsPage(page), NEW text \in Seq(Line), Marked(text, Len(page)),
         NEW l \in DOMAIN text
  PROVE  /\ RowOf(page, text, l) \in 0 .. Len(page)
         /\ RowOf(page, text, l) # 0 => Claims(page, text, l, RowOf(page, text, l))
         /\ \A i \in DOMAIN page : Claims(page, text, l, i) => RowOf(page, text, l) = i
<1> DEFINE claimed == {i \in DOMAIN page : Claims(page, text, l, i)}
<1>1. DOMAIN page = 1 .. Len(page) /\ Len(page) \in Nat
  BY DEF IsPage
<1>2. \A i, j \in claimed : i = j
  <2> SUFFICES ASSUME NEW i \in claimed, NEW j \in claimed
               PROVE  i = j
    OBVIOUS
  <2>1. Claims(page, text, l, i) /\ Claims(page, text, l, j) /\ i \in DOMAIN page /\ j \in DOMAIN page
    OBVIOUS
  <2>2. CASE ClaimsByKey(page, text, l, i) /\ ClaimsByKey(page, text, l, j)
    BY <2>1, <2>2 DEF ClaimsByKey, IsPage
  <2>3. CASE ClaimsByMark(page, text, l, i) /\ ClaimsByMark(page, text, l, j)
    BY <2>3 DEF ClaimsByMark
  <2> QED
    BY <2>1, <2>2, <2>3 DEF Claims, ClaimsByMark
<1>3. RowOf(page, text, l) = IF claimed = {} THEN 0 ELSE CHOOSE i \in claimed : TRUE
  BY DEF RowOf
<1>4. \A i \in claimed : RowOf(page, text, l) = i
  <2> HIDE DEF claimed
  <2> QED
    BY <1>2, <1>3
<1>5. CASE claimed = {}
  BY <1>1, <1>3, <1>5
<1>6. CASE claimed # {}
  <2>1. PICK i \in claimed : TRUE
    BY <1>6
  <2>2. RowOf(page, text, l) = i
    BY <1>4
  <2>3. i \in DOMAIN page /\ Claims(page, text, l, i)
    BY <2>1
  <2> QED
    BY <1>1, <1>4, <2>2, <2>3
<1> QED
  BY <1>5, <1>6

\* A row is one line at most.
LEMMA RowOfOnce ==
  ASSUME NEW page, IsPage(page), NEW text \in Seq(Line), Marked(text, Len(page)),
         NEW l \in DOMAIN text, NEW m \in DOMAIN text,
         RowOf(page, text, l) = RowOf(page, text, m), RowOf(page, text, l) # 0
  PROVE  l = m
<1> DEFINE i == RowOf(page, text, l)
<1>1. Claims(page, text, l, i) /\ Claims(page, text, m, i) /\ i \in DOMAIN page
  BY RowOfIs DEF IsPage
<1> HIDE DEF i
<1>2. l \in Nat /\ m \in Nat /\ l >= 1 /\ m >= 1
  OBVIOUS
<1>3. CASE ClaimsByKey(page, text, l, i) /\ ClaimsByKey(page, text, m, i)
  <2>1. KeyOf(text[l]) = KeyOf(text[m])
    BY <1>3 DEF ClaimsByKey
  <2>2. ~ (l < m) /\ ~ (m < l)
    BY <1>2, <1>3, <2>1 DEF ClaimsByKey
  <2> QED
    BY <1>2, <2>2
<1>4. CASE ClaimsByMark(page, text, l, i) /\ ClaimsByMark(page, text, m, i)
  <2>1. text[l].mark = i /\ text[m].mark = i /\ i # 0
    BY <1>1, <1>4 DEF ClaimsByMark, IsPage
  <2> QED
    BY <2>1 DEF Marked
<1> QED
  BY <1>1, <1>3, <1>4 DEF Claims, ClaimsByMark

\* A key that a line shows is claimed by that line or one above it.
LEMMA KeyClaims ==
  ASSUME NEW page, IsPage(page), NEW text \in Seq(Line), Marked(text, Len(page)),
         NEW l \in DOMAIN text, NEW i \in DOMAIN page,
         KeyOf(text[l]) = page[i].id, page[i].id # Blank
  PROVE  \E f \in 1 .. l : RowOf(page, text, f) = i /\ KeyOf(text[f]) = KeyOf(text[l])
<1> DEFINE T == {f \in 1 .. l : KeyOf(text[f]) = page[i].id}
<1>1. T \subseteq Nat /\ l \in T /\ l \in Nat /\ DOMAIN text = 1 .. Len(text) /\ l <= Len(text)
  OBVIOUS
<1>2. PICK f \in T : \A g \in T : f <= g
  BY <1>1, LeastOf
<1>3. f \in 1 .. l /\ f \in DOMAIN text /\ KeyOf(text[f]) = page[i].id
  BY <1>1
<1>4. \A m \in 1 .. f - 1 : KeyOf(text[m]) # KeyOf(text[f])
  <2> SUFFICES ASSUME NEW m \in 1 .. f - 1, KeyOf(text[m]) = KeyOf(text[f])
               PROVE  FALSE
    OBVIOUS
  <2>1. m \in T /\ ~ (f <= m)
    BY <1>3
  <2> QED
    BY <1>2, <2>1
<1>5. Claims(page, text, f, i)
  BY <1>3, <1>4 DEF Claims, ClaimsByKey
<1> QED
  BY <1>3, <1>5, RowOfIs

-----------------------------------------------------------------------------
(* What the change set is made of.                                             *)

\* A change names a row by the key it had on the page, an update says what it
\* saw there, no two changes name the same row, and a row is updated before its
\* key is given to another.
SeenOn(change, page) ==
  \E i \in DOMAIN page :
    /\ change.pk = [id |-> page[i].id]
    /\ change.op = "update" =>
         change.set # None /\ change.expect = [c \in DOMAIN change.set |-> page[i][c]]
    /\ change.op = "delete" => change.expect = None

MadeFrom(changes, page) ==
  /\ changes \in Seq(Change)
  /\ \A n \in DOMAIN changes : changes[n].op # "insert" => SeenOn(changes[n], page)
  /\ \A m, n \in DOMAIN changes :
       changes[m].op # "insert" /\ changes[n].op # "insert" /\ changes[m].pk = changes[n].pk => m = n
  /\ \A m, n \in DOMAIN changes :
       m < n /\ changes[n].op = "update" /\ changes[m].op # "delete" =>
         changes[n].pk.id \notin NewKeys(changes[m]) \ {Blank}

SetBy(page, line, i) ==
  {c \in Edited(page, line, i) \ Truncated(page, i) : line.cells[c] # page[i][c]}

UpdateBy(page, line, i) ==
  [op |-> "update", set |-> [c \in SetBy(page, line, i) |-> line.cells[c]],
   pk |-> [id |-> page[i].id], expect |-> [c \in SetBy(page, line, i) |-> page[i][c]]]

GivenBy(line) == {c \in DOMAIN line.cells : line.cells[c] # Blank}
InsertBy(line) == [op |-> "insert", values |-> [c \in GivenBy(line) |-> line.cells[c]]]
DeleteBy(page, i) == [op |-> "delete", pk |-> [id |-> page[i].id], expect |-> None]

\* Some of the cells of a line or of a row.
LEMMA SomeCells ==
  ASSUME NEW f, NEW C, C \subseteq DOMAIN f, f \in Cells \/ f \in Row
  PROVE  [c \in C |-> f[c]] \in Cells
<1>1. C \subseteq Columns /\ \A c \in C : f[c] \in Text
  BY DEF Cells, Partial, Row
<1>2. "id" \in C => f["id"] \in KeyText
  BY DEF Cells, Row
<1>3. [c \in C |-> f[c]] \in Partial
  BY <1>1 DEF Partial
<1> QED
  BY <1>2, <1>3 DEF Cells

\* The update that a line amounts to, if it amounts to one.
LEMMA UpdateIs ==
  ASSUME NEW page, IsPage(page), NEW line \in Line, NEW i \in DOMAIN page
  PROVE  /\ UpdateOf(page, line, i) = IF SetBy(page, line, i) = {} THEN <<>> ELSE <<UpdateBy(page, line, i)>>
         /\ UpdateBy(page, line, i) \in Change
         /\ SetBy(page, line, i) # {} => SeenOn(UpdateBy(page, line, i), page)
<1> DEFINE set == SetBy(page, line, i)
<1>1. line.cells \in Cells /\ page[i] \in Row
  BY DEF Line, IsPage
<1>2. set \subseteq DOMAIN line.cells /\ set \subseteq DOMAIN page[i]
  BY <1>1 DEF SetBy, Edited, Cells, Partial, Row
<1>3. [c \in set |-> line.cells[c]] \in Cells /\ [c \in set |-> page[i][c]] \in Cells
  BY <1>1, <1>2, SomeCells
<1>4. page[i].id \in KeyText
  BY <1>1 DEF Row
<1>5. [id |-> page[i].id] \in Cells
  BY <1>4, RowTypes
<1>6. UpdateOf(page, line, i) = IF set = {} THEN <<>> ELSE <<UpdateBy(page, line, i)>>
  BY DEF UpdateOf, UpdateBy, SetBy, Parse
<1>7. UpdateBy(page, line, i) \in Change
  BY <1>3, <1>5 DEF UpdateBy, Change, Update
<1>8. ASSUME set # {} PROVE SeenOn(UpdateBy(page, line, i), page)
  <2> DEFINE change == UpdateBy(page, line, i)
  <2>1. DOMAIN change.set = set /\ DOMAIN None = {}
    BY DEF UpdateBy, None
  <2>2. change.set # None
    BY <1>8, <2>1
  <2>3. change.expect = [c \in DOMAIN change.set |-> page[i][c]] /\ change.op = "update"
        /\ change.pk = [id |-> page[i].id]
    BY DEF UpdateBy
  <2> QED
    BY <2>2, <2>3 DEF SeenOn
<1> QED
  BY <1>6, <1>7, <1>8

\* The insert that a line amounts to, if it amounts to one.
LEMMA InsertIs ==
  ASSUME NEW line \in Line
  PROVE  /\ InsertOf(line) = IF GivenBy(line) = {} THEN <<>> ELSE <<InsertBy(line)>>
         /\ InsertBy(line) \in Change
<1>1. line.cells \in Cells /\ GivenBy(line) \subseteq DOMAIN line.cells
  BY DEF Line, GivenBy
<1>2. [c \in GivenBy(line) |-> line.cells[c]] \in Cells
  BY <1>1, SomeCells
<1>3. InsertBy(line) \in Change
  BY <1>2 DEF InsertBy, Change, Insert
<1>4. InsertOf(line) = IF GivenBy(line) = {} THEN <<>> ELSE <<InsertBy(line)>>
  BY DEF InsertOf, InsertBy, GivenBy, Parse
<1> QED
  BY <1>3, <1>4

\* The delete that a row without a line amounts to.
LEMMA DeleteIs ==
  ASSUME NEW page, IsPage(page), NEW i \in DOMAIN page
  PROVE  DeleteBy(page, i) \in Change /\ SeenOn(DeleteBy(page, i), page)
<1>1. page[i].id \in KeyText
  BY DEF IsPage, Row
<1>2. [id |-> page[i].id] \in Cells /\ None \in Cells
  BY <1>1, RowTypes
<1> QED
  BY <1>2 DEF DeleteBy, Change, Delete, SeenOn

\* The changes come from the lines and from the rows, one or none from each.
Entries(page, text) ==
  [l \in DOMAIN text |-> ChangeOf(page, text[l], RowOf(page, text, l))]
    \o [i \in DOMAIN page |-> DeleteOf(page, text, i)]

\* A function on the first numbers is a sequence.
LEMMA IntervalIsSeq ==
  ASSUME NEW S, NEW n \in Nat, NEW f \in [1 .. n -> S]
  PROVE  f \in Seq(S) /\ Len(f) = n
  OBVIOUS

\* Two sequences on end, element by element.
LEMMA Joined ==
  ASSUME NEW S, NEW e \in Seq(S), NEW d \in Seq(S)
  PROVE  /\ Len(e \o d) = Len(e) + Len(d)
         /\ \A l \in 1 .. Len(e) : (e \o d)[l] = e[l]
         /\ \A i \in 1 .. Len(d) : (e \o d)[Len(e) + i] = d[i]
  OBVIOUS

\* There is an entry for each line and then one for each row, of one change or none.
LEMMA EntriesAre ==
  ASSUME NEW page, IsPage(page), NEW text \in Seq(Line), Marked(text, Len(page))
  PROVE  /\ Len(Entries(page, text)) = Len(text) + Len(page)
         /\ \A l \in 1 .. Len(text) :
              Entries(page, text)[l] = ChangeOf(page, text[l], RowOf(page, text, l))
         /\ \A i \in 1 .. Len(page) :
              Entries(page, text)[Len(text) + i] = DeleteOf(page, text, i)
         /\ \A j \in 1 .. Len(text) + Len(page) :
              \/ j \in 1 .. Len(text)
              \/ j - Len(text) \in 1 .. Len(page) /\ j = Len(text) + (j - Len(text))
         /\ \A j \in 1 .. Len(text) + Len(page) :
              Entries(page, text)[j] = <<>> \/ \E v \in Change : Entries(page, text)[j] = <<v>>
<1> DEFINE e == [l \in DOMAIN text |-> ChangeOf(page, text[l], RowOf(page, text, l))]
           d == [i \in DOMAIN page |-> DeleteOf(page, text, i)]
<1>1. Len(page) \in Nat /\ DOMAIN page = 1 .. Len(page) /\ Len(text) \in Nat /\ DOMAIN text = 1 .. Len(text)
  BY DEF IsPage
<1>2. ASSUME NEW l \in 1 .. Len(text)
      PROVE  e[l] = <<>> \/ \E v \in Change : e[l] = <<v>>
  <2>1. e[l] = ChangeOf(page, text[l], RowOf(page, text, l)) /\ l \in DOMAIN text /\ text[l] \in Line
    BY <1>1
  <2>2. CASE RowOf(page, text, l) = 0
    BY <2>1, <2>2, InsertIs DEF ChangeOf
  <2>3. CASE RowOf(page, text, l) # 0
    <3>1. RowOf(page, text, l) \in DOMAIN page
      BY <1>1, <2>1, <2>3, RowOfIs
    <3> QED
      BY <2>1, <2>3, <3>1, UpdateIs DEF ChangeOf
  <2> QED
    BY <2>2, <2>3
<1>3. ASSUME NEW i \in 1 .. Len(page)
      PROVE  d[i] = <<>> \/ \E v \in Change : d[i] = <<v>>
  BY <1>1, DeleteIs DEF DeleteOf, DeleteBy
<1>4. \A l \in 1 .. Len(text) : e[l] \in Seq(Change)
  <2> HIDE DEF e
  <2> TAKE l \in 1 .. Len(text)
  <2>1. CASE e[l] = <<>>
    BY <2>1
  <2>2. ASSUME NEW v \in Change, e[l] = <<v>>
        PROVE  e[l] \in Seq(Change)
    BY <2>2
  <2> QED
    BY <1>2, <2>1, <2>2
<1>5. \A i \in 1 .. Len(page) : d[i] \in Seq(Change)
  <2> HIDE DEF d
  <2> TAKE i \in 1 .. Len(page)
  <2>1. CASE d[i] = <<>>
    BY <2>1
  <2>2. ASSUME NEW v \in Change, d[i] = <<v>>
        PROVE  d[i] \in Seq(Change)
    BY <2>2
  <2> QED
    BY <1>3, <2>1, <2>2
<1>6. /\ e = [l \in 1 .. Len(text) |-> e[l]]
      /\ d = [i \in 1 .. Len(page) |-> d[i]]
  BY <1>1
<1>7. Entries(page, text) = e \o d
  BY DEF Entries
<1>8. /\ \A l \in 1 .. Len(text) : e[l] = ChangeOf(page, text[l], RowOf(page, text, l))
      /\ \A i \in 1 .. Len(page) : d[i] = DeleteOf(page, text, i)
  BY <1>1
<1> HIDE DEF e, d
<1>9. e \in Seq(Seq(Change)) /\ Len(e) = Len(text) /\ d \in Seq(Seq(Change)) /\ Len(d) = Len(page)
  <2>1. e \in [1 .. Len(text) -> Seq(Change)] /\ d \in [1 .. Len(page) -> Seq(Change)]
    BY <1>4, <1>5, <1>6
  <2> QED
    BY <1>1, <2>1, IntervalIsSeq
<1> DEFINE m == Len(text)
           n == Len(page)
<1>10. /\ Len(e \o d) = m + n
       /\ \A l \in 1 .. m : (e \o d)[l] = e[l]
       /\ \A i \in 1 .. n : (e \o d)[m + i] = d[i]
  <2> DEFINE SomeChange == Seq(Change)
  <2>3. e \in Seq(SomeChange) /\ d \in Seq(SomeChange)
    BY <1>9
  <2> HIDE DEF SomeChange
  <2>1. /\ Len(e \o d) = Len(e) + Len(d)
        /\ \A l \in 1 .. Len(e) : (e \o d)[l] = e[l]
        /\ \A i \in 1 .. Len(d) : (e \o d)[Len(e) + i] = d[i]
    BY <2>3, Joined
  <2> QED
    BY <1>9, <2>1
<1>11. \A j \in 1 .. m + n : j \in 1 .. m \/ (j - m \in 1 .. n /\ j = m + (j - m))
  BY <1>1
<1>12. \A j \in 1 .. m + n : (e \o d)[j] = <<>> \/ \E v \in Change : (e \o d)[j] = <<v>>
  BY <1>2, <1>3, <1>10, <1>11
<1> QED
  BY <1>7, <1>8, <1>10, <1>11, <1>12

\* The change set is the entries that are not empty, in their order.
LEMMA ChangesPick ==
  ASSUME NEW page, IsPage(page), NEW text \in Seq(Line), Marked(text, Len(page))
  PROVE  /\ Changes(page, text) \in Seq(Change)
         /\ \E at : Picks(Entries(page, text), Len(text) + Len(page), Changes(page, text), at)
<1> DEFINE e == Entries(page, text)
<1>1. Changes(page, text) = FlattenSeq(e)
  BY DEF Changes, Entries
<1>2. Len(page) \in Nat /\ Len(text) \in Nat
  BY DEF IsPage
<1>3. /\ Len(e) = Len(text) + Len(page)
      /\ \A j \in 1 .. Len(e) : e[j] = <<>> \/ \E v \in Change : e[j] = <<v>>
  BY EntriesAre
<1>4. Len(e) = 0 => e = <<>>
  <2> SUFFICES ASSUME Len(e) = 0
               PROVE  e = <<>>
    OBVIOUS
  <2>1. Len(text) = 0 /\ Len(page) = 0
    BY <1>2, <1>3
  <2>2. text = <<>> /\ page = <<>>
    BY <2>1 DEF IsPage
  <2>3. [l \in DOMAIN text |-> ChangeOf(page, text[l], RowOf(page, text, l))] = <<>>
    BY <2>2
  <2>4. [i \in DOMAIN page |-> DeleteOf(page, text, i)] = <<>>
    BY <2>2
  <2> QED
    BY <2>3, <2>4 DEF Entries
<1> HIDE DEF e
<1>5. FlattenSeq(e) \in Seq(Change) /\ \E at : Picks(e, Len(e), FlattenSeq(e), at)
  <2>1. Len(e) \in Nat
    BY <1>2, <1>3
  <2> QED
    BY <1>3, <1>4, <2>1, FlattenOnes
<1> QED
  BY <1>1, <1>3, <1>5 DEF e

\* Where a change comes from.
FromNewLine(page, text, change, j) ==
  /\ j \in 1 .. Len(text) /\ RowOf(page, text, j) = 0
  /\ GivenBy(text[j]) # {} /\ change = InsertBy(text[j])

FromLine(page, text, change, j) ==
  LET i == RowOf(page, text, j)
  IN  /\ j \in 1 .. Len(text) /\ i \in 1 .. Len(page)
      /\ SetBy(page, text[j], i) # {} /\ change = UpdateBy(page, text[j], i)

FromRow(page, text, change, j) ==
  LET i == j - Len(text)
  IN  /\ i \in 1 .. Len(page) /\ \A l \in 1 .. Len(text) : RowOf(page, text, l) # i
      /\ change = DeleteBy(page, i)

\* A sequence of one element is not empty and tells its element.
LEMMA OneIsOne ==
  ASSUME NEW u
  PROVE  <<u>> # <<>> /\ \A v : <<u>> = <<v>> => u = v
<1>1. Len(<<u>>) = 1 /\ <<u>>[1] = u
  OBVIOUS
<1>2. Len(<<>>) = 0
  OBVIOUS
<1>3. \A v : <<v>>[1] = v
  OBVIOUS
<1> QED
  BY <1>1, <1>2, <1>3

\* An entry that holds a change is an insert, an update or a delete.
LEMMA EntryOf ==
  ASSUME NEW page, IsPage(page), NEW text \in Seq(Line), Marked(text, Len(page)),
         NEW j \in 1 .. Len(text) + Len(page), NEW change, Entries(page, text)[j] = <<change>>
  PROVE  \/ FromNewLine(page, text, change, j)
         \/ FromLine(page, text, change, j)
         \/ FromRow(page, text, change, j)
<1> DEFINE e == Entries(page, text)
<1>0. /\ e[j] = <<change>>
      /\ \A l \in 1 .. Len(text) : e[l] = ChangeOf(page, text[l], RowOf(page, text, l))
      /\ \A i \in 1 .. Len(page) : e[Len(text) + i] = DeleteOf(page, text, i)
  BY EntriesAre
<1> HIDE DEF e
<1>1. DOMAIN page = 1 .. Len(page) /\ DOMAIN text = 1 .. Len(text) /\ Len(page) \in Nat
  BY DEF IsPage
<1>2. CASE j \in 1 .. Len(text)
  <2> DEFINE i == RowOf(page, text, j)
  <2>1. e[j] = ChangeOf(page, text[j], i) /\ text[j] \in Line
    <3>1. text[j] \in Line
      BY <1>2
    <3>2. e[j] = ChangeOf(page, text[j], RowOf(page, text, j))
      BY <1>0, <1>2, Zenon
    <3> QED
      BY <3>1, <3>2
  <2>2. i \in 0 .. Len(page)
    BY <1>1, <1>2, RowOfIs
  <2>3. CASE i = 0
    <3>1. e[j] = IF GivenBy(text[j]) = {} THEN <<>> ELSE <<InsertBy(text[j])>>
      BY <2>1, <2>3, InsertIs DEF ChangeOf
    <3>2. GivenBy(text[j]) # {} /\ <<change>> = <<InsertBy(text[j])>>
      BY <1>0, <3>1, OneIsOne
    <3>3. change = InsertBy(text[j])
      BY <3>2, OneIsOne
    <3> QED
      BY <1>2, <2>3, <3>2, <3>3 DEF FromNewLine
  <2>4. CASE i # 0
    <3>1. i \in DOMAIN page /\ i \in 1 .. Len(page)
      BY <1>1, <2>2, <2>4
    <3>2. e[j] = IF SetBy(page, text[j], i) = {} THEN <<>> ELSE <<UpdateBy(page, text[j], i)>>
      BY <2>1, <2>4, <3>1, UpdateIs DEF ChangeOf
    <3>3. SetBy(page, text[j], i) # {} /\ <<change>> = <<UpdateBy(page, text[j], i)>>
      BY <1>0, <3>2, OneIsOne
    <3>4. change = UpdateBy(page, text[j], i)
      BY <3>3, OneIsOne
    <3> QED
      BY <1>2, <3>1, <3>3, <3>4 DEF FromLine
  <2> QED
    BY <2>3, <2>4
<1>3. CASE j - Len(text) \in 1 .. Len(page) /\ j = Len(text) + (j - Len(text))
  <2> DEFINE i == j - Len(text)
  <2>1. e[j] = DeleteOf(page, text, i)
    BY <1>0, <1>3
  <2>2. (\A l \in 1 .. Len(text) : RowOf(page, text, l) # i) /\ <<change>> = <<DeleteBy(page, i)>>
    BY <1>0, <1>1, <2>1, OneIsOne DEF DeleteOf, DeleteBy
  <2>3. change = DeleteBy(page, i)
    BY <2>2, OneIsOne
  <2> QED
    BY <1>3, <2>2, <2>3 DEF FromRow
<1> QED
  BY <1>2, <1>3, EntriesAre

\* The change set is made from the page.
LEMMA ChangesMade ==
  ASSUME NEW page, IsPage(page), NEW text \in Seq(Line), Marked(text, Len(page))
  PROVE  MadeFrom(Changes(page, text), page)
<1> DEFINE changes == Changes(page, text)
           size == Len(text) + Len(page)
<1>1. PICK at : changes \in Seq(Change) /\ Picks(Entries(page, text), size, changes, at)
  BY ChangesPick
<1>2. DOMAIN page = 1 .. Len(page) /\ DOMAIN text = 1 .. Len(text) /\ Len(page) \in Nat
      /\ DOMAIN changes = 1 .. Len(changes)
  BY <1>1 DEF IsPage
<1>3. \A n \in DOMAIN changes :
        \/ FromNewLine(page, text, changes[n], at[n])
        \/ FromLine(page, text, changes[n], at[n])
        \/ FromRow(page, text, changes[n], at[n])
  BY <1>1, <1>2, EntryOf DEF Picks
<1> HIDE DEF changes
<1>4. ASSUME NEW n \in DOMAIN changes, changes[n].op # "insert"
      PROVE  /\ SeenOn(changes[n], page)
             /\ \E i \in DOMAIN page :
                  /\ changes[n].pk.id = page[i].id
                  /\ \/ at[n] \in 1 .. Len(text) /\ RowOf(page, text, at[n]) = i
                     \/ at[n] = Len(text) + i /\ \A l \in 1 .. Len(text) : RowOf(page, text, l) # i
  <2>1. ~ FromNewLine(page, text, changes[n], at[n])
    BY <1>4 DEF FromNewLine, InsertBy
  <2>2. CASE FromLine(page, text, changes[n], at[n])
    <3> DEFINE i == RowOf(page, text, at[n])
    <3>1. i \in DOMAIN page /\ at[n] \in 1 .. Len(text) /\ text[at[n]] \in Line
          /\ changes[n] = UpdateBy(page, text[at[n]], i) /\ SetBy(page, text[at[n]], i) # {}
      BY <1>2, <2>2 DEF FromLine
    <3>2. SeenOn(changes[n], page)
      BY <3>1, UpdateIs
    <3>3. changes[n].pk.id = page[i].id
      BY <3>1 DEF UpdateBy
    <3> QED
      BY <3>1, <3>2, <3>3
  <2>3. CASE FromRow(page, text, changes[n], at[n])
    <3> DEFINE i == at[n] - Len(text)
    <3>1. i \in DOMAIN page /\ changes[n] = DeleteBy(page, i) /\ \A l \in 1 .. Len(text) : RowOf(page, text, l) # i
      BY <1>2, <2>3 DEF FromRow
    <3>2. SeenOn(changes[n], page)
      BY <3>1, DeleteIs
    <3>3. changes[n].pk.id = page[i].id
      BY <3>1 DEF DeleteBy
    <3>4. at[n] = Len(text) + i
      <4>1. at[n] \in 1 .. size
        BY <1>1, <1>2 DEF Picks
      <4> QED
        BY <4>1, <1>2
    <3> QED
      BY <3>1, <3>2, <3>3, <3>4
  <2> QED
    BY <1>3, <2>1, <2>2, <2>3
<1>5. ASSUME NEW m \in DOMAIN changes, NEW n \in DOMAIN changes,
             changes[m].op # "insert", changes[n].op # "insert", changes[m].pk = changes[n].pk
      PROVE  m = n
  <2>1. PICK i \in DOMAIN page :
          /\ changes[m].pk.id = page[i].id
          /\ \/ at[m] \in 1 .. Len(text) /\ RowOf(page, text, at[m]) = i
             \/ at[m] = Len(text) + i /\ \A l \in 1 .. Len(text) : RowOf(page, text, l) # i
    BY <1>4, <1>5
  <2>2. PICK j \in DOMAIN page :
          /\ changes[n].pk.id = page[j].id
          /\ \/ at[n] \in 1 .. Len(text) /\ RowOf(page, text, at[n]) = j
             \/ at[n] = Len(text) + j /\ \A l \in 1 .. Len(text) : RowOf(page, text, l) # j
    BY <1>4, <1>5
  <2>3. i = j
    BY <1>5, <2>1, <2>2 DEF IsPage
  <2>4. at[m] = at[n]
    <3>1. CASE at[m] \in 1 .. Len(text) /\ at[n] \in 1 .. Len(text)
      <4>1. RowOf(page, text, at[m]) = i /\ RowOf(page, text, at[n]) = i /\ i # 0
        BY <1>2, <2>1, <2>2, <2>3, <3>1
      <4> QED
        BY <1>2, <3>1, <4>1, RowOfOnce
    <3>2. CASE ~ (at[m] \in 1 .. Len(text) /\ at[n] \in 1 .. Len(text))
      BY <2>1, <2>2, <2>3, <3>2
    <3> QED
      BY <3>1, <3>2
  <2>5. m \in Nat /\ n \in Nat /\ at[m] \in Nat /\ (m < n => at[m] < at[n]) /\ (n < m => at[n] < at[m])
    BY <1>1, <1>2 DEF Picks
  <2> QED
    BY <2>4, <2>5
<1>6. ASSUME NEW m \in DOMAIN changes, NEW n \in DOMAIN changes, m < n,
             changes[n].op = "update", changes[m].op # "delete",
             changes[n].pk.id \in NewKeys(changes[m]), changes[n].pk.id # Blank
      PROVE  FALSE
  <2> DEFINE i == RowOf(page, text, at[n])
  <2>1. at[n] \in 1 .. Len(text) /\ i \in 1 .. Len(page) /\ changes[n].pk.id = page[i].id
    <3>1. FromLine(page, text, changes[n], at[n])
      BY <1>3, <1>6 DEF FromNewLine, FromRow, InsertBy, DeleteBy
    <3> QED
      BY <3>1 DEF FromLine, UpdateBy
  <2>2. at[m] < at[n] /\ at[m] \in 1 .. size
    BY <1>1, <1>2, <1>6 DEF Picks
  <2>3. at[m] \in 1 .. Len(text)
    BY <2>1, <2>2
  <2>4. "id" \in DOMAIN text[at[m]].cells /\ text[at[m]].cells["id"] = page[i].id
    <3>0. page[i].id \in NewKeys(changes[m])
      BY <1>6, <2>1
    <3>1. CASE FromNewLine(page, text, changes[m], at[m])
      <4> DEFINE given == GivenBy(text[at[m]])
      <4>1. changes[m].op = "insert" /\ changes[m].values = [c \in given |-> text[at[m]].cells[c]]
        BY <3>1 DEF FromNewLine, InsertBy
      <4>2. given \subseteq DOMAIN text[at[m]].cells
        BY DEF GivenBy
      <4> HIDE DEF given
      <4> QED
        BY <3>0, <4>1, <4>2 DEF NewKeys
    <3>2. CASE FromLine(page, text, changes[m], at[m])
      <4> DEFINE set == SetBy(page, text[at[m]], RowOf(page, text, at[m]))
      <4>1. changes[m].op = "update" /\ changes[m].set = [c \in set |-> text[at[m]].cells[c]]
        BY <3>2 DEF FromLine, UpdateBy
      <4>2. set \subseteq DOMAIN text[at[m]].cells
        BY DEF SetBy, Edited
      <4> HIDE DEF set
      <4> QED
        BY <3>0, <4>1, <4>2 DEF NewKeys
    <3>3. ~ FromRow(page, text, changes[m], at[m])
      BY <1>6 DEF FromRow, DeleteBy
    <3> QED
      BY <1>3, <3>1, <3>2, <3>3
  <2>5. KeyOf(text[at[m]]) = page[i].id /\ page[i].id # Blank
    BY <1>6, <2>1, <2>4 DEF KeyOf
  <2> HIDE DEF i
  <2>6. PICK f \in 1 .. at[m] : RowOf(page, text, f) = i
    BY <1>2, <2>1, <2>3, <2>5, KeyClaims
  <2>7. f \in DOMAIN text /\ at[n] \in DOMAIN text /\ f # at[n] /\ i # 0
    BY <1>2, <2>1, <2>2, <2>3, <2>6
  <2> QED
    BY <2>6, <2>7, RowOfOnce DEF i
<1>7. \A m, n \in DOMAIN changes :
        m < n /\ changes[n].op = "update" /\ changes[m].op # "delete" =>
          changes[n].pk.id \notin NewKeys(changes[m]) \ {Blank}
  BY <1>6
<1> QED
  BY <1>1, <1>4, <1>5, <1>7 DEF MadeFrom, changes

-----------------------------------------------------------------------------
(* A page that was just drawn.                                                 *)

Drawing(text, hide) == \A l \in DOMAIN text : DOMAIN text[l].cells = Visible(hide)

\* What a cell shows is its value or the mark of a text that was cut off.
LEMMA FitIsText ==
  ASSUME NEW loaded, NEW c, NEW v
  PROVE  /\ v \in Text => Fit(loaded, c, v) \in Text
         /\ v \in KeyText => Fit(loaded, c, v) \in KeyText
  BY DEF Fit, Text, KeyText

\* A page as it is drawn is good text.
LEMMA RenderIsText ==
  ASSUME NEW page, IsPage(page), NEW hide
  PROVE  /\ Render(page, hide) \in Seq(Line) /\ Len(Render(page, hide)) = Len(page)
         /\ Marked(Render(page, hide), Len(page)) /\ Drawing(Render(page, hide), hide)
         /\ \A i \in 1 .. Len(page) : /\ Render(page, hide)[i].mark = i
                                     /\ Render(page, hide)[i].cells = RenderRow(page, hide, page[i])
<1> DEFINE text == Render(page, hide)
           n    == Len(page)
<1>1. n \in Nat /\ DOMAIN page = 1 .. n
  BY DEF IsPage
<1>2. text = [i \in 1 .. n |-> [mark |-> i, cells |-> RenderRow(page, hide, page[i])]]
  BY <1>1 DEF Render
<1>3. ASSUME NEW i \in 1 .. n
      PROVE  RenderRow(page, hide, page[i]) \in Cells /\ DOMAIN RenderRow(page, hide, page[i]) = Visible(hide)
  <2>1. page[i] \in Row
    BY <1>1 DEF IsPage
  <2>2. Visible(hide) \subseteq Columns
    BY DEF Visible
  <2>3. \A c \in Visible(hide) : page[i][c] \in Text /\ (c = "id" => page[i][c] \in KeyText)
    BY <2>1, <2>2 DEF Row
  <2> DEFINE f == RenderRow(page, hide, page[i])
  <2>4. f = [c \in Visible(hide) |-> Fit(page, c, page[i][c])]
    BY DEF RenderRow
  <2>5. \A c \in Visible(hide) : f[c] \in Text /\ (c = "id" => f[c] \in KeyText)
    BY <2>3, <2>4, FitIsText
  <2>6. f \in [Visible(hide) -> Text]
    BY <2>4, <2>5
  <2>7. DOMAIN f = Visible(hide)
    BY <2>4
  <2> HIDE DEF f
  <2>8. f \in Partial
    BY <2>2, <2>6 DEF Partial
  <2>9. f \in Cells
    BY <2>5, <2>7, <2>8 DEF Cells
  <2> QED
    BY <2>7, <2>9 DEF f
<1>4. text \in [1 .. n -> Line]
  <2>1. \A i \in 1 .. n : [mark |-> i, cells |-> RenderRow(page, hide, page[i])] \in Line
    BY <1>3 DEF Line
  <2> HIDE DEF text
  <2> QED
    BY <1>2, <2>1
<1>5. text \in Seq(Line) /\ Len(text) = n
  BY <1>1, <1>4, IntervalIsSeq
<1> HIDE DEF text, n
<1>6. DOMAIN text = 1 .. n /\ \A i \in 1 .. n : text[i].mark = i /\ text[i].cells = RenderRow(page, hide, page[i])
  BY <1>2
<1>7. Marked(text, n)
  BY <1>1, <1>6 DEF Marked
<1>8. Drawing(text, hide)
  BY <1>3, <1>6 DEF Drawing
<1> QED
  BY <1>5, <1>6, <1>7, <1>8 DEF text, n

\* A key is never cut off.
LEMMA KeysShow ==
  ASSUME NEW page, IsPage(page), NEW i \in DOMAIN page
  PROVE  Rendered(page, i, "id") = page[i].id
<1>1. page[i].id \in KeyText
  BY DEF IsPage, Row
<1>2. Width[page[i].id] <= MaxCell /\ Width[page[i].id] \in Nat
  BY <1>1, WidthAssumption DEF KeyText
<1>3. Width[page[i].id] \in {1} \cup {Width[page[j].id] : j \in DOMAIN page} /\ Width[page[i].id] <= Width[page[i].id]
  BY <1>2
<1> QED
  BY <1>2, <1>3 DEF Rendered, Fit, Fits

\* Every line is the row it was drawn from.
LEMMA DrawnRowOf ==
  ASSUME NEW page, IsPage(page), NEW hide, NEW l \in 1 .. Len(page)
  PROVE  RowOf(page, Render(page, hide), l) = l
<1> DEFINE text == Render(page, hide)
           n    == Len(page)
<1>1. n \in Nat /\ DOMAIN page = 1 .. n
  BY DEF IsPage
<1>2. text \in Seq(Line) /\ Len(text) = n /\ Marked(text, n)
  BY RenderIsText
<1>3. \A i \in 1 .. n : text[i].mark = i /\ text[i].cells = RenderRow(page, hide, page[i])
  BY RenderIsText
<1>4. \A i \in 1 .. n : KeyOf(text[i]) = IF "id" \in Visible(hide) THEN page[i].id ELSE Blank
  <2> TAKE i \in 1 .. n
  <2>1. DOMAIN text[i].cells = Visible(hide)
    BY <1>3 DEF RenderRow
  <2>2. ASSUME "id" \in Visible(hide) PROVE text[i].cells.id = page[i].id
    <3>1. text[i].cells.id = Fit(page, "id", page[i].id)
      <4>1. text[i].cells = RenderRow(page, hide, page[i])
        BY <1>3
      <4> HIDE DEF text
      <4> QED
        BY <2>2, <4>1 DEF RenderRow
    <3> QED
      BY <1>1, <3>1, KeysShow DEF Rendered
  <2> QED
    BY <2>1, <2>2 DEF KeyOf
<1> HIDE DEF text, n
<1>5. DOMAIN text = 1 .. n /\ l \in 1 .. n
  BY <1>2 DEF n
<1>6. \A i, j \in 1 .. n : page[i].id = page[j].id => i = j
  BY <1>1 DEF IsPage
<1>7. Claims(page, text, l, l)
  <2>1. CASE KeyOf(text[l]) # Blank
    <3>1. \A m \in 1 .. l - 1 : m \in 1 .. n /\ m # l
      BY <1>1, <1>5
    <3>2. ClaimsByKey(page, text, l, l)
      BY <1>4, <1>5, <1>6, <2>1, <3>1 DEF ClaimsByKey
    <3> QED
      BY <3>2 DEF Claims
  <2>2. CASE KeyOf(text[l]) = Blank
    <3>1. \A k \in DOMAIN page : ~ClaimsByKey(page, text, l, k)
      BY <2>2 DEF ClaimsByKey
    <3>2. \A m \in DOMAIN text : ~ClaimsByKey(page, text, m, l)
      BY <1>4, <1>5, <2>2 DEF ClaimsByKey
    <3> QED
      BY <1>3, <1>5, <3>1, <3>2 DEF Claims, ClaimsByMark
  <2> QED
    BY <2>1, <2>2
<1> QED
  BY <1>1, <1>2, <1>5, <1>7, RowOfIs DEF text, n

\* Nothing is to be written of it.
LEMMA DrawnHasNothing ==
  ASSUME NEW page, IsPage(page), NEW hide
  PROVE  Changes(page, Render(page, hide)) = <<>> /\ ~HasErrors(page, Render(page, hide))
<1> DEFINE text == Render(page, hide)
<1>1. Len(page) \in Nat /\ DOMAIN page = 1 .. Len(page)
  BY DEF IsPage
<1>2. text \in Seq(Line) /\ Len(text) = Len(page) /\ Marked(text, Len(page))
  BY RenderIsText
<1>3. \A l \in 1 .. Len(page) : RowOf(page, text, l) = l
  BY DrawnRowOf
<1>4. ASSUME NEW l \in 1 .. Len(page)
      PROVE  Edited(page, text[l], l) = {}
  <2>1. text[l].cells = RenderRow(page, hide, page[l])
    BY RenderIsText
  <2> HIDE DEF text
  <2> QED
    BY <2>1 DEF Edited, RenderRow, Rendered
<1> HIDE DEF text
<1>5. ~HasErrors(page, text)
  <2> SUFFICES ASSUME NEW l \in DOMAIN text
               PROVE  Edited(page, text[l], RowOf(page, text, l)) = {}
    BY DEF HasErrors
  <2>1. l \in 1 .. Len(page)
    BY <1>2
  <2> QED
    BY <1>3, <1>4, <2>1
<1> DEFINE changes == Changes(page, text)
<1>6. PICK at : changes \in Seq(Change) /\ Picks(Entries(page, text), Len(text) + Len(page), changes, at)
  BY <1>2, ChangesPick
<1> HIDE DEF changes
<1>7. ASSUME Len(changes) # 0 PROVE FALSE
  <2>1. 1 \in 1 .. Len(changes)
    BY <1>6, <1>7
  <2>2. at[1] \in 1 .. Len(text) + Len(page) /\ Entries(page, text)[at[1]] = <<changes[1]>>
    BY <1>6, <2>1 DEF Picks
  <2>3. CASE FromNewLine(page, text, changes[1], at[1])
    BY <1>1, <1>2, <1>3, <2>3 DEF FromNewLine
  <2>4. CASE FromLine(page, text, changes[1], at[1])
    BY <1>2, <1>3, <1>4, <2>4 DEF FromLine, SetBy
  <2>5. CASE FromRow(page, text, changes[1], at[1])
    BY <1>2, <1>3, <2>5 DEF FromRow
  <2> QED
    BY <1>2, <2>2, <2>3, <2>4, <2>5, EntryOf
<1>8. changes = <<>>
  BY <1>6, <1>7
<1> QED
  BY <1>5, <1>8 DEF text, changes

-----------------------------------------------------------------------------
(* Edits of the text.                                                          *)

GoodText(text, n, hide) == text \in Seq(Line) /\ Marked(text, n) /\ Drawing(text, hide)

\* A line with other cells.
LEMMA LineReplaced ==
  ASSUME NEW n \in Nat, NEW hide, NEW text, GoodText(text, n, hide),
         NEW l \in DOMAIN text, NEW line \in Line,
         line.mark \in {0, text[l].mark}, DOMAIN line.cells = Visible(hide)
  PROVE  GoodText([text EXCEPT ![l] = line], n, hide)
<1> DEFINE new == [text EXCEPT ![l] = line]
<1>1. text \in Seq(Line) /\ DOMAIN text = 1 .. Len(text) /\ new \in Seq(Line) /\ DOMAIN new = DOMAIN text
  BY DEF GoodText
<1>2. \A m \in DOMAIN text : new[m] = IF m = l THEN line ELSE text[m]
  BY <1>1
<1> HIDE DEF new
<1>3. Drawing(new, hide)
  BY <1>1, <1>2 DEF GoodText, Drawing
<1>4. Marked(new, n)
  BY <1>1, <1>2 DEF GoodText, Marked
<1> QED
  BY <1>1, <1>3, <1>4 DEF GoodText, new

\* Two lines in each other's place, whatever happens to their marks.
LEMMA LinesTraded ==
  ASSUME NEW n \in Nat, NEW hide, NEW text, GoodText(text, n, hide),
         NEW l \in 1 .. Len(text) - 1, NEW first \in Line, NEW second \in Line,
         <<first.mark, second.mark>> \in {<<text[l + 1].mark, text[l].mark>>, <<text[l].mark, text[l + 1].mark>>,
                                          <<0, text[l].mark>>, <<text[l + 1].mark, 0>>},
         DOMAIN first.cells = Visible(hide), DOMAIN second.cells = Visible(hide)
  PROVE  GoodText([text EXCEPT ![l] = first, ![l + 1] = second], n, hide)
<1> DEFINE new == [text EXCEPT ![l] = first, ![l + 1] = second]
<1>1. text \in Seq(Line) /\ DOMAIN text = 1 .. Len(text) /\ new \in Seq(Line) /\ DOMAIN new = DOMAIN text
  BY DEF GoodText
<1>2. l \in DOMAIN text /\ l + 1 \in DOMAIN text /\ l # l + 1
  BY <1>1
<1>3. \A m \in DOMAIN text : new[m] = IF m = l THEN first ELSE IF m = l + 1 THEN second ELSE text[m]
  BY <1>1, <1>2
<1> HIDE DEF new
<1>4. Drawing(new, hide)
  BY <1>1, <1>3 DEF GoodText, Drawing
<1>5. \/ first.mark = text[l + 1].mark /\ second.mark = text[l].mark
      \/ first.mark = text[l].mark /\ second.mark = text[l + 1].mark
      \/ first.mark = 0 /\ second.mark = text[l].mark
      \/ first.mark = text[l + 1].mark /\ second.mark = 0
  OBVIOUS
<1>6. Marked(text, n)
  BY DEF GoodText
<1> DEFINE mark == [m \in DOMAIN text |-> text[m].mark]
           k == l + 1
<1>7. \A m \in DOMAIN text : mark[m] \in 0 .. n
  BY <1>6 DEF Marked
<1>8. \A m, p \in DOMAIN text : mark[m] = mark[p] => m = p \/ mark[m] = 0
  BY <1>6 DEF Marked
<1>9. \A m \in DOMAIN text : m # l /\ m # k => new[m].mark = mark[m]
  BY <1>3
<1>10. /\ new[l].mark = first.mark /\ new[k].mark = second.mark
       /\ \/ first.mark = mark[k] /\ second.mark = mark[l]
          \/ first.mark = mark[l] /\ second.mark = mark[k]
          \/ first.mark = 0 /\ second.mark = mark[l]
          \/ first.mark = mark[k] /\ second.mark = 0
  BY <1>2, <1>3, <1>5
<1> HIDE DEF mark, k
<1>11. l \in DOMAIN text /\ k \in DOMAIN text /\ l # k
  BY <1>2 DEF k
<1>12. ASSUME NEW m \in DOMAIN text
       PROVE  new[m].mark \in 0 .. n
  <2>1. mark[l] \in 0 .. n /\ mark[k] \in 0 .. n /\ 0 \in 0 .. n
    BY <1>7, <1>11
  <2>2. CASE m = l
    BY <1>10, <2>1, <2>2
  <2>3. CASE m = k
    BY <1>10, <2>1, <2>3
  <2>4. CASE m # l /\ m # k
    BY <1>7, <1>9, <2>4
  <2> QED
    BY <2>2, <2>3, <2>4
<1>13. ASSUME NEW m \in DOMAIN text, NEW p \in DOMAIN text, new[m].mark = new[p].mark
       PROVE  m = p \/ new[m].mark = 0
  <2>1. CASE m \in {l, k} /\ p \in {l, k}
    BY <1>8, <1>10, <1>11, <1>13, <2>1
  <2>2. CASE m \notin {l, k} /\ p \in {l, k}
    BY <1>8, <1>9, <1>10, <1>11, <1>13, <2>2
  <2>3. CASE m \in {l, k} /\ p \notin {l, k}
    BY <1>8, <1>9, <1>10, <1>11, <1>13, <2>3
  <2>4. CASE m \notin {l, k} /\ p \notin {l, k}
    BY <1>8, <1>9, <1>13, <2>4
  <2> QED
    BY <2>1, <2>2, <2>3, <2>4
<1>14. Marked(new, n)
  BY <1>1, <1>12, <1>13 DEF Marked
<1> QED
  BY <1>1, <1>4, <1>14 DEF GoodText, new

\* What RemoveAt leaves, element by element.
LEMMA RemovedIs ==
  ASSUME NEW S, NEW s \in Seq(S), NEW l \in 1 .. Len(s)
  PROVE  /\ RemoveAt(s, l) \in Seq(S) /\ Len(RemoveAt(s, l)) = Len(s) - 1
         /\ \A i \in 1 .. Len(s) - 1 : RemoveAt(s, l)[i] = IF i < l THEN s[i] ELSE s[i + 1]
<1> DEFINE a == SubSeq(s, 1, l - 1)
           b == SubSeq(s, l + 1, Len(s))
<1>1. a \in Seq(S) /\ Len(a) = l - 1 /\ \A i \in 1 .. l - 1 : a[i] = s[i]
  OBVIOUS
<1>2. b \in Seq(S) /\ Len(b) = Len(s) - l /\ \A i \in 1 .. Len(s) - l : b[i] = s[l + i]
  OBVIOUS
<1>3. RemoveAt(s, l) = a \o b
  BY DEF RemoveAt
<1> HIDE DEF a, b
<1>4. Len(s) \in Nat /\ l \in Nat /\ 1 <= l /\ l <= Len(s)
  OBVIOUS
<1>5. /\ a \o b \in Seq(S) /\ Len(a \o b) = Len(a) + Len(b)
      /\ \A i \in 1 .. Len(a) : (a \o b)[i] = a[i]
      /\ \A i \in 1 .. Len(b) : (a \o b)[Len(a) + i] = b[i]
  <2>1. a \in Seq(S) /\ b \in Seq(S)
    BY <1>1, <1>2
  <2>2. a \o b \in Seq(S)
    BY <2>1
  <2> QED
    BY <2>1, <2>2, Joined
<1>6. Len(a \o b) = Len(s) - 1
  BY <1>1, <1>2, <1>4, <1>5
<1>7. ASSUME NEW i \in 1 .. Len(s) - 1
      PROVE  (a \o b)[i] = IF i < l THEN s[i] ELSE s[i + 1]
  <2>1. CASE i < l
    <3>1. i \in 1 .. l - 1 /\ i \in 1 .. Len(a)
      BY <1>1, <1>4, <2>1
    <3> QED
      BY <1>1, <1>5, <2>1, <3>1
  <2>2. CASE ~ (i < l)
    <3> DEFINE j == i - (l - 1)
    <3>1. j \in 1 .. Len(s) - l /\ i = Len(a) + j /\ l + j = i + 1
      BY <1>1, <1>4, <2>2
    <3> HIDE DEF j
    <3>2. (a \o b)[i] = b[j] /\ b[j] = s[l + j]
      BY <1>2, <1>5, <3>1
    <3> QED
      BY <2>2, <3>1, <3>2
  <2> QED
    BY <2>1, <2>2
<1> QED
  BY <1>3, <1>5, <1>6, <1>7

\* What InsertAt makes, element by element.
LEMMA InsertedIs ==
  ASSUME NEW S, NEW s \in Seq(S), NEW l \in 1 .. Len(s) + 1, NEW e \in S
  PROVE  /\ InsertAt(s, l, e) \in Seq(S) /\ Len(InsertAt(s, l, e)) = Len(s) + 1
         /\ \A i \in 1 .. Len(s) + 1 :
              InsertAt(s, l, e)[i] = IF i < l THEN s[i] ELSE IF i = l THEN e ELSE s[i - 1]
<1> DEFINE a == SubSeq(s, 1, l - 1)
           b == SubSeq(s, l, Len(s))
<1>1. a \in Seq(S) /\ Len(a) = l - 1 /\ \A i \in 1 .. l - 1 : a[i] = s[i]
  OBVIOUS
<1>2. b \in Seq(S) /\ Len(b) = Len(s) - (l - 1) /\ \A i \in 1 .. Len(s) - (l - 1) : b[i] = s[(l - 1) + i]
  OBVIOUS
<1>3. InsertAt(s, l, e) = a \o <<e>> \o b
  BY DEF InsertAt
<1> HIDE DEF a, b
<1> DEFINE ae == a \o <<e>>
<1>4. ae \in Seq(S) /\ Len(ae) = l /\ ae[l] = e /\ \A i \in 1 .. l - 1 : ae[i] = s[i]
  BY <1>1
<1> HIDE DEF ae
<1>5. Len(s) \in Nat /\ l \in Nat /\ 1 <= l /\ l <= Len(s) + 1
  OBVIOUS
<1>6. /\ ae \o b \in Seq(S) /\ Len(ae \o b) = Len(ae) + Len(b)
      /\ \A i \in 1 .. Len(ae) : (ae \o b)[i] = ae[i]
      /\ \A i \in 1 .. Len(b) : (ae \o b)[Len(ae) + i] = b[i]
  <2>1. ae \in Seq(S) /\ b \in Seq(S)
    BY <1>2, <1>4
  <2>2. ae \o b \in Seq(S)
    BY <2>1
  <2> QED
    BY <2>1, <2>2, Joined
<1>7. Len(ae \o b) = Len(s) + 1
  BY <1>2, <1>4, <1>5, <1>6
<1>8. ASSUME NEW i \in 1 .. Len(s) + 1
      PROVE  (ae \o b)[i] = IF i < l THEN s[i] ELSE IF i = l THEN e ELSE s[i - 1]
  <2>1. CASE i <= l
    <3>4. i \in Nat /\ 1 <= i
      BY <1>5
    <3>5. i \in 1 .. l /\ Len(ae) = l
      BY <1>4, <1>5, <2>1, <3>4
    <3>6. i = l \/ (i < l /\ i \in 1 .. l - 1)
      BY <1>5, <3>5
    <3>1. i \in 1 .. Len(ae) /\ (i = l \/ (i < l /\ i \in 1 .. l - 1))
      BY <3>5, <3>6
    <3>2. (ae \o b)[i] = ae[i]
      BY <1>6, <3>1
    <3> QED
      BY <1>4, <1>5, <3>1, <3>2
  <2>2. CASE ~ (i <= l)
    <3> DEFINE j == i - l
    <3>1. j \in 1 .. Len(s) - (l - 1) /\ i = Len(ae) + j /\ (l - 1) + j = i - 1
      BY <1>4, <1>5, <2>2
    <3> HIDE DEF j
    <3>2. (ae \o b)[i] = b[j] /\ b[j] = s[(l - 1) + j]
      BY <1>2, <1>6, <3>1
    <3>3. ~ (i < l) /\ i # l
      BY <1>5, <2>2
    <3> QED
      BY <3>1, <3>2, <3>3
  <2> QED
    BY <2>1, <2>2
<1> QED
  BY <1>3, <1>6, <1>7, <1>8 DEF ae

\* A line less.
LEMMA LineRemoved ==
  ASSUME NEW n \in Nat, NEW hide, NEW text, GoodText(text, n, hide), NEW l \in DOMAIN text
  PROVE  GoodText(RemoveAt(text, l), n, hide)
<1> DEFINE new == RemoveAt(text, l)
<1>1. text \in Seq(Line) /\ DOMAIN text = 1 .. Len(text) /\ Marked(text, n) /\ Drawing(text, hide)
  BY DEF GoodText
<1>2. /\ new \in Seq(Line) /\ Len(new) = Len(text) - 1
      /\ \A i \in 1 .. Len(text) - 1 : new[i] = IF i < l THEN text[i] ELSE text[i + 1]
  BY <1>1, RemovedIs
<1> HIDE DEF new
<1>3. DOMAIN new = 1 .. Len(text) - 1
  BY <1>2
<1> DEFINE from(i) == IF i < l THEN i ELSE i + 1
<1>4. \A i \in DOMAIN new : from(i) \in DOMAIN text /\ new[i] = text[from(i)]
  BY <1>1, <1>2, <1>3
<1>5. \A i, j \in DOMAIN new : from(i) = from(j) => i = j
  BY <1>1, <1>3
<1> HIDE DEF from
<1>6. Marked(new, n)
  BY <1>1, <1>4, <1>5 DEF Marked
<1>7. Drawing(new, hide)
  BY <1>1, <1>4 DEF Drawing
<1> QED
  BY <1>2, <1>6, <1>7 DEF GoodText, new

\* A line more, without a mark.
LEMMA LineInserted ==
  ASSUME NEW n \in Nat, NEW hide, NEW text, GoodText(text, n, hide), NEW l \in 1 .. Len(text) + 1,
         NEW line \in Line, line.mark = 0, DOMAIN line.cells = Visible(hide)
  PROVE  GoodText(InsertAt(text, l, line), n, hide)
<1> DEFINE new == InsertAt(text, l, line)
<1>1. text \in Seq(Line) /\ DOMAIN text = 1 .. Len(text) /\ Marked(text, n) /\ Drawing(text, hide)
  BY DEF GoodText
<1>2. /\ new \in Seq(Line) /\ Len(new) = Len(text) + 1
      /\ \A i \in 1 .. Len(text) + 1 : new[i] = IF i < l THEN text[i] ELSE IF i = l THEN line ELSE text[i - 1]
  <2>1. text \in Seq(Line)
    BY <1>1
  <2>2. InsertAt(text, l, line) \in Seq(Line) /\ Len(InsertAt(text, l, line)) = Len(text) + 1
    BY <2>1, InsertedIs
  <2>3. \A i \in 1 .. Len(text) + 1 :
          InsertAt(text, l, line)[i] = IF i < l THEN text[i] ELSE IF i = l THEN line ELSE text[i - 1]
    BY <2>1, InsertedIs
  <2> QED
    BY <2>2, <2>3, Zenon
<1> HIDE DEF new
<1>3. DOMAIN new = 1 .. Len(text) + 1
  BY <1>2
<1> DEFINE from(i) == IF i < l THEN i ELSE i - 1
<1>4. Len(text) \in Nat /\ l \in Nat /\ 1 <= l /\ l <= Len(text) + 1
  BY <1>1
<1>5. \A i, j \in DOMAIN new : i # l /\ j # l /\ from(i) = from(j) => i = j
  BY <1>3, <1>4
<1>6. ASSUME NEW i \in DOMAIN new, i # l
      PROVE  from(i) \in DOMAIN text /\ new[i] = text[from(i)]
  <2>1. i \in Nat /\ 1 <= i /\ i <= Len(text) + 1
    BY <1>3, <1>4
  <2>2. from(i) \in DOMAIN text
    BY <1>1, <1>4, <1>6, <2>1
  <2>3. new[i] = IF i < l THEN text[i] ELSE IF i = l THEN line ELSE text[i - 1]
    BY <1>2, <1>3
  <2> QED
    BY <1>6, <2>2, <2>3
<1>7. l \in DOMAIN new /\ new[l] = line
  BY <1>2, <1>3, <1>4
<1> HIDE DEF from
<1>8. Marked(new, n)
  BY <1>1, <1>5, <1>6, <1>7 DEF Marked
<1>9. Drawing(new, hide)
  BY <1>1, <1>6, <1>7 DEF Drawing
<1> QED
  BY <1>2, <1>8, <1>9 DEF GoodText, new

-----------------------------------------------------------------------------
(* The inductive invariant.                                                    *)

AskedOK(request) ==
  \/ request.kind = "load" /\ request.want \in Want
  \/ request.kind = "apply" /\ IsPage(request.rows) /\ MadeFrom(request.changes, request.rows)

Applied(changes, before, after) ==
  /\ Table(before)
  /\ \E page : IsPage(page) /\ MadeFrom(changes, page)
  /\ ApplyChanges(before, changes).ok
  /\ after = before \/ after = ApplyChanges(before, changes).table

AnswerOK(reply) ==
  \/ reply.kind = "load" /\ (reply.ok => IsPage(reply.rows))
  \/ reply.kind = "apply" /\ (reply.ok => Applied(reply.changes, reply.before, reply.after))

AskedAll    == \E S : asked \in Seq(S) /\ \A request \in S : AskedOK(request)
AnsweredAll == \E S : answered \in Seq(S) /\ \A reply \in S : AnswerOK(reply)

Inv ==
  /\ Table(table)
  /\ want \in Want
  /\ IsPage(rows)
  /\ GoodText(lines, Len(rows), hidden)
  /\ AskedAll /\ AnsweredAll
  /\ confirming = Nothing \/ (IsPage(confirming.rows) /\ MadeFrom(confirming.changes, confirming.rows))
  /\ undo = Nothing \/ Applied(undo.changes, undo.before, undo.after)
  /\ FlagTellsUnsaved

\* A queue with one element more.
LEMMA Queued ==
  ASSUME NEW S, NEW q \in Seq(S), NEW e
  PROVE  /\ Append(q, e) \in Seq(S \cup {e})
         /\ q # <<>> => Head(q) \in S /\ Tail(q) \in Seq(S)
<1>1. q \in Seq(S \cup {e})
  OBVIOUS
<1>2. Append(q, e) \in Seq(S \cup {e})
  BY <1>1
<1> QED
  BY <1>2

\* The length of a page.
LEMMA PageSizeIs ==
  ASSUME NEW page, IsPage(page)
  PROVE  Len(page) \in Nat /\ DOMAIN page = 1 .. Len(page)
  BY DEF IsPage

\* At first the invariant holds: the buffer shows a page of the table and nothing is asked.
THEOREM InitInv == Init => Inv
<1> SUFFICES ASSUME Init
             PROVE  Inv
  OBVIOUS
<1>1. Table(table)
  BY BufferAssumption, RowTypes DEF Init, Table
<1>2. want \in Want
  BY DEF Init, Want, Columns
<1>3. IsPage(rows)
  BY <1>1, <1>2, PagesArePages DEF Init
<1>4. GoodText(lines, Len(rows), hidden)
  BY <1>3, RenderIsText DEF Init, GoodText
<1>5. AskedAll /\ AnsweredAll
  <2>1. \E S : <<>> \in Seq(S) /\ \A request \in S : AskedOK(request)
    <3>1. \A S : S = {} => (<<>> \in Seq(S) /\ \A request \in S : AskedOK(request))
      OBVIOUS
    <3> QED
      BY <3>1
  <2>2. \E S : <<>> \in Seq(S) /\ \A reply \in S : AnswerOK(reply)
    <3>1. \A S : S = {} => (<<>> \in Seq(S) /\ \A reply \in S : AnswerOK(reply))
      OBVIOUS
    <3> QED
      BY <3>1
  <2> QED
    BY <2>1, <2>2 DEF Init, AskedAll, AnsweredAll
<1>6. confirming = Nothing /\ undo = Nothing
  BY DEF Init
<1>7. FlagTellsUnsaved
  BY <1>3, DrawnHasNothing DEF Init, FlagTellsUnsaved, Pending
<1> QED
  BY <1>1, <1>2, <1>3, <1>4, <1>5, <1>6, <1>7 DEF Inv

-----------------------------------------------------------------------------
(* Steps that edit the text.                                                   *)

\* Typing keeps the invariant where it leaves good text.
LEMMA TypedKeeps ==
  ASSUME Inv, NEW text, GoodText(text, Len(rows), hidden), Typed(text)
  PROVE  Inv'
<1>1. /\ lines' = text /\ modified' = TRUE
      /\ UNCHANGED <<table, asked, answered, want, rows, hidden, confirming, undo>>
  BY DEF Typed, session
<1>2. FlagTellsUnsaved'
  BY <1>1 DEF FlagTellsUnsaved
<1>3. GoodText(lines, Len(rows), hidden)'
  BY <1>1
<1>4. AskedAll' /\ AnsweredAll'
  BY <1>1 DEF Inv, AskedAll, AnsweredAll
<1> QED
  BY <1>1, <1>2, <1>3, <1>4 DEF Inv

\* A line with one cell set.
LEMMA CellSet ==
  ASSUME NEW cells \in Cells, NEW c \in DOMAIN cells, NEW txt \in Text, c = "id" => txt \in KeyText
  PROVE  [cells EXCEPT ![c] = txt] \in Cells /\ DOMAIN [cells EXCEPT ![c] = txt] = DOMAIN cells
<1>1. DOMAIN cells \subseteq Columns /\ cells \in [DOMAIN cells -> Text]
  BY DEF Cells, Partial
<1>2. [cells EXCEPT ![c] = txt] \in [DOMAIN cells -> Text]
  BY <1>1
<1>3. [cells EXCEPT ![c] = txt] \in Partial
  BY <1>1, <1>2 DEF Partial
<1>4. "id" \in DOMAIN cells => [cells EXCEPT ![c] = txt]["id"] \in KeyText
  BY <1>1 DEF Cells
<1> QED
  BY <1>2, <1>3, <1>4 DEF Cells

\* What the invariant says of the lines.
LEMMA LinesAre ==
  ASSUME Inv, NEW l \in DOMAIN lines
  PROVE  /\ lines[l] \in Line /\ lines[l].cells \in Cells /\ DOMAIN lines[l].cells = Visible(hidden)
         /\ lines[l].mark \in Nat /\ lines[l].cells \in [Visible(hidden) -> Text]
<1>1. lines[l] \in Line
  BY DEF Inv, GoodText
<1>2. DOMAIN lines[l].cells = Visible(hidden)
  BY DEF Inv, GoodText, Drawing
<1>3. lines[l].cells \in Cells /\ lines[l].mark \in Nat
  BY <1>1 DEF Line
<1>4. lines[l].cells \in [Visible(hidden) -> Text]
  BY <1>2, <1>3 DEF Cells, Partial
<1> QED
  BY <1>1, <1>2, <1>3, <1>4

\* A cell is edited.
LEMMA EditCellKeeps == Inv /\ EditCell => Inv'
<1> SUFFICES ASSUME Inv, NEW l \in DOMAIN lines, NEW c \in DOMAIN lines[l].cells, NEW txt \in Texts(c),
                    Typed([lines EXCEPT ![l].cells[c] = txt])
             PROVE  Inv'
  BY DEF EditCell
<1> DEFINE line == [lines[l] EXCEPT !.cells = [lines[l].cells EXCEPT ![c] = txt]]
<1>1. txt \in Text /\ (c = "id" => txt \in KeyText)
  BY DEF Texts, Text, KeyText
<1>2. line \in Line /\ line.mark = lines[l].mark /\ DOMAIN line.cells = Visible(hidden)
  BY <1>1, LinesAre, CellSet DEF Line
<1>3. [lines EXCEPT ![l].cells[c] = txt] = [lines EXCEPT ![l] = line]
  BY LinesAre DEF Line
<1>4. Len(rows) \in Nat /\ GoodText(lines, Len(rows), hidden)
  BY PageSizeIs DEF Inv
<1> HIDE DEF line
<1>5. GoodText([lines EXCEPT ![l] = line], Len(rows), hidden)
  BY <1>2, <1>4, LineReplaced
<1> QED
  BY <1>3, <1>5, TypedKeeps

\* A line is deleted.
LEMMA DeleteLineKeeps == Inv /\ DeleteLine => Inv'
<1> SUFFICES ASSUME Inv, NEW l \in DOMAIN lines, Typed(RemoveAt(lines, l))
             PROVE  Inv'
  BY DEF DeleteLine
<1>1. Len(rows) \in Nat /\ GoodText(lines, Len(rows), hidden)
  BY PageSizeIs DEF Inv
<1>2. GoodText(RemoveAt(lines, l), Len(rows), hidden)
  BY <1>1, LineRemoved
<1> QED
  BY <1>2, TypedKeeps

\* A line is typed in.
LEMMA OpenLineKeeps == Inv /\ OpenLine => Inv'
<1> DEFINE new(cells) == [mark |-> 0, cells |-> [c \in Visible(hidden) |-> cells[c]]]
<1> SUFFICES ASSUME Inv, NEW l \in 1 .. Len(lines) + 1, NEW cells \in NewLines,
                    Typed(InsertAt(lines, l, new(cells)))
             PROVE  Inv'
  BY DEF OpenLine
<1>1. Len(rows) \in Nat /\ GoodText(lines, Len(rows), hidden)
  BY PageSizeIs DEF Inv
<1>2. cells \in Cells /\ DOMAIN cells = Columns
  <2>1. cells \in [id : Keys \cup {Blank}, a : Values \cup {Null, Blank}, b : Values \cup {Null, Blank}]
    BY BufferAssumption
  <2>2. cells \in [Columns -> Text] /\ cells["id"] \in KeyText
    BY <2>1 DEF Columns, Text, KeyText
  <2> QED
    BY <2>2 DEF Cells, Partial
<1>3. Visible(hidden) \subseteq Columns
  BY DEF Visible
<1>4. [c \in Visible(hidden) |-> cells[c]] \in Cells
  BY <1>2, <1>3, SomeCells
<1>5. new(cells) \in Line /\ new(cells).mark = 0 /\ DOMAIN new(cells).cells = Visible(hidden)
  BY <1>4 DEF Line
<1>6. GoodText(InsertAt(lines, l, new(cells)), Len(rows), hidden)
  <2> HIDE DEF new
  <2> QED
    BY <1>1, <1>5, LineInserted
<1> QED
  BY <1>6, TypedKeeps

\* A line is moved.
LEMMA MoveLineKeeps == Inv /\ MoveLine => Inv'
<1> SUFFICES ASSUME Inv, NEW l \in 1 .. Len(lines) - 1,
                    NEW marks \in {<<lines[l + 1].mark, lines[l].mark>>, <<lines[l].mark, lines[l + 1].mark>>,
                                   <<0, lines[l].mark>>, <<lines[l + 1].mark, 0>>},
                    Typed([lines EXCEPT ![l] = [lines[l + 1] EXCEPT !.mark = marks[1]],
                                        ![l + 1] = [lines[l] EXCEPT !.mark = marks[2]]])
             PROVE  Inv'
  BY DEF MoveLine
<1> DEFINE first  == [lines[l + 1] EXCEPT !.mark = marks[1]]
           second == [lines[l] EXCEPT !.mark = marks[2]]
<1>1. Len(rows) \in Nat /\ GoodText(lines, Len(rows), hidden)
  BY PageSizeIs DEF Inv
<1>2. l \in DOMAIN lines /\ l + 1 \in DOMAIN lines
  BY <1>1 DEF GoodText
<1>3. /\ lines[l] \in Line /\ DOMAIN lines[l].cells = Visible(hidden) /\ lines[l].mark \in Nat
      /\ lines[l + 1] \in Line /\ DOMAIN lines[l + 1].cells = Visible(hidden) /\ lines[l + 1].mark \in Nat
  BY <1>2, LinesAre
<1>4. marks = <<marks[1], marks[2]>> /\ marks[1] \in Nat /\ marks[2] \in Nat
  BY <1>3
<1>5. /\ first \in Line /\ first.mark = marks[1] /\ DOMAIN first.cells = Visible(hidden)
      /\ second \in Line /\ second.mark = marks[2] /\ DOMAIN second.cells = Visible(hidden)
  BY <1>3, <1>4 DEF Line
<1>6. GoodText([lines EXCEPT ![l] = first, ![l + 1] = second], Len(rows), hidden)
  <2>1. <<first.mark, second.mark>> = marks
    BY <1>4, <1>5
  <2> HIDE DEF first, second
  <2> QED
    BY <1>1, <1>5, <2>1, LinesTraded
<1> QED
  BY <1>6, TypedKeeps

\* A row is pasted.
LEMMA PasteRowKeeps == Inv /\ PasteRow => Inv'
<1> SUFFICES ASSUME Inv, NEW l \in DOMAIN lines, Typed(InsertAt(lines, l + 1, Duplicate(lines[l])))
             PROVE  Inv'
  BY DEF PasteRow
<1>1. Len(rows) \in Nat /\ GoodText(lines, Len(rows), hidden)
  BY PageSizeIs DEF Inv
<1>2. l + 1 \in 1 .. Len(lines) + 1
  BY <1>1 DEF GoodText
<1>3. /\ Duplicate(lines[l]) \in Line /\ Duplicate(lines[l]).mark = 0
      /\ DOMAIN Duplicate(lines[l]).cells = Visible(hidden)
  BY LinesAre DEF Duplicate, Line
<1>4. GoodText(InsertAt(lines, l + 1, Duplicate(lines[l])), Len(rows), hidden)
  BY <1>1, <1>2, <1>3, LineInserted
<1> QED
  BY <1>4, TypedKeeps

\* A line that is rendered again is a line.
LEMMA RebuiltKeeps ==
  ASSUME Inv, NEW l \in DOMAIN lines, NEW c \in DOMAIN lines[l].cells, NEW v \in Text, c = "id" => v \in KeyText,
         NEW line \in Rebuilt(l, c, v), Typed([lines EXCEPT ![l] = line])
  PROVE  Inv'
<1> DEFINE value(d) == IF d = c THEN v ELSE lines[l].cells[d]
           cells    == [d \in Visible(hidden) |-> Fit(rows, d, value(d))]
<1>1. Len(rows) \in Nat /\ GoodText(lines, Len(rows), hidden)
  BY PageSizeIs DEF Inv
<1>2. lines[l].cells \in Cells /\ DOMAIN lines[l].cells = Visible(hidden) /\ lines[l].mark \in Nat
      /\ lines[l].cells \in [Visible(hidden) -> Text]
  BY LinesAre
<1>3. line.cells = cells /\ line.mark \in {0, lines[l].mark} /\ line = [mark |-> line.mark, cells |-> cells]
  BY <1>2 DEF Rebuilt, Parse
<1>4. \A d \in Visible(hidden) : value(d) \in Text /\ (d = "id" => value(d) \in KeyText)
  BY <1>2 DEF Cells
<1>5. cells \in Cells /\ DOMAIN cells = Visible(hidden)
  <2>1. \A d \in Visible(hidden) : cells[d] \in Text /\ (d = "id" => cells[d] \in KeyText)
    BY <1>4, FitIsText
  <2>2. cells = [d \in Visible(hidden) |-> cells[d]]
    OBVIOUS
  <2>3. Visible(hidden) \subseteq Columns
    BY DEF Visible
  <2> HIDE DEF cells
  <2>4. cells \in [Visible(hidden) -> Text] /\ DOMAIN cells = Visible(hidden)
    BY <2>1, <2>2
  <2>5. cells \in Partial
    BY <2>3, <2>4 DEF Partial
  <2> QED
    BY <2>1, <2>4, <2>5 DEF Cells
<1> HIDE DEF cells
<1>6. line \in Line /\ DOMAIN line.cells = Visible(hidden)
  BY <1>2, <1>3, <1>5 DEF Line
<1>7. GoodText([lines EXCEPT ![l] = line], Len(rows), hidden)
  BY <1>1, <1>3, <1>6, LineReplaced
<1> QED
  BY <1>7, TypedKeeps

\* A cell is set to NULL.
LEMMA SetNullKeeps == Inv /\ SetNull => Inv'
<1> SUFFICES ASSUME Inv, NEW l \in DOMAIN lines, NEW c \in DOMAIN lines[l].cells \cap Nullable,
                    NEW line \in Rebuilt(l, c, Null), Typed([lines EXCEPT ![l] = line])
             PROVE  Inv'
  BY DEF SetNull
<1>1. c # "id" /\ Null \in Text /\ c \in DOMAIN lines[l].cells
  BY DEF Nullable, Text
<1> QED
  BY <1>1, RebuiltKeeps

\* The value inspector saves.
LEMMA InspectSaveKeeps == Inv /\ InspectSave => Inv'
<1> SUFFICES ASSUME Inv, NEW l \in DOMAIN lines, NEW c \in DOMAIN lines[l].cells, l <= Len(rows),
                    NEW v \in (Texts(c) \cup {rows[l][c]}) \ {Null, Blank},
                    NEW line \in Rebuilt(l, c, v), Typed([lines EXCEPT ![l] = line])
             PROVE  Inv'
  BY DEF InspectSave
<1>1. c \in Columns
  BY LinesAre DEF Visible
<1>2. l \in DOMAIN rows
  BY PageSizeIs DEF Inv, GoodText
<1>3. rows[l] \in Row
  BY <1>2 DEF Inv, IsPage
<1>4. v \in Text /\ (c = "id" => v \in KeyText)
  BY <1>1, <1>3 DEF Row, Text, KeyText, Texts, Columns
<1> QED
  BY <1>4, RebuiltKeeps

-----------------------------------------------------------------------------
(* Steps that change the view.                                                 *)

\* A page that is drawn is good text and has no edit in it.
LEMMA DrawnKeeps ==
  ASSUME NEW page, IsPage(page), NEW hide, rows' = page, hidden' = hide, lines' = Render(page, hide)
  PROVE  IsPage(rows)' /\ GoodText(lines, Len(rows), hidden)' /\ FlagTellsUnsaved'
<1>1. GoodText(Render(page, hide), Len(page), hide)
  BY RenderIsText DEF GoodText
<1>2. Changes(page, Render(page, hide)) = <<>> /\ ~HasErrors(page, Render(page, hide))
  BY DrawnHasNothing
<1> QED
  BY <1>1, <1>2 DEF FlagTellsUnsaved, Pending

\* Queues that are left alone.
LEMMA QueuesStay ==
  ASSUME Inv, UNCHANGED <<asked, answered>>
  PROVE  AskedAll' /\ AnsweredAll'
  BY DEF Inv, AskedAll, AnsweredAll

\* One request more.
LEMMA AskedMore ==
  ASSUME Inv, NEW request, AskedOK(request), asked' = Append(asked, request)
  PROVE  AskedAll'
<1>1. PICK S : asked \in Seq(S) /\ \A q \in S : AskedOK(q)
  BY DEF Inv, AskedAll
<1> DEFINE T == S \cup {request}
<1>2. asked' \in Seq(T) /\ \A q \in T : AskedOK(q)
  BY <1>1, Queued
<1> QED
  BY <1>2 DEF AskedAll

\* Columns are hidden and shown.
LEMMA ColumnsKeep == Inv /\ (HideColumn \/ ShowColumns) => Inv'
<1> SUFFICES ASSUME Inv, HideColumn \/ ShowColumns
             PROVE  Inv'
  OBVIOUS
<1>1. /\ lines' = Render(rows, hidden')
      /\ UNCHANGED <<table, asked, answered, want, rows, confirming, undo>>
  BY DEF HideColumn, ShowColumns, Drawn, session
<1>2. IsPage(rows)' /\ GoodText(lines, Len(rows), hidden)' /\ FlagTellsUnsaved'
  BY <1>1, DrawnKeeps DEF Inv
<1>3. AskedAll' /\ AnsweredAll'
  BY <1>1, QueuesStay
<1> QED
  BY <1>1, <1>2, <1>3 DEF Inv

\* Asking for a page, and being told that there are unsaved edits.
LEMMA AskingKeeps ==
  ASSUME Inv, want' \in Want,
         asked' = asked \/ asked' = Append(asked, [kind |-> "load", want |-> want']),
         UNCHANGED <<buffer, hidden, table, sandbox, answered, confirming, undo>>
  PROVE  Inv'
<1>1. FlagTellsUnsaved' /\ IsPage(rows)' /\ GoodText(lines, Len(rows), hidden)' /\ Table(table)'
  BY DEF Inv, buffer, FlagTellsUnsaved, Pending
<1>2. AnsweredAll'
  BY DEF Inv, AnsweredAll
<1>3. AskedAll'
  <2>1. CASE asked' = asked
    BY <2>1 DEF Inv, AskedAll
  <2>2. CASE asked' = Append(asked, [kind |-> "load", want |-> want'])
    <3>1. AskedOK([kind |-> "load", want |-> want'])
      BY DEF AskedOK
    <3> QED
      BY <2>2, <3>1, AskedMore
  <2> QED
    BY <2>1, <2>2
<1> QED
  BY <1>1, <1>2, <1>3 DEF Inv

\* A reload, asked for or refused.
LEMMA ReloadsKeep ==
  ASSUME Inv, NEW w \in Want, Reloads(w)
  PROVE  Inv'
<1>1. /\ want' = w
      /\ asked' = asked \/ asked' = Append(asked, [kind |-> "load", want |-> want'])
      /\ UNCHANGED <<buffer, hidden, table, sandbox, answered, confirming, undo>>
  BY DEF Reloads, AskPage
<1> QED
  BY <1>1, AskingKeeps

\* The view is changed.
LEMMA ViewKeeps == Inv /\ (Reload \/ Sort \/ Filter \/ ClearFilter \/ Page \/ Reopen) => Inv'
<1> SUFFICES ASSUME Inv, Reload \/ Sort \/ Filter \/ ClearFilter \/ Page \/ Reopen
             PROVE  Inv'
  OBVIOUS
<1>1. want \in Want
  BY DEF Inv
<1>2. CASE Reload
  BY <1>1, <1>2, ReloadsKeep DEF Reload
<1>3. CASE Sort
  <2>1. PICK c \in Columns : Reloads([want EXCEPT !.sort = c, !.offset = 0])
    BY <1>3 DEF Sort
  <2>2. [want EXCEPT !.sort = c, !.offset = 0] \in Want
    BY <1>1 DEF Want
  <2> QED
    BY <2>1, <2>2, ReloadsKeep
<1>4. CASE Filter
  <2>1. PICK f \in BOOLEAN : Reloads([want EXCEPT !.filter = f, !.offset = 0])
    BY <1>4 DEF Filter
  <2>2. [want EXCEPT !.filter = f, !.offset = 0] \in Want
    BY <1>1 DEF Want
  <2> QED
    BY <2>1, <2>2, ReloadsKeep
<1>5. CASE ClearFilter
  <2>1. [filter |-> FALSE, sort |-> "id", offset |-> 0] \in Want
    BY DEF Want, Columns
  <2> QED
    BY <1>5, <2>1, ReloadsKeep DEF ClearFilter
<1>6. CASE Page
  <2>1. PICK o \in {0, PageSize} : Reloads([want EXCEPT !.offset = o])
    BY <1>6 DEF Page
  <2>2. [want EXCEPT !.offset = o] \in Want
    BY <1>1, <2>1, BufferAssumption DEF Want
  <2> QED
    BY <2>1, <2>2, ReloadsKeep
<1>7. CASE Reopen
  <2>1. PICK f \in BOOLEAN : want' = [want EXCEPT !.filter = f]
    BY <1>7 DEF Reopen
  <2>2. want' \in Want
    BY <1>1, <2>1 DEF Want
  <2>3. /\ asked' = Append(asked, [kind |-> "load", want |-> want'])
        /\ UNCHANGED <<buffer, hidden, table, sandbox, answered, confirming, undo>>
    BY <1>7 DEF Reopen, AskPage
  <2> QED
    BY <2>2, <2>3, AskingKeeps
<1> QED
  BY <1>2, <1>3, <1>4, <1>5, <1>6, <1>7

-----------------------------------------------------------------------------
(* :w, and the requests and their answers.                                     *)

\* The change set goes to the confirmation.
LEMMA WriteKeeps == Inv /\ Write => Inv'
<1> SUFFICES ASSUME Inv, Write
             PROVE  Inv'
  OBVIOUS
<1>1. UNCHANGED <<table, asked, answered, want, rows, hidden, lines, undo, unshown>>
  BY DEF Write, session
<1>2. lines \in Seq(Line) /\ Marked(lines, Len(rows)) /\ IsPage(rows)
  BY DEF Inv, GoodText
<1>3. MadeFrom(Pending, rows)
  BY <1>2, ChangesMade DEF Pending
<1>4. AskedAll' /\ AnsweredAll'
  BY <1>1, QueuesStay
<1>5. /\ confirming' = Nothing \/ (IsPage(confirming.rows) /\ MadeFrom(confirming.changes, confirming.rows))'
      /\ FlagTellsUnsaved'
  <2>1. CASE Pending # <<>>
    <3>1. confirming' = [changes |-> Pending, rows |-> rows] /\ modified' = modified
      BY <2>1 DEF Write
    <3> QED
      BY <1>1, <1>2, <1>3, <3>1 DEF Inv, FlagTellsUnsaved, Pending
  <2>2. CASE Pending = <<>>
    <3>1. confirming' = confirming /\ modified' = HasErrors(rows, lines)
      BY <2>2 DEF Write
    <3> QED
      BY <1>1, <2>2, <3>1 DEF Inv, FlagTellsUnsaved, Pending
  <2> QED
    BY <2>1, <2>2
<1> QED
  BY <1>1, <1>4, <1>5 DEF Inv

\* The confirmation is answered.
LEMMA ConfirmKeeps == Inv /\ (Cancel \/ Confirm) => Inv'
<1> SUFFICES ASSUME Inv, Cancel \/ Confirm
             PROVE  Inv'
  OBVIOUS
<1>1. UNCHANGED <<table, answered, want, rows, hidden, lines, modified, undo, unshown>> /\ confirming' = Nothing
  BY DEF Cancel, Confirm, session, buffer
<1>2. AskedAll'
  <2>1. CASE Cancel
    BY <2>1 DEF Cancel, session, Inv, AskedAll
  <2>2. CASE Confirm
    <3> DEFINE request == [kind |-> "apply", changes |-> confirming.changes, rows |-> confirming.rows]
    <3>1. AskedOK(request)
      BY <2>2 DEF Confirm, Inv, AskedOK
    <3>2. asked' = Append(asked, request)
      BY <2>2 DEF Confirm
    <3> QED
      BY <3>1, <3>2, AskedMore
  <2> QED
    BY <2>1, <2>2
<1> QED
  BY <1>1, <1>2 DEF Inv, AnsweredAll, FlagTellsUnsaved, Pending

\* One answer more.
LEMMA AnsweredMore ==
  ASSUME Inv, NEW reply, AnswerOK(reply), answered' = Append(answered, reply)
  PROVE  AnsweredAll'
<1>1. PICK S : answered \in Seq(S) /\ \A q \in S : AnswerOK(q)
  BY DEF Inv, AnsweredAll
<1> DEFINE T == S \cup {reply}
<1>2. answered' \in Seq(T) /\ \A q \in T : AnswerOK(q)
  BY <1>1, Queued
<1> QED
  BY <1>2 DEF AnsweredAll

\* The first request, and the others.
LEMMA HeadAsked ==
  ASSUME Inv, asked # <<>>
  PROVE  AskedOK(Head(asked)) /\ (asked' = Tail(asked) => AskedAll')
<1>1. PICK S : asked \in Seq(S) /\ \A q \in S : AskedOK(q)
  BY DEF Inv, AskedAll
<1>2. Head(asked) \in S /\ Tail(asked) \in Seq(S)
  BY <1>1, Queued
<1> QED
  BY <1>1, <1>2 DEF AskedAll

\* The first answer, and the others.
LEMMA HeadAnswered ==
  ASSUME Inv, answered # <<>>
  PROVE  AnswerOK(Head(answered)) /\ (answered' = Tail(answered) => AnsweredAll')
<1>1. PICK S : answered \in Seq(S) /\ \A q \in S : AnswerOK(q)
  BY DEF Inv, AnsweredAll
<1>2. Head(answered) \in S /\ Tail(answered) \in Seq(S)
  BY <1>1, Queued
<1> QED
  BY <1>1, <1>2 DEF AnsweredAll

\* The session serves a request.
LEMMA ServeKeeps == Inv /\ Serve => Inv'
<1> SUFFICES ASSUME Inv, Serve
             PROVE  Inv'
  OBVIOUS
<1> DEFINE request == Head(asked)
<1>1. /\ asked # <<>> /\ asked' = Tail(asked) /\ (ServeLoad \/ ServeApply)
      /\ UNCHANGED <<want, rows, hidden, lines, modified, unshown, confirming, undo>>
  BY DEF Serve, buffer
<1>2. AskedOK(request) /\ AskedAll'
  BY <1>1, HeadAsked
<1>3. AnswerOK(Failed(request))
  BY <1>2 DEF AskedOK, AnswerOK, Failed
<1>4. Table(table)' /\ AnsweredAll'
  <2>1. CASE ServeLoad
    <3>1. request.kind = "load" /\ table' = table /\ request.want \in Want
      BY <1>2, <2>1 DEF ServeLoad, AskedOK
    <3>2. CASE answered' = Append(answered, Failed(request))
      BY <1>3, <3>1, <3>2, AnsweredMore DEF Inv
    <3>3. ASSUME NEW page \in Pages(table, request.want, PageSize),
                 answered' = Append(answered, [kind |-> "load", ok |-> TRUE, rows |-> page])
          PROVE  Table(table)' /\ AnsweredAll'
      <4>1. IsPage(page)
        BY <3>1, PagesArePages DEF Inv
      <4>2. AnswerOK([kind |-> "load", ok |-> TRUE, rows |-> page])
        BY <4>1 DEF AnswerOK
      <4> QED
        BY <3>1, <3>3, <4>2, AnsweredMore DEF Inv
    <3> QED
      BY <2>1, <3>2, <3>3 DEF ServeLoad, Answer
  <2>2. CASE ServeApply
    <3> DEFINE result == ApplyChanges(table, request.changes)
               after  == IF sandbox THEN table ELSE result.table
               reply  == [kind |-> "apply", ok |-> TRUE, changes |-> request.changes,
                          before |-> table, after |-> after]
    <3>1. IsPage(request.rows) /\ MadeFrom(request.changes, request.rows)
      BY <1>2, <2>2 DEF ServeApply, AskedOK
    <3>2. \/ result.ok /\ table' = after /\ answered' = Append(answered, reply)
          \/ answered' = Append(answered, Failed(request)) /\ table' = table
      BY <2>2 DEF ServeApply, Answer
    <3>3. CASE answered' = Append(answered, Failed(request)) /\ table' = table
      BY <1>3, <3>3, AnsweredMore DEF Inv
    <3>4. CASE result.ok /\ table' = after /\ answered' = Append(answered, reply)
      <4>1. Table(result.table) /\ Table(table)
        BY <3>1, ApplyKeepsTable DEF Inv, MadeFrom
      <4>2. after = table \/ after = result.table
        OBVIOUS
      <4>3. Applied(request.changes, table, after)
        BY <3>1, <3>4, <4>1, <4>2 DEF Applied
      <4>4. AnswerOK(reply)
        BY <4>3 DEF AnswerOK
      <4> HIDE DEF reply
      <4>5. AnsweredAll'
        BY <3>4, <4>4, AnsweredMore
      <4> QED
        BY <3>4, <4>1, <4>2, <4>5
    <3> QED
      BY <3>2, <3>3, <3>4
  <2> QED
    BY <1>1, <2>1, <2>2
<1> QED
  BY <1>1, <1>2, <1>4 DEF Inv, FlagTellsUnsaved, Pending

\* Another client writes.
LEMMA OtherWritesKeeps == Inv /\ OtherWrites => Inv'
<1> SUFFICES ASSUME Inv, OtherWrites
             PROVE  Inv'
  OBVIOUS
<1>1. UNCHANGED <<want, rows, hidden, lines, modified, unshown, asked, answered, confirming, undo>>
  BY DEF OtherWrites, buffer
<1>2. PICK change \in Others : table' = Run(table, change).table
  BY DEF OtherWrites
<1>3. change \in Change
  BY BufferAssumption, RowTypes DEF Change, Update, Insert, Delete
<1>4. Table(table)'
  BY <1>2, <1>3, RunKeepsTable DEF Inv
<1>5. AskedAll' /\ AnsweredAll'
  BY <1>1, QueuesStay
<1> QED
  BY <1>1, <1>4, <1>5 DEF Inv, FlagTellsUnsaved, Pending

\* The editor handles a reply.
LEMMA HandleKeeps == Inv /\ Handle => Inv'
<1> SUFFICES ASSUME Inv, Handle
             PROVE  Inv'
  OBVIOUS
<1> DEFINE reply == Head(answered)
<1>1. /\ answered # <<>> /\ answered' = Tail(answered) /\ (LoadBack \/ AppliedBack)
      /\ UNCHANGED <<table, want, hidden, confirming>>
  BY DEF Handle
<1>2. AnswerOK(reply) /\ AnsweredAll'
  BY <1>1, HeadAnswered
<1>3. CASE LoadBack
  <2>1. AskedAll' /\ undo' = undo
    BY <1>3 DEF LoadBack, Inv, AskedAll
  <2>2. IsPage(rows)' /\ GoodText(lines, Len(rows), hidden)' /\ FlagTellsUnsaved'
    <3>1. CASE reply.ok
      <4>1. IsPage(reply.rows) /\ rows' = reply.rows /\ lines' = Render(reply.rows, hidden)
        BY <1>2, <1>3, <3>1 DEF LoadBack, AnswerOK, Drawn
      <4> QED
        BY <1>1, <4>1, DrawnKeeps
    <3>2. CASE ~reply.ok
      <4>1. UNCHANGED <<rows, lines, modified, unshown>>
        BY <1>3, <3>2 DEF LoadBack, buffer
      <4> QED
        BY <1>1, <4>1 DEF Inv, FlagTellsUnsaved, Pending
    <3> QED
      BY <3>1, <3>2
  <2> QED
    BY <1>1, <1>2, <2>1, <2>2 DEF Inv
<1>4. CASE AppliedBack
  <2>1. UNCHANGED <<rows, lines>> /\ reply.kind = "apply"
    BY <1>4 DEF AppliedBack
  <2>2. CASE reply.ok
    <3>1. /\ undo' = [changes |-> reply.changes, before |-> reply.before, after |-> reply.after]
          /\ unshown' = TRUE
          /\ asked' = Append(asked, [kind |-> "load", want |-> want])
      BY <1>4, <2>2 DEF AppliedBack, AskPage
    <3>2. Applied(reply.changes, reply.before, reply.after)
      BY <1>2, <2>1, <2>2 DEF AnswerOK
    <3>3. AskedAll'
      <4>1. AskedOK([kind |-> "load", want |-> want])
        BY DEF Inv, AskedOK
      <4> QED
        BY <3>1, <4>1, AskedMore
    <3>4. FlagTellsUnsaved'
      BY <3>1 DEF FlagTellsUnsaved
    <3> QED
      BY <1>1, <1>2, <2>1, <3>1, <3>2, <3>3, <3>4 DEF Inv
  <2>3. CASE ~reply.ok
    <3>1. UNCHANGED <<modified, unshown, undo, asked>>
      BY <1>4, <2>3 DEF AppliedBack
    <3>2. AskedAll'
      BY <3>1 DEF Inv, AskedAll
    <3> QED
      BY <1>1, <1>2, <2>1, <3>1, <3>2 DEF Inv, FlagTellsUnsaved, Pending
  <2> QED
    BY <2>2, <2>3
<1> QED
  BY <1>1, <1>3, <1>4

\* Nothing happens.
LEMMA StutterKeeps == Inv /\ UNCHANGED vars => Inv'
<1> SUFFICES ASSUME Inv, UNCHANGED vars
             PROVE  Inv'
  OBVIOUS
<1>1. UNCHANGED <<table, want, rows, hidden, lines, modified, unshown, asked, answered, confirming, undo>>
  BY DEF vars
<1>2. AskedAll' /\ AnsweredAll'
  BY <1>1, QueuesStay
<1> QED
  BY <1>1, <1>2 DEF Inv, FlagTellsUnsaved, Pending

\* Whatever is typed, asked, answered, late or failed, in whatever order: the
\* table's keys stay unique, the lines stay marked with rows of the page, every
\* batch under way was made from the page it is sent with, and what the undo log
\* holds is a batch that ran.
THEOREM BufferInvariant == Spec => []Inv
<1>1. Inv /\ [Next]_vars => Inv'
  <2> SUFFICES ASSUME Inv, [Next]_vars
               PROVE  Inv'
    OBVIOUS
  <2>1. CASE EditCell \/ DeleteLine \/ OpenLine \/ MoveLine
    BY <2>1, EditCellKeeps, DeleteLineKeeps, OpenLineKeeps, MoveLineKeeps
  <2>2. CASE PasteRow \/ SetNull \/ InspectSave
    BY <2>2, PasteRowKeeps, SetNullKeeps, InspectSaveKeeps
  <2>3. CASE HideColumn \/ ShowColumns
    BY <2>3, ColumnsKeep
  <2>4. CASE Reload \/ Sort \/ Filter \/ ClearFilter \/ Page \/ Reopen
    BY <2>4, ViewKeeps
  <2>5. CASE Write \/ Cancel \/ Confirm
    BY <2>5, WriteKeeps, ConfirmKeeps
  <2>6. CASE Serve \/ OtherWrites \/ Handle
    BY <2>6, ServeKeeps, OtherWritesKeeps, HandleKeeps
  <2>7. CASE UNCHANGED vars
    BY <2>7, StutterKeeps
  <2> QED
    BY <2>1, <2>2, <2>3, <2>4, <2>5, <2>6, <2>7 DEF Next
<1> QED
  BY <1>1, InitInv, PTL DEF Spec

\* No two lines ever carry the mark of one row, no line the mark of a row that is
\* not there, and no two rows of the table one key (the extmarks of ui/data.lua).
THEOREM BufferTypes == Spec => []TypeOK
<1>1. Inv => TypeOK
  <2> SUFFICES ASSUME Inv
               PROVE  TypeOK
    OBVIOUS
  <2>1. UniqueKeys(table) /\ Marked(lines, Len(rows)) /\ Drawing(lines, hidden)
    BY DEF Inv, Table, GoodText
  <2> QED
    BY <2>1 DEF TypeOK, Marked, Drawing
<1> QED
  BY <1>1, BufferInvariant, PTL

\* The buffer's flag, which reload and :q trust, is never off while :w would write
\* something (ui/data.lua sets and clears it in many places).
THEOREM FlagIsTrue == Spec => []FlagTellsUnsaved
<1>1. Inv => FlagTellsUnsaved
  BY DEF Inv
<1> QED
  BY <1>1, BufferInvariant, PTL

-----------------------------------------------------------------------------
(* No update is lost.                                                          *)

\* A change that names another row leaves a row alone.
LEMMA RowUntouched ==
  ASSUME NEW t, NEW change \in Change, NEW r \in t,
         change.op # "insert" => \E k : change.pk = [id |-> k] /\ k # r.id
  PROVE  r \in Run(t, change).table
<1>1. ASSUME change.op # "insert" PROVE ~Matches(r, change.pk, change.expect)
  <2>1. PICK k : change.pk = [id |-> k] /\ k # r.id
    BY <1>1
  <2>2. "id" \in DOMAIN change.pk /\ change.pk["id"] # r["id"]
    BY <2>1
  <2> QED
    BY <2>2 DEF Matches
<1>2. CASE change.op = "update"
  BY <1>1, <1>2 DEF Run, RunUpdate, Refused
<1>3. CASE change.op = "insert"
  BY <1>3 DEF Run, RunInsert, Refused
<1>4. CASE change.op = "delete"
  BY <1>1, <1>4 DEF Run, RunDelete, Refused
<1> QED
  BY <1>2, <1>3, <1>4 DEF Change, Update, Insert, Delete

\* The rows that no change of a batch up to the n-th names are in the table still.
LEMMA BatchUntouched ==
  ASSUME NEW t, NEW changes \in Seq(Change), NEW n \in 0 .. Len(changes), NEW r \in t,
         \A m \in 1 .. n : changes[m].op # "insert" => \E k : changes[m].pk = [id |-> k] /\ k # r.id
  PROVE  r \in Ran(t, changes)[n].table
<1> DEFINE ran == Ran(t, changes)
<1>1. Len(changes) \in Nat /\ n \in Nat /\ \A m \in 1 .. Len(changes) : changes[m] \in Change
  OBVIOUS
<1>2. /\ ran[0] = [ok |-> TRUE, table |-> t]
      /\ \A m \in 0 .. Len(changes) - 1 : ran[m + 1] = ApplyNext(ran[m], changes[m + 1])
  <2>1. ran[0] = [ok |-> TRUE, table |-> t]
    BY <1>1, RanStarts
  <2> QED
    BY <1>1, <2>1, RanSteps
<1> HIDE DEF ran
<1> DEFINE S == {m \in Nat : r \in ran[m].table}
<1>3. 0 \in S
  BY <1>2
<1>4. ASSUME NEW m \in 0 .. n - 1, m \in S
      PROVE  m + 1 \in S
  <2>1. m + 1 \in 1 .. n /\ m + 1 \in 1 .. Len(changes) /\ m \in 0 .. Len(changes) - 1 /\ m + 1 \in Nat
    BY <1>1
  <2>2. changes[m + 1] \in Change /\ ran[m + 1] = ApplyNext(ran[m], changes[m + 1])
    BY <1>1, <1>2, <2>1
  <2>3. r \in Run(ran[m].table, changes[m + 1]).table
    BY <1>4, <2>1, <2>2, RowUntouched
  <2> QED
    BY <1>4, <2>1, <2>2, <2>3 DEF ApplyNext
<1>5. 0 .. n \subseteq S
  <2> HIDE DEF S
  <2> QED
    BY <1>1, <1>3, <1>4, Induction, Zenon
<1> QED
  BY <1>1, <1>5 DEF ran

\* A batch that was taken: each change ran on what the ones before it left.
LEMMA AppliedIsRan ==
  ASSUME NEW t, NEW changes \in Seq(Change), ApplyChanges(t, changes).ok
  PROVE  /\ ApplyChanges(t, changes).table = Ran(t, changes)[Len(changes)].table
         /\ \A n \in 1 .. Len(changes) :
              LET run == Run(Ran(t, changes)[n - 1].table, changes[n])
              IN  run.ok /\ run.count > 0 /\ run.table = Ran(t, changes)[n].table
<1> DEFINE ran == Ran(t, changes)
<1>1. Len(changes) \in Nat
  OBVIOUS
<1>2. ran[Len(changes)].ok /\ ApplyChanges(t, changes).table = ran[Len(changes)].table
  BY DEF ApplyChanges
<1>3. \A n \in 0 .. Len(changes) - 1 : ran[n + 1] = ApplyNext(ran[n], changes[n + 1])
  BY <1>1, RanSteps
<1>4. \A n \in 0 .. Len(changes) : ran[n].ok
  BY <1>1, <1>2, RanOnce
<1> HIDE DEF ran
<1>5. ASSUME NEW n \in 1 .. Len(changes)
      PROVE  LET run == Run(ran[n - 1].table, changes[n])
             IN  run.ok /\ run.count > 0 /\ run.table = ran[n].table
  <2>1. n - 1 \in 0 .. Len(changes) - 1 /\ (n - 1) + 1 = n /\ n \in 0 .. Len(changes)
    BY <1>1
  <2>2. ran[n] = ApplyNext(ran[n - 1], changes[n]) /\ ran[n].ok
    BY <1>3, <1>4, <2>1
  <2> QED
    BY <2>2 DEF ApplyNext
<1> QED
  BY <1>2, <1>5 DEF ran

\* The rows a batch updates are those of its page, in the cells it sets.
LEMMA UpdatesWhatWasSeen ==
  ASSUME NEW t, Table(t), NEW page, IsPage(page), NEW changes, MadeFrom(changes, page),
         ApplyChanges(t, changes).ok,
         NEW n \in DOMAIN changes, changes[n].op = "update",
         NEW r \in t, NEW i \in DOMAIN page,
         r.id = changes[n].pk.id, page[i].id = changes[n].pk.id
  PROVE  \A c \in DOMAIN changes[n].set : r[c] = page[i][c]
<1> DEFINE change == changes[n]
           before == Ran(t, changes)[n - 1].table
           hit    == {h \in before : Matches(h, change.pk, change.expect)}
<1>1. changes \in Seq(Change) /\ Len(changes) \in Nat /\ n \in 1 .. Len(changes)
      /\ n - 1 \in 0 .. Len(changes) /\ change \in Change /\ DOMAIN changes = 1 .. Len(changes)
  BY DEF MadeFrom
<1>2. r \in before
  <2>1. ASSUME NEW m \in 1 .. n - 1, changes[m].op # "insert"
        PROVE  \E k : changes[m].pk = [id |-> k] /\ k # r.id
    <3>1. m \in DOMAIN changes /\ m # n
      BY <1>1
    <3>2. PICK j \in DOMAIN page : changes[m].pk = [id |-> page[j].id]
      BY <2>1, <3>1 DEF MadeFrom, SeenOn
    <3>3. PICK k \in DOMAIN page : changes[n].pk = [id |-> page[k].id]
      BY <1>1 DEF MadeFrom, SeenOn
    <3>4. changes[m].pk # changes[n].pk
      BY <2>1, <3>1 DEF MadeFrom
    <3> QED
      BY <3>2, <3>3, <3>4
  <2> QED
    BY <1>1, <2>1, BatchUntouched
<1>3. Run(before, change).ok /\ Run(before, change).count > 0 /\ Run(before, change) = RunUpdate(before, change)
  BY <1>1, AppliedIsRan DEF Run
<1>4. Table(before)
  BY <1>1, RanKeepsTable
<1> HIDE DEF before
<1>5. hit # {}
  <2>1. Run(before, change).count = Cardinality(hit)
    BY <1>3 DEF RunUpdate, Refused
  <2>2. Cardinality({}) = 0
    BY FS_EmptySet
  <2> QED
    BY <1>3, <2>1, <2>2
<1>6. PICK j \in DOMAIN page :
        change.pk = [id |-> page[j].id] /\ change.expect = [c \in DOMAIN change.set |-> page[j][c]]
  BY <1>1 DEF MadeFrom, SeenOn
<1>7. j = i
  BY <1>6 DEF IsPage
<1>8. PICK h \in before : Matches(h, change.pk, change.expect)
  BY <1>5
<1>9. h = r
  <2>1. h["id"] = change.pk["id"]
    BY <1>6, <1>8 DEF Matches
  <2> QED
    BY <1>2, <1>4, <2>1 DEF Table, UniqueKeys
<1> QED
  <2> SUFFICES ASSUME NEW c \in DOMAIN change.set
               PROVE  r[c] = page[i][c]
    OBVIOUS
  <2>1. CASE c = "id"
    BY <2>1
  <2>2. CASE c # "id"
    <3>1. c \in DOMAIN change.expect \ DOMAIN change.pk /\ change.expect[c] = page[i][c]
      BY <1>6, <1>7, <2>2
    <3> QED
      BY <1>8, <1>9, <3>1 DEF Matches
  <2> QED
    BY <2>1, <2>2

\* A batch that is taken overwrites nothing that the buffer did not show when :w
\* was typed (the expected values in the where clause of render_change).
THEOREM BatchKeepsOthersEdits == Spec => NoLostUpdate
<1>1. Inv /\ [Next]_vars =>
        (Serve /\ Head(asked).kind = "apply" /\ answered'[Len(answered')].ok => AppliedOnWhatWasSeen)
  <2> SUFFICES ASSUME Inv, Serve, Head(asked).kind = "apply", answered'[Len(answered')].ok
               PROVE  AppliedOnWhatWasSeen
    OBVIOUS
  <2> DEFINE request == Head(asked)
  <2>1. asked # <<>> /\ ServeApply
    BY DEF Serve, ServeLoad
  <2>2. IsPage(request.rows) /\ MadeFrom(request.changes, request.rows)
    BY <2>1, HeadAsked DEF AskedOK
  <2>3. ApplyChanges(table, request.changes).ok
    <3>1. PICK S : answered \in Seq(S) /\ \A q \in S : AnswerOK(q)
      BY DEF Inv, AnsweredAll
    <3>2. \A e : Append(answered, e)[Len(Append(answered, e))] = e
      BY <3>1
    <3>3. ~Failed(request).ok
      BY DEF Failed
    <3> QED
      BY <2>1, <3>2, <3>3 DEF ServeApply, Answer
  <2> HIDE DEF request
  <2>4. Table(table)
    BY DEF Inv
  <2> QED
    BY <2>2, <2>3, <2>4, UpdatesWhatWasSeen DEF AppliedOnWhatWasSeen, request
<1> QED
  BY <1>1, BufferInvariant, PTL DEF Spec, NoLostUpdate

-----------------------------------------------------------------------------
(* One statement on one row.                                                   *)

\* A table with one row for another, one more, one less.
Swap(t, p, q) == (t \ {p}) \cup {q}
With(t, q)    == t \cup {q}
Without(t, p) == t \ {p}

\* One row for another leaves as many.
LEMMA Swapped ==
  ASSUME NEW t, IsFiniteSet(t), NEW p \in t, NEW q, q \notin t \ {p}
  PROVE  Cardinality((t \ {p}) \cup {q}) = Cardinality(t)
<1>1. Cardinality(t) \in Nat
  BY FS_CardinalityType
<1>2. IsFiniteSet(t \ {p}) /\ Cardinality(t \ {p}) = Cardinality(t) - 1
  BY FS_RemoveElement
<1>3. Cardinality((t \ {p}) \cup {q}) = Cardinality(t \ {p}) + 1
  BY <1>2, FS_AddElement
<1> QED
  BY <1>1, <1>2, <1>3

\* One row is one.
LEMMA OneCard ==
  ASSUME NEW p
  PROVE  Cardinality({p}) = 1
  BY FS_Singleton

\* An update of a row that is there, to a key that is free or its own.
LEMMA UpdateOne ==
  ASSUME NEW t, Table(t), NEW p \in t, NEW change,
         change.op = "update", change.pk = [id |-> p.id],
         \A c \in DOMAIN change.expect \ {"id"} : p[c] = change.expect[c],
         change.set # None, Coerced(change.set), Coerced(change.pk), Coerced(change.expect),
         \A r \in t \ {p} : r.id # Overlay(p, change.set).id
  PROVE  Run(t, change).ok /\ Run(t, change).count = 1 /\ Run(t, change).table = Swap(t, p, Overlay(p, change.set))
<1> DEFINE q       == Overlay(p, change.set)
           hit     == {r \in t : Matches(r, change.pk, change.expect)}
           updated == (t \ hit) \cup {Overlay(r, change.set) : r \in hit}
<1>1. hit = {p}
  <2>1. \A r \in t : Matches(r, change.pk, change.expect) => r = p
    <3> SUFFICES ASSUME NEW r \in t, Matches(r, change.pk, change.expect)
                 PROVE  r = p
      OBVIOUS
    <3>1. "id" \in DOMAIN change.pk /\ change.pk["id"] = p.id
      OBVIOUS
    <3>2. r["id"] = change.pk["id"]
      BY <3>1 DEF Matches
    <3> QED
      BY <3>1, <3>2 DEF Table, UniqueKeys
  <2>2. Matches(p, change.pk, change.expect)
    BY DEF Matches
  <2> QED
    BY <2>1, <2>2
<1>2. updated = (t \ {p}) \cup {q}
  <2> HIDE DEF hit
  <2> QED
    BY <1>1
<1>3. UniqueKeys(updated)
  <2> HIDE DEF hit, updated, q
  <2> QED
    BY <1>2 DEF Table, UniqueKeys, q
<1>4. Cardinality(updated) = Cardinality(t) /\ Cardinality(hit) = 1
  <2>1. q \notin t \ {p}
    OBVIOUS
  <2> HIDE DEF hit, updated, q
  <2> QED
    BY <1>1, <1>2, <2>1, Swapped, OneCard DEF Table
<1>5. change.pk # None
  <2>1. DOMAIN None = {} /\ DOMAIN change.pk = {"id"}
    BY DEF None
  <2> QED
    BY <2>1
<1>6. Run(t, change) = RunUpdate(t, change)
  BY DEF Run
<1>7. RunUpdate(t, change) =
        IF \/ change.pk = None \/ change.set = None
           \/ ~Coerced(change.set) \/ ~Coerced(change.pk) \/ ~Coerced(change.expect)
           \/ ~UniqueKeys(updated) \/ Cardinality(updated) # Cardinality(t)
        THEN Refused(t)
        ELSE [ok |-> TRUE, count |-> Cardinality(hit), table |-> updated]
  BY DEF RunUpdate
<1> HIDE DEF hit, updated, q
<1>8. RunUpdate(t, change) = [ok |-> TRUE, count |-> Cardinality(hit), table |-> updated]
  BY <1>3, <1>4, <1>5, <1>7
<1> QED
  BY <1>2, <1>4, <1>6, <1>8 DEF q, Swap

\* No row is hit, or one that is set to what it was.
LEMMA UpdateIdle ==
  ASSUME NEW t, NEW change, change.op = "update",
         \A r \in t : Matches(r, change.pk, change.expect) => Overlay(r, change.set) = r
  PROVE  Run(t, change).table = t
<1> DEFINE hit     == {r \in t : Matches(r, change.pk, change.expect)}
           updated == (t \ hit) \cup {Overlay(r, change.set) : r \in hit}
<1>1. updated = t
  OBVIOUS
<1>2. Run(t, change) = Refused(t) \/ Run(t, change).table = updated
  BY DEF Run, RunUpdate
<1> QED
  BY <1>1, <1>2 DEF Refused

Inserted(t, change) == Overlay([id |-> Generated(t), a |-> Default.a, b |-> Default.b], change.values)

\* An insert with a key that is free.
LEMMA InsertOne ==
  ASSUME NEW t, Table(t), NEW change, change.op = "insert",
         change.values # None, Coerced(change.values),
         \A r \in t : r.id # Inserted(t, change).id
  PROVE  Run(t, change).ok /\ Run(t, change).count = 1 /\ Run(t, change).table = With(t, Inserted(t, change))
<1> DEFINE row == Inserted(t, change)
<1>1. row \notin t /\ UniqueKeys(t \cup {row})
  BY DEF Table, UniqueKeys
<1> QED
  BY <1>1 DEF Run, RunInsert, Inserted, With

\* A delete of a row that is there.
LEMMA DeleteOne ==
  ASSUME NEW t, Table(t), NEW p \in t, NEW change, change.op = "delete", change.expect = None,
         "id" \in DOMAIN change.pk, change.pk.id = p.id,
         \A c \in DOMAIN change.pk : p[c] = change.pk[c], Coerced(change.pk)
  PROVE  Run(t, change).ok /\ Run(t, change).count = 1 /\ Run(t, change).table = Without(t, p)
<1> DEFINE hit == {r \in t : Matches(r, change.pk, change.expect)}
<1>1. DOMAIN None = {}
  BY DEF None
<1>2. hit = {p}
  <2>1. \A r \in t : Matches(r, change.pk, change.expect) => r = p
    <3> SUFFICES ASSUME NEW r \in t, Matches(r, change.pk, change.expect)
                 PROVE  r = p
      OBVIOUS
    <3>1. r["id"] = change.pk["id"]
      BY DEF Matches
    <3> QED
      BY <3>1 DEF Table, UniqueKeys
  <2>2. Matches(p, change.pk, change.expect)
    BY <1>1 DEF Matches
  <2> QED
    BY <2>1, <2>2
<1>3. change.pk # None /\ Coerced(change.expect)
  BY <1>1 DEF Coerced
<1>4. Cardinality(hit) = 1
  BY <1>2, OneCard
<1>5. Run(t, change) = [ok |-> TRUE, count |-> Cardinality(hit), table |-> t \ hit]
  BY <1>3 DEF Run, RunDelete
<1> HIDE DEF hit
<1> QED
  BY <1>2, <1>4, <1>5 DEF Without

\* No row has the key.
LEMMA DeleteIdle ==
  ASSUME NEW t, NEW change, change.op = "delete",
         "id" \in DOMAIN change.pk, \A r \in t : r.id # change.pk.id
  PROVE  Run(t, change).table = t
<1> DEFINE hit == {r \in t : Matches(r, change.pk, change.expect)}
<1>1. hit = {}
  BY DEF Matches
<1>2. Run(t, change) = Refused(t) \/ Run(t, change).table = t \ hit
  BY DEF Run, RunDelete
<1> HIDE DEF hit
<1>3. t \ hit = t
  BY <1>1
<1> QED
  BY <1>2, <1>3 DEF Refused

-----------------------------------------------------------------------------
(* A batch that deletes nothing, row by row.                                   *)

\* The row that an update of the batch found, and the row that a change left.
Was(before, change) == CHOOSE r \in before : r.id = change.pk.id

Became(before, change) ==
  IF change.op = "update" THEN Overlay(Was(before, change), change.set) ELSE Inserted(before, change)

\* The table when the changes numbered I have been made, and no others.
Gone(before, changes, I) == {Was(before, changes[i]) : i \in {j \in I : changes[j].op = "update"}}
Come(before, changes, I) == {Became(before, changes[i]) : i \in I}
Mixed(before, changes, I) == (before \ Gone(before, changes, I)) \cup Come(before, changes, I)

\* An update trades a row that is still there for what becomes of it.
LEMMA MixedUpdate ==
  ASSUME NEW before, NEW changes, NEW I, NEW i, NEW J, J = I \cup {i}, changes[i].op = "update",
         Was(before, changes[i]) \notin Come(before, changes, I)
  PROVE  Mixed(before, changes, J) =
           Swap(Mixed(before, changes, I), Was(before, changes[i]), Became(before, changes[i]))
<1>1. Gone(before, changes, J) = Gone(before, changes, I) \cup {Was(before, changes[i])}
  BY DEF Gone
<1>2. Come(before, changes, J) = Come(before, changes, I) \cup {Became(before, changes[i])}
  BY DEF Come
<1> QED
  BY <1>1, <1>2 DEF Mixed, Swap

\* An insert adds a row.
LEMMA MixedInsert ==
  ASSUME NEW before, NEW changes, NEW I, NEW i, NEW J, J = I \cup {i}, changes[i].op # "update"
  PROVE  Mixed(before, changes, J) = With(Mixed(before, changes, I), Became(before, changes[i]))
<1>1. Gone(before, changes, J) = Gone(before, changes, I)
  BY DEF Gone
<1>2. Come(before, changes, J) = Come(before, changes, I) \cup {Became(before, changes[i])}
  BY DEF Come
<1> QED
  BY <1>1, <1>2 DEF Mixed, With

\* Undoing an update trades them back.
LEMMA UpdateMixedBack ==
  ASSUME NEW before, NEW changes, NEW I, NEW i, NEW J, J = I \cup {i}, changes[i].op = "update",
         Was(before, changes[i]) \in before \ Gone(before, changes, I),
         Became(before, changes[i]) \notin Come(before, changes, I),
         Became(before, changes[i]) \notin before \ Gone(before, changes, J)
  PROVE  Mixed(before, changes, I) =
           Swap(Mixed(before, changes, J), Became(before, changes[i]), Was(before, changes[i]))
<1>1. Come(before, changes, J) = Come(before, changes, I) \cup {Became(before, changes[i])}
  BY DEF Come
<1>2. Gone(before, changes, J) = Gone(before, changes, I) \cup {Was(before, changes[i])}
  BY DEF Gone
<1> QED
  BY <1>1, <1>2 DEF Mixed, Swap

\* Undoing an insert takes the row away.
LEMMA InsertMixedBack ==
  ASSUME NEW before, NEW changes, NEW I, NEW i, NEW J, J = I \cup {i}, changes[i].op # "update",
         Became(before, changes[i]) \notin Come(before, changes, I),
         Became(before, changes[i]) \notin before
  PROVE  Mixed(before, changes, I) = Without(Mixed(before, changes, J), Became(before, changes[i]))
<1>1. Come(before, changes, J) = Come(before, changes, I) \cup {Became(before, changes[i])}
  BY DEF Come
<1>2. Gone(before, changes, J) = Gone(before, changes, I)
  BY DEF Gone
<1> QED
  BY <1>1, <1>2 DEF Mixed, Without

\* What an overlay has in each column.
LEMMA OverlayIs ==
  ASSUME NEW f, NEW g, NEW c \in DOMAIN f \cup DOMAIN g
  PROVE  Overlay(f, g)[c] = IF c \in DOMAIN g THEN g[c] ELSE f[c]
  BY DEF Overlay

\* A batch whose inverses are known.
Undoable(before, changes) ==
  \A n \in DOMAIN changes :
    /\ changes[n].op # "delete"
    /\ changes[n].op = "insert" => NewKeys(changes[n]) # {}
    /\ \A r \in before : r.id \notin NewKeys(changes[n])
    /\ Blank \notin NewKeys(changes[n])

\* A row that is inserted with its key has it, and all it is given.
LEMMA InsertedKey ==
  ASSUME NEW t, NEW change \in Change, change.op = "insert", NewKeys(change) # {}
  PROVE  /\ "id" \in DOMAIN change.values /\ NewKeys(change) = {change.values["id"]}
         /\ Inserted(t, change).id = change.values["id"]
         /\ \A c \in DOMAIN change.values : Inserted(t, change)[c] = change.values[c]
         /\ \A u : Inserted(t, change) = Inserted(u, change)
<1>1. "id" \in DOMAIN change.values /\ NewKeys(change) = {change.values["id"]}
  BY DEF NewKeys
<1>2. \A c \in DOMAIN change.values : Inserted(t, change)[c] = change.values[c]
  BY OverlayIs DEF Inserted
<1>3. ASSUME NEW u
      PROVE  Inserted(t, change) = Inserted(u, change)
  BY <1>1 DEF Inserted, Overlay
<1> QED
  BY <1>1, <1>2, <1>3

\* The key of the row a change leaves: a new one, or the one the row had.
LEMMA BecameKey ==
  ASSUME NEW before, Table(before), NEW change \in Change, change.op # "delete",
         change.op = "insert" => NewKeys(change) # {},
         change.op = "update" => Was(before, change) \in before /\ Was(before, change).id = change.pk.id
  PROVE  \/ Became(before, change).id \in NewKeys(change)
         \/ change.op = "update" /\ "id" \notin DOMAIN change.set /\ Became(before, change).id = change.pk.id
<1>1. CASE change.op = "insert"
  BY <1>1, InsertedKey DEF Became
<1>2. CASE change.op = "update"
  <2>1. Was(before, change) \in [Columns -> Text] /\ "id" \in Columns
    BY <1>2 DEF Table, Row, Columns
  <2>2. Became(before, change) = Overlay(Was(before, change), change.set)
    BY <1>2 DEF Became
  <2>3. Became(before, change)["id"] = IF "id" \in DOMAIN change.set THEN change.set["id"] ELSE change.pk.id
    BY <1>2, <2>1, <2>2, OverlayIs
  <2>4. "id" \in DOMAIN change.set => change.set["id"] \in NewKeys(change)
    BY <1>2 DEF NewKeys
  <2> QED
    BY <1>2, <2>3, <2>4
<1> QED
  BY <1>1, <1>2 DEF Change, Update, Insert, Delete

Told(before, changes, n) ==
  /\ \A i \in 1 .. n : changes[i].op = "update" =>
       Was(before, changes[i]) \in before /\ Was(before, changes[i]).id = changes[i].pk.id
  /\ \A i, j \in 1 .. n : Became(before, changes[i]).id = Became(before, changes[j]).id => i = j

\* What a batch is about to update, no earlier change of it has left.
LEMMA NotYet ==
  ASSUME NEW before, Table(before), NEW page, NEW changes, MadeFrom(changes, page),
         Undoable(before, changes), NEW n \in DOMAIN changes, changes[n].op = "update",
         Told(before, changes, n - 1), NEW j \in 1 .. n - 1
  PROVE  Became(before, changes[j]).id # changes[n].pk.id
<1>1. changes \in Seq(Change) /\ n \in 1 .. Len(changes) /\ j \in DOMAIN changes /\ j < n
      /\ changes[j] \in Change /\ j # n
  BY DEF MadeFrom
<1>2. changes[n].pk.id \notin NewKeys(changes[j])
  BY <1>1 DEF MadeFrom, Undoable
<1>3. ASSUME changes[j].op = "update", changes[j].pk.id = changes[n].pk.id
      PROVE  FALSE
  <2>1. SeenOn(changes[j], page) /\ SeenOn(changes[n], page)
    BY <1>1, <1>3 DEF MadeFrom
  <2>2. changes[j].pk = changes[n].pk
    BY <1>3, <2>1 DEF SeenOn
  <2> QED
    BY <1>1, <1>3, <2>2 DEF MadeFrom
<1>4. \/ Became(before, changes[j]).id \in NewKeys(changes[j])
      \/ changes[j].op = "update" /\ Became(before, changes[j]).id = changes[j].pk.id
  BY <1>1, BecameKey DEF Undoable, Told
<1> QED
  BY <1>2, <1>3, <1>4

\* An update that was taken found one row, and put another in its place.
LEMMA UpdateTaken ==
  ASSUME NEW t, Table(t), NEW change \in Change, change.op = "update",
         NEW k, change.pk = [id |-> k], Run(t, change).ok, Run(t, change).count > 0
  PROVE  \E h \in t :
           /\ h.id = k
           /\ Run(t, change).table = (t \ {h}) \cup {Overlay(h, change.set)}
           /\ \A r \in t \ {h} : r.id # Overlay(h, change.set).id
<1> DEFINE hit     == {r \in t : Matches(r, change.pk, change.expect)}
           updated == (t \ hit) \cup {Overlay(r, change.set) : r \in hit}
<1>1. Run(t, change) = RunUpdate(t, change)
  BY DEF Run
<1>2. /\ Run(t, change).count = Cardinality(hit) /\ Run(t, change).table = updated
      /\ UniqueKeys(updated) /\ Cardinality(updated) = Cardinality(t)
  <2> DEFINE refused == \/ change.pk = None \/ change.set = None
                        \/ ~Coerced(change.set) \/ ~Coerced(change.pk) \/ ~Coerced(change.expect)
                        \/ ~UniqueKeys(updated) \/ Cardinality(updated) # Cardinality(t)
  <2>1. Run(t, change) = IF refused THEN Refused(t)
                         ELSE [ok |-> TRUE, count |-> Cardinality(hit), table |-> updated]
    BY <1>1 DEF RunUpdate
  <2>2. refused \/ (UniqueKeys(updated) /\ Cardinality(updated) = Cardinality(t))
    OBVIOUS
  <2> HIDE DEF refused, hit, updated
  <2>3. ~refused
    BY <2>1 DEF Refused
  <2> QED
    BY <2>1, <2>2, <2>3
<1>3. hit # {}
  <2> HIDE DEF hit, updated
  <2> QED
    BY <1>2, FS_EmptySet
<1>4. PICK h \in t : Matches(h, change.pk, change.expect)
  BY <1>3
<1>5. \A r \in t : Matches(r, change.pk, change.expect) => r.id = k
  BY DEF Matches
<1>6. hit = {h}
  BY <1>4, <1>5 DEF Table, UniqueKeys
<1> HIDE DEF hit
<1>7. updated = (t \ {h}) \cup {Overlay(h, change.set)}
  BY <1>6
<1> HIDE DEF updated
<1>8. ASSUME NEW r \in t \ {h}, r.id = Overlay(h, change.set).id
      PROVE  FALSE
  <2>1. r = Overlay(h, change.set)
    BY <1>2, <1>7, <1>8 DEF UniqueKeys
  <2>2. updated = t \ {h}
    BY <1>7, <1>8, <2>1
  <2>3. Cardinality(t \ {h}) = Cardinality(t) - 1 /\ Cardinality(t) \in Nat
    BY FS_RemoveElement, FS_CardinalityType DEF Table
  <2> QED
    BY <1>2, <2>2, <2>3
<1> QED
  BY <1>2, <1>4, <1>5, <1>7, <1>8

\* An insert that is taken adds what becomes of it.
LEMMA InsertTaken ==
  ASSUME NEW t, NEW change, change.op = "insert", Run(t, change).ok
  PROVE  /\ Run(t, change).table = t \cup {Inserted(t, change)}
         /\ \A r \in t : r.id # Inserted(t, change).id
<1> DEFINE row == Inserted(t, change)
<1>1. Run(t, change).table = t \cup {row} /\ row \notin t /\ UniqueKeys(t \cup {row})
  BY DEF Run, RunInsert, Refused, Inserted
<1> HIDE DEF row
<1>2. \A r \in t : r.id # row.id
  BY <1>1 DEF UniqueKeys
<1> QED
  BY <1>1, <1>2 DEF row

\* One change more of the batch.
LEMMA BatchStep ==
  ASSUME NEW before, Table(before), NEW page, IsPage(page), NEW changes, MadeFrom(changes, page),
         ApplyChanges(before, changes).ok, Undoable(before, changes),
         NEW n \in DOMAIN changes, Told(before, changes, n - 1),
         Ran(before, changes)[n - 1].table = Mixed(before, changes, 1 .. n - 1)
  PROVE  Told(before, changes, n) /\ Ran(before, changes)[n].table = Mixed(before, changes, 1 .. n)
<1> DEFINE t      == Ran(before, changes)[n - 1].table
           change == changes[n]
           q      == Became(before, change)
<1>1. changes \in Seq(Change) /\ n \in 1 .. Len(changes) /\ n - 1 \in 0 .. Len(changes) /\ change \in Change
      /\ change.op # "delete"
  BY DEF MadeFrom, Undoable
<1>2. Table(t)
  BY <1>1, RanKeepsTable
<1>3. Run(t, change).ok /\ Run(t, change).count > 0 /\ Run(t, change).table = Ran(before, changes)[n].table
  BY <1>1, AppliedIsRan
<1>4. (1 .. n - 1) \cup {n} = 1 .. n
  BY <1>1
<1>5. \A j \in 1 .. n - 1 : Became(before, changes[j]) \in t
  BY DEF Mixed, Come
<1> HIDE DEF t
<1>6. /\ change.op = "update" => Was(before, change) \in before /\ Was(before, change).id = change.pk.id
      /\ \A j \in 1 .. n - 1 : Became(before, changes[j]).id # q.id
      /\ Ran(before, changes)[n].table = Mixed(before, changes, 1 .. n)
  <2>1. CASE change.op = "update"
    <3>1. SeenOn(change, page)
      BY <2>1 DEF MadeFrom
    <3>2. PICK i \in DOMAIN page : change.pk = [id |-> page[i].id]
      BY <3>1 DEF SeenOn
    <3>3. PICK h \in t :
            /\ h.id = change.pk.id
            /\ Run(t, change).table = (t \ {h}) \cup {Overlay(h, change.set)}
            /\ \A r \in t \ {h} : r.id # Overlay(h, change.set).id
      BY <1>1, <1>2, <1>3, <2>1, <3>2, UpdateTaken
    <3>4. \A j \in 1 .. n - 1 : Became(before, changes[j]).id # change.pk.id
      BY <2>1, NotYet
    <3>5. h \in before
      BY <3>3, <3>4 DEF t, Mixed, Come
    <3>6. Was(before, change) = h
      BY <3>3, <3>5 DEF Was, Table, UniqueKeys
    <3>7. q = Overlay(h, change.set)
      BY <2>1, <3>6 DEF Became
    <3>8. \A j \in 1 .. n - 1 : Became(before, changes[j]).id # q.id
      BY <1>5, <3>3, <3>4, <3>7
    <3>9. Was(before, changes[n]) \notin Come(before, changes, 1 .. n - 1) /\ changes[n].op = "update"
      BY <2>1, <3>3, <3>4, <3>6 DEF Come
    <3> HIDE DEF change, q
    <3>10. Mixed(before, changes, 1 .. n) =
             Swap(Mixed(before, changes, 1 .. n - 1), Was(before, changes[n]), Became(before, changes[n]))
      BY <1>4, <3>9, MixedUpdate
    <3>11. Mixed(before, changes, 1 .. n) = (t \ {h}) \cup {q}
      BY <3>6, <3>10 DEF t, change, q, Swap
    <3> QED
      BY <1>3, <3>3, <3>5, <3>6, <3>7, <3>8, <3>11
  <2>2. CASE change.op = "insert"
    <3>1. /\ Run(t, change).table = t \cup {Inserted(t, change)}
          /\ \A r \in t : r.id # Inserted(t, change).id
      BY <1>3, <2>2, InsertTaken
    <3>2. NewKeys(change) # {}
      BY <2>2 DEF Undoable
    <3>3. Inserted(t, change) = q
      BY <1>1, <2>2, <3>2, InsertedKey DEF Became
    <3>4. changes[n].op # "update"
      BY <2>2
    <3> HIDE DEF change, q
    <3>5. Mixed(before, changes, 1 .. n) = With(Mixed(before, changes, 1 .. n - 1), Became(before, changes[n]))
      <4> DEFINE I == 1 .. n - 1
                 J == 1 .. n
      <4>1. J = I \cup {n}
        BY <1>4
      <4> HIDE DEF I, J
      <4>2. Mixed(before, changes, J) = With(Mixed(before, changes, I), Became(before, changes[n]))
        BY <3>4, <4>1, MixedInsert
      <4> QED
        BY <4>2 DEF I, J
    <3>6. Mixed(before, changes, 1 .. n) = t \cup {q}
      BY <3>5 DEF t, change, q, With
    <3> QED
      BY <1>3, <1>5, <2>2, <3>1, <3>3, <3>6
  <2> QED
    BY <1>1, <2>1, <2>2 DEF Change, Update, Insert, Delete
<1>7. \A i \in 1 .. n : i \in 1 .. n - 1 \/ i = n
  BY <1>1
<1>8. Told(before, changes, n)
  BY <1>6, <1>7 DEF Told
<1> QED
  BY <1>6, <1>8

\* A batch that is taken leaves its rows in place of those they were.
LEMMA BatchMixed ==
  ASSUME NEW before, Table(before), NEW page, IsPage(page), NEW changes, MadeFrom(changes, page),
         ApplyChanges(before, changes).ok, Undoable(before, changes)
  PROVE  /\ Told(before, changes, Len(changes))
         /\ ApplyChanges(before, changes).table = Mixed(before, changes, 1 .. Len(changes))
<1> DEFINE size == Len(changes)
           S == {n \in Nat : Told(before, changes, n)
                             /\ Ran(before, changes)[n].table = Mixed(before, changes, 1 .. n)}
<1>1. changes \in Seq(Change) /\ size \in Nat /\ DOMAIN changes = 1 .. size
  BY DEF MadeFrom
<1>2. 0 \in S
  <2>1. Ran(before, changes)[0].table = before
    <3>1. Ran(before, changes)[0] = [ok |-> TRUE, table |-> before]
      BY <1>1, RanStarts
    <3> QED
      BY <3>1
  <2>2. 1 .. 0 = {}
    OBVIOUS
  <2>3. Mixed(before, changes, {}) = before
    BY DEF Mixed, Gone, Come
  <2>4. Told(before, changes, 0)
    BY <2>2 DEF Told
  <2> QED
    BY <2>1, <2>2, <2>3, <2>4
<1>3. ASSUME NEW n \in 0 .. size - 1, n \in S
      PROVE  n + 1 \in S
  <2>1. n + 1 \in DOMAIN changes /\ (n + 1) - 1 = n /\ n + 1 \in Nat
    BY <1>1
  <2>2. Told(before, changes, (n + 1) - 1)
        /\ Ran(before, changes)[(n + 1) - 1].table = Mixed(before, changes, 1 .. (n + 1) - 1)
    BY <1>3, <2>1
  <2>3. Told(before, changes, n + 1)
        /\ Ran(before, changes)[n + 1].table = Mixed(before, changes, 1 .. n + 1)
    BY <2>1, <2>2, BatchStep
  <2> QED
    BY <2>1, <2>3
<1>4. size \in S
  <2> HIDE DEF S, size
  <2>1. 0 .. size \subseteq S
    BY <1>1, <1>2, <1>3, Induction, Zenon
  <2>2. size \in 0 .. size
    BY <1>1
  <2> QED
    BY <2>1, <2>2
<1>5. ApplyChanges(before, changes).table = Ran(before, changes)[size].table
  BY <1>1, AppliedIsRan
<1> QED
  BY <1>4, <1>5

-----------------------------------------------------------------------------
(* The inverses of a batch.                                                    *)

\* No inverse has run yet.
LEMMA UndoingStarts ==
  ASSUME NEW t, NEW changes, Len(changes) \in Nat
  PROVE  Undoing(t, changes)[0] = t
<1> DEFINE undoing == Undoing(t, changes)
           size    == Len(changes)
<1>1. UndoingTo(t, changes, size, undoing) /\ 0 \in 0 .. size
  BY UndoingIs
<1> HIDE DEF undoing, size
<1>2. undoing[0] = t
  BY <1>1 DEF UndoingTo
<1> QED
  BY <1>2 DEF undoing

\* One inverse more.
LEMMA UndoingSteps ==
  ASSUME NEW t, NEW changes, Len(changes) \in Nat, NEW n \in 1 .. Len(changes), Invertible(changes[n])
  PROVE  Undoing(t, changes)[n] = Run(Undoing(t, changes)[n - 1], Invert(changes[n])).table
<1> DEFINE undoing == Undoing(t, changes)
           size    == Len(changes)
<1>1. UndoingTo(t, changes, size, undoing) /\ n \in 0 .. size /\ n # 0
  BY UndoingIs
<1> HIDE DEF undoing, size
<1>2. undoing[n] = RunInverse(undoing[n - 1], changes[n])
  BY <1>1 DEF UndoingTo
<1> QED
  BY <1>2 DEF undoing, RunInverse

\* What the inverse of an update finds and sets.
LEMMA UpdateUndone ==
  ASSUME NEW before, Table(before), NEW page, IsPage(page), NEW changes, MadeFrom(changes, page),
         ApplyChanges(before, changes).ok, NEW n \in DOMAIN changes, changes[n].op = "update",
         Was(before, changes[n]) \in before, Was(before, changes[n]).id = changes[n].pk.id
  PROVE  LET was    == Was(before, changes[n])
             became == Became(before, changes[n])
         IN  /\ Invert(changes[n]) = [op |-> "update", set |-> changes[n].expect,
                                      pk |-> [id |-> became.id], expect |-> None]
             /\ Overlay(became, changes[n].expect) = was
             /\ Overlay(was, changes[n].expect) = was
             /\ changes[n].expect \in Cells /\ changes[n].expect # None /\ Coerced(changes[n].expect)
             /\ became.id \in KeyText /\ Coerced([id |-> became.id])
<1> DEFINE change == changes[n]
           was    == Was(before, change)
           became == Became(before, change)
<1>1. change \in Change /\ SeenOn(change, page)
  BY DEF MadeFrom
<1>2. change.set \in Cells /\ change.expect \in Cells /\ change.set # None
  BY <1>1 DEF SeenOn, Change, Update, Insert, Delete
<1>3. PICK i \in DOMAIN page :
        change.pk = [id |-> page[i].id] /\ change.expect = [c \in DOMAIN change.set |-> page[i][c]]
  BY <1>1 DEF SeenOn
<1>4. change.set \in [DOMAIN change.set -> Text] /\ DOMAIN change.set \subseteq Columns
      /\ ("id" \in DOMAIN change.set => change.set["id"] \in KeyText)
  BY <1>2 DEF Cells, Partial
<1>5. was \in [Columns -> Text] /\ was["id"] \in KeyText /\ was["b"] # Null
  BY DEF Table, Row
<1>6. \A c \in DOMAIN change.set : was[c] = page[i][c]
  BY <1>3, UpdatesWhatWasSeen
<1>7. DOMAIN change.expect = DOMAIN change.set /\ \A c \in DOMAIN change.set : change.expect[c] = was[c]
  BY <1>3, <1>6
<1>8. became = [c \in Columns |-> IF c \in DOMAIN change.set THEN change.set[c] ELSE was[c]]
  <2>1. DOMAIN was \cup DOMAIN change.set = Columns
    BY <1>4, <1>5
  <2>2. became = Overlay(was, change.set)
    BY DEF Became
  <2> HIDE DEF was, change, became
  <2> QED
    BY <2>1, <2>2 DEF Overlay
<1> HIDE DEF was, became
<1>9. "id" \in Columns /\ became.id = IF "id" \in DOMAIN change.set THEN change.set["id"] ELSE was.id
  BY <1>8 DEF Columns
<1>10. became.id \in KeyText
  BY <1>4, <1>5, <1>9
<1>11. KeyAfter(change) = [id |-> became.id]
  <2>1. DOMAIN change.pk = {"id"} /\ change.pk["id"] = was.id
    BY <1>3 DEF was
  <2>2. KeyAfter(change) = [c \in {"id"} |-> became.id]
    BY <1>9, <2>1 DEF KeyAfter
  <2> QED
    BY <2>2
<1>12. Invert(change) = [op |-> "update", set |-> change.expect, pk |-> [id |-> became.id], expect |-> None]
  BY <1>11 DEF Invert
<1>13. Overlay(became, change.expect) = was
  <2>1. DOMAIN became \cup DOMAIN change.expect = Columns
    BY <1>4, <1>7, <1>8
  <2>2. Overlay(became, change.expect) =
          [c \in Columns |-> IF c \in DOMAIN change.expect THEN change.expect[c] ELSE became[c]]
    BY <2>1 DEF Overlay
  <2>3. \A c \in Columns : (IF c \in DOMAIN change.expect THEN change.expect[c] ELSE became[c]) = was[c]
    BY <1>7, <1>8
  <2>4. was = [c \in Columns |-> was[c]]
    BY <1>5
  <2> HIDE DEF change
  <2> QED
    BY <2>2, <2>3, <2>4
<1>14. Overlay(was, change.expect) = was
  <2>1. DOMAIN was \cup DOMAIN change.expect = Columns
    BY <1>4, <1>5, <1>7
  <2>2. Overlay(was, change.expect) =
          [c \in Columns |-> IF c \in DOMAIN change.expect THEN change.expect[c] ELSE was[c]]
    BY <2>1 DEF Overlay
  <2>3. \A c \in Columns : (IF c \in DOMAIN change.expect THEN change.expect[c] ELSE was[c]) = was[c]
    BY <1>7
  <2>4. was = [c \in Columns |-> was[c]]
    BY <1>5
  <2> HIDE DEF change
  <2> QED
    BY <2>2, <2>3, <2>4
<1>15. change.expect # None
  <2> SUFFICES ASSUME change.expect = None
               PROVE  FALSE
    OBVIOUS
  <2>1. DOMAIN change.set = {}
    BY <1>7 DEF None
  <2>2. change.set = [c \in {} |-> change.set[c]]
    BY <1>4, <2>1
  <2>3. change.set = None
    BY <2>2 DEF None
  <2> QED
    BY <1>2, <2>3
<1>16. Coerced(change.expect)
  <2> SUFFICES ASSUME NEW c \in DOMAIN change.expect, change.expect[c] = Null
               PROVE  c \in Nullable
    BY DEF Coerced
  <2>1. c \in Columns /\ was[c] = Null
    BY <1>4, <1>7
  <2>2. Null \notin KeyText
    BY ValuesAssumption DEF KeyText, Null, Blank, Cut
  <2> QED
    BY <1>5, <2>1, <2>2 DEF Columns, Nullable
<1>17. Coerced([id |-> became.id])
  <2>1. Null \notin KeyText
    BY ValuesAssumption DEF KeyText, Null, Blank, Cut
  <2> QED
    BY <1>10, <2>1 DEF Coerced
<1> QED
  BY <1>2, <1>10, <1>12, <1>13, <1>14, <1>15, <1>16, <1>17 DEF was, became

\* The key of the row a change left is none of the keys of the others.
LEMMA KeyApart ==
  ASSUME NEW before, Table(before), NEW page, NEW changes, MadeFrom(changes, page),
         Undoable(before, changes), Told(before, changes, Len(changes)),
         NEW n \in DOMAIN changes, NEW r \in before, r.id = Became(before, changes[n]).id
  PROVE  changes[n].op = "update" /\ Was(before, changes[n]) = r
<1>1. changes[n] \in Change /\ n \in 1 .. Len(changes)
  BY DEF MadeFrom
<1>2. Became(before, changes[n]).id \notin NewKeys(changes[n])
  BY DEF Undoable
<1>3. changes[n].op = "update" => Was(before, changes[n]) \in before /\ Was(before, changes[n]).id = changes[n].pk.id
  BY <1>1 DEF Told
<1>4. changes[n].op = "update" /\ Became(before, changes[n]).id = changes[n].pk.id
  BY <1>1, <1>2, <1>3, BecameKey DEF Undoable
<1> QED
  BY <1>3, <1>4 DEF Table, UniqueKeys

\* Two updates are of two rows.
LEMMA WasOnce ==
  ASSUME NEW before, NEW page, NEW changes, MadeFrom(changes, page), Told(before, changes, Len(changes)),
         NEW m \in DOMAIN changes, NEW n \in DOMAIN changes,
         changes[m].op = "update", changes[n].op = "update",
         Was(before, changes[m]) = Was(before, changes[n])
  PROVE  m = n
<1>1. m \in 1 .. Len(changes) /\ n \in 1 .. Len(changes)
  BY DEF MadeFrom
<1>2. changes[m].pk.id = changes[n].pk.id
  BY <1>1 DEF Told
<1>3. SeenOn(changes[m], page) /\ SeenOn(changes[n], page)
  BY DEF MadeFrom
<1>4. changes[m].pk = changes[n].pk
  BY <1>2, <1>3 DEF SeenOn
<1> QED
  BY <1>4 DEF MadeFrom

\* The inverse of a change takes it out of the table that the changes from it on
\* have made.
LEMMA BackStep ==
  ASSUME NEW before, Table(before), NEW page, IsPage(page), NEW changes, MadeFrom(changes, page),
         ApplyChanges(before, changes).ok, Undoable(before, changes), Told(before, changes, Len(changes)),
         NEW n \in DOMAIN changes, NEW I, I \subseteq DOMAIN changes, n \notin I,
         NEW t, Table(t), t = Mixed(before, changes, I \cup {n})
  PROVE  Run(t, Invert(changes[n])).table = Mixed(before, changes, I)
<1> DEFINE change == changes[n]
           was    == Was(before, change)
           became == Became(before, change)
<1>1. change \in Change /\ DOMAIN changes = 1 .. Len(changes) /\ change.op \in {"update", "insert"}
  BY DEF MadeFrom, Undoable, Change, Update, Insert, Delete
<1>2. became \in t
  BY DEF Mixed, Come
<1>3. \A j \in I : Became(before, changes[j]).id # became.id
  BY <1>1 DEF Told
<1>4. became \notin Come(before, changes, I)
  BY <1>3 DEF Come
<1>5. \A r \in before : r.id = became.id => change.op = "update" /\ was = r
  BY KeyApart
<1>6. CASE change.op = "update"
  <2>1. was \in before /\ was.id = change.pk.id
    BY <1>1, <1>6 DEF Told
  <2>2. /\ Invert(change) = [op |-> "update", set |-> change.expect, pk |-> [id |-> became.id], expect |-> None]
        /\ Overlay(became, change.expect) = was
        /\ change.expect # None /\ Coerced(change.expect)
        /\ Coerced([id |-> became.id])
    BY <1>6, <2>1, UpdateUndone
  <2>3. was \in before \ Gone(before, changes, I)
    <3> SUFFICES ASSUME NEW j \in I, changes[j].op = "update", Was(before, changes[j]) = was
                 PROVE  FALSE
      BY <2>1 DEF Gone
    <3>1. j \in DOMAIN changes /\ j # n
      OBVIOUS
    <3> QED
      BY <1>6, <3>1, WasOnce
  <2>4. became \notin before \ Gone(before, changes, I \cup {n})
    <3>1. was \in Gone(before, changes, I \cup {n})
      BY <1>6 DEF Gone
    <3> QED
      BY <1>5, <3>1
  <2>5. \A r \in t \ {became} : r.id # was.id
    <3> SUFFICES ASSUME NEW r \in t, r # became, r.id = was.id
                 PROVE  FALSE
      OBVIOUS
    <3>1. CASE r \in before \ Gone(before, changes, I \cup {n})
      <4>1. r = was
        BY <2>1, <3>1 DEF Table, UniqueKeys
      <4>2. was \in Gone(before, changes, I \cup {n})
        BY <1>6 DEF Gone
      <4> QED
        BY <3>1, <4>1, <4>2
    <3>2. ASSUME NEW j \in I \cup {n}, r = Became(before, changes[j])
          PROVE  FALSE
      <4>1. j \in I /\ j \in DOMAIN changes /\ j # n
        BY <3>2
      <4>2. changes[j].op = "update" /\ Was(before, changes[j]) = was
        BY <2>1, <3>2, <4>1, KeyApart
      <4> QED
        BY <1>6, <4>1, <4>2, WasOnce
    <3> QED
      BY <3>1, <3>2 DEF Mixed, Come
  <2>6. Run(t, Invert(change)).table = Swap(t, became, was)
    <3> DEFINE inverse == Invert(change)
    <3>1. inverse.op = "update" /\ inverse.pk = [id |-> became.id] /\ inverse.set = change.expect
          /\ inverse.expect = None
      BY <2>2
    <3>2. DOMAIN None = {} /\ Coerced(None)
      BY DEF None, Coerced
    <3> HIDE DEF inverse, became, was, change
    <3>3. Overlay(became, inverse.set) = was
      BY <2>2, <3>1
    <3>4. \A r \in t \ {became} : r.id # Overlay(became, inverse.set).id
      BY <2>5, <3>3
    <3>5. inverse.set # None /\ Coerced(inverse.set) /\ Coerced(inverse.pk) /\ Coerced(inverse.expect)
      BY <2>2, <3>1, <3>2
    <3>6. \A c \in DOMAIN inverse.expect \ {"id"} : became[c] = inverse.expect[c]
      BY <3>1, <3>2
    <3>7. Run(t, inverse).table = Swap(t, became, Overlay(became, inverse.set))
      BY <1>2, <3>1, <3>4, <3>5, <3>6, UpdateOne, ZenonT(30)
    <3> QED
      BY <3>3, <3>7 DEF inverse
  <2>7. Mixed(before, changes, I) = Swap(t, became, was)
    <3>1. changes[n].op = "update"
      BY <1>6
    <3>2. Mixed(before, changes, I) = Swap(Mixed(before, changes, I \cup {n}), became, was)
      BY <1>4, <2>3, <2>4, <3>1, UpdateMixedBack
    <3> QED
      BY <3>2
  <2> QED
    BY <2>6, <2>7
<1>7. CASE change.op = "insert"
  <2>1. became \notin before /\ change.op # "update"
    BY <1>5, <1>7
  <2>2. Mixed(before, changes, I) = Without(t, became)
    <3>1. changes[n].op # "update"
      BY <1>7
    <3>2. Mixed(before, changes, I) = Without(Mixed(before, changes, I \cup {n}), became)
      BY <1>4, <2>1, <3>1, InsertMixedBack
    <3> QED
      BY <3>2
  <2>3. NewKeys(change) # {}
    BY <1>7 DEF Undoable
  <2>4. became = Inserted(before, change)
    BY <1>7 DEF Became
  <2>5. /\ "id" \in DOMAIN change.values /\ change.values.id = became.id
        /\ \A c \in DOMAIN change.values : became[c] = change.values[c]
    BY <1>1, <1>7, <2>3, <2>4, InsertedKey
  <2>6. Coerced(change.values)
    <3>1. Run(Ran(before, changes)[n - 1].table, change).ok
      BY <1>1, AppliedIsRan DEF MadeFrom
    <3> QED
      BY <1>7, <3>1 DEF Run, RunInsert, Refused
  <2>7. Run(t, Invert(change)).table = Without(t, became)
    <3> DEFINE inverse == Invert(change)
    <3>1. inverse.op = "delete" /\ inverse.pk = change.values /\ inverse.expect = None
      BY <1>7 DEF Invert
    <3>2. "id" \in DOMAIN inverse.pk /\ inverse.pk.id = became.id
          /\ (\A c \in DOMAIN inverse.pk : became[c] = inverse.pk[c]) /\ Coerced(inverse.pk)
      BY <2>5, <2>6, <3>1
    <3> HIDE DEF inverse, became, was, change
    <3>3. Run(t, inverse).table = Without(t, became)
      BY <1>2, <3>1, <3>2, DeleteOne
    <3> QED
      BY <3>3 DEF inverse
  <2> QED
    BY <2>2, <2>7
<1> QED
  BY <1>1, <1>6, <1>7

\* Where the batch was rolled back, it does nothing.
LEMMA BackIdle ==
  ASSUME NEW before, Table(before), NEW page, IsPage(page), NEW changes, MadeFrom(changes, page),
         ApplyChanges(before, changes).ok, Undoable(before, changes), Told(before, changes, Len(changes)),
         NEW n \in DOMAIN changes
  PROVE  Run(before, Invert(changes[n])).table = before
<1> DEFINE change  == changes[n]
           was     == Was(before, change)
           became  == Became(before, change)
<1>1. change \in Change /\ DOMAIN changes = 1 .. Len(changes) /\ change.op \in {"update", "insert"}
  BY DEF MadeFrom, Undoable, Change, Update, Insert, Delete
<1>2. \A r \in before : r.id = became.id => change.op = "update" /\ was = r
  BY KeyApart
<1>3. CASE change.op = "update"
  <2>1. was \in before /\ was.id = change.pk.id
    BY <1>1, <1>3 DEF Told
  <2>2. /\ Invert(change) = [op |-> "update", set |-> change.expect, pk |-> [id |-> became.id], expect |-> None]
        /\ Overlay(was, change.expect) = was
        /\ Overlay(became, change.expect) = was
        /\ change.expect # None /\ Coerced(change.expect)
        /\ Coerced([id |-> became.id])
    BY <1>3, <2>1, UpdateUndone
  <2> DEFINE inverse == Invert(change)
  <2>3. inverse.op = "update" /\ inverse.pk = [id |-> became.id] /\ inverse.set = change.expect
    BY <2>2
  <2> HIDE DEF inverse, became, was
  <2>4. \A r \in before : Matches(r, inverse.pk, inverse.expect) => Overlay(r, inverse.set) = r
    <3> SUFFICES ASSUME NEW r \in before, Matches(r, inverse.pk, inverse.expect)
                 PROVE  Overlay(r, inverse.set) = r
      OBVIOUS
    <3>1. "id" \in DOMAIN inverse.pk /\ inverse.pk["id"] = became.id
      BY <2>3
    <3>2. r["id"] = became.id
      BY <3>1 DEF Matches
    <3> QED
      BY <1>2, <2>2, <2>3, <3>2
  <2>5. Run(before, inverse).table = before
    BY <2>3, <2>4, UpdateIdle
  <2> QED
    BY <2>5 DEF inverse
<1>4. CASE change.op = "insert"
  <2>1. NewKeys(change) # {}
    BY <1>4 DEF Undoable
  <2>2. "id" \in DOMAIN change.values /\ change.values["id"] \in NewKeys(change)
    BY <1>1, <1>4, <2>1, InsertedKey
  <2>3. \A r \in before : r.id # change.values["id"]
    BY <2>2 DEF Undoable
  <2> DEFINE inverse == Invert(change)
  <2>4. inverse.op = "delete" /\ inverse.pk = change.values
    BY <1>4 DEF Invert
  <2> HIDE DEF inverse, change
  <2>5. Run(before, inverse).table = before
    BY <2>2, <2>3, <2>4, DeleteIdle
  <2> QED
    BY <2>5 DEF inverse, change
<1> QED
  BY <1>1, <1>3, <1>4

\* An inverse is a change like any other.
LEMMA InvertIsChange ==
  ASSUME NEW change \in Change, change.op # "delete",
         change.op = "update" => \E k \in KeyText : change.pk = [id |-> k]
  PROVE  Invert(change) \in Change
<1>1. CASE change.op = "update"
  <2>1. PICK k \in KeyText : change.pk = [id |-> k]
    BY <1>1
  <2>2. change.set \in Cells /\ change.expect \in Cells
    BY <1>1 DEF Change, Update, Insert, Delete
  <2>3. KeyAfter(change) = [id |-> IF "id" \in DOMAIN change.set THEN change.set["id"] ELSE k]
    BY <2>1 DEF KeyAfter
  <2>4. (IF "id" \in DOMAIN change.set THEN change.set["id"] ELSE k) \in KeyText
    BY <2>2 DEF Cells
  <2>5. KeyAfter(change) \in Cells /\ None \in Cells
    BY <2>3, <2>4, RowTypes
  <2> QED
    BY <1>1, <2>2, <2>5 DEF Invert, Change, Update
<1>2. CASE change.op = "insert"
  <2>1. change.values \in Cells /\ None \in Cells
    BY <1>2, RowTypes DEF Change, Update, Insert, Delete
  <2> QED
    BY <1>2, <2>1 DEF Invert, Change, Delete
<1> QED
  BY <1>1, <1>2 DEF Change, Update, Insert, Delete

\* The inverses of a batch, one after the other, leave the table as it was.
LEMMA UndoneIs ==
  ASSUME NEW changes, NEW before, NEW after, Applied(changes, before, after), Undoable(before, changes)
  PROVE  Undone(after, changes) = before
<1>1. PICK page : IsPage(page) /\ MadeFrom(changes, page)
  BY DEF Applied
<1>2. Table(before) /\ ApplyChanges(before, changes).ok
  BY DEF Applied
<1> DEFINE size    == Len(changes)
           undoing == Undoing(after, changes)
<1>3. /\ Told(before, changes, size)
      /\ ApplyChanges(before, changes).table = Mixed(before, changes, 1 .. size)
  BY <1>1, <1>2, BatchMixed
<1>4. changes \in Seq(Change) /\ size \in Nat /\ DOMAIN changes = 1 .. size
  BY <1>1 DEF MadeFrom
<1>5. undoing[0] = after
  BY <1>4, UndoingStarts
<1>6. ASSUME NEW n \in 1 .. size
      PROVE  undoing[n] = Run(undoing[n - 1], Invert(changes[n])).table
  <2>1. Invertible(changes[n])
    BY <1>4 DEF Invertible, Undoable, Change, Update, Insert, Delete
  <2> QED
    BY <1>4, <2>1, UndoingSteps
<1>7. Undone(after, changes) = undoing[size]
  BY DEF Undone
<1> HIDE DEF undoing, size
<1>8. CASE after = before
  <2> DEFINE S == {n \in Nat : undoing[n] = before}
  <2>1. 0 \in S
    BY <1>5, <1>8
  <2>2. ASSUME NEW n \in 0 .. size - 1, n \in S
        PROVE  n + 1 \in S
    <3>1. n + 1 \in 1 .. size /\ n + 1 \in DOMAIN changes /\ (n + 1) - 1 = n /\ n + 1 \in Nat
      BY <1>4
    <3>2. undoing[n + 1] = Run(before, Invert(changes[n + 1])).table
      BY <1>6, <2>2, <3>1
    <3>3. Run(before, Invert(changes[n + 1])).table = before
      BY <1>1, <1>2, <1>3, <3>1, BackIdle DEF size
    <3> QED
      BY <3>1, <3>2, <3>3
  <2>3. size \in S
    <3> HIDE DEF S
    <3>1. 0 .. size \subseteq S
      BY <1>4, <2>1, <2>2, Induction, Zenon
    <3>2. size \in 0 .. size
      BY <1>4
    <3> QED
      BY <3>1, <3>2
  <2> QED
    BY <1>7, <2>3
<1>9. CASE after = ApplyChanges(before, changes).table
  <2> DEFINE S == {n \in Nat : Table(undoing[n]) /\ undoing[n] = Mixed(before, changes, n + 1 .. size)}
  <2>1. 0 \in S
    <3>1. Table(after)
      BY <1>2, <1>4, <1>9, ApplyKeepsTable
    <3>2. 0 + 1 = 1
      OBVIOUS
    <3> QED
      BY <1>3, <1>5, <1>9, <3>1, <3>2 DEF size
  <2>2. ASSUME NEW n \in 0 .. size - 1, n \in S
        PROVE  n + 1 \in S
    <3> DEFINE m == n + 1
               I == m + 1 .. size
    <3>1. m \in 1 .. size /\ m \in DOMAIN changes /\ m - 1 = n /\ m \in Nat
      BY <1>4
    <3>2. I \subseteq DOMAIN changes /\ m \notin I /\ I \cup {m} = n + 1 .. size
      BY <1>4
    <3>3. Table(undoing[n]) /\ undoing[n] = Mixed(before, changes, I \cup {m})
      BY <2>2, <3>2
    <3> HIDE DEF m, I
    <3>4. undoing[m] = Run(undoing[n], Invert(changes[m])).table
      BY <1>6, <3>1
    <3>5. Run(undoing[n], Invert(changes[m])).table = Mixed(before, changes, I)
      BY <1>1, <1>2, <1>3, <3>1, <3>2, <3>3, BackStep DEF size
    <3>6. Invert(changes[m]) \in Change
      <4>1. changes[m] \in Change /\ changes[m].op # "delete"
        BY <1>4, <3>1 DEF Undoable
      <4>2. ASSUME changes[m].op = "update"
            PROVE  \E k \in KeyText : changes[m].pk = [id |-> k]
        <5>1. PICK i \in DOMAIN page : changes[m].pk = [id |-> page[i].id]
          BY <1>1, <3>1, <4>2 DEF MadeFrom, SeenOn
        <5>2. page[i].id \in KeyText
          BY <1>1 DEF IsPage, Row
        <5> QED
          BY <5>1, <5>2
      <4> QED
        BY <4>1, <4>2, InvertIsChange
    <3>7. Table(undoing[m])
      BY <3>3, <3>4, <3>6, RunKeepsTable
    <3>8. undoing[m] = Mixed(before, changes, m + 1 .. size)
      BY <3>4, <3>5 DEF I
    <3> QED
      BY <3>1, <3>7, <3>8 DEF m
  <2>3. size \in S
    <3> HIDE DEF S
    <3>1. 0 .. size \subseteq S
      BY <1>4, <2>1, <2>2, Induction, Zenon
    <3>2. size \in 0 .. size
      BY <1>4
    <3> QED
      BY <3>1, <3>2
  <2>4. undoing[size] = Mixed(before, changes, size + 1 .. size)
    BY <2>3
  <2>5. size + 1 .. size = {}
    BY <1>4
  <2>6. Mixed(before, changes, {}) = before
    BY DEF Mixed, Gone, Come
  <2> QED
    BY <1>7, <2>4, <2>5, <2>6
<1> QED
  BY <1>8, <1>9 DEF Applied

\* The inverses of a batch that deleted nothing and made new keys only, run right
\* after it, leave the table as it was before, whether the batch was kept or rolled
\* back (the entries of data/undolog.lua).
THEOREM UndoPutsBack == Spec => []UndoRestores
<1>1. Inv => UndoRestores
  <2> SUFFICES ASSUME Inv, undo # Nothing, Undoable(undo.before, undo.changes)
               PROVE  Undone(undo.after, undo.changes) = undo.before
    BY DEF UndoRestores, Undoable
  <2>1. Applied(undo.changes, undo.before, undo.after)
    BY DEF Inv
  <2> QED
    BY <2>1, UndoneIs
<1> QED
  BY <1>1, BufferInvariant, PTL

-----------------------------------------------------------------------------
(* What :w makes of the lines.                                                 *)

LineRow(l) == RowOf(rows, lines, l)

\* The row that a line becomes.
Final(l) ==
  IF LineRow(l) = 0 THEN Inserted(table, InsertBy(lines[l]))
  ELSE Overlay(rows[LineRow(l)], UpdateBy(rows, lines[l], LineRow(l)).set)

\* The table when the entries numbered D have been carried out, and no others:
\* the rows of the page that are still as they were, and the lines' rows.
Here(D) ==
  {i \in DOMAIN rows : Len(lines) + i \notin D /\ \A l \in DOMAIN lines : LineRow(l) = i => l \notin D}

Midway(D) == OffPage \cup {rows[i] : i \in Here(D)} \cup {Final(l) : l \in DOMAIN lines \cap D}

\* What the invariant and Writable say of the page, the lines and the table.
LEMMA Situation ==
  ASSUME Inv, Writable
  PROVE  /\ IsPage(rows) /\ lines \in Seq(Line) /\ Marked(lines, Len(rows)) /\ Table(table)
         /\ Len(rows) \in Nat /\ DOMAIN rows = 1 .. Len(rows)
         /\ Len(lines) \in Nat /\ DOMAIN lines = 1 .. Len(lines)
         /\ \A i \in DOMAIN rows : rows[i] \in Row /\ rows[i] \in table
         /\ table = OffPage \cup {rows[i] : i \in DOMAIN rows}
         /\ \A r \in OffPage : r \in table /\ \A i \in DOMAIN rows : r # rows[i]
         /\ \A l \in DOMAIN lines : lines[l] \in Line /\ lines[l].cells \in Cells /\ "id" \in DOMAIN lines[l].cells
         /\ \A l \in DOMAIN lines : LineRow(l) # 0 => LineRow(l) \in DOMAIN rows
<1>1. IsPage(rows) /\ lines \in Seq(Line) /\ Marked(lines, Len(rows)) /\ Table(table)
      /\ Drawing(lines, hidden)
  BY DEF Inv, GoodText
<1>2. Len(rows) \in Nat /\ DOMAIN rows = 1 .. Len(rows)
  BY <1>1, PageSizeIs
<1>3. Len(lines) \in Nat /\ DOMAIN lines = 1 .. Len(lines)
  BY <1>1
<1>4. ToSet(rows) = {rows[i] : i \in DOMAIN rows}
  BY DEF ToSet
<1>5. \A i \in DOMAIN rows : rows[i] \in Row /\ rows[i] \in table
  BY <1>1, <1>4 DEF IsPage, Writable
<1>6. table = OffPage \cup {rows[i] : i \in DOMAIN rows}
  BY <1>4, <1>5 DEF OffPage
<1>7. \A r \in OffPage : r \in table /\ \A i \in DOMAIN rows : r # rows[i]
  BY <1>4 DEF OffPage
<1>8. \A l \in DOMAIN lines : lines[l] \in Line /\ lines[l].cells \in Cells /\ "id" \in DOMAIN lines[l].cells
  <2> TAKE l \in DOMAIN lines
  <2>1. lines[l] \in Line /\ DOMAIN lines[l].cells = Visible(hidden)
    BY <1>1 DEF Drawing
  <2> QED
    BY <2>1 DEF Line, Visible, Columns, Writable
<1>9. \A l \in DOMAIN lines : LineRow(l) # 0 => LineRow(l) \in DOMAIN rows
  <2> TAKE l \in DOMAIN lines
  <2>1. LineRow(l) \in 0 .. Len(rows)
    BY <1>1, RowOfIs DEF LineRow
  <2> QED
    BY <1>2, <2>1
<1> QED
  BY <1>1, <1>2, <1>3, <1>5, <1>6, <1>7, <1>8, <1>9

\* A line that shows the key of a row of the page is that row.
LEMMA ShownIsRow ==
  ASSUME Inv, Writable, NEW l \in DOMAIN lines, NEW i \in DOMAIN rows, lines[l].cells.id = rows[i].id
  PROVE  LineRow(l) = i
<1>1. \A m \in DOMAIN lines : KeyOf(lines[m]) = lines[m].cells.id
  BY Situation DEF KeyOf
<1>2. rows[i].id # Blank
  BY DEF Writable
<1>3. IsPage(rows)
  BY Situation
<1>4. lines \in Seq(Line) /\ Marked(lines, Len(rows))
  BY Situation
<1>5. KeyOf(lines[l]) = rows[i].id
  BY <1>1
<1>6. PICK f \in 1 .. l : RowOf(rows, lines, f) = i /\ KeyOf(lines[f]) = KeyOf(lines[l])
  BY <1>2, <1>3, <1>4, <1>5, KeyClaims
<1>7. f \in DOMAIN lines
  BY Situation
<1>8. f = l
  BY <1>1, <1>6, <1>7 DEF Writable
<1> QED
  BY <1>6, <1>8 DEF LineRow

\* A column of a line that its row's update leaves alone shows what the row has,
\* or was cut off.
LEMMA NotSet ==
  ASSUME Inv, Writable, NEW l \in DOMAIN lines, LineRow(l) # 0,
         NEW c \in DOMAIN lines[l].cells, c \notin SetBy(rows, lines[l], LineRow(l))
  PROVE  \/ lines[l].cells[c] = rows[LineRow(l)][c]
         \/ lines[l].cells[c] = Cut
<1> DEFINE i == LineRow(l)
<1>1. c \notin Edited(rows, lines[l], i) \/ c \in Truncated(rows, i) \/ lines[l].cells[c] = rows[i][c]
  BY DEF SetBy
<1>2. ~HasErrors(rows, lines)
  BY DEF Writable
<1>3. Edited(rows, lines[l], i) \cap Truncated(rows, i) = {}
  BY <1>2 DEF HasErrors, LineRow
<1>4. c \notin Edited(rows, lines[l], i) => lines[l].cells[c] = Rendered(rows, i, c)
  BY DEF Edited
<1>5. Rendered(rows, i, c) = rows[i][c] \/ Rendered(rows, i, c) = Cut
  BY DEF Rendered, Fit
<1> QED
  BY <1>1, <1>3, <1>4, <1>5

\* The row of a line that is a row of the page, column by column.
LEMMA FinalOld ==
  ASSUME Inv, Writable, NEW l \in DOMAIN lines, LineRow(l) # 0
  PROVE  /\ Final(l) = [c \in Columns |-> IF c \in SetBy(rows, lines[l], LineRow(l))
                                          THEN lines[l].cells[c] ELSE rows[LineRow(l)][c]]
         /\ SetBy(rows, lines[l], LineRow(l)) \subseteq DOMAIN lines[l].cells
<1> DEFINE i   == LineRow(l)
           set == SetBy(rows, lines[l], i)
<1>1. rows[i] \in [Columns -> Text] /\ lines[l].cells \in Cells
  BY Situation DEF Row
<1>2. set \subseteq DOMAIN lines[l].cells /\ DOMAIN lines[l].cells \subseteq Columns
  BY <1>1 DEF SetBy, Edited, Cells, Partial
<1>3. UpdateBy(rows, lines[l], i).set = [c \in set |-> lines[l].cells[c]]
  BY DEF UpdateBy
<1>4. Final(l) = Overlay(rows[i], [c \in set |-> lines[l].cells[c]])
  BY <1>3 DEF Final
<1>5. DOMAIN rows[i] \cup set = Columns
  BY <1>1, <1>2
<1> HIDE DEF i, set
<1>6. Final(l) = [c \in Columns |-> IF c \in set THEN lines[l].cells[c] ELSE rows[i][c]]
  BY <1>4, <1>5 DEF Overlay
<1> QED
  BY <1>2, <1>6 DEF i, set

\* The row of a line that is new, column by column.
LEMMA FinalNew ==
  ASSUME Inv, Writable, NEW l \in DOMAIN lines, LineRow(l) = 0
  PROVE  /\ InsertBy(lines[l]) \in Change /\ "id" \in GivenBy(lines[l])
         /\ NewKeys(InsertBy(lines[l])) # {}
         /\ Final(l).id = lines[l].cells.id
         /\ \A c \in GivenBy(lines[l]) : Final(l)[c] = lines[l].cells[c]
         /\ \A c \in Columns \ GivenBy(lines[l]) : Final(l)[c] = Default[c]
<1> DEFINE change == InsertBy(lines[l])
<1>1. change \in Change
  BY Situation, InsertIs
<1>2. "id" \in GivenBy(lines[l])
  BY Situation DEF GivenBy, Writable
<1>3. change.op = "insert" /\ change.values = [c \in GivenBy(lines[l]) |-> lines[l].cells[c]]
  BY DEF InsertBy
<1>4. NewKeys(change) # {}
  BY <1>2, <1>3 DEF NewKeys
<1>5. Final(l) = Inserted(table, change)
  BY DEF Final
<1> HIDE DEF change
<1>6. /\ Inserted(table, change).id = change.values["id"]
      /\ \A c \in DOMAIN change.values : Inserted(table, change)[c] = change.values[c]
  BY <1>1, <1>3, <1>4, InsertedKey
<1>7. \A c \in Columns \ GivenBy(lines[l]) : Final(l)[c] = Default[c]
  <2> SUFFICES ASSUME NEW c \in Columns \ GivenBy(lines[l])
               PROVE  Final(l)[c] = Default[c]
    OBVIOUS
  <2>1. c \in {"a", "b"} /\ c \notin DOMAIN change.values
    BY <1>2, <1>3 DEF Columns
  <2> QED
    BY <1>5, <2>1 DEF Inserted, Overlay, Default
<1> QED
  BY <1>1, <1>2, <1>3, <1>4, <1>5, <1>6, <1>7 DEF change

\* A line's row has the key that the line shows.
LEMMA FinalKey ==
  ASSUME Inv, Writable, NEW l \in DOMAIN lines
  PROVE  Final(l).id = lines[l].cells.id
<1>1. CASE LineRow(l) = 0
  BY <1>1, FinalNew
<1>2. CASE LineRow(l) # 0
  <2> DEFINE i == LineRow(l)
  <2>1. Final(l)["id"] = IF "id" \in SetBy(rows, lines[l], i) THEN lines[l].cells["id"] ELSE rows[i]["id"]
    BY <1>2, FinalOld DEF Columns
  <2>2. ASSUME "id" \notin SetBy(rows, lines[l], i)
        PROVE  lines[l].cells["id"] = rows[i]["id"]
    <3>1. i \in DOMAIN rows /\ "id" \in DOMAIN lines[l].cells
      BY <1>2, Situation
    <3>2. Rendered(rows, i, "id") = rows[i].id
      BY <3>1, Situation, KeysShow
    <3>3. Edited(rows, lines[l], i) \cap Truncated(rows, i) = {}
      BY <1>2 DEF Writable, HasErrors, LineRow
    <3> QED
      BY <2>2, <3>1, <3>2, <3>3 DEF SetBy, Edited
  <2> QED
    BY <2>1, <2>2
<1> QED
  BY <1>1, <1>2

\* The key that a line gives is nobody else's, unless it is its own row's.
LEMMA FreshKey ==
  ASSUME Inv, Writable, NEW D, NEW j \in DOMAIN lines, j \notin D,
         NEW r \in Midway(D), r.id = Final(j).id
  PROVE  LineRow(j) \in Here(D) /\ r = rows[LineRow(j)]
<1>1. r.id = lines[j].cells.id
  BY FinalKey
<1>2. CASE r \in OffPage
  BY <1>1, <1>2 DEF Writable
<1>3. ASSUME NEW i \in Here(D), r = rows[i]
      PROVE  LineRow(j) = i
  <2>1. i \in DOMAIN rows /\ lines[j].cells.id = rows[i].id
    BY <1>1, <1>3 DEF Here
  <2> QED
    BY <2>1, ShownIsRow
<1>4. ASSUME NEW l \in DOMAIN lines \cap D, r = Final(l)
      PROVE  FALSE
  <2>1. Final(l).id = lines[l].cells.id
    BY FinalKey
  <2>2. l = j
    BY <1>1, <1>4, <2>1 DEF Writable
  <2> QED
    BY <2>2
<1>5. r \in OffPage \/ (\E i \in Here(D) : r = rows[i]) \/ (\E l \in DOMAIN lines \cap D : r = Final(l))
  BY DEF Midway
<1> QED
  BY <1>2, <1>3, <1>4, <1>5

\* A row of the page that is still as it was is none of the others.
LEMMA RowApart ==
  ASSUME Inv, Writable, NEW D, NEW i \in Here(D)
  PROVE  /\ rows[i] \notin OffPage
         /\ \A k \in Here(D) : rows[k] = rows[i] => k = i
         /\ \A l \in DOMAIN lines \cap D : Final(l) # rows[i]
<1>1. i \in DOMAIN rows /\ \A l \in DOMAIN lines : LineRow(l) = i => l \notin D
  BY DEF Here
<1>2. rows[i] \notin OffPage
  BY <1>1, Situation
<1>3. ASSUME NEW k \in Here(D), rows[k] = rows[i]
      PROVE  k = i
  <2>1. k \in DOMAIN rows /\ rows[k].id = rows[i].id
    BY <1>3 DEF Here
  <2>2. IsPage(rows)
    BY Situation
  <2> QED
    BY <1>1, <2>1, <2>2 DEF IsPage
<1>4. ASSUME NEW l \in DOMAIN lines \cap D, Final(l) = rows[i]
      PROVE  FALSE
  <2>1. Final(l).id = lines[l].cells.id
    BY FinalKey
  <2>2. lines[l].cells.id = rows[i].id
    BY <1>4, <2>1
  <2>3. LineRow(l) = i
    BY <1>1, <2>2, ShownIsRow
  <2> QED
    BY <1>1, <2>3
<1> QED
  BY <1>2, <1>3, <1>4

\* One line more that is new.
LEMMA MidwayInsert ==
  ASSUME Inv, Writable, NEW D, NEW j \in DOMAIN lines, LineRow(j) = 0, NEW J, J = D \cup {j}
  PROVE  Midway(J) = With(Midway(D), Final(j))
<1>1. Len(lines) \in Nat /\ DOMAIN lines = 1 .. Len(lines) /\ DOMAIN rows = 1 .. Len(rows)
      /\ Len(rows) \in Nat
  BY Situation
<1>2. \A i \in DOMAIN rows : i # 0 /\ Len(lines) + i # j
  BY <1>1
<1>3. Here(J) = Here(D)
  BY <1>2 DEF Here
<1>4. {Final(l) : l \in DOMAIN lines \cap J} = {Final(l) : l \in DOMAIN lines \cap D} \cup {Final(j)}
  OBVIOUS
<1> QED
  BY <1>3, <1>4 DEF Midway, With

\* One line more that is a row of the page.
LEMMA MidwayUpdate ==
  ASSUME Inv, Writable, NEW D, NEW j \in DOMAIN lines, LineRow(j) \in Here(D), NEW J, J = D \cup {j}
  PROVE  Midway(J) = Swap(Midway(D), rows[LineRow(j)], Final(j))
<1> DEFINE i == LineRow(j)
           K == {rows[k] : k \in Here(D)}
           F == {Final(l) : l \in DOMAIN lines \cap D}
<1>1. Len(lines) \in Nat /\ DOMAIN lines = 1 .. Len(lines) /\ DOMAIN rows = 1 .. Len(rows)
      /\ Len(rows) \in Nat
  BY Situation
<1>2. \A k \in DOMAIN rows : Len(lines) + k # j
  BY <1>1
<1>3. Here(J) = Here(D) \ {i}
  BY <1>2 DEF Here
<1>4. {Final(l) : l \in DOMAIN lines \cap J} = F \cup {Final(j)}
  OBVIOUS
<1>5. {rows[k] : k \in Here(J)} = K \ {rows[i]}
  BY <1>3, RowApart
<1>6. rows[i] \notin OffPage /\ rows[i] \notin F
  BY RowApart
<1>7. Midway(D) = OffPage \cup K \cup F
  BY DEF Midway
<1>8. Midway(J) = OffPage \cup (K \ {rows[i]}) \cup (F \cup {Final(j)})
  BY <1>4, <1>5 DEF Midway
<1> HIDE DEF K, F, i
<1>9. Midway(J) = (Midway(D) \ {rows[i]}) \cup {Final(j)}
  BY <1>6, <1>7, <1>8
<1> QED
  BY <1>9 DEF Swap, i

\* One row less that no line is.
LEMMA MidwayDelete ==
  ASSUME Inv, Writable, NEW D, NEW i \in Here(D), \A l \in DOMAIN lines : LineRow(l) # i,
         NEW J, J = D \cup {Len(lines) + i}
  PROVE  Midway(J) = Without(Midway(D), rows[i])
<1> DEFINE K == {rows[k] : k \in Here(D)}
           F == {Final(l) : l \in DOMAIN lines \cap D}
<1>1. Len(lines) \in Nat /\ DOMAIN lines = 1 .. Len(lines) /\ DOMAIN rows = 1 .. Len(rows)
      /\ Len(rows) \in Nat /\ i \in DOMAIN rows
  BY Situation DEF Here
<1>2. /\ \A k \in DOMAIN rows : Len(lines) + k = Len(lines) + i => k = i
      /\ Len(lines) + i \notin DOMAIN lines
  BY <1>1
<1>3. Here(J) = Here(D) \ {i}
  BY <1>2 DEF Here
<1>4. {Final(l) : l \in DOMAIN lines \cap J} = F
  BY <1>2
<1>5. {rows[k] : k \in Here(J)} = K \ {rows[i]}
  BY <1>3, RowApart
<1>6. rows[i] \notin OffPage /\ rows[i] \notin F
  BY RowApart
<1>7. Midway(D) = OffPage \cup K \cup F
  BY DEF Midway
<1>8. Midway(J) = OffPage \cup (K \ {rows[i]}) \cup F
  BY <1>4, <1>5 DEF Midway
<1> HIDE DEF K, F
<1> QED
  BY <1>6, <1>7, <1>8 DEF Without

\* The values an update or an insert takes are not NULL where they may not be.
LEMMA CellsCoerced ==
  ASSUME Inv, Writable, NEW l \in DOMAIN lines, NEW C, C \subseteq DOMAIN lines[l].cells
  PROVE  Coerced([c \in C |-> lines[l].cells[c]])
  BY DEF Coerced, Writable

\* The values of a row of the page are not NULL where they may not be.
LEMMA RowCoerced ==
  ASSUME Inv, Writable, NEW i \in DOMAIN rows, NEW C, C \subseteq Columns
  PROVE  Coerced([c \in C |-> rows[i][c]]) /\ Coerced([id |-> rows[i].id])
<1>1. rows[i].id \in KeyText /\ rows[i]["b"] # Null
  BY Situation DEF Row
<1>2. Null \notin KeyText
  BY ValuesAssumption DEF KeyText, Null, Blank, Cut
<1> QED
  BY <1>1, <1>2 DEF Coerced, Columns, Nullable

\* Each change of the batch is taken, on the table the ones before it leave.
LEMMA UpdateLands ==
  ASSUME Inv, Writable, NEW D, Table(Midway(D)), NEW change, NEW j \in DOMAIN lines, j \notin D,
         LineRow(j) \in Here(D), SetBy(rows, lines[j], LineRow(j)) # {},
         change = UpdateBy(rows, lines[j], LineRow(j)), NEW J, J = D \cup {j}
  PROVE  Run(Midway(D), change).ok /\ Run(Midway(D), change).count = 1
         /\ Run(Midway(D), change).table = Midway(J)
<1> DEFINE t   == Midway(D)
           i   == LineRow(j)
           p   == rows[i]
           set == SetBy(rows, lines[j], i)
<1>1. i \in DOMAIN rows /\ i # 0 /\ p \in t
  BY Situation DEF Here, Midway
<1>2. /\ change.op = "update" /\ change.pk = [id |-> p.id]
      /\ change.set = [c \in set |-> lines[j].cells[c]]
      /\ change.expect = [c \in set |-> p[c]]
  BY DEF UpdateBy
<1>3. set \subseteq DOMAIN lines[j].cells /\ set \subseteq Columns
  BY <1>1, FinalOld, Situation DEF Cells, Partial
<1>4. Coerced(change.set)
  BY <1>2, <1>3, CellsCoerced
<1>5. Coerced(change.pk) /\ Coerced(change.expect)
  BY <1>1, <1>2, <1>3, RowCoerced
<1>6. change.set # None
  <2>1. DOMAIN change.set = set /\ DOMAIN None = {}
    BY <1>2 DEF None
  <2> QED
    BY <2>1
<1>7. Final(j) = Overlay(p, change.set)
  BY <1>1 DEF Final
<1>8. \A r \in t \ {p} : r.id # Final(j).id
  BY FreshKey
<1>9. \A c \in DOMAIN change.expect \ {"id"} : p[c] = change.expect[c]
  BY <1>2
<1>10. Midway(J) = Swap(t, p, Final(j))
  BY MidwayUpdate
<1> HIDE DEF t, i, p, set
<1>11. \A r \in t \ {p} : r.id # Overlay(p, change.set).id
  BY <1>7, <1>8
<1>12. Table(t)
  BY DEF t
<1>13. Run(t, change).ok /\ Run(t, change).count = 1 /\ Run(t, change).table = Swap(t, p, Overlay(p, change.set))
  BY <1>1, <1>2, <1>4, <1>5, <1>6, <1>9, <1>11, <1>12, UpdateOne
<1> QED
  BY <1>7, <1>10, <1>13 DEF t

\* So is an insert.
LEMMA InsertLands ==
  ASSUME Inv, Writable, NEW D, Table(Midway(D)), NEW change, NEW j \in DOMAIN lines, j \notin D,
         LineRow(j) = 0, change = InsertBy(lines[j]), NEW J, J = D \cup {j}
  PROVE  Run(Midway(D), change).ok /\ Run(Midway(D), change).count = 1
         /\ Run(Midway(D), change).table = Midway(J)
<1> DEFINE t     == Midway(D)
           given == GivenBy(lines[j])
<1>1. change.op = "insert" /\ change.values = [c \in given |-> lines[j].cells[c]]
  BY DEF InsertBy
<1>2. "id" \in given /\ given \subseteq DOMAIN lines[j].cells
  BY FinalNew DEF GivenBy
<1>3. Coerced(change.values)
  BY <1>1, <1>2, CellsCoerced
<1>4. change.values # None
  <2>1. DOMAIN change.values = given /\ DOMAIN None = {}
    BY <1>1 DEF None
  <2> QED
    BY <1>2, <2>1
<1>5. Final(j) = Inserted(table, change)
  BY DEF Final
<1>6. Inserted(t, change) = Inserted(table, change)
  <2>1. "id" \in DOMAIN change.values
    BY <1>1, <1>2
  <2> HIDE DEF t
  <2> QED
    BY <2>1 DEF Inserted, Overlay
<1>7. 0 \notin Here(D)
  BY Situation DEF Here
<1>8. \A r \in t : r.id # Final(j).id
  BY <1>7, FreshKey
<1>9. Midway(J) = With(t, Final(j))
  BY MidwayInsert
<1>10. Table(t)
  OBVIOUS
<1> HIDE DEF t, given
<1>11. Run(t, change).ok /\ Run(t, change).count = 1 /\ Run(t, change).table = With(t, Inserted(t, change))
  BY <1>1, <1>3, <1>4, <1>5, <1>6, <1>8, <1>10, InsertOne
<1> QED
  BY <1>5, <1>6, <1>9, <1>11 DEF t

\* So is a delete.
LEMMA DeleteLands ==
  ASSUME Inv, Writable, NEW D, Table(Midway(D)), NEW change, NEW i \in Here(D),
         \A l \in DOMAIN lines : LineRow(l) # i, change = DeleteBy(rows, i),
         NEW J, J = D \cup {Len(lines) + i}
  PROVE  Run(Midway(D), change).ok /\ Run(Midway(D), change).count = 1
         /\ Run(Midway(D), change).table = Midway(J)
<1> DEFINE t == Midway(D)
           p == rows[i]
<1>1. i \in DOMAIN rows /\ p \in t
  BY DEF Here, Midway
<1>2. change.op = "delete" /\ change.expect = None /\ change.pk = [id |-> p.id]
  BY DEF DeleteBy
<1>3. Coerced(change.pk)
  BY <1>1, <1>2, RowCoerced
<1>4. Midway(J) = Without(t, p)
  BY MidwayDelete
<1>5. Table(t)
  OBVIOUS
<1> HIDE DEF t, p
<1>6. "id" \in DOMAIN change.pk /\ change.pk.id = p.id /\ \A c \in DOMAIN change.pk : p[c] = change.pk[c]
  BY <1>2
<1>7. Run(t, change).ok /\ Run(t, change).count = 1 /\ Run(t, change).table = Without(t, p)
  BY <1>1, <1>2, <1>3, <1>5, <1>6, DeleteOne
<1> QED
  BY <1>4, <1>7 DEF t

MadeBy(change, j) == j \in 1 .. Len(lines) + Len(rows) /\ Entries(rows, lines)[j] = <<change>>
Below(D, j) == D \subseteq 1 .. j - 1

\* The change of any entry, after those of some of the entries before it.
LEMMA EntryLands ==
  ASSUME Inv, Writable, NEW j, NEW D, NEW change, NEW J, Below(D, j), MadeBy(change, j),
         Table(Midway(D)), J = D \cup {j}
  PROVE  Run(Midway(D), change).ok /\ Run(Midway(D), change).count = 1
         /\ Run(Midway(D), change).table = Midway(J)
<1>1. Len(lines) \in Nat /\ DOMAIN lines = 1 .. Len(lines) /\ DOMAIN rows = 1 .. Len(rows)
      /\ Len(rows) \in Nat
  BY Situation
<1>2. IsPage(rows) /\ lines \in Seq(Line) /\ Marked(lines, Len(rows))
  BY Situation
<1>0. j \in 1 .. Len(lines) + Len(rows) /\ Entries(rows, lines)[j] = <<change>>
  BY DEF MadeBy
<1>3. j \notin D /\ \A d \in D : d < j
  BY <1>0, <1>1 DEF Below
<1>4. CASE FromNewLine(rows, lines, change, j)
  <2>1. j \in DOMAIN lines /\ LineRow(j) = 0 /\ change = InsertBy(lines[j])
    BY <1>1, <1>4 DEF FromNewLine, LineRow
  <2> QED
    BY <1>3, <2>1, InsertLands
<1>5. CASE FromLine(rows, lines, change, j)
  <2>1. /\ j \in DOMAIN lines /\ LineRow(j) \in DOMAIN rows /\ LineRow(j) # 0
        /\ SetBy(rows, lines[j], LineRow(j)) # {} /\ change = UpdateBy(rows, lines[j], LineRow(j))
    BY <1>1, <1>5 DEF FromLine, LineRow
  <2>2. Len(lines) + LineRow(j) \notin D
    BY <1>1, <1>3, <2>1
  <2>3. \A l \in DOMAIN lines : LineRow(l) = LineRow(j) => l = j
    <3> TAKE l \in DOMAIN lines
    <3> HAVE LineRow(l) = LineRow(j)
    <3>1. RowOf(rows, lines, l) = RowOf(rows, lines, j) /\ RowOf(rows, lines, l) # 0
      BY <2>1 DEF LineRow
    <3> QED
      BY <1>2, <2>1, <3>1, RowOfOnce
  <2>4. LineRow(j) \in Here(D)
    BY <1>3, <2>1, <2>2, <2>3 DEF Here
  <2> QED
    BY <1>3, <2>1, <2>4, UpdateLands
<1>6. CASE FromRow(rows, lines, change, j)
  <2> DEFINE i == j - Len(lines)
  <2>1. i \in DOMAIN rows /\ change = DeleteBy(rows, i) /\ Len(lines) + i = j
        /\ \A l \in DOMAIN lines : LineRow(l) # i
    BY <1>0, <1>1, <1>6 DEF FromRow, LineRow
  <2> HIDE DEF i
  <2>2. i \in Here(D)
    BY <1>3, <2>1 DEF Here
  <2>3. J = D \cup {Len(lines) + i}
    BY <2>1
  <2> QED
    BY <2>1, <2>2, <2>3, DeleteLands
<1> QED
  BY <1>0, <1>2, <1>4, <1>5, <1>6, EntryOf

\* At the start: the table.
LEMMA MidwayStarts ==
  ASSUME Inv, Writable
  PROVE  Midway({}) = table
<1>1. Here({}) = DOMAIN rows /\ DOMAIN lines \cap {} = {}
  BY DEF Here
<1>2. Midway({}) = OffPage \cup {rows[i] : i \in DOMAIN rows}
  BY <1>1 DEF Midway
<1> QED
  BY <1>2, Situation

\* An entry that is empty says that its line is its row as it is.
Finished(D) ==
  \A j \in 1 .. Len(lines) + Len(rows) : j \in D <=> Entries(rows, lines)[j] # <<>>

\* When every change has been carried out, a line without one is its row.
LEMMA LineFinished ==
  ASSUME Inv, Writable, NEW D, Finished(D), NEW l \in DOMAIN lines
  PROVE  /\ LineRow(l) # 0 => Len(lines) + LineRow(l) \notin D
         /\ l \notin D => LineRow(l) # 0 /\ Final(l) = rows[LineRow(l)]
<1> DEFINE e == Entries(rows, lines)
<1>1. /\ Len(lines) \in Nat /\ DOMAIN lines = 1 .. Len(lines) /\ DOMAIN rows = 1 .. Len(rows)
      /\ Len(rows) \in Nat /\ lines[l] \in Line
      /\ LineRow(l) # 0 => LineRow(l) \in DOMAIN rows
  BY Situation
<1>2. IsPage(rows) /\ lines \in Seq(Line) /\ Marked(lines, Len(rows))
  BY Situation
<1>3. /\ \A k \in 1 .. Len(lines) : e[k] = ChangeOf(rows, lines[k], RowOf(rows, lines, k))
      /\ \A i \in 1 .. Len(rows) : e[Len(lines) + i] = DeleteOf(rows, lines, i)
  BY <1>2, EntriesAre
<1>4. \A j \in 1 .. Len(lines) + Len(rows) : j \in D <=> e[j] # <<>>
  BY DEF Finished
<1> HIDE DEF e
<1>5. ASSUME LineRow(l) # 0
      PROVE  Len(lines) + LineRow(l) \notin D
  <2>1. LineRow(l) \in 1 .. Len(rows) /\ Len(lines) + LineRow(l) \in 1 .. Len(lines) + Len(rows)
    BY <1>1, <1>5
  <2>2. DeleteOf(rows, lines, LineRow(l)) = <<>>
    BY <1>1 DEF DeleteOf, LineRow
  <2> QED
    BY <1>3, <1>4, <2>1, <2>2
<1>6. ASSUME l \notin D
      PROVE  LineRow(l) # 0 /\ Final(l) = rows[LineRow(l)]
  <2>1. l \in 1 .. Len(lines) /\ l \in 1 .. Len(lines) + Len(rows)
    BY <1>1
  <2>2. ChangeOf(rows, lines[l], LineRow(l)) = <<>>
    BY <1>3, <1>4, <1>6, <2>1 DEF LineRow
  <2>3. LineRow(l) # 0
    <3> SUFFICES ASSUME LineRow(l) = 0 PROVE FALSE
      OBVIOUS
    <3>1. GivenBy(lines[l]) # {}
      BY FinalNew
    <3>2. InsertOf(lines[l]) = <<InsertBy(lines[l])>>
      BY <1>1, <3>1, InsertIs
    <3> QED
      BY <2>2, <3>2, OneIsOne DEF ChangeOf
  <2>4. SetBy(rows, lines[l], LineRow(l)) = {}
    <3> SUFFICES ASSUME SetBy(rows, lines[l], LineRow(l)) # {} PROVE FALSE
      OBVIOUS
    <3>1. LineRow(l) \in DOMAIN rows
      BY <1>1, <2>3
    <3>2. UpdateOf(rows, lines[l], LineRow(l)) = <<UpdateBy(rows, lines[l], LineRow(l))>>
      BY <1>1, <1>2, <3>1, UpdateIs
    <3> QED
      BY <2>2, <2>3, <3>2, OneIsOne DEF ChangeOf
  <2>5. Final(l) = [c \in Columns |-> rows[LineRow(l)][c]]
    <3>1. Final(l) = [c \in Columns |-> IF c \in SetBy(rows, lines[l], LineRow(l))
                                        THEN lines[l].cells[c] ELSE rows[LineRow(l)][c]]
      BY <2>3, FinalOld
    <3> QED
      BY <2>4, <3>1
  <2>6. rows[LineRow(l)] \in [Columns -> Text]
    BY <2>3, Situation DEF Row
  <2> QED
    BY <2>3, <2>5, <2>6
<1> QED
  BY <1>5, <1>6

\* At the end: the rows off the page, and one row for each line.
LEMMA MidwayEnds ==
  ASSUME Inv, Writable, NEW D, Finished(D)
  PROVE  Midway(D) = OffPage \cup {Final(l) : l \in DOMAIN lines}
<1>1. Len(lines) \in Nat /\ DOMAIN lines = 1 .. Len(lines) /\ DOMAIN rows = 1 .. Len(rows)
      /\ Len(rows) \in Nat
  BY Situation
<1>2. IsPage(rows) /\ lines \in Seq(Line) /\ Marked(lines, Len(rows))
  BY Situation
<1>3. ASSUME NEW i \in Here(D)
      PROVE  \E l \in DOMAIN lines : rows[i] = Final(l)
  <2>1. i \in 1 .. Len(rows) /\ Len(lines) + i \notin D /\ \A l \in DOMAIN lines : LineRow(l) = i => l \notin D
    BY <1>1 DEF Here
  <2>2. Entries(rows, lines)[Len(lines) + i] = <<>>
    <3>1. Len(lines) + i \in 1 .. Len(lines) + Len(rows)
      BY <1>1, <2>1
    <3> QED
      BY <2>1, <3>1 DEF Finished
  <2>3. DeleteOf(rows, lines, i) = <<>>
    BY <1>2, <2>1, <2>2, EntriesAre
  <2>4. PICK l \in DOMAIN lines : LineRow(l) = i
    BY <2>3, OneIsOne DEF DeleteOf, LineRow
  <2>5. l \notin D
    BY <2>1, <2>4
  <2>6. Final(l) = rows[LineRow(l)]
    BY <2>5, LineFinished
  <2> QED
    BY <2>4, <2>6
<1>4. ASSUME NEW l \in DOMAIN lines, l \notin D
      PROVE  \E i \in Here(D) : Final(l) = rows[i]
  <2>1. LineRow(l) # 0 /\ Final(l) = rows[LineRow(l)] /\ Len(lines) + LineRow(l) \notin D
    BY <1>4, LineFinished
  <2>2. \A m \in DOMAIN lines : LineRow(m) = LineRow(l) => m = l
    <3> TAKE m \in DOMAIN lines
    <3> HAVE LineRow(m) = LineRow(l)
    <3>1. RowOf(rows, lines, m) = RowOf(rows, lines, l) /\ RowOf(rows, lines, m) # 0
      BY <2>1 DEF LineRow
    <3> QED
      BY <1>2, <3>1, RowOfOnce
  <2>3. LineRow(l) \in DOMAIN rows
    BY <2>1, Situation
  <2>4. LineRow(l) \in Here(D)
    BY <1>4, <2>1, <2>2, <2>3 DEF Here
  <2> QED
    BY <2>1, <2>4
<1> QED
  BY <1>3, <1>4 DEF Midway

\* The whole change set is taken.
LEMMA BatchLands ==
  ASSUME Inv, Writable
  PROVE  /\ ApplyChanges(table, Pending).ok
         /\ ApplyChanges(table, Pending).table = OffPage \cup {Final(l) : l \in DOMAIN lines}
<1> DEFINE size == Len(Pending)
           all  == Len(lines) + Len(rows)
<1>1. IsPage(rows) /\ lines \in Seq(Line) /\ Marked(lines, Len(rows)) /\ Table(table)
  BY Situation
<1>2. Len(lines) \in Nat /\ Len(rows) \in Nat /\ all \in Nat
  BY Situation
<1>3. PICK at : Picks(Entries(rows, lines), all, Pending, at)
  BY <1>1, ChangesPick DEF Pending
<1>4. Pending \in Seq(Change) /\ size \in Nat
  <2>1. Pending \in Seq(Change)
    BY <1>1, ChangesPick DEF Pending
  <2> QED
    BY <2>1
<1> DEFINE ran     == Ran(table, Pending)
           Done(n) == {at[m] : m \in 1 .. n}
           S       == {n \in Nat : ran[n].ok /\ ran[n].table = Midway(Done(n))}
<1>5. ran[0].ok /\ ran[0].table = table
  <2>1. ran[0] = [ok |-> TRUE, table |-> table]
    BY <1>4, RanStarts
  <2> QED
    BY <2>1
<1>6. \A n \in 0 .. size - 1 : ran[n + 1] = ApplyNext(ran[n], Pending[n + 1])
  BY <1>4, RanSteps
<1>7. \A n \in 0 .. size : Table(ran[n].table)
  BY <1>1, <1>4, RanKeepsTable
<1> HIDE DEF ran, size, all
<1>8. 0 \in S
  <2>1. Done(0) = {}
    OBVIOUS
  <2> HIDE DEF Done
  <2> QED
    BY <1>5, <2>1, MidwayStarts
<1>9. ASSUME NEW n \in 0 .. size - 1, n \in S
      PROVE  n + 1 \in S
  <2> DEFINE j == at[n + 1]
             D == Done(n)
             J == Done(n + 1)
             change == Pending[n + 1]
             result == Run(Midway(D), change)
  <2>1. n \in Nat /\ n + 1 \in Nat /\ n + 1 \in 1 .. size /\ n \in 0 .. size
    BY <1>4
  <2>2. /\ at \in [1 .. size -> 1 .. all]
        /\ \A m \in 1 .. size : Entries(rows, lines)[at[m]] = <<Pending[m]>>
        /\ \A l, m \in 1 .. size : l < m => at[l] < at[m]
    BY <1>3 DEF Picks, size
  <2>3. j \in 1 .. all /\ Entries(rows, lines)[j] = <<change>>
    BY <2>1, <2>2
  <2>4. D \subseteq 1 .. j - 1
    <3> SUFFICES ASSUME NEW m \in 1 .. n
                 PROVE  at[m] \in 1 .. j - 1
      OBVIOUS
    <3>1. m \in 1 .. size /\ m < n + 1
      BY <1>4, <2>1
    <3>2. at[m] < j /\ at[m] \in 1 .. all
      BY <2>1, <2>2, <3>1
    <3> QED
      BY <1>2, <2>3, <3>2
  <2>5. J = D \cup {j}
    <3>1. 1 .. n + 1 = (1 .. n) \cup {n + 1}
      BY <2>1
    <3> QED
      BY <3>1
  <2>6. ran[n].ok /\ ran[n].table = Midway(D) /\ Table(Midway(D))
    BY <1>7, <1>9, <2>1
  <2>7. ran[n + 1] = ApplyNext(ran[n], change)
    BY <1>6
  <2> HIDE DEF D, J, j, change, result
  <2>8. result.ok /\ result.count = 1 /\ result.table = Midway(J)
    <3>1. MadeBy(change, j)
      BY <2>3 DEF all, MadeBy
    <3>2. Below(D, j)
      BY <2>4 DEF Below
    <3>3. Table(Midway(D))
      BY <2>6
    <3>4. J = D \cup {j}
      BY <2>5
    <3>5. Run(Midway(D), change).ok /\ Run(Midway(D), change).count = 1
          /\ Run(Midway(D), change).table = Midway(J)
      BY <3>1, <3>2, <3>3, <3>4, EntryLands
    <3> QED
      BY <3>5 DEF result
  <2>9. ran[n + 1].ok /\ ran[n + 1].table = Midway(J)
    BY <2>6, <2>7, <2>8 DEF ApplyNext, result
  <2> QED
    BY <2>1, <2>9 DEF J
<1>10. size \in S
  <2> HIDE DEF S
  <2>1. 0 .. size \subseteq S
    BY <1>4, <1>8, <1>9, Induction, Zenon
  <2>2. size \in 0 .. size
    BY <1>4 DEF size
  <2> QED
    BY <2>1, <2>2
<1>11. Finished(Done(size))
  <2> SUFFICES ASSUME NEW j \in 1 .. all
               PROVE  j \in Done(size) <=> Entries(rows, lines)[j] # <<>>
    BY DEF Finished, all
  <2>1. /\ at \in [1 .. size -> 1 .. all]
        /\ \A m \in 1 .. size : Entries(rows, lines)[at[m]] = <<Pending[m]>>
        /\ Entries(rows, lines)[j] # <<>> => \E m \in 1 .. size : at[m] = j
    BY <1>3 DEF Picks, size
  <2> QED
    BY <2>1, OneIsOne
<1>12. Midway(Done(size)) = OffPage \cup {Final(l) : l \in DOMAIN lines}
  <2> HIDE DEF Done
  <2> QED
    BY <1>11, MidwayEnds
<1>13. ran[size].ok /\ ran[size].table = Midway(Done(size))
  BY <1>10
<1>14. ApplyChanges(table, Pending) = ran[size]
  BY <1>13 DEF ApplyChanges, ran, size
<1> QED
  BY <1>12, <1>13, <1>14

\* A line's row holds what the line shows, and what it does not show is kept.
LEMMA FinalHolds ==
  ASSUME Inv, Writable, NEW l \in DOMAIN lines
  PROVE  Holds(Final(l), lines[l])
<1> DEFINE row  == Final(l)
           line == lines[l]
           was  == {r \in table : r.id = row.id}
<1>1. row.id = line.cells.id
  BY FinalKey
<1>2. \A r \in was : LineRow(l) # 0 /\ r = rows[LineRow(l)]
  <2> SUFFICES ASSUME NEW r \in was
               PROVE  LineRow(l) # 0 /\ r = rows[LineRow(l)]
    OBVIOUS
  <2>1. r \in table /\ r.id = line.cells.id
    BY <1>1
  <2>2. r \notin OffPage
    BY <2>1 DEF Writable
  <2>3. PICK i \in DOMAIN rows : r = rows[i]
    BY <2>1, <2>2, Situation
  <2>4. LineRow(l) = i /\ i # 0
    BY <2>1, <2>3, ShownIsRow, Situation
  <2> QED
    BY <2>3, <2>4
<1>3. ASSUME NEW c \in Columns, c \in DOMAIN line.cells, line.cells[c] # Cut
      PROVE  \/ row[c] = line.cells[c]
             \/ line.cells[c] = Blank /\ was = {} /\ row[c] = Default[c]
  <2>1. CASE LineRow(l) = 0
    <3>1. was = {}
      BY <1>2, <2>1
    <3>2. c \in GivenBy(line) => row[c] = line.cells[c]
      BY <2>1, FinalNew
    <3>3. c \notin GivenBy(line) => row[c] = Default[c] /\ line.cells[c] = Blank
      BY <1>3, <2>1, FinalNew DEF GivenBy
    <3> QED
      BY <3>1, <3>2, <3>3
  <2>2. CASE LineRow(l) # 0
    <3>1. row[c] = IF c \in SetBy(rows, line, LineRow(l)) THEN line.cells[c] ELSE rows[LineRow(l)][c]
      BY <2>2, FinalOld
    <3>2. c \notin SetBy(rows, line, LineRow(l)) => line.cells[c] = rows[LineRow(l)][c]
      BY <1>3, <2>2, NotSet
    <3> QED
      BY <3>1, <3>2
  <2> QED
    BY <2>1, <2>2
<1>4. ASSUME NEW c \in Columns, ~ (c \in DOMAIN line.cells /\ line.cells[c] # Cut), NEW r \in was
      PROVE  row[c] = r[c]
  <2>1. LineRow(l) # 0 /\ r = rows[LineRow(l)]
    BY <1>2
  <2>2. row[c] = IF c \in SetBy(rows, line, LineRow(l)) THEN line.cells[c] ELSE rows[LineRow(l)][c]
    BY <2>1, FinalOld
  <2>3. c \notin SetBy(rows, line, LineRow(l))
    <3>1. CASE c \notin DOMAIN line.cells
      BY <3>1 DEF SetBy, Edited
    <3>2. CASE c \in DOMAIN line.cells /\ line.cells[c] = Cut
      <4>1. Rendered(rows, RowOf(rows, lines, l), c) = Cut
        BY <3>2 DEF Writable
      <4> QED
        BY <3>2, <4>1 DEF SetBy, Edited, LineRow
    <3> QED
      BY <1>4, <3>1, <3>2
  <2> QED
    BY <2>1, <2>2, <2>3
<1> HIDE DEF row, line
<1>5. \A c \in Columns :
        IF c \in DOMAIN line.cells /\ line.cells[c] # Cut
        THEN \/ row[c] = line.cells[c]
             \/ line.cells[c] = Blank /\ was = {} /\ row[c] = Default[c]
        ELSE \A r \in was : row[c] = r[c]
  <2> HIDE DEF was
  <2> QED
    BY <1>3, <1>4
<1>6. Holds(row, line)
  BY <1>5 DEF Holds
<1> QED
  BY <1>6 DEF row, line

\* As many rows as lines.
LEMMA FinalsCount ==
  ASSUME Inv, Writable
  PROVE  Cardinality(OffPage \cup {Final(l) : l \in DOMAIN lines}) = Cardinality(OffPage) + Len(lines)
<1> DEFINE U(n) == OffPage \cup {Final(l) : l \in 1 .. n}
           size == Len(lines)
           off  == Cardinality(OffPage)
           S    == {n \in Nat : IsFiniteSet(U(n)) /\ Cardinality(U(n)) = off + n}
<1>1. size \in Nat /\ DOMAIN lines = 1 .. size
  BY Situation
<1>2. IsFiniteSet(OffPage) /\ off \in Nat
  <2>1. IsFiniteSet(table)
    BY Situation DEF Table
  <2>2. IsFiniteSet(OffPage)
    BY <2>1, FS_Difference DEF OffPage
  <2> QED
    BY <2>2, FS_CardinalityType
<1> HIDE DEF size, off
<1>3. 0 \in S
  <2>1. U(0) = OffPage
    OBVIOUS
  <2> HIDE DEF U
  <2> QED
    BY <1>2, <2>1 DEF off
<1>4. ASSUME NEW n \in 0 .. size - 1, n \in S
      PROVE  n + 1 \in S
  <2>1. n \in Nat /\ n + 1 \in Nat /\ n + 1 \in DOMAIN lines /\ 1 .. n \subseteq DOMAIN lines
        /\ n + 1 \notin 1 .. n
    BY <1>1
  <2>2. Final(n + 1) \notin U(n)
    <3>1. Final(n + 1).id = lines[n + 1].cells.id
      BY <2>1, FinalKey
    <3>2. Final(n + 1) \notin OffPage
      BY <2>1, <3>1 DEF Writable
    <3>3. ASSUME NEW l \in 1 .. n, Final(l) = Final(n + 1)
          PROVE  FALSE
      <4>1. l \in DOMAIN lines /\ l # n + 1
        BY <2>1
      <4>2. Final(l).id = lines[l].cells.id
        BY <4>1, FinalKey
      <4> QED
        BY <2>1, <3>1, <3>3, <4>1, <4>2 DEF Writable
    <3> QED
      BY <3>2, <3>3
  <2>3. U(n + 1) = U(n) \cup {Final(n + 1)}
    <3>1. 1 .. n + 1 = (1 .. n) \cup {n + 1}
      BY <2>1
    <3> QED
      BY <3>1
  <2> HIDE DEF U
  <2>4. IsFiniteSet(U(n)) /\ Cardinality(U(n)) = off + n
    BY <1>4
  <2>5. IsFiniteSet(U(n + 1)) /\ Cardinality(U(n + 1)) = Cardinality(U(n)) + 1
    BY <2>2, <2>3, <2>4, FS_AddElement
  <2> QED
    BY <1>2, <2>1, <2>4, <2>5
<1>5. size \in S
  <2> HIDE DEF S
  <2>1. 0 .. size \subseteq S
    BY <1>1, <1>3, <1>4, Induction, Zenon
  <2>2. size \in 0 .. size
    BY <1>1
  <2> QED
    BY <2>1, <2>2
<1>6. Cardinality(U(size)) = off + size
  BY <1>5
<1> QED
  BY <1>1, <1>6 DEF size, off

\* While the page is what the table holds and the lines are rows that it can hold,
\* :w makes the table the rows off the page and one row for each line, with what
\* the line shows, however the lines were moved, copied, retyped and marked
\* (data/diff.lua and apply_changes of the adapters together).
THEOREM WritePutsLines == Spec => []WriteMakesItSo
<1>1. Inv => WriteMakesItSo
  <2> SUFFICES ASSUME Inv, Writable
               PROVE  LET result == ApplyChanges(table, Pending)
                      IN  /\ result.ok
                          /\ OffPage \subseteq result.table
                          /\ Cardinality(result.table) = Cardinality(OffPage) + Len(lines)
                          /\ \A l \in DOMAIN lines : \E row \in result.table :
                               row.id = lines[l].cells.id /\ Holds(row, lines[l])
    BY DEF WriteMakesItSo
  <2> DEFINE result == ApplyChanges(table, Pending)
  <2>1. result.ok /\ result.table = OffPage \cup {Final(l) : l \in DOMAIN lines}
    BY BatchLands
  <2> HIDE DEF result
  <2>2. Cardinality(result.table) = Cardinality(OffPage) + Len(lines)
    BY <2>1, FinalsCount
  <2>3. ASSUME NEW l \in DOMAIN lines
        PROVE  \E row \in result.table : row.id = lines[l].cells.id /\ Holds(row, lines[l])
    <3>1. Final(l) \in result.table
      BY <2>1
    <3>2. Final(l).id = lines[l].cells.id /\ Holds(Final(l), lines[l])
      BY FinalKey, FinalHolds
    <3> QED
      BY <3>1, <3>2
  <2>4. OffPage \subseteq result.table
    BY <2>1
  <2> QED
    BY <2>1, <2>2, <2>3, <2>4 DEF result
<1> QED
  BY <1>1, BufferInvariant, PTL
=============================================================================
