---------------------------- MODULE ExportProofs ----------------------------
(* What holds of exports for every job, size of batch and partition: the       *)
(* locals of run() keep their ranges, a file that was there is kept, and a     *)
(* success wrote every row once.                                               *)
EXTENDS Interchange, FiniteSetTheorems, SequenceTheorems, WellFoundedInduction, TLAPS

-----------------------------------------------------------------------------
(* Induction over numbers, said of sets. *)

\* A set of numbers that is not empty has a least one.
LEMMA LeastNumber ==
  ASSUME NEW T, T \subseteq Nat, T # {}
  PROVE  \E x \in T : \A y \in T : x <= y
<1> DEFINE R == OpToRel(<, Nat)
<1>1. IsWellFoundedOn(R, Nat)
  BY NatLessThanWellFounded
<1>2. \A x, y \in Nat : y < x => <<y, x>> \in R
  BY DEF OpToRel
<1> HIDE DEF R
<1>3. PICK x \in T : \A y \in T : ~ (<<y, x>> \in R)
  BY <1>1, WFMin
<1>4. \A y \in T : x <= y
  <2> TAKE y \in T
  <2>1. x \in Nat /\ y \in Nat
    OBVIOUS
  <2>2. ~ (y < x)
    BY <1>2, <1>3, <2>1
  <2> QED
    BY <2>1, <2>2
<1> QED
  BY <1>4

\* A set that holds 0 and with every number the next holds all numbers.
LEMMA EveryNumber ==
  ASSUME NEW S, 0 \in S, \A n \in Nat : n \in S => n + 1 \in S
  PROVE  \A n \in Nat : n \in S
<1> DEFINE T == Nat \ S
<1> SUFFICES ASSUME T # {} PROVE FALSE
  OBVIOUS
<1>1. PICK x \in T : \A y \in T : x <= y
  BY LeastNumber
<1>2. x \in Nat /\ x # 0
  OBVIOUS
<1>3. x - 1 \in Nat /\ ~ (x <= x - 1) /\ (x - 1) + 1 = x
  BY <1>2
<1>4. x - 1 \in S
  BY <1>1, <1>3
<1> QED
  BY <1>3, <1>4

-----------------------------------------------------------------------------
(* The rows of a set of reports: the sum of a set without one of its members   *)
(* is less by what that member adds, whichever the sum takes first.            *)

Picked(s) == CHOOSE x \in s : TRUE

RowsOf(T) == MapThenSumSet(LAMBDA f : f.rows, T)

\* The subsets of T of n members at most.
UpTo(T, n) == {s \in SUBSET T : Cardinality(s) <= n}

\* What is to be added for a set, the sums of the smaller ones being known.
AddedUp(g, s) == IF s = {} THEN 0 ELSE Picked(s).rows + g[s \ {Picked(s)}]

SumsTo(T, n, g) == g = [s \in UpTo(T, n) |-> AddedUp(g, s)]
Sums(T, g) == g = [s \in SUBSET T |-> AddedUp(g, s)]

Counts(T) == IsFiniteSet(T) /\ \A x \in T : x.rows \in Nat

LEMMA PickedIn ==
  ASSUME NEW s, s # {}
  PROVE  Picked(s) \in s
BY DEF Picked

LEMMA SmallerSet ==
  ASSUME NEW s, NEW x \in s, IsFiniteSet(s)
  PROVE  /\ IsFiniteSet(s \ {x})
         /\ Cardinality(s \ {x}) = Cardinality(s) - 1
         /\ Cardinality(s) \in Nat \ {0}
<1>1. IsFiniteSet(s \ {x}) /\ Cardinality(s \ {x}) = Cardinality(s) - 1
  BY FS_RemoveElement
<1>2. Cardinality(s) \in Nat
  BY FS_CardinalityType
<1>3. Cardinality(s) # 0
  BY FS_EmptySet
<1> QED
  BY <1>1, <1>2, <1>3

LEMMA OneLess ==
  ASSUME NEW s, NEW x \in s, IsFiniteSet(s), NEW n \in Nat, Cardinality(s) = n + 1
  PROVE  Cardinality(s \ {x}) = n
<1>1. Cardinality(s \ {x}) = Cardinality(s) - 1
  BY SmallerSet
<1> QED
  BY <1>1

LEMMA SubsetFinite ==
  ASSUME NEW T, IsFiniteSet(T), NEW s \in SUBSET T
  PROVE  IsFiniteSet(s) /\ Cardinality(s) \in Nat /\ Cardinality(s) <= Cardinality(T)
BY FS_Subset, FS_CardinalityType

LEMMA SumsExistTo ==
  ASSUME NEW T, IsFiniteSet(T)
  PROVE  \A n \in Nat : \E g : SumsTo(T, n, g)
<1> DEFINE S == {n \in Nat : \E g : SumsTo(T, n, g)}
<1>1. 0 \in S
  <2> DEFINE g == [s \in UpTo(T, 0) |-> 0]
  <2>1. ASSUME NEW s \in UpTo(T, 0) PROVE s = {}
    <3>1. s \in SUBSET T /\ Cardinality(s) <= 0
      BY DEF UpTo
    <3>2. IsFiniteSet(s) /\ Cardinality(s) = 0
      BY <3>1, SubsetFinite
    <3> QED
      BY <3>2, FS_EmptySet
  <2>2. \A s \in UpTo(T, 0) : g[s] = AddedUp(g, s)
    BY <2>1 DEF AddedUp
  <2>3. SumsTo(T, 0, g)
    BY <2>2 DEF SumsTo
  <2> QED
    BY <2>3
<1>2. ASSUME NEW n \in Nat, n \in S
      PROVE  n + 1 \in S
  <2>1. PICK g : SumsTo(T, n, g)
    BY <1>2
  <2> DEFINE h == [s \in UpTo(T, n + 1) |-> AddedUp(g, s)]
  <2>2. ASSUME NEW s \in UpTo(T, n + 1), s # {}
        PROVE  s \ {Picked(s)} \in UpTo(T, n)
    <3>1. s \in SUBSET T /\ Cardinality(s) <= n + 1
      BY DEF UpTo
    <3>2. Picked(s) \in s
      BY <2>2, PickedIn
    <3>3. IsFiniteSet(s) /\ Cardinality(s) \in Nat
      BY <3>1, SubsetFinite
    <3>4. Cardinality(s \ {Picked(s)}) = Cardinality(s) - 1
      BY <3>2, <3>3, SmallerSet
    <3>5. Cardinality(s \ {Picked(s)}) <= n
      BY <3>1, <3>3, <3>4
    <3> QED
      BY <3>1, <3>5 DEF UpTo
  <2>3. ASSUME NEW s \in UpTo(T, n)
        PROVE  s \in UpTo(T, n + 1) /\ h[s] = g[s]
    <3>1. s \in SUBSET T /\ Cardinality(s) \in Nat /\ Cardinality(s) <= n
      BY SubsetFinite DEF UpTo
    <3>2. s \in UpTo(T, n + 1)
      BY <3>1 DEF UpTo
    <3>3. g[s] = AddedUp(g, s)
      BY <2>1 DEF SumsTo
    <3> QED
      BY <3>2, <3>3
  <2>4. \A s \in UpTo(T, n + 1) : h[s] = AddedUp(g, s)
    OBVIOUS
  <2> HIDE DEF h
  <2>5. \A s \in UpTo(T, n + 1) : AddedUp(h, s) = AddedUp(g, s)
    BY <2>2, <2>3 DEF AddedUp
  <2>6. SumsTo(T, n + 1, h)
    BY <2>4, <2>5 DEF SumsTo, h
  <2> QED
    BY <2>6
<1> HIDE DEF S
<1>3. \A n \in Nat : n \in S
  BY <1>1, <1>2, EveryNumber
<1> QED
  BY <1>3 DEF S

LEMMA SumsExist ==
  ASSUME NEW T, IsFiniteSet(T)
  PROVE  \E g : Sums(T, g)
<1>1. Cardinality(T) \in Nat
  BY FS_CardinalityType
<1>2. UpTo(T, Cardinality(T)) = SUBSET T
  BY SubsetFinite DEF UpTo
<1>3. PICK g : SumsTo(T, Cardinality(T), g)
  BY <1>1, SumsExistTo
<1> QED
  BY <1>2, <1>3 DEF SumsTo, Sums

LEMMA RowsOfIs ==
  ASSUME NEW T, IsFiniteSet(T)
  PROVE  \E g : Sums(T, g) /\ RowsOf(T) = g[T]
<1> DEFINE it == CHOOSE g : Sums(T, g)
<1>1. Sums(T, it)
  BY SumsExist
<1>2. RowsOf(T) = it[T]
  BY DEF RowsOf, MapThenSumSet, MapThenFoldSet, Sums, AddedUp, Picked
<1> QED
  BY <1>1, <1>2

\* The sums of two sets agree on what is a subset of both.
LEMMA SumsAgree ==
  ASSUME NEW T, NEW g, Sums(T, g), NEW U, NEW h, Sums(U, h), IsFiniteSet(T)
  PROVE  \A s \in (SUBSET T) \cap (SUBSET U) : g[s] = h[s]
<1> DEFINE S == {n \in Nat : \A s \in (SUBSET T) \cap (SUBSET U) :
                                Cardinality(s) = n => g[s] = h[s]}
<1>1. \A s \in (SUBSET T) \cap (SUBSET U) : g[s] = AddedUp(g, s) /\ h[s] = AddedUp(h, s)
  BY DEF Sums
<1>2. 0 \in S
  <2>1. ASSUME NEW s \in (SUBSET T) \cap (SUBSET U), Cardinality(s) = 0
        PROVE  g[s] = h[s]
    <3>1. s = {}
      BY <2>1, SubsetFinite, FS_EmptySet
    <3> QED
      BY <3>1, <1>1 DEF AddedUp
  <2> QED
    BY <2>1
<1>3. ASSUME NEW n \in Nat, n \in S
      PROVE  n + 1 \in S
  <2>1. ASSUME NEW s \in (SUBSET T) \cap (SUBSET U), Cardinality(s) = n + 1
        PROVE  g[s] = h[s]
    <3>1. IsFiniteSet(s)
      BY SubsetFinite
    <3>2. s # {}
      BY <2>1, FS_EmptySet
    <3>3. Picked(s) \in s
      BY <3>2, PickedIn
    <3>4. Cardinality(s \ {Picked(s)}) = n
      BY <3>1, <3>3, <2>1, OneLess
    <3>5. g[s \ {Picked(s)}] = h[s \ {Picked(s)}]
      BY <3>4, <1>3
    <3> QED
      BY <3>2, <3>5, <1>1 DEF AddedUp
  <2> QED
    BY <2>1
<1> HIDE DEF S
<1>4. \A n \in Nat : n \in S
  BY <1>2, <1>3, EveryNumber
<1> QED
  BY <1>4, SubsetFinite DEF S

\* The first member a sum takes, and what is left of it.
LEMMA RowsOfFirst ==
  ASSUME NEW T, IsFiniteSet(T), T # {}
  PROVE  RowsOf(T) = Picked(T).rows + RowsOf(T \ {Picked(T)})
<1>1. PICK g : Sums(T, g) /\ RowsOf(T) = g[T]
  BY RowsOfIs
<1>2. Picked(T) \in T
  BY PickedIn
<1> DEFINE U == T \ {Picked(T)}
<1>3. IsFiniteSet(U)
  BY <1>2, SmallerSet
<1>4. PICK h : Sums(U, h) /\ RowsOf(U) = h[U]
  BY <1>3, RowsOfIs
<1>5. g[U] = h[U]
  BY <1>1, <1>4, SumsAgree
<1>6. g[T] = AddedUp(g, T)
  BY <1>1 DEF Sums
<1> QED
  BY <1>1, <1>4, <1>5, <1>6 DEF AddedUp

LEMMA RowsOfNone == RowsOf({}) = 0
<1>1. IsFiniteSet({})
  BY FS_EmptySet
<1>2. PICK g : Sums({}, g) /\ RowsOf({}) = g[{}]
  BY <1>1, RowsOfIs
<1>3. g[{}] = AddedUp(g, {})
  BY <1>2 DEF Sums
<1> QED
  BY <1>2, <1>3 DEF AddedUp

LEMMA RowsOfNumber ==
  ASSUME NEW T, Counts(T)
  PROVE  RowsOf(T) \in Nat
<1> DEFINE S == {n \in Nat : \A s \in SUBSET T : Cardinality(s) = n => RowsOf(s) \in Nat}
<1>1. 0 \in S
  <2>1. ASSUME NEW s \in SUBSET T, Cardinality(s) = 0
        PROVE  RowsOf(s) \in Nat
    <3>1. s = {}
      BY <2>1, SubsetFinite, FS_EmptySet DEF Counts
    <3> QED
      BY <3>1, RowsOfNone
  <2> QED
    BY <2>1
<1>2. ASSUME NEW n \in Nat, n \in S
      PROVE  n + 1 \in S
  <2>1. ASSUME NEW s \in SUBSET T, Cardinality(s) = n + 1
        PROVE  RowsOf(s) \in Nat
    <3>1. IsFiniteSet(s) /\ s # {}
      BY <2>1, SubsetFinite, FS_EmptySet DEF Counts
    <3>2. Picked(s) \in s
      BY <3>1, PickedIn
    <3>3. Cardinality(s \ {Picked(s)}) = n
      BY <3>1, <3>2, <2>1, OneLess
    <3>4. RowsOf(s \ {Picked(s)}) \in Nat
      BY <3>3, <1>2
    <3>5. Picked(s).rows \in Nat
      BY <3>2 DEF Counts
    <3> QED
      BY <3>1, <3>4, <3>5, RowsOfFirst
  <2> QED
    BY <2>1
<1> HIDE DEF S
<1>3. \A n \in Nat : n \in S
  BY <1>1, <1>2, EveryNumber
<1> QED
  BY <1>3, SubsetFinite DEF S, Counts

\* Whichever member is taken out.
LEMMA RowsOfAny ==
  ASSUME NEW T, Counts(T), NEW x \in T
  PROVE  RowsOf(T) = x.rows + RowsOf(T \ {x})
<1> DEFINE S == {n \in Nat : \A s \in SUBSET T : Cardinality(s) = n =>
                                \A y \in s : RowsOf(s) = y.rows + RowsOf(s \ {y})}
<1>1. 0 \in S
  <2>1. ASSUME NEW s \in SUBSET T, Cardinality(s) = 0
        PROVE  s = {}
    BY <2>1, SubsetFinite, FS_EmptySet DEF Counts
  <2> QED
    BY <2>1
<1>2. ASSUME NEW n \in Nat, n \in S
      PROVE  n + 1 \in S
  <2>1. ASSUME NEW s \in SUBSET T, Cardinality(s) = n + 1, NEW y \in s
        PROVE  RowsOf(s) = y.rows + RowsOf(s \ {y})
    <3>1. IsFiniteSet(s) /\ s # {}
      BY SubsetFinite DEF Counts
    <3> DEFINE z == Picked(s)
    <3>2. z \in s
      BY <3>1, PickedIn
    <3>3. RowsOf(s) = z.rows + RowsOf(s \ {z})
      BY <3>1, RowsOfFirst
    <3> HIDE DEF z
    <3>4. CASE y = z
      BY <3>3, <3>4
    <3>5. CASE y # z
      <4> DEFINE both == s \ {y, z}
      <4>1. Cardinality(s \ {z}) = n /\ Cardinality(s \ {y}) = n
        BY <3>1, <3>2, <2>1, OneLess
      <4>2. RowsOf(s \ {z}) = y.rows + RowsOf((s \ {z}) \ {y})
        BY <4>1, <3>5, <1>2
      <4>3. RowsOf(s \ {y}) = z.rows + RowsOf((s \ {y}) \ {z})
        BY <4>1, <3>2, <3>5, <1>2
      <4>4. (s \ {z}) \ {y} = both /\ (s \ {y}) \ {z} = both
        OBVIOUS
      <4>5. Counts(both)
        BY SubsetFinite DEF Counts
      <4>6. RowsOf(both) \in Nat /\ y.rows \in Nat /\ z.rows \in Nat
        BY <4>5, <3>2, RowsOfNumber DEF Counts
      <4>7. RowsOf(s \ {z}) = y.rows + RowsOf(both) /\ RowsOf(s \ {y}) = z.rows + RowsOf(both)
        BY <4>2, <4>3, <4>4
      <4> HIDE DEF both
      <4> QED
        BY <3>3, <4>6, <4>7
    <3> QED
      BY <3>4, <3>5
  <2> QED
    BY <2>1
<1> HIDE DEF S
<1>3. \A n \in Nat : n \in S
  BY <1>1, <1>2, EveryNumber
<1>4. Cardinality(T) \in Nat /\ T \in SUBSET T
  BY FS_CardinalityType DEF Counts
<1> QED
  BY <1>3, <1>4 DEF S

LEMMA RowsOfWith ==
  ASSUME NEW T, Counts(T), NEW x, x \notin T, x.rows \in Nat
  PROVE  /\ Counts(T \cup {x})
         /\ RowsOf(T \cup {x}) = RowsOf(T) + x.rows
<1>1. Counts(T \cup {x})
  <2>1. IsFiniteSet(T \cup {x})
    BY FS_AddElement DEF Counts
  <2> QED
    BY <2>1 DEF Counts
<1>2. (T \cup {x}) \ {x} = T
  OBVIOUS
<1>3. RowsOf(T \cup {x}) = x.rows + RowsOf((T \cup {x}) \ {x})
  <2>1. x \in T \cup {x}
    OBVIOUS
  <2> QED
    BY <1>1, <2>1, RowsOfAny
<1>4. RowsOf(T \cup {x}) = x.rows + RowsOf(T)
  BY <1>2, <1>3
<1>5. RowsOf(T) \in Nat
  BY RowsOfNumber
<1> HIDE DEF RowsOf
<1> QED
  BY <1>1, <1>4, <1>5

\* A member is exchanged for one of another count.
LEMMA RowsOfChanged ==
  ASSUME NEW T, Counts(T), NEW x \in T, NEW y, y \notin T, y.rows \in Nat
  PROVE  /\ Counts((T \ {x}) \cup {y})
         /\ RowsOf((T \ {x}) \cup {y}) = RowsOf(T) - x.rows + y.rows
<1> DEFINE U == T \ {x}
<1>1. Counts(U)
  <2>1. U \in SUBSET T /\ IsFiniteSet(T)
    BY DEF Counts
  <2>2. IsFiniteSet(U)
    BY <2>1, SubsetFinite
  <2> QED
    BY <2>2 DEF Counts
<1>2. RowsOf(T) = x.rows + RowsOf(U)
  BY RowsOfAny
<1>3. y \notin U
  OBVIOUS
<1>4. RowsOf(U) \in Nat /\ x.rows \in Nat
  BY <1>1, RowsOfNumber DEF Counts
<1> HIDE DEF U
<1>5. Counts(U \cup {y}) /\ RowsOf(U \cup {y}) = RowsOf(U) + y.rows
  BY <1>1, <1>3, RowsOfWith
<1> QED
  BY <1>2, <1>4, <1>5 DEF U

-----------------------------------------------------------------------------
(* Batches and limits *)

IsSeq(s) == s \in Seq(Range(s))

LEMMA MinOfTwo ==
  ASSUME NEW a \in Int, NEW b \in Int
  PROVE  Min({a, b}) = IF a <= b THEN a ELSE b
BY DEF Min

LEMMA JobFacts ==
  ASSUME NEW job \in Jobs
  PROVE  /\ IsSeq(job.rows) /\ Len(job.rows) \in Nat
         /\ DOMAIN job.rows = 1 .. Len(job.rows)
         /\ job.spec.batch_size \in Nat \ {0}
         /\ job.spec.limit # None => job.spec.limit[1] \in Nat
         /\ job.spec.preview_rows # None => job.spec.preview_rows[1] \in Nat
         /\ job.spec.partition_rows # None => job.spec.partition_rows[1] \in Nat
BY ExportAssumption DEF IsSeq

LEMMA SeqFacts ==
  ASSUME NEW s, IsSeq(s)
  PROVE  /\ Len(s) \in Nat /\ DOMAIN s = 1 .. Len(s)
         /\ (s = <<>>) <=> (Len(s) = 0)
         /\ s # <<>> => /\ Head(s) = s[1] /\ IsSeq(Tail(s)) /\ Len(Tail(s)) = Len(s) - 1
                        /\ \A i \in 1 .. Len(s) - 1 : Tail(s)[i] = s[i + 1]
<1>1. s \in Seq(Range(s))
  BY DEF IsSeq
<1>2. Len(s) \in Nat /\ DOMAIN s = 1 .. Len(s) /\ ((s = <<>>) <=> (Len(s) = 0))
  BY <1>1
<1>3. ASSUME s # <<>>
      PROVE  /\ Head(s) = s[1] /\ Tail(s) \in Seq(Range(s)) /\ Len(Tail(s)) = Len(s) - 1
             /\ \A i \in 1 .. Len(s) - 1 : Tail(s)[i] = s[i + 1]
  BY <1>1, <1>3
<1>4. ASSUME NEW R, NEW t \in Seq(R) PROVE IsSeq(t)
  BY DEF IsSeq, Range
<1> QED
  BY <1>2, <1>3, <1>4

LEMMA EmptyIsSeq == IsSeq(<<>>) /\ Len(<<>>) = 0
BY DEF IsSeq, Range

LEMMA AppendFacts ==
  ASSUME NEW s, IsSeq(s), NEW x
  PROVE  /\ IsSeq(Append(s, x)) /\ Len(Append(s, x)) = Len(s) + 1
         /\ DOMAIN Append(s, x) = 1 .. Len(s) + 1
         /\ \A i \in 1 .. Len(s) : Append(s, x)[i] = s[i]
         /\ Append(s, x)[Len(s) + 1] = x
         /\ Range(Append(s, x)) = Range(s) \cup {x}
<1>1. s \in Seq(Range(s) \cup {x})
  BY SeqMonotonic DEF IsSeq
<1> DEFINE t == Append(s, x)
<1>2. /\ t \in Seq(Range(s) \cup {x}) /\ Len(t) = Len(s) + 1 /\ DOMAIN t = 1 .. Len(s) + 1
      /\ Len(s) \in Nat /\ DOMAIN s = 1 .. Len(s)
      /\ \A i \in 1 .. Len(s) : t[i] = s[i]
      /\ t[Len(s) + 1] = x
  BY <1>1
<1> HIDE DEF t
<1>3. Range(t) = Range(s) \cup {x}
  <2>1. \A i \in DOMAIN t : t[i] \in Range(s) \cup {x}
    BY <1>2
  <2>2. \A i \in DOMAIN s : i \in DOMAIN t /\ t[i] = s[i]
    BY <1>2
  <2>3. Len(s) + 1 \in DOMAIN t
    BY <1>2
  <2>4. x \in Range(t)
    BY <2>3, <1>2 DEF Range
  <2>5. Range(s) \subseteq Range(t)
    BY <2>2 DEF Range
  <2>6. Range(t) \subseteq Range(s) \cup {x}
    BY <2>1 DEF Range
  <2> QED
    BY <2>4, <2>5, <2>6
<1>4. IsSeq(t)
  BY <1>2, <1>3 DEF IsSeq
<1> QED
  BY <1>2, <1>3, <1>4 DEF t

LEMMA SubSeqFrom ==
  ASSUME NEW R, NEW s \in Seq(R), NEW a \in Nat, NEW c \in Nat, a <= c, c <= Len(s)
  PROVE  /\ SubSeq(s, a + 1, c) \in Seq(R)
         /\ Len(SubSeq(s, a + 1, c)) = c - a
         /\ \A i \in 1 .. c - a : SubSeq(s, a + 1, c)[i] = s[a + i]
<1> DEFINE t == SubSeq(s, a + 1, c)
<1>1. \A i \in a + 1 .. c : s[i] \in R
  BY ElementOfSeq
<1>2. a + 1 \in Int /\ c \in Int
  OBVIOUS
<1>3. /\ t \in Seq(R)
      /\ Len(t) = IF a + 1 <= c THEN c - (a + 1) + 1 ELSE 0
      /\ \A i \in 1 .. c - (a + 1) + 1 : t[i] = s[(a + 1) + i - 1]
  BY <1>1, <1>2, SubSeqProperties
<1> HIDE DEF t
<1>4. Len(t) = c - a
  BY <1>3
<1>5. ASSUME NEW i \in 1 .. c - a PROVE t[i] = s[a + i]
  <2>1. i \in 1 .. c - (a + 1) + 1 /\ (a + 1) + i - 1 = a + i
    OBVIOUS
  <2> QED
    BY <2>1, <1>3
<1> QED
  BY <1>3, <1>4, <1>5 DEF t

\* What a batch is: the rows that follow, as many as a batch holds or as there are.
LEMMA BatchIs ==
  ASSUME NEW e, e.job \in Jobs, e.fetched \in Nat, e.fetched <= Len(e.job.rows)
  PROVE  /\ IsSeq(Batch(e)) /\ Len(Batch(e)) \in Nat
         /\ e.fetched + Len(Batch(e)) <= Len(e.job.rows)
         /\ \A i \in 1 .. Len(Batch(e)) : Batch(e)[i] = e.job.rows[e.fetched + i]
         /\ (LastBatch(e) \/ Batch(e) = <<>>) => e.fetched + Len(Batch(e)) = Len(e.job.rows)
<1> DEFINE rows == e.job.rows
           n == e.job.spec.batch_size
           rest == SubSeq(rows, e.fetched + 1, Len(rows))
           m == Min({n, Len(rest)})
<1>1. rows \in Seq(Range(rows)) /\ Len(rows) \in Nat /\ n \in Nat \ {0}
  BY JobFacts DEF IsSeq
<1>2. Batch(e) = SubSeq(rest, 1, m)
  BY DEF Batch
<1>a. LastBatch(e) <=> Len(Batch(e)) < n
  BY DEF LastBatch
<1> HIDE DEF rows, n
<1>3. /\ rest \in Seq(Range(rows)) /\ Len(rest) = Len(rows) - e.fetched
      /\ \A i \in 1 .. Len(rest) : rest[i] = rows[e.fetched + i]
  <2>1. e.fetched <= Len(rows) /\ Len(rows) <= Len(rows)
    BY <1>1 DEF rows
  <2>2. /\ rest \in Seq(Range(rows)) /\ Len(rest) = Len(rows) - e.fetched
        /\ \A i \in 1 .. Len(rows) - e.fetched : rest[i] = rows[e.fetched + i]
    BY <1>1, <2>1, SubSeqFrom
  <2> QED
    BY <2>2, <1>1
<1>4. m = IF n <= Len(rest) THEN n ELSE Len(rest)
  <2>1. n \in Int /\ Len(rest) \in Int
    BY <1>1, <1>3
  <2> QED
    BY <2>1, MinOfTwo
<1> HIDE DEF rest, m
<1>5. m \in Nat /\ m <= Len(rest) /\ m <= n /\ (m < n => m = Len(rest)) /\ (m = 0 => m = Len(rest))
  <2>1. Len(rest) \in Nat
    BY <1>3
  <2> QED
    BY <2>1, <1>1, <1>4
<1>6. /\ Batch(e) \in Seq(Range(rows)) /\ Len(Batch(e)) = m
      /\ \A i \in 1 .. m : Batch(e)[i] = rest[i]
  <2>1. 0 <= m /\ 0 \in Nat /\ 0 + 1 = 1
    BY <1>5
  <2>2. /\ SubSeq(rest, 0 + 1, m) \in Seq(Range(rows)) /\ Len(SubSeq(rest, 0 + 1, m)) = m - 0
        /\ \A i \in 1 .. m - 0 : SubSeq(rest, 0 + 1, m)[i] = rest[0 + i]
    BY <1>3, <1>5, <2>1, SubSeqFrom
  <2>3. Batch(e) = SubSeq(rest, 0 + 1, m)
    BY <1>2, <2>1
  <2>4. m - 0 = m /\ \A i \in 1 .. m : 0 + i = i
    BY <1>5
  <2> HIDE DEF Batch
  <2> QED
    BY <2>2, <2>3, <2>4
<1>7. IsSeq(Batch(e))
  BY <1>6 DEF IsSeq, Range
<1>8. \A i \in 1 .. m : Batch(e)[i] = rows[e.fetched + i]
  <2> TAKE i \in 1 .. m
  <2>1. i \in 1 .. Len(rest)
    BY <1>5, <1>3, <1>1
  <2> QED
    BY <2>1, <1>3, <1>6
<1>9. Batch(e) = <<>> => m = 0
  BY <1>6
<1>10. (LastBatch(e) \/ Batch(e) = <<>>) => m = Len(rest)
  BY <1>5, <1>6, <1>9, <1>a
<1>11. e.fetched + m <= Len(rows) /\ (m = Len(rest) => e.fetched + m = Len(rows))
  BY <1>1, <1>3, <1>5
<1> QED
  BY <1>5, <1>6, <1>7, <1>8, <1>10, <1>11 DEF rows

\* The rows a preview shows.
Shows(s) == IF s.preview_rows = None THEN PreviewRows ELSE s.preview_rows[1]

LEMMA LimitedIs ==
  ASSUME NEW job \in Jobs
  PROVE  /\ Len(Limited(job)) \in Nat
         /\ DOMAIN Limited(job) = 1 .. Len(Limited(job))
         /\ Len(Limited(job)) <= Len(job.rows)
         /\ job.spec.limit # None => Len(Limited(job)) <= job.spec.limit[1]
         /\ job.spec.preview => Len(Limited(job)) <= Shows(job.spec)
         /\ \/ Len(Limited(job)) = Len(job.rows)
            \/ job.spec.limit # None /\ Len(Limited(job)) = job.spec.limit[1]
            \/ job.spec.preview /\ Len(Limited(job)) = Shows(job.spec)
         /\ \A r \in 1 .. Len(Limited(job)) :
              Limited(job)[r] = Values(job.spec, job.columns, job.rows[r])
<1> DEFINE s == job.spec
           n == Len(job.rows)
           asked == IF s.limit = None THEN n ELSE Min({n, s.limit[1]})
           shown == IF ~s.preview THEN asked ELSE Min({asked, Shows(s)})
<1>1. n \in Nat /\ (s.limit # None => s.limit[1] \in Nat) /\ Shows(s) \in Nat
  BY JobFacts, ExportAssumption DEF Shows
<1>2. Limited(job) = [r \in 1 .. shown |-> Values(s, job.columns, job.rows[r])]
  BY DEF Limited, Shows
<1> DEFINE f(r) == Values(s, job.columns, job.rows[r])
<1> HIDE DEF s, n
<1>3. /\ asked \in Nat /\ asked <= n
      /\ s.limit # None => asked <= s.limit[1]
      /\ asked = n \/ (s.limit # None /\ asked = s.limit[1])
  <2>1. CASE s.limit = None
    BY <2>1, <1>1
  <2>2. CASE s.limit # None
    <3>1. Min({n, s.limit[1]}) = IF n <= s.limit[1] THEN n ELSE s.limit[1]
      <4>1. n \in Int /\ s.limit[1] \in Int
        BY <2>2, <1>1
      <4> QED
        BY <4>1, MinOfTwo, Zenon
    <3>2. asked = IF n <= s.limit[1] THEN n ELSE s.limit[1]
      BY <3>1, <2>2
    <3> HIDE DEF asked
    <3> QED
      BY <3>2, <2>2, <1>1
  <2> QED
    BY <2>1, <2>2
<1> HIDE DEF asked
<1>4. /\ shown \in Nat /\ shown <= asked
      /\ s.preview => shown <= Shows(s)
      /\ shown = asked \/ (s.preview /\ shown = Shows(s))
  <2>1. CASE ~s.preview
    BY <2>1, <1>3
  <2>2. CASE s.preview
    <3>1. Min({asked, Shows(s)}) = IF asked <= Shows(s) THEN asked ELSE Shows(s)
      <4>1. asked \in Int /\ Shows(s) \in Int
        BY <1>1, <1>3
      <4> QED
        BY <4>1, MinOfTwo, Zenon
    <3>2. shown = IF asked <= Shows(s) THEN asked ELSE Shows(s)
      BY <3>1, <2>2
    <3> HIDE DEF shown
    <3> QED
      BY <3>2, <2>2, <1>1, <1>3
  <2> QED
    BY <2>1, <2>2
<1> HIDE DEF shown, f
<1>5. Limited(job) = [r \in 1 .. shown |-> f(r)]
  BY <1>2 DEF f
<1>6. Len(Limited(job)) = shown /\ DOMAIN Limited(job) = 1 .. shown
  BY <1>4, <1>5
<1>7. \A r \in 1 .. shown : Limited(job)[r] = f(r)
  BY <1>5
<1>8. shown <= n /\ (s.limit # None => shown <= s.limit[1])
  BY <1>1, <1>3, <1>4
<1>9. shown = n \/ (s.limit # None /\ shown = s.limit[1]) \/ (s.preview /\ shown = Shows(s))
  BY <1>3, <1>4
<1> QED
  BY <1>4, <1>6, <1>7, <1>8, <1>9 DEF f, s, n

-----------------------------------------------------------------------------
(* The inductive invariant: what holds of the locals e of run() at any time.   *)

Fields == {"phase", "job", "fetched", "batch", "last", "parts", "order", "written",
           "index", "here", "error", "files"}

Shape(e) ==
  /\ DOMAIN e = Fields
  /\ e.phase \in {"fetch", "rows", "finish"}
  /\ e.job \in Jobs
  /\ e.fetched \in Nat /\ e.written \in Nat /\ e.index \in Nat /\ e.here \in Nat
  /\ e.last \in BOOLEAN /\ e.error \in BOOLEAN

\* The rows not yet written of those fetched are the ones that follow, and the
\* stream ends with all of them written, at the limit, or with an error.
Reading(e) ==
  /\ IsSeq(e.batch)
  /\ e.fetched <= Len(e.job.rows)
  /\ e.written <= Len(Limited(e.job))
  /\ e.phase = "rows" =>
       /\ e.batch # <<>> /\ e.written + Len(e.batch) = e.fetched
       /\ \A i \in 1 .. Len(e.batch) : e.batch[i] = e.job.rows[e.written + i]
       /\ e.last => e.fetched = Len(e.job.rows)
  /\ e.phase # "rows" => e.batch = <<>> /\ e.written <= e.fetched
  /\ e.phase = "fetch" => e.written = e.fetched
  /\ (e.phase = "finish" /\ ~e.error) => e.written = Len(Limited(e.job))

PartShape(p) == DOMAIN p = {"writer", "document", "rows", "path", "torn"} /\ p.rows \in Nat

\* The order names every partition once.
Ordered(e) ==
  /\ IsSeq(e.order)
  /\ \A i, j \in DOMAIN e.order : e.order[i] = e.order[j] => i = j
  /\ Range(e.order) = DOMAIN e.parts
  /\ \A k \in DOMAIN e.parts : PartShape(e.parts[k])

\* What will be reported of a partition, and what was.
Report(e, k) ==
  [key |-> k, rows |-> e.parts[k].rows,
   path |-> IF e.job.spec.preview THEN None ELSE Some(e.parts[k].path)]

Reports(e) == {Report(e, k) : k \in DOMAIN e.parts}

Filed(e) ==
  /\ IsSeq(e.files)
  /\ Len(e.files) <= Len(e.order)
  /\ \A i \in 1 .. Len(e.files) : e.files[i] = Report(e, e.order[i])
  /\ e.phase # "finish" => e.files = <<>>

Summed(e) == Counts(Reports(e)) /\ RowsOf(Reports(e)) = e.written

\* A partition's file is on the disk now, and was not there when the export
\* started unless it may overwrite.
Placed(e, now, before) ==
  /\ before \subseteq now
  /\ \A k \in DOMAIN e.parts :
       \/ e.job.spec.preview
       \/ /\ e.parts[k].path \in now
          /\ e.job.spec.overwrite \/ e.parts[k].path \notin before

\* Which partition a row goes to when they are told apart by a value.
At(job) == Position(Chosen(job.spec, job.columns), job.spec.partition_by[1])
KeyOf(job, r) == TextOr(Limited(job)[r][At(job)], <<"n", "u", "l", "l">>)

DealtByValue(e) ==
  /\ \A k \in DOMAIN e.parts : e.parts[k].rows = Len(Taken(Limited(e.job), At(e.job), k)[e.written])
  /\ \A r \in 1 .. e.written : KeyOf(e.job, r) \in DOMAIN e.parts

\* Files of no row at all still get one each.
DealtOneByOne(e) ==
  /\ e.index = e.written
  /\ DOMAIN e.parts = {<<"#", i>> : i \in 1 .. e.written}
  /\ \A k \in DOMAIN e.parts : e.parts[k].rows = 1

DealtBySize(e) ==
  LET size == e.job.spec.partition_rows[1]
  IN /\ e.here <= size
     /\ e.written = e.index * size + e.here
     /\ e.here = 0 => e.index = 0
     /\ DOMAIN e.parts = (IF e.here = 0 THEN {} ELSE {<<"#", i>> : i \in 0 .. e.index})
     /\ \A i \in 0 .. e.index : <<"#", i>> \in DOMAIN e.parts =>
          e.parts[<<"#", i>>].rows = IF i < e.index THEN size ELSE e.here

DealtToOne(e) ==
  /\ \A k \in DOMAIN e.parts : k = <<>> /\ e.parts[k].rows = e.written
  /\ e.written # 0 => <<>> \in DOMAIN e.parts

Dealt(e) ==
  LET s == e.job.spec
  IN CASE s.partition_by # None -> DealtByValue(e)
       [] s.partition_by = None /\ s.partition_rows = None -> DealtToOne(e)
       [] s.partition_by = None /\ s.partition_rows # None /\ s.partition_rows[1] = 0 -> DealtOneByOne(e)
       [] OTHER -> DealtBySize(e)

\* Once the stream has ended every partition has the rows it should have.
Settled(e) ==
  /\ e.phase # "finish" => Dealt(e)
  /\ (e.phase = "finish" /\ ~e.error) =>
       \A k \in DOMAIN e.parts : e.parts[k].rows = Len(Part(e.job, k))

Runs(e) ==
  Shape(e) /\ Reading(e) /\ Ordered(e) /\ Filed(e) /\ Summed(e) /\ Settled(e)

\* What EveryRowCounted says of the files reported.
RightFiles(job, rows, files) ==
  /\ rows = Len(Limited(job))
  /\ \A f \in Range(files) : f.rows = Len(Part(job, f.key))
  /\ RowsOf(Range(files)) = rows
  /\ Cardinality({f.key : f \in Range(files)}) = Len(files)

\* The outcome that is told, of the export that returned last.
Told(result) ==
  /\ result.kind \in {"none", "error", "ok"}
  /\ result.kind = "ok" => RightFiles(result.job, result.rows, result.files)

DiskStates == \A p \in DOMAIN disk : disk[p].state \in {"partial", "whole", "torn"}

Inv ==
  /\ exports \in 0 .. MaxExports
  /\ DiskStates
  /\ Told(outcome)
  /\ export # Idle => Runs(export) /\ Placed(export, DOMAIN disk, DOMAIN found)

-----------------------------------------------------------------------------
(* The rows of a value: what Taken is at every row.                            *)

KeyShown(value) == TextOr(value, <<"n", "u", "l", "l">>)

TakenNext(f, rows, at, key, i) ==
  IF i = 0 THEN <<>>
  ELSE IF KeyShown(rows[i][at]) = key THEN Append(f[i - 1], rows[i]) ELSE f[i - 1]

TakenTo(rows, at, key, n, f) == f = [i \in 0 .. n |-> TakenNext(f, rows, at, key, i)]

LEMMA TakenExists ==
  ASSUME NEW rows, NEW at, NEW key
  PROVE  \A n \in Nat : \E f : TakenTo(rows, at, key, n, f)
<1> DEFINE S == {n \in Nat : \E f : TakenTo(rows, at, key, n, f)}
<1>1. 0 \in S
  <2> DEFINE f == [i \in 0 .. 0 |-> <<>>]
  <2>1. \A i \in 0 .. 0 : f[i] = TakenNext(f, rows, at, key, i)
    BY DEF TakenNext
  <2>2. TakenTo(rows, at, key, 0, f)
    BY <2>1 DEF TakenTo
  <2> QED
    BY <2>2
<1>2. ASSUME NEW n \in Nat, n \in S
      PROVE  n + 1 \in S
  <2>1. PICK f : TakenTo(rows, at, key, n, f)
    BY <1>2
  <2> DEFINE g == [i \in 0 .. n + 1 |-> TakenNext(f, rows, at, key, i)]
  <2>2. \A i \in 0 .. n : g[i] = f[i]
    BY <2>1 DEF TakenTo
  <2>3. \A i \in 0 .. n + 1 : g[i] = TakenNext(f, rows, at, key, i)
    OBVIOUS
  <2>4. DOMAIN g = 0 .. n + 1 /\ g = [i \in 0 .. n + 1 |-> g[i]]
    OBVIOUS
  <2> HIDE DEF g
  <2>5. ASSUME NEW i \in 0 .. n + 1
        PROVE  TakenNext(g, rows, at, key, i) = TakenNext(f, rows, at, key, i)
    <3>1. CASE i = 0
      BY <3>1 DEF TakenNext
    <3>2. CASE i # 0
      <4>1. i - 1 \in 0 .. n
        BY <3>2
      <4>2. g[i - 1] = f[i - 1]
        BY <4>1, <2>2
      <4> QED
        BY <4>2 DEF TakenNext
    <3> QED
      BY <3>1, <3>2
  <2>6. TakenTo(rows, at, key, n + 1, g)
    BY <2>3, <2>4, <2>5 DEF TakenTo
  <2> QED
    BY <2>6
<1> HIDE DEF S
<1>3. \A n \in Nat : n \in S
  BY <1>1, <1>2, EveryNumber
<1> QED
  BY <1>3 DEF S

LEMMA TakenIs ==
  ASSUME NEW rows, NEW at, NEW key, Len(rows) \in Nat
  PROVE  \A i \in 0 .. Len(rows) :
           Taken(rows, at, key)[i] = TakenNext(Taken(rows, at, key), rows, at, key, i)
<1> DEFINE f == CHOOSE f : TakenTo(rows, at, key, Len(rows), f)
<1>1. TakenTo(rows, at, key, Len(rows), f)
  BY TakenExists
<1>2. Taken(rows, at, key) = f
  BY DEF Taken, TakenTo, TakenNext, KeyShown
<1> HIDE DEF f
<1>3. \A i \in 0 .. Len(rows) : f[i] = TakenNext(f, rows, at, key, i)
  BY <1>1 DEF TakenTo
<1> QED
  BY <1>2, <1>3

LEMMA TakenSeq ==
  ASSUME NEW rows, NEW at, NEW key, Len(rows) \in Nat, NEW n \in 0 .. Len(rows)
  PROVE  IsSeq(Taken(rows, at, key)[n])
<1> DEFINE f == Taken(rows, at, key)
           S == {i \in Nat : i <= Len(rows) => IsSeq(f[i])}
<1>1. \A i \in 0 .. Len(rows) : f[i] = TakenNext(f, rows, at, key, i)
  BY TakenIs
<1> HIDE DEF f
<1>2. 0 \in S
  <2>1. f[0] = <<>>
    BY <1>1 DEF TakenNext
  <2> QED
    BY <2>1, EmptyIsSeq
<1>3. ASSUME NEW i \in Nat, i \in S PROVE i + 1 \in S
  <2>1. ASSUME i + 1 <= Len(rows) PROVE IsSeq(f[i + 1])
    <3>1. IsSeq(f[i])
      BY <1>3, <2>1
    <3>2. f[i + 1] = f[i] \/ f[i + 1] = Append(f[i], rows[i + 1])
      <4>1. i + 1 \in 0 .. Len(rows) /\ i + 1 # 0 /\ (i + 1) - 1 = i
        BY <2>1
      <4>2. f[i + 1] = TakenNext(f, rows, at, key, i + 1)
        BY <4>1, <1>1
      <4> QED
        BY <4>1, <4>2 DEF TakenNext
    <3>3. IsSeq(Append(f[i], rows[i + 1]))
      BY <3>1, AppendFacts
    <3> QED
      BY <3>1, <3>2, <3>3
  <2> QED
    BY <2>1
<1> HIDE DEF S
<1>4. \A i \in Nat : i \in S
  BY <1>2, <1>3, EveryNumber
<1> QED
  BY <1>4 DEF S, f

\* A key no row has shown has no rows.
LEMMA TakenNone ==
  ASSUME NEW rows, NEW at, NEW key, Len(rows) \in Nat, NEW n \in 0 .. Len(rows),
         \A r \in 1 .. n : KeyShown(rows[r][at]) # key
  PROVE  Taken(rows, at, key)[n] = <<>>
<1> DEFINE f == Taken(rows, at, key)
           S == {i \in Nat : i <= n => f[i] = <<>>}
<1>1. \A i \in 0 .. Len(rows) : f[i] = TakenNext(f, rows, at, key, i)
  BY TakenIs
<1> HIDE DEF f
<1>2. 0 \in S
  BY <1>1 DEF TakenNext
<1>3. ASSUME NEW i \in Nat, i \in S PROVE i + 1 \in S
  <2>1. ASSUME i + 1 <= n PROVE f[i + 1] = <<>>
    <3>1. f[i] = <<>>
      BY <1>3, <2>1
    <3>2. i + 1 \in 0 .. Len(rows) /\ i + 1 # 0 /\ (i + 1) - 1 = i /\ i + 1 \in 1 .. n
      BY <2>1
    <3>3. f[i + 1] = TakenNext(f, rows, at, key, i + 1)
      BY <3>2, <1>1
    <3>4. KeyShown(rows[i + 1][at]) # key
      BY <3>2
    <3> QED
      BY <3>1, <3>2, <3>3, <3>4 DEF TakenNext
  <2> QED
    BY <2>1
<1> HIDE DEF S
<1>4. \A i \in Nat : i \in S
  BY <1>2, <1>3, EveryNumber
<1> QED
  BY <1>4 DEF S, f

-----------------------------------------------------------------------------
(* When all rows are written, each partition has those it should have.         *)

LEMMA Multiples ==
  ASSUME NEW a \in Nat, NEW c \in Nat, NEW size \in Nat, a < c
  PROVE  a * size \in Nat /\ (a + 1) * size = a * size + size /\ (a + 1) * size <= c * size
<1>1. a * size \in Nat /\ (a + 1) * size = a * size + size
  OBVIOUS
<1>2. c = (a + 1) + (c - a - 1) /\ c - a - 1 \in Nat
  OBVIOUS
<1>3. (c - a - 1) * size \in Nat
  BY <1>2
<1>4. c * size = (a + 1) * size + (c - a - 1) * size
  BY <1>2
<1>5. (a + 1) * size \in Nat
  OBVIOUS
<1> QED
  BY <1>1, <1>3, <1>4, <1>5

LEMMA DealtByValueSettles ==
  ASSUME NEW e, e.job \in Jobs, e.job.spec.partition_by # None, DealtByValue(e),
         e.written = Len(Limited(e.job)), NEW k \in DOMAIN e.parts
  PROVE  e.parts[k].rows = Len(Part(e.job, k))
BY DEF DealtByValue, Part, At

LEMMA DealtToOneSettles ==
  ASSUME NEW e, e.job \in Jobs, e.job.spec.partition_by = None, e.job.spec.partition_rows = None,
         DealtToOne(e), e.written = Len(Limited(e.job)), NEW k \in DOMAIN e.parts
  PROVE  e.parts[k].rows = Len(Part(e.job, k))
BY DEF DealtToOne, Part

LEMMA DealtOneByOneSettles ==
  ASSUME NEW e, e.job \in Jobs, e.job.spec.partition_by = None, e.job.spec.partition_rows # None,
         e.job.spec.partition_rows[1] = 0,
         DealtOneByOne(e), e.written = Len(Limited(e.job)), NEW k \in DOMAIN e.parts
  PROVE  e.parts[k].rows = Len(Part(e.job, k))
<1> DEFINE rows == Limited(e.job)
<1>1. PICK i \in 1 .. e.written : k = <<"#", i>>
  BY DEF DealtOneByOne
<1>2. k # <<>> /\ k[2] = i
  BY <1>1
<1>3. Part(e.job, k) = SubSeq(rows, i, i)
  BY <1>2 DEF Part
<1>4. Len(rows) \in Nat /\ i \in Int
  BY LimitedIs
<1>5. Len(SubSeq(rows, i, i)) = 1
  BY <1>4
<1> QED
  BY <1>3, <1>5 DEF DealtOneByOne

LEMMA DealtBySizeSettles ==
  ASSUME NEW e, e.job \in Jobs, e.job.spec.partition_by = None, e.job.spec.partition_rows # None,
         e.job.spec.partition_rows[1] # 0, e.index \in Nat, e.here \in Nat,
         DealtBySize(e), e.written = Len(Limited(e.job)), NEW k \in DOMAIN e.parts
  PROVE  e.parts[k].rows = Len(Part(e.job, k))
<1> DEFINE rows == Limited(e.job)
           size == e.job.spec.partition_rows[1]
<1>1. size \in Nat
  BY JobFacts
<1>2. /\ e.here <= size /\ e.here # 0
      /\ Len(rows) = e.index * size + e.here
  BY DEF DealtBySize
<1>3. PICK i \in 0 .. e.index : k = <<"#", i>>
  BY DEF DealtBySize
<1>4. k # <<>> /\ k[2] = i
  BY <1>3
<1>5. Part(e.job, k) = SubSeq(rows, i * size + 1, Min({(i + 1) * size, Len(rows)}))
  BY <1>4 DEF Part
<1>6. e.parts[k].rows = IF i < e.index THEN size ELSE e.here
  BY <1>3 DEF DealtBySize
<1>7. Len(rows) \in Nat
  BY LimitedIs
<1> HIDE DEF size, rows
<1>8. i * size \in Nat /\ (i + 1) * size = i * size + size /\ (i + 1) * size \in Int
  BY <1>1
<1>9. Min({(i + 1) * size, Len(rows)}) = IF (i + 1) * size <= Len(rows) THEN (i + 1) * size ELSE Len(rows)
  BY <1>7, <1>8, MinOfTwo
<1> DEFINE from == i * size
           upto == Min({(i + 1) * size, Len(rows)})
<1>10. from \in Nat /\ upto \in Int /\ upto - from = (IF i < e.index THEN size ELSE e.here)
  <2>1. CASE i < e.index
    <3>1. (i + 1) * size <= e.index * size /\ e.index * size \in Nat
      BY <1>1, <2>1, Multiples
    <3>2. (i + 1) * size <= Len(rows)
      BY <3>1, <1>2, <1>8
    <3>3. upto = from + size
      BY <3>2, <1>8, <1>9
    <3> HIDE DEF upto
    <3> QED
      BY <3>3, <2>1, <1>1, <1>8
  <2>2. CASE i = e.index
    <3>1. Len(rows) = from + e.here
      BY <2>2, <1>2
    <3>2. upto = Len(rows)
      <4>1. Len(rows) <= (i + 1) * size
        BY <3>1, <1>1, <1>2, <1>8
      <4> QED
        BY <4>1, <1>7, <1>8, <1>9
    <3> HIDE DEF upto
    <3> QED
      BY <3>1, <3>2, <2>2, <1>7, <1>8
  <2> QED
    BY <2>1, <2>2
<1> HIDE DEF from, upto
<1>11. Len(SubSeq(rows, from + 1, upto)) = IF from + 1 <= upto THEN upto - (from + 1) + 1 ELSE 0
  BY <1>10
<1>12. Len(SubSeq(rows, from + 1, upto)) = upto - from
  BY <1>1, <1>2, <1>10, <1>11
<1> QED
  BY <1>5, <1>6, <1>10, <1>12 DEF from, upto, rows

LEMMA DealtSettles ==
  ASSUME NEW e, Shape(e), Dealt(e), e.written = Len(Limited(e.job))
  PROVE  \A k \in DOMAIN e.parts : e.parts[k].rows = Len(Part(e.job, k))
<1> SUFFICES ASSUME NEW k \in DOMAIN e.parts PROVE e.parts[k].rows = Len(Part(e.job, k))
  OBVIOUS
<1> DEFINE s == e.job.spec
<1>1. e.job \in Jobs /\ e.index \in Nat /\ e.here \in Nat
  BY DEF Shape
<1>2. CASE s.partition_by # None
  BY <1>1, <1>2, DealtByValueSettles DEF Dealt
<1>3. CASE s.partition_by = None /\ s.partition_rows = None
  BY <1>1, <1>3, DealtToOneSettles DEF Dealt
<1>4. CASE s.partition_by = None /\ s.partition_rows # None /\ s.partition_rows[1] = 0
  BY <1>1, <1>4, DealtOneByOneSettles DEF Dealt
<1>5. CASE s.partition_by = None /\ s.partition_rows # None /\ s.partition_rows[1] # 0
  BY <1>1, <1>5, DealtBySizeSettles DEF Dealt
<1> QED
  BY <1>2, <1>3, <1>4, <1>5

-----------------------------------------------------------------------------
(* Steps that write no row *)

SameParts(e, f) ==
  /\ DOMAIN f.parts = DOMAIN e.parts
  /\ \A k \in DOMAIN e.parts :
       PartShape(f.parts[k]) /\ f.parts[k].rows = e.parts[k].rows /\ f.parts[k].path = e.parts[k].path

SameCounts(e, f) ==
  f.job = e.job /\ f.order = e.order /\ f.written = e.written /\ f.index = e.index /\ f.here = e.here

LEMMA SameReports ==
  ASSUME NEW e, NEW f, SameParts(e, f), f.job = e.job
  PROVE  /\ \A k \in DOMAIN e.parts : Report(f, k) = Report(e, k)
         /\ Reports(f) = Reports(e)
<1>1. \A k \in DOMAIN e.parts : Report(f, k) = Report(e, k)
  BY DEF SameParts, Report
<1>2. DOMAIN f.parts = DOMAIN e.parts
  BY DEF SameParts
<1> QED
  BY <1>1, <1>2 DEF Reports

LEMMA SameDealt ==
  ASSUME NEW e, NEW f, SameParts(e, f), SameCounts(e, f), Dealt(e)
  PROVE  Dealt(f)
<1> DEFINE s == e.job.spec
<1>1. /\ f.job = e.job /\ f.written = e.written /\ f.index = e.index /\ f.here = e.here
      /\ DOMAIN f.parts = DOMAIN e.parts
      /\ \A k \in DOMAIN e.parts : f.parts[k].rows = e.parts[k].rows
  BY DEF SameParts, SameCounts
<1>2. DealtByValue(e) => DealtByValue(f)
  BY <1>1 DEF DealtByValue
<1>3. DealtToOne(e) => DealtToOne(f)
  BY <1>1 DEF DealtToOne
<1>4. DealtOneByOne(e) => DealtOneByOne(f)
  BY <1>1 DEF DealtOneByOne
<1>5. DealtBySize(e) => DealtBySize(f)
  BY <1>1 DEF DealtBySize
<1>6. CASE s.partition_by # None
  BY <1>1, <1>2, <1>6 DEF Dealt
<1>7. CASE s.partition_by = None /\ s.partition_rows = None
  BY <1>1, <1>3, <1>7 DEF Dealt
<1>8. CASE s.partition_by = None /\ s.partition_rows # None /\ s.partition_rows[1] = 0
  BY <1>1, <1>4, <1>8 DEF Dealt
<1>9. CASE s.partition_by = None /\ s.partition_rows # None /\ s.partition_rows[1] # 0
  BY <1>1, <1>5, <1>9 DEF Dealt
<1> QED
  BY <1>6, <1>7, <1>8, <1>9

LEMMA SamePartsKept ==
  ASSUME NEW e, NEW f, Ordered(e), Summed(e), SameParts(e, f), SameCounts(e, f)
  PROVE  Ordered(f) /\ Summed(f)
<1>1. Ordered(f)
  BY DEF Ordered, SameParts, SameCounts
<1>2. Reports(f) = Reports(e)
  BY SameReports DEF SameCounts
<1> QED
  BY <1>1, <1>2 DEF Summed, SameCounts

LEMMA SamePartsPlaced ==
  ASSUME NEW e, NEW f, NEW now, NEW before, Placed(e, now, before), SameParts(e, f), SameCounts(e, f)
  PROVE  Placed(f, now, before)
BY DEF Placed, SameParts, SameCounts

\* A batch arrives, or the stream ends: what was dealt stays dealt.
LEMMA NothingDealt ==
  ASSUME NEW e, NEW f, Runs(e), e.phase # "finish", Shape(f), Reading(f),
         SameParts(e, f), SameCounts(e, f), f.files = e.files
  PROVE  Runs(f)
<1>1. Ordered(f) /\ Summed(f)
  BY SamePartsKept DEF Runs
<1>2. Filed(f)
  <2>1. e.files = <<>> /\ f.files = <<>> /\ Len(f.files) = 0 /\ IsSeq(f.files)
    BY EmptyIsSeq DEF Runs, Filed
  <2>2. Len(f.order) \in Nat
    BY <1>1, SeqFacts DEF Ordered
  <2> QED
    BY <2>1, <2>2 DEF Filed
<1>3. Dealt(f)
  BY SameDealt DEF Runs, Settled
<1>4. Settled(f)
  <2>1. ASSUME f.phase = "finish", ~f.error
        PROVE  \A k \in DOMAIN f.parts : f.parts[k].rows = Len(Part(f.job, k))
    <3>1. f.written = Len(Limited(f.job))
      BY <2>1 DEF Reading
    <3> QED
      BY <3>1, <1>3, DealtSettles
  <2> QED
    BY <1>3, <2>1 DEF Settled
<1> QED
  BY <1>1, <1>2, <1>4 DEF Runs

-----------------------------------------------------------------------------
(* A row is written: what the locals are afterwards, p being its partition.    *)

RowWritten(e, f, key, p) ==
  /\ DOMAIN f = Fields
  /\ f.job = e.job /\ f.fetched = e.fetched /\ f.last = e.last /\ f.error = e.error
  /\ f.files = e.files
  /\ f.index \in Nat /\ f.here \in Nat
  /\ f.written = e.written + 1 /\ f.batch = Tail(e.batch)
  /\ f.phase = (IF Len(e.batch) = 1 THEN AfterBatch(e.last) ELSE "rows")
  /\ f.parts = Keeping(e.parts, key, p)
  /\ PartShape(p)
  /\ key \in DOMAIN e.parts => /\ f.order = e.order
                               /\ p.rows = e.parts[key].rows + 1
                               /\ p.path = e.parts[key].path
  /\ key \notin DOMAIN e.parts => f.order = Append(e.order, key) /\ p.rows = 1

LEMMA RowParts ==
  ASSUME NEW e, NEW f, NEW key, NEW p, RowWritten(e, f, key, p)
  PROVE  /\ DOMAIN f.parts = DOMAIN e.parts \cup {key} /\ f.parts[key] = p
         /\ \A k \in DOMAIN e.parts : k # key => f.parts[k] = e.parts[k]
<1>1. f.parts = Keeping(e.parts, key, p)
  BY DEF RowWritten
<1>2. /\ DOMAIN Keeping(e.parts, key, p) = DOMAIN e.parts \cup {key}
      /\ Keeping(e.parts, key, p)[key] = p
      /\ \A k \in DOMAIN e.parts : k # key => Keeping(e.parts, key, p)[k] = e.parts[k]
  BY DEF Keeping
<1> QED
  BY <1>1, <1>2

LEMMA RowShape ==
  ASSUME NEW e, NEW f, NEW key, NEW p, Shape(e), RowWritten(e, f, key, p)
  PROVE  Shape(f)
BY DEF Shape, RowWritten, AfterBatch

LEMMA RowReading ==
  ASSUME NEW e, NEW f, NEW key, NEW p, Shape(e), Reading(e), e.phase = "rows",
         RowWritten(e, f, key, p), e.written < Len(Limited(e.job))
  PROVE  Reading(f)
<1> DEFINE n == Len(e.batch)
<1>1. /\ IsSeq(e.batch) /\ e.batch # <<>> /\ e.written + n = e.fetched
      /\ e.fetched <= Len(e.job.rows)
      /\ \A i \in 1 .. n : e.batch[i] = e.job.rows[e.written + i]
      /\ e.last => e.fetched = Len(e.job.rows)
  BY DEF Reading
<1>2. /\ n \in Nat /\ n # 0 /\ IsSeq(f.batch) /\ Len(f.batch) = n - 1
      /\ \A i \in 1 .. n - 1 : f.batch[i] = e.batch[i + 1]
      /\ (f.batch = <<>>) <=> (n - 1 = 0)
  <2>1. f.batch = Tail(e.batch)
    BY DEF RowWritten
  <2>2. /\ n \in Nat /\ n # 0 /\ IsSeq(Tail(e.batch)) /\ Len(Tail(e.batch)) = n - 1
        /\ \A i \in 1 .. n - 1 : Tail(e.batch)[i] = e.batch[i + 1]
    BY <1>1, SeqFacts
  <2>3. (f.batch = <<>>) <=> (Len(f.batch) = 0)
    BY <2>1, <2>2, SeqFacts
  <2> QED
    BY <2>1, <2>2, <2>3
<1>3. e.written \in Nat /\ e.fetched \in Nat /\ Len(e.job.rows) \in Nat /\ Len(Limited(e.job)) \in Nat
      /\ Len(Limited(e.job)) <= Len(e.job.rows) /\ e.last \in BOOLEAN
  BY JobFacts, LimitedIs DEF Shape
<1>4. f.written = e.written + 1 /\ f.job = e.job /\ f.fetched = e.fetched /\ f.last = e.last
  BY DEF RowWritten
<1>5. f.phase = (IF n = 1 THEN AfterBatch(e.last) ELSE "rows")
  BY DEF RowWritten
<1> HIDE DEF n
<1>6. f.written <= Len(Limited(f.job)) /\ f.fetched <= Len(f.job.rows)
  BY <1>1, <1>3, <1>4
<1>7. CASE n = 1
  <2>1. f.batch = <<>> /\ f.written = f.fetched
    BY <1>1, <1>2, <1>3, <1>4, <1>7
  <2>2. CASE e.last
    <3>1. f.phase = "finish"
      BY <1>5, <1>7, <2>2 DEF AfterBatch
    <3>2. f.written = Len(Limited(f.job))
      BY <1>1, <1>3, <1>4, <2>1, <2>2, <1>6
    <3> QED
      BY <3>1, <3>2, <2>1, <1>2, <1>3, <1>4, <1>6 DEF Reading
  <2>3. CASE ~e.last
    <3>1. f.phase = "fetch"
      BY <1>5, <1>7, <2>3 DEF AfterBatch
    <3> QED
      BY <3>1, <2>1, <1>2, <1>3, <1>4, <1>6 DEF Reading
  <2> QED
    BY <2>2, <2>3
<1>8. CASE n # 1
  <2>1. f.phase = "rows" /\ f.batch # <<>> /\ f.written + Len(f.batch) = f.fetched
    BY <1>1, <1>2, <1>3, <1>4, <1>5, <1>8
  <2>2. ASSUME NEW i \in 1 .. Len(f.batch) PROVE f.batch[i] = f.job.rows[f.written + i]
    <3>a. i \in 1 .. n - 1
      BY <1>2
    <3>1. i \in 1 .. n - 1 /\ i + 1 \in 1 .. n /\ e.written + (i + 1) = f.written + i
      <4>1. n \in Nat /\ e.written \in Nat /\ f.written = e.written + 1
        BY <1>2, <1>3, <1>4
      <4> QED
        BY <3>a, <4>1
    <3> QED
      BY <3>1, <1>1, <1>2, <1>4
  <2>3. f.last => f.fetched = Len(f.job.rows)
    BY <1>1, <1>4
  <2> QED
    BY <2>1, <2>2, <2>3, <1>2, <1>6 DEF Reading
<1> QED
  BY <1>7, <1>8

LEMMA RowOrdered ==
  ASSUME NEW e, NEW f, NEW key, NEW p, Ordered(e), RowWritten(e, f, key, p)
  PROVE  Ordered(f)
<1>1. /\ DOMAIN f.parts = DOMAIN e.parts \cup {key} /\ f.parts[key] = p
      /\ \A k \in DOMAIN e.parts : k # key => f.parts[k] = e.parts[k]
  BY RowParts
<1>2. PartShape(p)
  BY DEF RowWritten
<1>3. \A k \in DOMAIN f.parts : PartShape(f.parts[k])
  BY <1>1, <1>2 DEF Ordered
<1>4. CASE key \in DOMAIN e.parts
  <2>1. f.order = e.order /\ DOMAIN f.parts = DOMAIN e.parts
    BY <1>1, <1>4 DEF RowWritten
  <2> QED
    BY <2>1, <1>3 DEF Ordered
<1>5. CASE key \notin DOMAIN e.parts
  <2> DEFINE o == e.order
             n == Len(o)
  <2>1. f.order = Append(o, key)
    BY <1>5 DEF RowWritten
  <2>2. IsSeq(o) /\ n \in Nat /\ DOMAIN o = 1 .. n /\ Range(o) = DOMAIN e.parts
        /\ \A i, j \in DOMAIN o : o[i] = o[j] => i = j
    BY SeqFacts DEF Ordered
  <2>3. /\ IsSeq(f.order) /\ DOMAIN f.order = 1 .. n + 1
        /\ \A i \in 1 .. n : f.order[i] = o[i]
        /\ f.order[n + 1] = key
        /\ Range(f.order) = Range(o) \cup {key}
    BY <2>1, <2>2, AppendFacts
  <2>4. \A i \in 1 .. n : o[i] # key
    BY <2>2, <1>5 DEF Range
  <2> HIDE DEF o, n
  <2>5. ASSUME NEW i \in DOMAIN f.order, NEW j \in DOMAIN f.order, f.order[i] = f.order[j]
        PROVE  i = j
    <3>1. CASE i \in 1 .. n /\ j \in 1 .. n
      BY <3>1, <2>2, <2>3, <2>5
    <3>2. CASE i = n + 1 \/ j = n + 1
      <4>1. i \in 1 .. n \/ i = n + 1
        BY <2>2, <2>3
      <4>2. j \in 1 .. n \/ j = n + 1
        BY <2>2, <2>3
      <4> QED
        BY <4>1, <4>2, <3>2, <2>3, <2>4, <2>5
    <3> QED
      BY <3>1, <3>2, <2>2, <2>3
  <2>6. Range(f.order) = DOMAIN f.parts
    BY <2>2, <2>3, <1>1
  <2> QED
    BY <2>3, <2>5, <2>6, <1>3 DEF Ordered
<1> QED
  BY <1>4, <1>5

LEMMA RowSummed ==
  ASSUME NEW e, NEW f, NEW key, NEW p, Ordered(e), Summed(e), e.written \in Nat,
         RowWritten(e, f, key, p)
  PROVE  Summed(f)
<1>1. /\ DOMAIN f.parts = DOMAIN e.parts \cup {key} /\ f.parts[key] = p
      /\ \A k \in DOMAIN e.parts : k # key => f.parts[k] = e.parts[k]
  BY RowParts
<1>2. f.job = e.job /\ f.written = e.written + 1 /\ p.rows \in Nat
  BY DEF RowWritten, PartShape
<1> DEFINE new == Report(f, key)
<1>3. \A k \in DOMAIN e.parts : k # key => Report(f, k) = Report(e, k)
  BY <1>1, <1>2 DEF Report
<1>4. new.rows = p.rows /\ new.key = key
  BY <1>1 DEF Report
<1>5. Counts(Reports(e)) /\ RowsOf(Reports(e)) = e.written
  BY DEF Summed
<1>6. \A k : Report(e, k).key = k /\ Report(e, k).rows = e.parts[k].rows
  BY DEF Report
<1>7. CASE key \notin DOMAIN e.parts
  <2>1. Reports(f) = Reports(e) \cup {new}
    <3>1. \A k \in DOMAIN e.parts : Report(f, k) = Report(e, k)
      BY <1>3, <1>7
    <3> QED
      BY <3>1, <1>1 DEF Reports
  <2>2. new \notin Reports(e)
    BY <1>4, <1>6, <1>7 DEF Reports
  <2>3. p.rows = 1
    BY <1>7 DEF RowWritten
  <2> HIDE DEF new
  <2>4. Counts(Reports(e) \cup {new}) /\ RowsOf(Reports(e) \cup {new}) = RowsOf(Reports(e)) + new.rows
    BY <2>2, <1>2, <1>4, <1>5, RowsOfWith
  <2> QED
    BY <2>1, <2>3, <2>4, <1>2, <1>4, <1>5 DEF Summed
<1>8. CASE key \in DOMAIN e.parts
  <2> DEFINE old == Report(e, key)
  <2>1. old \in Reports(e) /\ old.rows = e.parts[key].rows /\ old.rows \in Nat
    <3>1. old \in Reports(e)
      BY <1>8 DEF Reports
    <3> QED
      BY <3>1, <1>5, <1>6 DEF Counts
  <2>2. p.rows = e.parts[key].rows + 1
    BY <1>8 DEF RowWritten
  <2>3. Reports(f) = (Reports(e) \ {old}) \cup {new}
    <3>1. \A k \in DOMAIN e.parts : k # key => Report(e, k) # old
      BY <1>6
    <3>2. Reports(f) \subseteq (Reports(e) \ {old}) \cup {new}
      BY <3>1, <1>1, <1>3, <1>8 DEF Reports
    <3>3. (Reports(e) \ {old}) \cup {new} \subseteq Reports(f)
      BY <1>1, <1>3, <1>8 DEF Reports
    <3> QED
      BY <3>2, <3>3
  <2>4. new \notin Reports(e)
    <3>1. ASSUME NEW k \in DOMAIN e.parts, new = Report(e, k) PROVE FALSE
      <4>1. k = key
        BY <3>1, <1>4, <1>6
      <4>2. new.rows = e.parts[key].rows
        BY <3>1, <4>1, <1>6
      <4> QED
        BY <4>2, <2>1, <2>2, <1>4
    <3> QED
      BY <3>1 DEF Reports
  <2> HIDE DEF new, old
  <2>5. /\ Counts((Reports(e) \ {old}) \cup {new})
        /\ RowsOf((Reports(e) \ {old}) \cup {new}) = RowsOf(Reports(e)) - old.rows + new.rows
    BY <2>1, <2>4, <1>2, <1>4, <1>5, RowsOfChanged
  <2>6. RowsOf(Reports(f)) = e.written + 1
    BY <2>1, <2>2, <2>3, <2>5, <1>4, <1>5
  <2> QED
    BY <2>3, <2>5, <2>6, <1>2 DEF Summed
<1> QED
  BY <1>7, <1>8

LEMMA RowPlaced ==
  ASSUME NEW e, NEW f, NEW key, NEW p, NEW now, NEW after, NEW before,
         Placed(e, now, before), RowWritten(e, f, key, p), now \subseteq after,
         key \notin DOMAIN e.parts =>
           \/ e.job.spec.preview
           \/ p.path \in after /\ (e.job.spec.overwrite \/ p.path \notin before)
  PROVE  Placed(f, after, before)
<1>1. /\ DOMAIN f.parts = DOMAIN e.parts \cup {key} /\ f.parts[key] = p
      /\ \A k \in DOMAIN e.parts : k # key => f.parts[k] = e.parts[k]
  BY RowParts
<1>2. f.job = e.job /\ (key \in DOMAIN e.parts => p.path = e.parts[key].path)
  BY DEF RowWritten
<1>3. before \subseteq after
  BY DEF Placed
<1>4. ASSUME NEW k \in DOMAIN f.parts
      PROVE  \/ f.job.spec.preview
             \/ /\ f.parts[k].path \in after
                /\ f.job.spec.overwrite \/ f.parts[k].path \notin before
  <2>1. CASE k \in DOMAIN e.parts
    <3>1. f.parts[k].path = e.parts[k].path
      BY <1>1, <1>2, <2>1
    <3> QED
      BY <3>1, <2>1, <1>2 DEF Placed
  <2>2. CASE k = key /\ key \notin DOMAIN e.parts
    BY <2>2, <1>1, <1>2
  <2> QED
    BY <2>1, <2>2, <1>1
<1> QED
  BY <1>3, <1>4 DEF Placed

LEMMA RowDealtByValue ==
  ASSUME NEW e, NEW f, NEW key, NEW p, Shape(e), DealtByValue(e), RowWritten(e, f, key, p),
         e.written < Len(Limited(e.job)), key = KeyOf(e.job, e.written + 1)
  PROVE  DealtByValue(f)
<1> DEFINE rows == Limited(e.job)
           at == At(e.job)
           w == e.written
           taken(k) == Taken(rows, at, k)
<1>1. /\ DOMAIN f.parts = DOMAIN e.parts \cup {key} /\ f.parts[key] = p
      /\ \A k \in DOMAIN e.parts : k # key => f.parts[k] = e.parts[k]
  BY RowParts
<1>2. /\ f.job = e.job /\ f.written = w + 1
      /\ key \in DOMAIN e.parts => p.rows = e.parts[key].rows + 1
      /\ key \notin DOMAIN e.parts => p.rows = 1
  BY DEF RowWritten
<1>3. Len(rows) \in Nat /\ w \in Nat /\ w + 1 \in 0 .. Len(rows) /\ w \in 0 .. Len(rows)
      /\ w + 1 # 0 /\ (w + 1) - 1 = w
  BY LimitedIs DEF Shape
<1>4. key = KeyShown(rows[w + 1][at])
  BY DEF KeyOf, KeyShown
<1>5. /\ \A k \in DOMAIN e.parts : e.parts[k].rows = Len(taken(k)[w])
      /\ \A r \in 1 .. w : KeyShown(rows[r][at]) \in DOMAIN e.parts
  BY DEF DealtByValue, KeyOf, KeyShown
<1> HIDE DEF rows, at, w
<1>6. \A k : /\ k # key => taken(k)[w + 1] = taken(k)[w]
             /\ k = key => taken(k)[w + 1] = Append(taken(k)[w], rows[w + 1])
  <2> TAKE k
  <2>1. taken(k)[w + 1] = TakenNext(taken(k), rows, at, k, w + 1)
    BY <1>3, TakenIs
  <2> QED
    BY <2>1, <1>3, <1>4 DEF TakenNext
<1>7. \A k : IsSeq(taken(k)[w])
  BY <1>3, TakenSeq
<1>8. Len(taken(key)[w + 1]) = Len(taken(key)[w]) + 1
  <2>1. Len(Append(taken(key)[w], rows[w + 1])) = Len(taken(key)[w]) + 1
    BY <1>7, AppendFacts
  <2> QED
    BY <2>1, <1>6
<1>9. p.rows = Len(taken(key)[w + 1])
  <2>1. CASE key \in DOMAIN e.parts
    BY <2>1, <1>2, <1>5, <1>8
  <2>2. CASE key \notin DOMAIN e.parts
    <3>1. \A r \in 1 .. w : KeyShown(rows[r][at]) # key
      BY <2>2, <1>5
    <3>2. taken(key)[w] = <<>>
      BY <3>1, <1>3, TakenNone
    <3>3. Len(taken(key)[w]) = 0
      BY <3>2, EmptyIsSeq
    <3> QED
      BY <3>3, <2>2, <1>2, <1>8
  <2> QED
    BY <2>1, <2>2
<1> HIDE DEF taken
<1>10. ASSUME NEW k \in DOMAIN f.parts PROVE f.parts[k].rows = Len(taken(k)[w + 1])
  <2>1. CASE k = key
    BY <2>1, <1>1, <1>9
  <2>2. CASE k # key
    <3>1. k \in DOMAIN e.parts /\ f.parts[k] = e.parts[k]
      BY <2>2, <1>1
    <3> QED
      BY <3>1, <2>2, <1>5, <1>6
  <2> QED
    BY <2>1, <2>2
<1>11. ASSUME NEW r \in 1 .. w + 1 PROVE KeyShown(rows[r][at]) \in DOMAIN f.parts
  <2>1. CASE r = w + 1
    BY <2>1, <1>1, <1>4
  <2>2. CASE r \in 1 .. w
    BY <2>2, <1>1, <1>5
  <2> QED
    BY <2>1, <2>2, <1>3
<1> QED
  BY <1>2, <1>10, <1>11 DEF DealtByValue, KeyOf, KeyShown, taken, rows, at, w

LEMMA RowDealtToOne ==
  ASSUME NEW e, NEW f, NEW key, NEW p, Shape(e), DealtToOne(e), RowWritten(e, f, key, p), key = <<>>
  PROVE  DealtToOne(f)
<1>1. /\ DOMAIN f.parts = DOMAIN e.parts \cup {key} /\ f.parts[key] = p
      /\ \A k \in DOMAIN e.parts : k # key => f.parts[k] = e.parts[k]
  BY RowParts
<1>2. /\ f.written = e.written + 1
      /\ key \in DOMAIN e.parts => p.rows = e.parts[key].rows + 1
      /\ key \notin DOMAIN e.parts => p.rows = 1
  BY DEF RowWritten
<1>3. /\ \A k \in DOMAIN e.parts : k = <<>> /\ e.parts[k].rows = e.written
      /\ e.written # 0 => <<>> \in DOMAIN e.parts
  BY DEF DealtToOne
<1>4. e.written \in Nat
  BY DEF Shape
<1>5. p.rows = e.written + 1
  BY <1>2, <1>3, <1>4
<1> QED
  BY <1>1, <1>2, <1>3, <1>5 DEF DealtToOne

\* The place of the row: on to the next file when the one at hand is full.
TurnedTo(e, f, key) ==
  LET size == e.job.spec.partition_rows[1]
  IN /\ e.here >= size => f.index = e.index + 1 /\ f.here = 1
     /\ ~(e.here >= size) => f.index = e.index /\ f.here = e.here + 1
     /\ key = <<"#", f.index>>

LEMMA RowDealtOneByOne ==
  ASSUME NEW e, NEW f, NEW key, NEW p, Shape(e), DealtOneByOne(e), RowWritten(e, f, key, p),
         e.job.spec.partition_rows[1] = 0, TurnedTo(e, f, key)
  PROVE  DealtOneByOne(f)
<1> DEFINE w == e.written
<1>1. /\ DOMAIN f.parts = DOMAIN e.parts \cup {key} /\ f.parts[key] = p
      /\ \A k \in DOMAIN e.parts : k # key => f.parts[k] = e.parts[k]
  BY RowParts
<1>2. f.written = w + 1 /\ (key \notin DOMAIN e.parts => p.rows = 1)
  BY DEF RowWritten
<1>3. /\ e.index = w /\ DOMAIN e.parts = {<<"#", i>> : i \in 1 .. w}
      /\ \A k \in DOMAIN e.parts : e.parts[k].rows = 1
  BY DEF DealtOneByOne
<1>4. w \in Nat /\ e.here \in Nat
  BY DEF Shape
<1>5. f.index = w + 1 /\ key = <<"#", w + 1>>
  BY <1>3, <1>4 DEF TurnedTo
<1> HIDE DEF w
<1>6. key \notin DOMAIN e.parts
  <2>1. ASSUME NEW i \in 1 .. w PROVE <<"#", i>> # <<"#", w + 1>>
    BY <1>4
  <2> QED
    BY <2>1, <1>3, <1>5
<1>7. DOMAIN f.parts = {<<"#", i>> : i \in 1 .. w + 1}
  <2>1. 1 .. w + 1 = (1 .. w) \cup {w + 1}
    BY <1>4
  <2> QED
    BY <2>1, <1>1, <1>3, <1>5
<1>8. \A k \in DOMAIN f.parts : f.parts[k].rows = 1
  BY <1>1, <1>2, <1>3, <1>6
<1> QED
  BY <1>2, <1>5, <1>7, <1>8 DEF DealtOneByOne

LEMMA RowDealtBySize ==
  ASSUME NEW e, NEW f, NEW key, NEW p, Shape(e), DealtBySize(e), RowWritten(e, f, key, p),
         e.job.spec.partition_rows # None, e.job.spec.partition_rows[1] # 0, TurnedTo(e, f, key)
  PROVE  DealtBySize(f)
<1> DEFINE size == e.job.spec.partition_rows[1]
           w == e.written
           x == e.index
           h == e.here
<1>1. /\ DOMAIN f.parts = DOMAIN e.parts \cup {key} /\ f.parts[key] = p
      /\ \A k \in DOMAIN e.parts : k # key => f.parts[k] = e.parts[k]
  BY RowParts
<1>2. /\ f.written = w + 1 /\ f.job = e.job
      /\ key \in DOMAIN e.parts => p.rows = e.parts[key].rows + 1
      /\ key \notin DOMAIN e.parts => p.rows = 1
  BY DEF RowWritten
<1>3. /\ h <= size /\ w = x * size + h /\ (h = 0 => x = 0)
      /\ DOMAIN e.parts = (IF h = 0 THEN {} ELSE {<<"#", i>> : i \in 0 .. x})
      /\ \A i \in 0 .. x : <<"#", i>> \in DOMAIN e.parts =>
           e.parts[<<"#", i>>].rows = IF i < x THEN size ELSE h
  BY DEF DealtBySize
<1>4. w \in Nat /\ x \in Nat /\ h \in Nat /\ size \in Nat /\ size # 0
  BY JobFacts DEF Shape
<1>5. /\ h >= size => f.index = x + 1 /\ f.here = 1
      /\ ~(h >= size) => f.index = x /\ f.here = h + 1
      /\ key = <<"#", f.index>>
  BY DEF TurnedTo
<1> HIDE DEF size, w, x, h
<1>6. CASE h >= size
  <2>1. h = size /\ h # 0 /\ f.index = x + 1 /\ f.here = 1 /\ key = <<"#", x + 1>>
    BY <1>3, <1>4, <1>5, <1>6
  <2>2. f.written = f.index * size + f.here
    <3>1. (x + 1) * size = x * size + size /\ x * size \in Nat
      BY <1>4
    <3>2. w = x * size + size
      BY <1>3, <2>1
    <3> QED
      BY <3>1, <3>2, <2>1, <1>2, <1>4
  <2>3. key \notin DOMAIN e.parts /\ p.rows = 1
    <3>1. \A i \in 0 .. x : <<"#", i>> # <<"#", x + 1>>
      BY <1>4
    <3> QED
      BY <3>1, <2>1, <1>2, <1>3
  <2>4. DOMAIN f.parts = {<<"#", i>> : i \in 0 .. x + 1}
    <3>1. 0 .. x + 1 = (0 .. x) \cup {x + 1}
      BY <1>4
    <3> QED
      BY <3>1, <2>1, <1>1, <1>3
  <2>5. ASSUME NEW i \in 0 .. x + 1
        PROVE  f.parts[<<"#", i>>].rows = IF i < x + 1 THEN size ELSE 1
    <3>1. CASE i = x + 1
      BY <3>1, <2>1, <2>3, <1>1, <1>4
    <3>2. CASE i # x + 1
      <4>1. i \in 0 .. x /\ i < x + 1
        BY <3>2, <1>4
      <4>2. <<"#", i>> \in DOMAIN e.parts /\ <<"#", i>> # key
        BY <4>1, <2>1, <2>3, <1>3
      <4>3. e.parts[<<"#", i>>].rows = size
        BY <4>1, <4>2, <2>1, <1>3
      <4> QED
        BY <4>1, <4>2, <4>3, <1>1
    <3> QED
      BY <3>1, <3>2
  <2>6. f.here # 0 /\ f.here <= size
    BY <2>1, <1>4
  <2> QED
    BY <2>1, <2>2, <2>4, <2>5, <2>6, <1>2 DEF DealtBySize, size
<1>7. CASE ~(h >= size)
  <2>1. f.index = x /\ f.here = h + 1 /\ key = <<"#", x>> /\ h < size
    BY <1>4, <1>5, <1>7
  <2>2. f.written = f.index * size + f.here
    <3>1. x * size \in Nat
      BY <1>4
    <3> QED
      BY <3>1, <2>1, <1>2, <1>3, <1>4
  <2>3. DOMAIN f.parts = {<<"#", i>> : i \in 0 .. x} /\ p.rows = h + 1
    <3>1. CASE h = 0
      <4>1. DOMAIN e.parts = {} /\ x = 0
        BY <3>1, <1>3
      <4>2. 0 .. x = {0}
        BY <4>1
      <4> QED
        BY <4>1, <4>2, <2>1, <3>1, <1>1, <1>2
    <3>2. CASE h # 0
      <4>1. DOMAIN e.parts = {<<"#", i>> : i \in 0 .. x}
        BY <3>2, <1>3
      <4>2. x \in 0 .. x
        BY <1>4
      <4>3. key \in DOMAIN e.parts
        BY <4>1, <4>2, <2>1
      <4>4. e.parts[key].rows = h
        BY <4>2, <4>3, <2>1, <1>3, <1>4
      <4> QED
        BY <4>1, <4>3, <4>4, <1>1, <1>2
    <3> QED
      BY <3>1, <3>2
  <2>4. ASSUME NEW i \in 0 .. x
        PROVE  f.parts[<<"#", i>>].rows = IF i < x THEN size ELSE h + 1
    <3>1. CASE i = x
      BY <3>1, <2>1, <2>3, <1>1, <1>4
    <3>2. CASE i # x
      <4>1. i < x /\ <<"#", i>> # key
        BY <3>2, <2>1, <1>4
      <4>2. <<"#", i>> \in DOMAIN e.parts
        BY <4>1, <2>3, <1>1
      <4>3. e.parts[<<"#", i>>].rows = size
        BY <4>1, <4>2, <1>3
      <4> QED
        BY <4>1, <4>2, <4>3, <1>1
    <3> QED
      BY <3>1, <3>2
  <2>5. f.here # 0 /\ f.here <= size
    BY <2>1, <1>4
  <2> QED
    BY <2>1, <2>2, <2>3, <2>4, <2>5, <1>2 DEF DealtBySize, size
<1> QED
  BY <1>6, <1>7

\* How the row's partition was found: by its value, by its place, or the only one.
KeyFound(e, f, key) ==
  LET s == e.job.spec
  IN /\ s.partition_by # None => key = KeyOf(e.job, e.written + 1)
     /\ (s.partition_by = None /\ s.partition_rows = None) => key = <<>>
     /\ (s.partition_by = None /\ s.partition_rows # None) => TurnedTo(e, f, key)

LEMMA RowDealt ==
  ASSUME NEW e, NEW f, NEW key, NEW p, Shape(e), Dealt(e), RowWritten(e, f, key, p),
         e.written < Len(Limited(e.job)), KeyFound(e, f, key)
  PROVE  Dealt(f)
<1> DEFINE s == e.job.spec
<1>1. f.job = e.job
  BY DEF RowWritten
<1>2. CASE s.partition_by # None
  <2>1. DealtByValue(e) /\ key = KeyOf(e.job, e.written + 1)
    BY <1>2 DEF Dealt, KeyFound
  <2>2. DealtByValue(f)
    BY <2>1, RowDealtByValue
  <2> QED
    BY <2>2, <1>1, <1>2 DEF Dealt
<1>3. CASE s.partition_by = None /\ s.partition_rows = None
  <2>1. DealtToOne(e) /\ key = <<>>
    BY <1>3 DEF Dealt, KeyFound
  <2>2. DealtToOne(f)
    BY <2>1, RowDealtToOne
  <2> QED
    BY <2>2, <1>1, <1>3 DEF Dealt
<1>4. CASE s.partition_by = None /\ s.partition_rows # None /\ s.partition_rows[1] = 0
  <2>1. DealtOneByOne(e) /\ TurnedTo(e, f, key)
    BY <1>4 DEF Dealt, KeyFound
  <2>2. DealtOneByOne(f)
    BY <2>1, <1>4, RowDealtOneByOne
  <2> QED
    BY <2>2, <1>1, <1>4 DEF Dealt
<1>5. CASE s.partition_by = None /\ s.partition_rows # None /\ s.partition_rows[1] # 0
  <2>1. DealtBySize(e) /\ TurnedTo(e, f, key)
    BY <1>5 DEF Dealt, KeyFound
  <2>2. DealtBySize(f)
    BY <2>1, <1>5, RowDealtBySize
  <2> QED
    BY <2>2, <1>1, <1>5 DEF Dealt
<1> QED
  BY <1>2, <1>3, <1>4, <1>5

LEMMA RowRuns ==
  ASSUME NEW e, NEW f, NEW key, NEW p, Runs(e), e.phase = "rows", RowWritten(e, f, key, p),
         e.written < Len(Limited(e.job)), KeyFound(e, f, key)
  PROVE  Runs(f)
<1>1. Shape(e) /\ Reading(e) /\ Ordered(e) /\ Filed(e) /\ Summed(e) /\ Dealt(e)
  BY DEF Runs, Settled
<1>2. Shape(f) /\ Reading(f)
  BY <1>1, RowShape, RowReading
<1>3. Ordered(f) /\ Summed(f)
  BY <1>1, RowOrdered, RowSummed DEF Shape
<1>4. Dealt(f)
  BY <1>1, RowDealt
<1>5. Filed(f)
  <2>1. f.files = <<>> /\ IsSeq(f.files) /\ Len(f.files) = 0
    BY <1>1, EmptyIsSeq DEF Filed, RowWritten
  <2>2. Len(f.order) \in Nat
    BY <1>3, SeqFacts DEF Ordered
  <2> QED
    BY <2>1, <2>2 DEF Filed
<1>6. Settled(f)
  <2>1. ASSUME f.phase = "finish", ~f.error
        PROVE  \A k \in DOMAIN f.parts : f.parts[k].rows = Len(Part(f.job, k))
    <3>1. f.written = Len(Limited(f.job))
      BY <2>1, <1>2 DEF Reading
    <3> QED
      BY <3>1, <1>2, <1>4, DealtSettles
  <2> QED
    BY <1>4, <2>1 DEF Settled
<1> QED
  BY <1>2, <1>3, <1>5, <1>6 DEF Runs

-----------------------------------------------------------------------------
(* The actions on the locals, one by one.                                      *)

LEMMA SamePartsRefl ==
  ASSUME NEW e, NEW f, Ordered(e), f.parts = e.parts
  PROVE  SameParts(e, f)
BY DEF Ordered, SameParts

LEMMA LimitMet ==
  ASSUME export # Idle, Runs(export), LimitReached
  PROVE  export.written = Len(Limited(export.job))
<1> DEFINE job == export.job
           n == Len(Limited(job))
<1>1. job \in Jobs /\ export.written \in Nat /\ export.written <= n
  BY DEF Runs, Shape, Reading
<1>2. /\ n \in Nat
      /\ job.spec.limit # None => n <= job.spec.limit[1] /\ job.spec.limit[1] \in Nat
      /\ job.spec.preview => n <= Shows(job.spec)
      /\ Shows(job.spec) \in Nat
  BY <1>1, LimitedIs, JobFacts, ExportAssumption DEF Shows
<1>3. \/ job.spec.limit # None /\ export.written >= job.spec.limit[1]
      \/ job.spec.preview /\ export.written >= Shows(job.spec)
  BY DEF LimitReached, spec, Shows
<1> HIDE DEF n, job
<1>4. n <= export.written
  BY <1>1, <1>2, <1>3
<1>5. export.written = n
  BY <1>1, <1>2, <1>4
<1> QED
  BY <1>5 DEF n, job

LEMMA LimitNotMet ==
  ASSUME export # Idle, Runs(export), export.phase = "rows", ~LimitReached
  PROVE  export.written < Len(Limited(export.job))
<1> DEFINE job == export.job
           n == Len(Limited(job))
<1>1. job \in Jobs /\ export.written \in Nat /\ export.fetched \in Nat
  BY DEF Runs, Shape
<1>2. export.written <= n /\ export.written + Len(export.batch) = export.fetched
      /\ export.fetched <= Len(job.rows) /\ export.batch # <<>> /\ IsSeq(export.batch)
  BY DEF Runs, Reading
<1>3. Len(export.batch) \in Nat /\ Len(export.batch) # 0
  BY <1>2, SeqFacts
<1>4. n \in Nat /\ Len(job.rows) \in Nat
      /\ (\/ n = Len(job.rows)
          \/ job.spec.limit # None /\ n = job.spec.limit[1]
          \/ job.spec.preview /\ n = Shows(job.spec))
  BY <1>1, LimitedIs, JobFacts
<1>5. /\ ~(job.spec.limit # None /\ export.written >= job.spec.limit[1])
      /\ ~(job.spec.preview /\ export.written >= Shows(job.spec))
  BY DEF LimitReached, spec, Shows
<1> HIDE DEF n, job
<1>6. export.written < Len(job.rows)
  BY <1>1, <1>2, <1>3, <1>4
<1>7. export.written # n
  BY <1>1, <1>4, <1>5, <1>6
<1>8. export.written < n
  BY <1>1, <1>2, <1>4, <1>7
<1> QED
  BY <1>8 DEF n, job

LEMMA StartRuns ==
  ASSUME NEW job \in Jobs, Start(job)
  PROVE  export' # Idle => Runs(export') /\ Placed(export', DOMAIN disk', DOMAIN found')
<1>1. disk' = disk /\ found' = disk
  BY DEF Start
<1> DEFINE f == [phase |-> "fetch", job |-> job, fetched |-> 0, batch |-> <<>>,
                 last |-> FALSE, parts |-> <<>>, order |-> <<>>,
                 written |-> 0, index |-> 0, here |-> 0, error |-> FALSE, files |-> <<>>]
<1>2. export' = Idle \/ export' = f
  BY DEF Start
<1>3. /\ Shape(f) /\ f.job = job /\ f.phase = "fetch" /\ f.batch = <<>> /\ f.parts = <<>> /\ f.order = <<>>
      /\ f.files = <<>> /\ f.written = 0 /\ f.fetched = 0 /\ f.index = 0 /\ f.here = 0
  BY DEF Shape, Fields
<1>4. DOMAIN f.parts = {}
  BY <1>3
<1> HIDE DEF f
<1>5. Reading(f)
  <2>1. Len(Limited(job)) \in Nat /\ Len(job.rows) \in Nat
    BY LimitedIs, JobFacts
  <2> QED
    BY <2>1, <1>3, EmptyIsSeq DEF Reading
<1>6. Ordered(f)
  <2>1. DOMAIN f.order = {} /\ Range(f.order) = {} /\ IsSeq(f.order)
    BY <1>3, EmptyIsSeq DEF Range
  <2> QED
    BY <2>1, <1>4 DEF Ordered
<1>7. Filed(f)
  BY <1>3, EmptyIsSeq DEF Filed
<1>8. Summed(f)
  <2>1. Reports(f) = {}
    BY <1>4 DEF Reports
  <2>2. Counts({})
    BY FS_EmptySet DEF Counts
  <2> QED
    BY <2>1, <2>2, <1>3, RowsOfNone DEF Summed
<1>9. Dealt(f)
  <2> DEFINE s == f.job.spec
  <2>1. DealtByValue(f)
    BY <1>3, <1>4 DEF DealtByValue
  <2>2. DealtToOne(f)
    BY <1>3, <1>4 DEF DealtToOne
  <2>3. DealtOneByOne(f)
    BY <1>3, <1>4 DEF DealtOneByOne
  <2>4. ASSUME s.partition_rows # None PROVE DealtBySize(f)
    <3>1. s.partition_rows[1] \in Nat /\ f.job \in Jobs
      BY <1>3, <2>4, JobFacts
    <3>2. 0 = 0 * s.partition_rows[1] + 0 /\ 0 <= s.partition_rows[1]
      BY <3>1
    <3> QED
      BY <3>2, <1>3, <1>4 DEF DealtBySize
  <2> QED
    BY <2>1, <2>2, <2>3, <2>4 DEF Dealt
<1>10. Settled(f)
  BY <1>3, <1>9 DEF Settled
<1>11. Runs(f)
  BY <1>3, <1>5, <1>6, <1>7, <1>8, <1>10 DEF Runs
<1>12. Placed(f, DOMAIN disk', DOMAIN found')
  BY <1>1, <1>4 DEF Placed
<1> QED
  BY <1>1, <1>2, <1>11, <1>12

\* The stream ends, with what was written as the rows, or with an error.
LEMMA StreamEnds ==
  ASSUME NEW e, NEW f, Runs(e), e.phase # "finish", Shape(f), SameCounts(e, f),
         SameParts(e, f), f.files = e.files, f.fetched = e.fetched,
         f.phase = "finish", f.batch = <<>>,
         f.error \/ e.written = Len(Limited(e.job))
  PROVE  Runs(f)
<1>1. Shape(e) /\ Reading(e)
  BY DEF Runs
<1>2. e.written <= e.fetched
  <2>1. CASE e.phase = "rows"
    <3>1. IsSeq(e.batch) /\ e.written + Len(e.batch) = e.fetched
      BY <1>1, <2>1 DEF Reading
    <3>2. Len(e.batch) \in Nat
      BY <3>1, SeqFacts
    <3> QED
      BY <3>1, <3>2, <1>1 DEF Shape
  <2>2. CASE e.phase # "rows"
    BY <1>1, <2>2 DEF Reading
  <2> QED
    BY <2>1, <2>2
<1>3. Reading(f)
  BY <1>1, <1>2, EmptyIsSeq DEF Reading, SameCounts
<1> QED
  BY <1>1, <1>3, NothingDealt

LEMMA FetchRuns ==
  ASSUME Fetch, Runs(export)
  PROVE  Runs(export') /\ SameParts(export, export') /\ SameCounts(export, export')
<1> DEFINE e == export
           f == export'
           b == Batch(e)
<1>1. Shape(e) /\ Reading(e) /\ e.phase = "fetch" /\ Ordered(e)
  BY DEF Runs, Fetch
<1>2. e.job \in Jobs /\ e.fetched \in Nat /\ e.fetched <= Len(e.job.rows)
      /\ e.batch = <<>> /\ e.written = e.fetched
  BY <1>1 DEF Shape, Reading
<1>3. /\ IsSeq(b) /\ Len(b) \in Nat /\ e.fetched + Len(b) <= Len(e.job.rows)
      /\ \A i \in 1 .. Len(b) : b[i] = e.job.rows[e.fetched + i]
      /\ (LastBatch(e) \/ b = <<>>) => e.fetched + Len(b) = Len(e.job.rows)
  BY <1>2, BatchIs
<1>4. LastBatch(e) \in BOOLEAN
  BY DEF LastBatch
<1> DEFINE g == [e EXCEPT !.fetched = @ + Len(b), !.last = LastBatch(e)]
<1>5. /\ DOMAIN g = Fields /\ g.fetched = e.fetched + Len(b) /\ g.last = LastBatch(e)
      /\ g.phase = e.phase /\ g.job = e.job /\ g.batch = e.batch /\ g.parts = e.parts
      /\ g.order = e.order /\ g.written = e.written /\ g.index = e.index /\ g.here = e.here
      /\ g.error = e.error /\ g.files = e.files
  BY <1>1 DEF Shape, Fields
<1>6. \/ f = [g EXCEPT !.phase = "finish"] /\ ~HandedOver(e)
      \/ f = [g EXCEPT !.phase = "finish", !.error = TRUE]
      \/ /\ f = [g EXCEPT !.phase = IF b = <<>> THEN AfterBatch(g.last) ELSE "rows", !.batch = b]
  BY DEF Fetch
<1> HIDE DEF g
<1>7. /\ DOMAIN f = Fields /\ f.fetched = g.fetched /\ f.last = g.last
      /\ f.job = g.job /\ f.parts = g.parts /\ f.order = g.order /\ f.written = g.written
      /\ f.index = g.index /\ f.here = g.here /\ f.files = g.files
      /\ \/ ~HandedOver(e) /\ f.phase = "finish" /\ f.error = g.error /\ f.batch = g.batch
         \/ f.phase = "finish" /\ f.error = TRUE /\ f.batch = g.batch
         \/ /\ f.phase = (IF b = <<>> THEN AfterBatch(g.last) ELSE "rows")
            /\ f.error = g.error /\ f.batch = b
  <2> HIDE DEF b
  <2>1. CASE f = [g EXCEPT !.phase = "finish"] /\ ~HandedOver(e)
    BY <2>1, <1>5 DEF Fields
  <2>2. CASE f = [g EXCEPT !.phase = "finish", !.error = TRUE]
    BY <2>2, <1>5 DEF Fields
  <2>3. CASE f = [g EXCEPT !.phase = IF b = <<>> THEN AfterBatch(g.last) ELSE "rows", !.batch = b]
    BY <2>3, <1>5 DEF Fields
  <2> QED
    BY <2>1, <2>2, <2>3, <1>6
<1>8. ~HandedOver(e) => b = <<>>
  BY DEF HandedOver
<1> HIDE DEF b, f
<1>9. Shape(f)
  <2>1. f.fetched \in Nat /\ f.written \in Nat /\ f.index \in Nat /\ f.here \in Nat /\ f.job \in Jobs
    BY <1>1, <1>3, <1>5, <1>7 DEF Shape
  <2>2. f.last \in BOOLEAN
    BY <1>4, <1>5, <1>7
  <2>3. f.error \in BOOLEAN
    <3>1. e.error \in BOOLEAN
      BY <1>1 DEF Shape
    <3> QED
      BY <3>1, <1>5, <1>7
  <2>4. f.phase \in {"fetch", "rows", "finish"}
    BY <1>7 DEF AfterBatch
  <2> QED
    BY <2>1, <2>2, <2>3, <2>4, <1>7 DEF Shape
<1>10. Len(Limited(e.job)) \in Nat /\ Len(Limited(e.job)) <= Len(e.job.rows) /\ Len(e.job.rows) \in Nat
       /\ e.written <= Len(Limited(e.job)) /\ IsSeq(<<>>) /\ Len(<<>>) = 0
  BY <1>1, <1>2, LimitedIs, JobFacts, EmptyIsSeq DEF Reading
<1>11. b = <<>> => e.fetched = Len(e.job.rows) /\ e.written = Len(Limited(e.job))
  <2>1. b = <<>> => Len(b) = 0
    BY <1>10
  <2> QED
    BY <2>1, <1>2, <1>3, <1>10
<1>12. Reading(f)
  <2>1. f.fetched = e.fetched + Len(b) /\ f.fetched <= Len(f.job.rows) /\ f.job = e.job /\ f.written = e.written
    BY <1>3, <1>5, <1>7
  <2>2. CASE b # <<>> /\ f.phase = "rows" /\ f.batch = b
    <3>1. f.written + Len(f.batch) = f.fetched
      BY <2>1, <2>2, <1>2
    <3>2. \A i \in 1 .. Len(f.batch) : f.batch[i] = f.job.rows[f.written + i]
      BY <2>1, <2>2, <1>2, <1>3
    <3>3. f.last => f.fetched = Len(f.job.rows)
      BY <2>1, <1>3, <1>5, <1>7
    <3> QED
      BY <2>1, <2>2, <3>1, <3>2, <3>3, <1>3, <1>10 DEF Reading
  <2>3. CASE b = <<>> /\ f.batch = <<>> /\ f.phase # "rows"
    <3>1. f.fetched = e.fetched
      BY <2>1, <2>3, <1>2, <1>10
    <3> QED
      BY <2>1, <2>3, <3>1, <1>2, <1>10, <1>11 DEF Reading
  <2>4. CASE f.phase = "finish" /\ f.error = TRUE /\ f.batch = <<>>
    <3>1. f.written <= f.fetched
      BY <2>1, <1>2, <1>3
    <3> QED
      BY <2>1, <2>4, <3>1, <1>10 DEF Reading
  <2>5. AfterBatch(g.last) # "rows"
    BY DEF AfterBatch
  <2> QED
    BY <2>2, <2>3, <2>4, <2>5, <1>2, <1>5, <1>7, <1>8
<1>13. SameParts(e, f) /\ SameCounts(e, f) /\ f.files = e.files
  BY <1>1, <1>5, <1>7, SamePartsRefl DEF SameCounts
<1>14. Runs(f)
  BY <1>1, <1>9, <1>12, <1>13, NothingDealt
<1> QED
  BY <1>13, <1>14 DEF f

\* The stream of e has been ended in f.
Ended(e, f) ==
  /\ DOMAIN f = Fields
  /\ f.phase = "finish" /\ f.batch = <<>> /\ f.last = e.last /\ f.fetched = e.fetched
  /\ f.job = e.job /\ f.order = e.order /\ f.written = e.written /\ f.index = e.index
  /\ f.here = e.here /\ f.files = e.files /\ f.error \in BOOLEAN
  /\ SameParts(e, f)

LEMMA EndedRuns ==
  ASSUME NEW e, NEW f, Runs(e), e.phase # "finish", Ended(e, f),
         f.error \/ e.written = Len(Limited(e.job))
  PROVE  Runs(f) /\ SameParts(e, f) /\ SameCounts(e, f)
<1>1. Shape(f)
  BY DEF Runs, Shape, Ended
<1>2. SameCounts(e, f) /\ SameParts(e, f)
  BY DEF Ended, SameCounts
<1> QED
  BY <1>1, <1>2, StreamEnds DEF Ended

LEMMA FailingEnds ==
  ASSUME NEW e, Runs(e)
  PROVE  Ended(e, Failing(e)) /\ Failing(e).error
<1> DEFINE f == Failing(e)
<1>1. DOMAIN e = Fields /\ Ordered(e)
  BY DEF Runs, Shape
<1>2. /\ DOMAIN f = Fields
      /\ f.phase = "finish" /\ f.batch = <<>> /\ f.last = e.last /\ f.fetched = e.fetched
      /\ f.job = e.job /\ f.order = e.order /\ f.written = e.written /\ f.index = e.index
      /\ f.here = e.here /\ f.files = e.files /\ f.error = TRUE /\ f.parts = e.parts
  BY <1>1 DEF Failing, Fields
<1> HIDE DEF f
<1>3. SameParts(e, f)
  BY <1>1, <1>2, SamePartsRefl
<1> QED
  BY <1>2, <1>3 DEF Ended, f

LEMMA FetchFailsRuns ==
  ASSUME FetchFails, Runs(export)
  PROVE  Runs(export') /\ SameParts(export, export') /\ SameCounts(export, export')
<1> DEFINE e == export
           f == export'
<1>1. DOMAIN e = Fields /\ Ordered(e) /\ e.phase = "fetch" /\ e.batch = <<>>
  BY DEF Runs, Shape, Reading, FetchFails
<1>2. /\ DOMAIN f = Fields
      /\ f.phase = "finish" /\ f.batch = <<>> /\ f.last = e.last /\ f.fetched = e.fetched
      /\ f.job = e.job /\ f.order = e.order /\ f.written = e.written /\ f.index = e.index
      /\ f.here = e.here /\ f.files = e.files /\ f.error = TRUE /\ f.parts = e.parts
  BY <1>1 DEF FetchFails, Fields
<1> HIDE DEF f
<1>3. SameParts(e, f)
  BY <1>1, <1>2, SamePartsRefl
<1>4. Ended(e, f)
  BY <1>2, <1>3 DEF Ended
<1>5. Runs(f) /\ SameParts(e, f) /\ SameCounts(e, f)
  BY <1>1, <1>2, <1>4, EndedRuns
<1> QED
  BY <1>5 DEF f

LEMMA StopAtLimitRuns ==
  ASSUME StopAtLimit, Runs(export)
  PROVE  Runs(export') /\ SameParts(export, export') /\ SameCounts(export, export')
<1> DEFINE e == export
           f == export'
<1>1. DOMAIN e = Fields /\ Ordered(e) /\ e.phase = "rows" /\ e.error \in BOOLEAN
  BY DEF Runs, Shape, StopAtLimit
<1>2. /\ DOMAIN f = Fields
      /\ f.phase = "finish" /\ f.batch = <<>> /\ f.last = e.last /\ f.fetched = e.fetched
      /\ f.job = e.job /\ f.order = e.order /\ f.written = e.written /\ f.index = e.index
      /\ f.here = e.here /\ f.files = e.files /\ f.error = e.error /\ f.parts = e.parts
  BY <1>1 DEF StopAtLimit, Fields
<1>3. e.written = Len(Limited(e.job))
  <2>1. export # Idle
    BY <1>1 DEF Idle
  <2> QED
    BY <2>1, LimitMet DEF StopAtLimit
<1> HIDE DEF f
<1>4. SameParts(e, f)
  BY <1>1, <1>2, SamePartsRefl
<1>5. Ended(e, f)
  BY <1>1, <1>2, <1>4 DEF Ended
<1>6. Runs(f) /\ SameParts(e, f) /\ SameCounts(e, f)
  BY <1>1, <1>3, <1>5, EndedRuns
<1> QED
  BY <1>6 DEF f

LEMMA NoPartitionColumnRuns ==
  ASSUME NoPartitionColumn, Runs(export)
  PROVE  Runs(export') /\ SameParts(export, export') /\ SameCounts(export, export')
<1>1. export.phase = "rows" /\ export' = Failing(export)
  BY DEF NoPartitionColumn
<1>2. Ended(export, Failing(export)) /\ Failing(export).error
  BY FailingEnds
<1> QED
  BY <1>1, <1>2, EndedRuns

LEMMA WriteFailsRuns ==
  ASSUME WriteFails, Runs(export)
  PROVE  Runs(export') /\ SameParts(export, export') /\ SameCounts(export, export')
<1>1. export.phase = "rows"
  BY DEF WriteFails
<1>2. Ended(export, Failing(export)) /\ Failing(export).error
  BY FailingEnds
<1>3. CASE export' = Failing(export)
  BY <1>1, <1>2, <1>3, EndedRuns
<1>4. ASSUME NEW key \in DOMAIN export.parts,
             export' = [Failing(export) EXCEPT !.parts[key].torn = TRUE]
      PROVE  Runs(export') /\ SameParts(export, export') /\ SameCounts(export, export')
  <2> DEFINE g == Failing(export)
             f == export'
  <2>1. DOMAIN g = Fields
    BY <1>2 DEF Ended
  <2>2. SameParts(export, g)
    BY <1>2 DEF Ended
  <2>3. g.parts = export.parts
    <3>1. DOMAIN export = Fields
      BY DEF Runs, Shape
    <3> QED
      BY <3>1 DEF Failing, Fields
  <2> HIDE DEF g
  <2>4. /\ DOMAIN f = Fields
        /\ f.phase = g.phase /\ f.batch = g.batch /\ f.last = g.last /\ f.fetched = g.fetched
        /\ f.job = g.job /\ f.order = g.order /\ f.written = g.written /\ f.index = g.index
        /\ f.here = g.here /\ f.files = g.files /\ f.error = g.error
        /\ f.parts = [g.parts EXCEPT ![key] = [g.parts[key] EXCEPT !.torn = TRUE]]
    BY <1>4, <2>1 DEF Fields, g
  <2> HIDE DEF f
  <2>5. SameParts(export, f)
    <3>1. DOMAIN f.parts = DOMAIN export.parts
      BY <2>3, <2>4
    <3>2. ASSUME NEW k \in DOMAIN export.parts
          PROVE  /\ PartShape(f.parts[k]) /\ f.parts[k].rows = export.parts[k].rows
                 /\ f.parts[k].path = export.parts[k].path
      <4>1. PartShape(export.parts[k])
        BY <2>2, <2>3 DEF SameParts
      <4>2. CASE k = key
        <5>1. f.parts[k] = [export.parts[k] EXCEPT !.torn = TRUE]
          BY <2>3, <2>4, <4>2
        <5> QED
          BY <5>1, <4>1 DEF PartShape
      <4>3. CASE k # key
        <5>1. f.parts[k] = export.parts[k]
          BY <2>3, <2>4, <4>3
        <5> QED
          BY <5>1, <4>1
      <4> QED
        BY <4>2, <4>3
    <3> QED
      BY <3>1, <3>2 DEF SameParts
  <2>6. Ended(export, f)
    BY <1>2, <2>4, <2>5 DEF Ended, g
  <2>7. f.error
    BY <1>2, <2>4 DEF g
  <2>8. Runs(f) /\ SameParts(export, f) /\ SameCounts(export, f)
    BY <1>1, <2>6, <2>7, EndedRuns
  <2> QED
    BY <2>8 DEF f
<1> QED
  BY <1>3, <1>4 DEF WriteFails

\* The row's own place, key and partition, as WriteRow computes them.
Place(e) == IF spec.partition_by = None /\ spec.partition_rows # None THEN Turned(e) ELSE e
PartOf(e) ==
  IF Key(e) \notin DOMAIN e.parts THEN Opened(RowPath(e), Columns(e), spec) ELSE e.parts[Key(e)]

LEMMA PlaceFields ==
  ASSUME Shape(export)
  PROVE  LET e == export
             g == Place(e)
         IN  /\ DOMAIN g = Fields /\ g.phase = e.phase /\ g.job = e.job /\ g.fetched = e.fetched
             /\ g.batch = e.batch /\ g.last = e.last /\ g.parts = e.parts /\ g.order = e.order
             /\ g.written = e.written /\ g.error = e.error /\ g.files = e.files
             /\ g.index \in Nat /\ g.here \in Nat
             /\ ~(spec.partition_by = None /\ spec.partition_rows # None) => g = e
             /\ (spec.partition_by = None /\ spec.partition_rows # None) =>
                  /\ e.here >= spec.partition_rows[1] => g.index = e.index + 1 /\ g.here = 1
                  /\ ~(e.here >= spec.partition_rows[1]) => g.index = e.index /\ g.here = e.here + 1
<1> DEFINE e == export
           g == Place(e)
<1>1. DOMAIN e = Fields /\ e.index \in Nat /\ e.here \in Nat
  BY DEF Shape
<1>2. CASE ~(spec.partition_by = None /\ spec.partition_rows # None)
  <2>1. g = e
    BY <1>2 DEF Place
  <2> QED
    BY <2>1, <1>1, <1>2
<1>3. CASE spec.partition_by = None /\ spec.partition_rows # None
  <2>1. g = Turned(e)
    BY <1>3 DEF Place
  <2>2. CASE e.here >= spec.partition_rows[1]
    <3>1. g = [e EXCEPT !.index = @ + 1, !.here = 1]
      BY <2>1, <2>2 DEF Turned
    <3> QED
      BY <3>1, <2>2, <1>1, <1>3 DEF Fields
  <2>3. CASE ~(e.here >= spec.partition_rows[1])
    <3>1. g = [e EXCEPT !.here = @ + 1]
      BY <2>1, <2>3 DEF Turned
    <3> QED
      BY <3>1, <2>3, <1>1, <1>3 DEF Fields
  <2> QED
    BY <2>2, <2>3
<1> QED
  BY <1>2, <1>3

LEMMA OpenedIs ==
  ASSUME NEW path, NEW columns, NEW s
  PROVE  /\ PartShape(Opened(path, columns, s)) /\ Opened(path, columns, s).rows = 0
         /\ Opened(path, columns, s).path = path
BY DEF Opened, PartShape

LEMMA FedRowIs ==
  ASSUME NEW part, NEW columns, NEW values, NEW s, PartShape(part)
  PROVE  /\ PartShape(FedRow(part, columns, values, s))
         /\ FedRow(part, columns, values, s).rows = part.rows + 1
         /\ FedRow(part, columns, values, s).path = part.path
BY DEF FedRow, PartShape

\* The key WriteRow finds for the row at the head of the batch is the one of the
\* next row of the result.
LEMMA RowKeyFound ==
  ASSUME NEW f, Shape(export), Reading(export), export.phase = "rows",
         export.written < Len(Limited(export.job)),
         f.index = Place(export).index, f.here = Place(export).here
  PROVE  KeyFound(export, f, Key(Place(export)))
<1> DEFINE e == export
           g == Place(e)
           s == e.job.spec
<1>1. /\ g.job = e.job /\ g.batch = e.batch
      /\ ~(s.partition_by = None /\ s.partition_rows # None) => g = e
      /\ (s.partition_by = None /\ s.partition_rows # None) =>
           /\ e.here >= s.partition_rows[1] => g.index = e.index + 1 /\ g.here = 1
           /\ ~(e.here >= s.partition_rows[1]) => g.index = e.index /\ g.here = e.here + 1
  BY PlaceFields DEF spec
<1> HIDE DEF g
<1>2. CASE s.partition_by # None
  <2> DEFINE r == e.written + 1
  <2>1. Head(g.batch) = e.job.rows[r]
    <3>1. IsSeq(e.batch) /\ e.batch # <<>>
          /\ \A i \in 1 .. Len(e.batch) : e.batch[i] = e.job.rows[e.written + i]
      BY DEF Reading
    <3>2. 1 \in 1 .. Len(e.batch) /\ Head(e.batch) = e.batch[1]
      BY <3>1, SeqFacts
    <3> QED
      BY <3>1, <3>2, <1>1
  <2>2. Limited(e.job)[r] = Values(s, e.job.columns, e.job.rows[r])
    <3>1. r \in 1 .. Len(Limited(e.job)) /\ e.job \in Jobs
      BY LimitedIs DEF Shape
    <3> QED
      BY <3>1, LimitedIs
  <2>3. RowValues(g) = Limited(e.job)[r]
    BY <2>1, <2>2, <1>1 DEF RowValues
  <2>4. Position(Columns(g), s.partition_by[1]) = At(e.job)
    BY <1>1 DEF Columns, At
  <2> HIDE DEF r
  <2>5. Key(g) = KeyOf(e.job, r)
    BY <2>3, <2>4, <1>2 DEF Key, KeyOf, TextOr, spec
  <2> QED
    BY <2>5, <1>2 DEF KeyFound, r, g
<1>3. CASE s.partition_by = None /\ s.partition_rows = None
  BY <1>3 DEF KeyFound, Key, spec
<1>4. CASE s.partition_by = None /\ s.partition_rows # None
  <2>1. Key(g) = <<"#", g.index>>
    BY <1>4 DEF Key, spec
  <2> QED
    BY <2>1, <1>1, <1>4 DEF KeyFound, TurnedTo, g
<1> QED
  BY <1>2, <1>3, <1>4

LEMMA WriteRowIs ==
  ASSUME WriteRow, Runs(export), Placed(export, DOMAIN disk, DOMAIN found)
  PROVE  /\ Runs(export') /\ Placed(export', DOMAIN disk', DOMAIN found')
         /\ \/ disk' = disk
            \/ /\ ~spec.preview
               /\ \E path : /\ spec.overwrite \/ path \notin DOMAIN disk
                            /\ Written(path, "partial", <<>>)
<1> DEFINE e == export
           f == export'
           g == Place(e)
           key == Key(g)
           part == PartOf(g)
           values == RowValues(g)
           p == FedRow(part, Columns(g), values, spec)
<1>1. /\ e.phase = "rows" /\ ~LimitReached /\ found' = found
      /\ IF key \notin DOMAIN g.parts /\ ~spec.preview /\ ~MayCreate(spec, RowPath(g))
         THEN f = Failing(g) /\ disk' = disk
         ELSE /\ f = [g EXCEPT !.parts = Keeping(@, key, p),
                               !.order = IF key \notin DOMAIN g.parts THEN Append(@, key) ELSE @,
                               !.written = @ + 1,
                               !.batch = Tail(@),
                               !.phase = IF Len(g.batch) = 1 THEN AfterBatch(g.last) ELSE @]
              /\ IF key \notin DOMAIN g.parts /\ ~spec.preview THEN Written(RowPath(g), "partial", <<>>)
                 ELSE disk' = disk
  BY DEF WriteRow, Place, PartOf
<1>2. Shape(e) /\ Reading(e) /\ Ordered(e)
  BY DEF Runs
<1>3. /\ DOMAIN g = Fields /\ g.phase = e.phase /\ g.job = e.job /\ g.fetched = e.fetched
      /\ g.batch = e.batch /\ g.last = e.last /\ g.parts = e.parts /\ g.order = e.order
      /\ g.written = e.written /\ g.error = e.error /\ g.files = e.files
      /\ g.index \in Nat /\ g.here \in Nat
  BY <1>2, PlaceFields
<1>4. e.written < Len(Limited(e.job))
  <2>1. export # Idle
    BY <1>1 DEF Idle
  <2> QED
    BY <2>1, <1>1, LimitNotMet
<1>5. /\ key \in DOMAIN e.parts => part = e.parts[key]
      /\ key \notin DOMAIN e.parts => part = Opened(RowPath(g), Columns(g), spec)
  BY <1>3 DEF PartOf
<1>6. PartShape(part) /\ (key \notin DOMAIN e.parts => part.rows = 0 /\ part.path = RowPath(g))
  BY <1>2, <1>5, OpenedIs DEF Ordered
<1>7. PartShape(p) /\ p.rows = part.rows + 1 /\ p.path = part.path
  BY <1>6, FedRowIs
<1> HIDE DEF g, key, part, p, values
<1>8. CASE key \notin DOMAIN g.parts /\ ~spec.preview /\ ~MayCreate(spec, RowPath(g))
  <2>1. f = Failing(g) /\ disk' = disk /\ found' = found
    BY <1>1, <1>8
  <2>2. /\ DOMAIN f = Fields
        /\ f.phase = "finish" /\ f.batch = <<>> /\ f.last = g.last /\ f.fetched = g.fetched
        /\ f.job = g.job /\ f.order = g.order /\ f.written = g.written
        /\ f.files = g.files /\ f.error = TRUE /\ f.parts = g.parts
        /\ f.index \in Nat /\ f.here \in Nat
    BY <2>1, <1>3 DEF Failing, Fields
  <2> HIDE DEF f
  <2>3. SameParts(e, f)
    BY <2>2, <1>2, <1>3, SamePartsRefl
  <2>4. Shape(f)
    BY <2>2, <1>2, <1>3 DEF Shape
  <2>5. Reading(f)
    <3>1. e.written <= e.fetched
      <4>1. Len(e.batch) \in Nat /\ e.written + Len(e.batch) = e.fetched
        BY <1>1, <1>2, SeqFacts DEF Reading
      <4> QED
        BY <4>1, <1>2 DEF Shape
    <3> QED
      BY <3>1, <2>2, <1>2, <1>3, EmptyIsSeq DEF Reading
  <2>6. Ordered(f) /\ Summed(f)
    <3>1. Ordered(f)
      BY <2>2, <2>3, <1>2, <1>3 DEF Ordered
    <3>2. Reports(f) = Reports(e)
      BY <2>2, <2>3, <1>3, SameReports
    <3>3. Summed(f)
      BY <3>2, <2>2, <1>3 DEF Summed, Runs
    <3> QED
      BY <3>1, <3>3
  <2>7. Filed(f)
    <3>1. f.files = <<>> /\ Len(f.files) = 0 /\ IsSeq(f.files)
      BY <1>1, <1>3, <2>2, EmptyIsSeq DEF Runs, Filed
    <3>2. Len(f.order) \in Nat
      BY <2>6, SeqFacts DEF Ordered
    <3> QED
      BY <3>1, <3>2 DEF Filed
  <2>8. Settled(f)
    BY <2>2 DEF Settled
  <2>9. Placed(f, DOMAIN disk', DOMAIN found')
    BY <2>1, <2>2, <2>3, <1>3 DEF Placed, SameParts
  <2>10. Runs(f)
    BY <2>4, <2>5, <2>6, <2>7, <2>8 DEF Runs
  <2> QED
    BY <2>1, <2>9, <2>10 DEF f
<1>9. CASE ~(key \notin DOMAIN g.parts /\ ~spec.preview /\ ~MayCreate(spec, RowPath(g)))
  <2>1. /\ f = [g EXCEPT !.parts = Keeping(@, key, p),
                         !.order = IF key \notin DOMAIN g.parts THEN Append(@, key) ELSE @,
                         !.written = @ + 1,
                         !.batch = Tail(@),
                         !.phase = IF Len(g.batch) = 1 THEN AfterBatch(g.last) ELSE @]
        /\ IF key \notin DOMAIN g.parts /\ ~spec.preview THEN Written(RowPath(g), "partial", <<>>)
           ELSE disk' = disk
        /\ found' = found
    BY <1>1, <1>9
  <2>2. /\ DOMAIN f = Fields /\ f.parts = Keeping(g.parts, key, p)
        /\ f.order = (IF key \notin DOMAIN g.parts THEN Append(g.order, key) ELSE g.order)
        /\ f.written = g.written + 1 /\ f.batch = Tail(g.batch)
        /\ f.phase = (IF Len(g.batch) = 1 THEN AfterBatch(g.last) ELSE g.phase)
        /\ f.job = g.job /\ f.fetched = g.fetched /\ f.last = g.last /\ f.error = g.error
        /\ f.files = g.files /\ f.index = g.index /\ f.here = g.here
    BY <2>1, <1>3 DEF Fields
  <2>3. /\ key \in DOMAIN e.parts => p.rows = e.parts[key].rows + 1 /\ p.path = e.parts[key].path
        /\ key \notin DOMAIN e.parts => p.rows = 1 /\ p.path = RowPath(g)
    BY <1>5, <1>6, <1>7
  <2>4. KeyFound(e, f, key)
    BY <2>2, <1>1, <1>2, <1>4, RowKeyFound DEF g, key
  <2>5. \/ spec.overwrite \/ RowPath(g) \notin DOMAIN disk
        \/ key \in DOMAIN e.parts \/ spec.preview
    BY <1>3, <1>9 DEF MayCreate
  <2> HIDE DEF f
  <2>6. RowWritten(e, f, key, p)
    BY <2>2, <2>3, <1>1, <1>3, <1>7 DEF RowWritten
  <2>7. Runs(f)
    BY <2>4, <2>6, <1>1, <1>4, RowRuns
  <2>8. CASE key \notin DOMAIN e.parts /\ ~spec.preview
    <3>1. Written(RowPath(g), "partial", <<>>) /\ (spec.overwrite \/ RowPath(g) \notin DOMAIN disk)
      BY <2>1, <2>5, <2>8, <1>3
    <3>2. DOMAIN disk' = DOMAIN disk \cup {RowPath(g)}
      BY <3>1 DEF Written
    <3>3. spec.overwrite \/ p.path \notin DOMAIN found
      BY <3>1, <2>3, <2>8 DEF Placed
    <3>4. p.path \in DOMAIN disk' /\ DOMAIN disk \subseteq DOMAIN disk'
      BY <3>2, <2>3, <2>8
    <3>5. Placed(f, DOMAIN disk', DOMAIN found)
      BY <3>3, <3>4, <2>6, RowPlaced DEF spec
    <3>6. Placed(f, DOMAIN disk', DOMAIN found')
      BY <3>5, <2>1
    <3> QED
      BY <3>1, <3>6, <2>7, <2>8 DEF f
  <2>9. CASE ~(key \notin DOMAIN e.parts /\ ~spec.preview)
    <3>1. disk' = disk /\ found' = found
      BY <2>1, <2>9, <1>3
    <3>2. Placed(f, DOMAIN disk, DOMAIN found)
      BY <2>6, <2>9, RowPlaced DEF spec
    <3> QED
      BY <3>1, <3>2, <2>7 DEF f
  <2> QED
    BY <2>8, <2>9
<1> QED
  BY <1>8, <1>9

\* After an empty result there is one partition, without rows, to its one file.
LEMMA EmptyFileRuns ==
  ASSUME EmptyFile, Runs(export), Placed(export, DOMAIN disk, DOMAIN found)
  PROVE  \/ export' = Idle /\ disk' = disk /\ outcome' = Refused("exists")
         \/ /\ Runs(export') /\ Placed(export', DOMAIN disk', DOMAIN found')
            /\ ~spec.preview
            /\ outcome' = outcome
            /\ \E path : /\ spec.overwrite \/ path \notin DOMAIN disk
                         /\ Written(path, "partial", <<>>)
<1> DEFINE e == export
           f == export'
           path == PartitionPath(spec, None, 0)
           part == Opened(path, Columns(e), spec)
<1>1. /\ e.phase = "finish" /\ e.order = <<>> /\ ~spec.preview /\ ~e.error /\ found' = found
      /\ IF MayCreate(spec, path)
         THEN /\ f = [e EXCEPT !.order = <<<<>>>>, !.parts = Keeping(@, <<>>, part)]
              /\ Written(path, "partial", <<>>)
              /\ outcome' = outcome
         ELSE f = Idle /\ outcome' = Refused("exists") /\ disk' = disk
  BY DEF EmptyFile
<1>2. PartShape(part) /\ part.rows = 0 /\ part.path = path
  BY OpenedIs
<1>3. Shape(e) /\ Reading(e) /\ Ordered(e) /\ Filed(e) /\ Summed(e)
  BY DEF Runs
<1> HIDE DEF part, path
<1>4. CASE ~MayCreate(spec, path)
  BY <1>1, <1>4
<1>5. CASE MayCreate(spec, path)
  <2>1. /\ f = [e EXCEPT !.order = <<<<>>>>, !.parts = Keeping(@, <<>>, part)]
        /\ Written(path, "partial", <<>>) /\ outcome' = outcome
    BY <1>1, <1>5
  <2>2. /\ DOMAIN f = Fields
        /\ f.order = <<<<>>>> /\ f.parts = Keeping(e.parts, <<>>, part)
        /\ f.phase = e.phase /\ f.job = e.job /\ f.fetched = e.fetched /\ f.batch = e.batch
        /\ f.last = e.last /\ f.written = e.written /\ f.index = e.index /\ f.here = e.here
        /\ f.error = e.error /\ f.files = e.files
    BY <2>1, <1>3 DEF Shape, Fields
  <2> HIDE DEF f
  <2>3. DOMAIN e.parts = {}
    BY <1>1, <1>3 DEF Ordered, Range
  <2>4. DOMAIN f.parts = {<<>>} /\ f.parts[<<>>] = part
    BY <2>2, <2>3 DEF Keeping
  <2>5. e.written = 0
    <3>1. Reports(e) = {}
      BY <2>3 DEF Reports
    <3> QED
      BY <3>1, <1>3, RowsOfNone DEF Summed
  <2>6. Len(Limited(e.job)) = 0
    BY <1>1, <1>3, <2>5 DEF Reading
  <2>7. Shape(f) /\ Reading(f)
    <3>1. Shape(f)
      BY <2>2, <1>3 DEF Shape
    <3>2. Reading(f)
      BY <2>2, <1>3 DEF Reading
    <3> QED
      BY <3>1, <3>2
  <2>8. /\ IsSeq(f.order) /\ Len(f.order) = 1 /\ DOMAIN f.order = {1}
        /\ f.order[1] = <<>> /\ Range(f.order) = {<<>>}
    BY <2>2 DEF IsSeq, Range
  <2>9. Ordered(f)
    BY <2>4, <2>8, <1>2 DEF Ordered
  <2>10. Filed(f)
    <3>1. IsSeq(e.files) /\ Len(e.files) = 0
      <4>1. IsSeq(e.files) /\ Len(e.files) <= 0
        BY <1>1, <1>3, EmptyIsSeq DEF Filed
      <4> QED
        BY <4>1, SeqFacts
    <3> QED
      BY <3>1, <2>2, <2>8, <1>1 DEF Filed
  <2>11. Summed(f)
    <3> DEFINE r == Report(f, <<>>)
    <3>1. Reports(f) = {} \cup {r}
      BY <2>4 DEF Reports
    <3>2. r.rows = 0
      BY <2>4, <1>2 DEF Report
    <3>3. Counts({})
      BY FS_EmptySet DEF Counts
    <3> HIDE DEF r
    <3>4. Counts({} \cup {r}) /\ RowsOf({} \cup {r}) = RowsOf({}) + r.rows
      <4>1. r \notin {} /\ r.rows \in Nat
        BY <3>2
      <4> QED
        BY <4>1, <3>3, RowsOfWith, Zenon
    <3> QED
      BY <3>1, <3>2, <3>4, <2>2, <2>5, RowsOfNone DEF Summed
  <2>12. Len(Part(e.job, <<>>)) = 0
    <3> DEFINE s == e.job.spec
               rows == Limited(e.job)
    <3>1. CASE s.partition_by # None
      <4>1. Taken(rows, At(e.job), <<>>)[0] = <<>>
        BY <2>6, TakenIs DEF TakenNext
      <4>2. Part(e.job, <<>>) = <<>>
        BY <4>1, <3>1, <2>6 DEF Part, At
      <4> QED
        BY <4>2
    <3>2. CASE s.partition_by = None
      BY <3>2, <2>6 DEF Part
    <3> QED
      BY <3>1, <3>2
  <2>13. Settled(f)
    BY <2>2, <2>4, <2>12, <1>1, <1>2 DEF Settled
  <2>14. Runs(f)
    BY <2>7, <2>9, <2>10, <2>11, <2>13 DEF Runs
  <2>15. spec.overwrite \/ path \notin DOMAIN disk
    BY <1>5 DEF MayCreate
  <2>16. DOMAIN disk' = DOMAIN disk \cup {path}
    BY <2>1 DEF Written
  <2>17. Placed(f, DOMAIN disk', DOMAIN found')
    BY <2>2, <2>4, <2>15, <2>16, <1>1, <1>2 DEF Placed, spec
  <2> QED
    BY <2>1, <2>14, <2>15, <2>17, <1>1 DEF f
<1> QED
  BY <1>4, <1>5

\* A file is finished: the next partition is reported with the rows it has.
LEMMA FinishFileRuns ==
  ASSUME FinishFile, Runs(export), Placed(export, DOMAIN disk, DOMAIN found)
  PROVE  /\ Runs(export') /\ Placed(export', DOMAIN disk', DOMAIN found')
         /\ \/ disk' = disk
            \/ /\ ~spec.preview
               /\ \E path \in DOMAIN disk :
                    /\ spec.overwrite \/ path \notin DOMAIN found
                    /\ \E state \in {"partial", "whole", "torn"} : \E document : Written(path, state, document)
<1> DEFINE e == export
           f == export'
           key == NextKey
           part == e.parts[key]
           document == part.document \o Finish(part.writer, spec).out
           report == [key |-> key, rows |-> part.rows,
                      path |-> IF spec.preview THEN None ELSE Some(part.path)]
<1>1. /\ e.phase = "finish" /\ Len(e.files) < Len(e.order) /\ found' = found
      /\ f = [e EXCEPT !.files = Append(@, report), !.parts[key].document = document]
      /\ IF spec.preview THEN disk' = disk
         ELSE \/ Written(part.path,
                         IF part.torn \/ SharesPath(export, key) THEN "torn" ELSE "whole",
                         document)
              \/ spec.compress /\ Written(part.path, "partial", <<>>)
  BY DEF FinishFile, Finishing
<1>2. Shape(e) /\ Reading(e) /\ Ordered(e) /\ Filed(e) /\ Summed(e)
  BY DEF Runs
<1> DEFINE i == Len(e.files) + 1
<1>3. Len(e.files) \in Nat /\ Len(e.order) \in Nat /\ i \in DOMAIN e.order /\ key = e.order[i]
  <2>1. Len(e.files) \in Nat /\ Len(e.order) \in Nat /\ DOMAIN e.order = 1 .. Len(e.order)
    <3>1. IsSeq(e.files) /\ IsSeq(e.order)
      BY <1>2 DEF Ordered, Filed
    <3> QED
      BY <3>1, SeqFacts, Zenon
  <2>2. key = e.order[i]
    BY DEF NextKey
  <2>3. i \in DOMAIN e.order
    <3>1. Len(e.files) < Len(e.order)
      BY <1>1
    <3> QED
      BY <3>1, <2>1
  <2> QED
    BY <2>1, <2>2, <2>3
<1>4. key \in DOMAIN e.parts
  BY <1>2, <1>3 DEF Ordered, Range
<1>5. PartShape(part)
  BY <1>2, <1>4 DEF Ordered
<1>6. report = Report(e, key)
  BY DEF Report, spec
<1> HIDE DEF report, document, key
<1>7. /\ DOMAIN f = Fields
      /\ f.files = Append(e.files, report)
      /\ f.parts = [e.parts EXCEPT ![key] = [e.parts[key] EXCEPT !.document = document]]
      /\ f.phase = e.phase /\ f.job = e.job /\ f.fetched = e.fetched /\ f.batch = e.batch
      /\ f.last = e.last /\ f.written = e.written /\ f.index = e.index /\ f.here = e.here
      /\ f.error = e.error /\ f.order = e.order
  BY <1>1, <1>2 DEF Shape, Fields
<1> HIDE DEF f
<1>8. SameParts(e, f)
  <2>1. ASSUME NEW k \in DOMAIN e.parts
        PROVE  PartShape(f.parts[k]) /\ f.parts[k].rows = e.parts[k].rows /\ f.parts[k].path = e.parts[k].path
    <3>1. CASE k = key
      <4>1. f.parts[k] = [part EXCEPT !.document = document]
        BY <3>1, <1>4, <1>7
      <4> QED
        BY <4>1, <3>1, <1>5 DEF PartShape
    <3>2. CASE k # key
      <4>1. f.parts[k] = e.parts[k]
        BY <3>2, <1>7
      <4> QED
        BY <4>1, <1>2 DEF Ordered
    <3> QED
      BY <3>1, <3>2
  <2> QED
    BY <2>1, <1>7 DEF SameParts
<1>9. SameCounts(e, f)
  BY <1>7 DEF SameCounts
<1>10. Ordered(f) /\ Summed(f)
  BY <1>2, <1>8, <1>9, SamePartsKept
<1>11. Shape(f) /\ Reading(f)
  <2>1. Shape(f)
    BY <1>2, <1>7 DEF Shape
  <2>2. Reading(f)
    BY <1>2, <1>7 DEF Reading
  <2> QED
    BY <2>1, <2>2
<1>12. Filed(f)
  <2>1. /\ IsSeq(f.files) /\ Len(f.files) = i
        /\ \A j \in 1 .. Len(e.files) : f.files[j] = e.files[j]
        /\ f.files[i] = report
    BY <1>2, <1>7, AppendFacts DEF Filed
  <2>2. ASSUME NEW j \in 1 .. i PROVE f.files[j] = Report(f, f.order[j])
    <3>1. j \in DOMAIN e.order
      BY <1>2, <1>3, SeqFacts DEF Ordered
    <3>2. e.order[j] \in DOMAIN e.parts
      BY <3>1, <1>2 DEF Ordered, Range
    <3>3. Report(f, e.order[j]) = Report(e, e.order[j])
      BY <3>2, <1>7, <1>8, SameReports
    <3>4. CASE j = i
      BY <3>3, <3>4, <2>1, <1>3, <1>6, <1>7
    <3>5. CASE j # i
      <4>1. j \in 1 .. Len(e.files)
        BY <3>5, <1>3
      <4> QED
        BY <4>1, <3>3, <2>1, <1>2, <1>7 DEF Filed
    <3> QED
      BY <3>4, <3>5
  <2>3. i <= Len(f.order)
    BY <1>1, <1>3, <1>7
  <2> QED
    BY <2>1, <2>2, <2>3, <1>1, <1>7 DEF Filed
<1>13. Settled(f)
  <2>1. ASSUME ~f.error, NEW k \in DOMAIN f.parts
        PROVE  f.parts[k].rows = Len(Part(f.job, k))
    <3>1. k \in DOMAIN e.parts /\ f.parts[k].rows = e.parts[k].rows
      BY <1>8 DEF SameParts
    <3>2. e.parts[k].rows = Len(Part(e.job, k))
      BY <3>1, <2>1, <1>1, <1>7 DEF Runs, Settled
    <3> QED
      BY <3>1, <3>2, <1>7
  <2> QED
    BY <2>1, <1>1, <1>7 DEF Settled
<1>14. Runs(f)
  BY <1>10, <1>11, <1>12, <1>13 DEF Runs
<1>15. CASE disk' = disk
  <2>1. Placed(f, DOMAIN disk, DOMAIN found)
    BY <1>8, <1>9, SamePartsPlaced
  <2> QED
    BY <2>1, <1>1, <1>14, <1>15 DEF f
<1>16. CASE disk' # disk
  <2>1. ~spec.preview
    BY <1>1, <1>16
  <2>2. part.path \in DOMAIN disk /\ (spec.overwrite \/ part.path \notin DOMAIN found)
    BY <2>1, <1>4 DEF Placed, spec
  <2>3. \E state \in {"partial", "whole", "torn"} : \E written : Written(part.path, state, written)
    BY <1>1, <1>16
  <2>4. DOMAIN disk' = DOMAIN disk
    BY <2>2, <2>3 DEF Written
  <2>5. Placed(f, DOMAIN disk, DOMAIN found)
    BY <1>8, <1>9, SamePartsPlaced
  <2> QED
    BY <2>1, <2>2, <2>3, <2>4, <2>5, <1>1, <1>14 DEF f
<1> QED
  BY <1>15, <1>16

-----------------------------------------------------------------------------
(* The outcome of a run that went well                                         *)

\* A sequence that names nothing twice has as many members as places.
LEMMA DistinctCount ==
  ASSUME NEW s, IsSeq(s), \A i, j \in DOMAIN s : s[i] = s[j] => i = j
  PROVE  Cardinality(Range(s)) = Len(s)
<1>1. Len(s) \in Nat /\ DOMAIN s = 1 .. Len(s) /\ s \in Seq(Range(s))
  BY SeqFacts DEF IsSeq
<1>2. s \in [1 .. Len(s) -> Range(s)]
  BY <1>1
<1>3. s \in Injection(1 .. Len(s), Range(s))
  BY <1>1, <1>2 DEF Injection, IsInjective
<1>4. s \in Surjection(1 .. Len(s), Range(s))
  BY <1>1, <1>2 DEF Surjection, Range
<1>5. ExistsBijection(1 .. Len(s), Range(s))
  BY <1>3, <1>4 DEF ExistsBijection, Bijection
<1> QED
  BY <1>1, <1>5, FS_CountingElements

LEMMA AllFilesRight ==
  ASSUME NEW e, Runs(e), e.phase = "finish", ~e.error, Len(e.files) = Len(e.order)
  PROVE  RightFiles(e.job, e.written, e.files)
<1>1. Reading(e) /\ Ordered(e) /\ Filed(e) /\ Summed(e) /\ Settled(e)
  BY DEF Runs
<1>2. /\ Len(e.files) \in Nat /\ DOMAIN e.files = 1 .. Len(e.files)
      /\ DOMAIN e.order = 1 .. Len(e.files)
  BY <1>1, SeqFacts DEF Ordered, Filed
<1>3. Range(e.files) = Reports(e)
  <2>1. ASSUME NEW i \in DOMAIN e.files
        PROVE  e.files[i] = Report(e, e.order[i]) /\ e.order[i] \in DOMAIN e.parts
    BY <1>1, <1>2 DEF Filed, Ordered, Range
  <2>2. ASSUME NEW k \in DOMAIN e.parts
        PROVE  \E i \in DOMAIN e.files : e.files[i] = Report(e, k)
    <3>1. PICK i \in DOMAIN e.order : e.order[i] = k
      BY <1>1 DEF Ordered, Range
    <3> QED
      BY <3>1, <2>1, <1>2
  <2> QED
    BY <2>1, <2>2 DEF Range, Reports
<1>4. e.written = Len(Limited(e.job))
  BY <1>1 DEF Reading
<1>5. \A f \in Reports(e) : f.rows = Len(Part(e.job, f.key))
  BY <1>1 DEF Settled, Reports, Report
<1>6. {f.key : f \in Reports(e)} = Range(e.order)
  <2> DEFINE r(k) == Report(e, k)
  <2>2. \A k \in DOMAIN e.parts : r(k).key = k
    BY DEF Report
  <2>3. Reports(e) = {r(k) : k \in DOMAIN e.parts}
    BY DEF Reports
  <2> HIDE DEF r
  <2>1. {f.key : f \in Reports(e)} = DOMAIN e.parts
    BY <2>2, <2>3
  <2> QED
    BY <2>1, <1>1 DEF Ordered
<1>7. Cardinality(Range(e.order)) = Len(e.files)
  BY <1>1, DistinctCount DEF Ordered
<1> QED
  BY <1>1, <1>3, <1>4, <1>5, <1>6, <1>7 DEF RightFiles, Summed

-----------------------------------------------------------------------------
(* Every step keeps the invariant.                                             *)

\* A step writes one file at most, of a state a file can be in.
LEMMA DiskKept ==
  ASSUME DiskStates,
         \/ disk' = disk
         \/ \E path : \E state \in {"partial", "whole", "torn"} : \E document : Written(path, state, document)
  PROVE  DiskStates'
<1>1. CASE disk' = disk
  BY <1>1 DEF DiskStates
<1>2. ASSUME NEW path, NEW state \in {"partial", "whole", "torn"}, NEW document,
             Written(path, state, document)
      PROVE  DiskStates'
  <2>1. disk' = [p \in DOMAIN disk \cup {path} |->
                   IF p = path THEN [state |-> state, document |-> document] ELSE disk[p]]
    BY <1>2 DEF Written
  <2>2. ASSUME NEW p \in DOMAIN disk'
        PROVE  disk'[p].state \in {"partial", "whole", "torn"}
    <3>1. CASE p = path
      <4>1. disk'[p] = [state |-> state, document |-> document]
        BY <2>1, <3>1
      <4> QED
        BY <4>1
    <3>2. CASE p # path
      <4>1. p \in DOMAIN disk /\ disk'[p] = disk[p]
        BY <2>1, <3>2
      <4> QED
        BY <4>1 DEF DiskStates
    <3> QED
      BY <3>1, <3>2
  <2> QED
    BY <2>2 DEF DiskStates
<1> QED
  BY <1>1, <1>2

\* A step on the locals alone that writes no row leaves every partition its file.
LEMMA LocalsOnly ==
  ASSUME Inv, export # Idle, UNCHANGED <<disk, outcome, exports, found>>,
         Runs(export'), SameParts(export, export'), SameCounts(export, export')
  PROVE  Inv'
<1>1. Placed(export', DOMAIN disk, DOMAIN found)
  BY SamePartsPlaced DEF Inv
<1>2. DiskStates'
  BY DEF Inv, DiskStates
<1> QED
  BY <1>1, <1>2 DEF Inv

\* An export that returns without success leaves nothing to tell.
LEMMA GivenUp ==
  ASSUME Inv, UNCHANGED <<disk, exports>>, export' = Idle,
         outcome'.kind \in {"none", "error"}
  PROVE  Inv'
<1>1. DiskStates'
  BY DEF Inv, DiskStates
<1>2. Told(outcome')
  BY DEF Told
<1> QED
  BY <1>1, <1>2 DEF Inv

LEMMA PhaseRuns ==
  ASSUME Inv, NEW p, export.phase = p, p # "idle"
  PROVE  export # Idle /\ Runs(export) /\ Placed(export, DOMAIN disk, DOMAIN found)
<1>1. export # Idle
  BY DEF Idle
<1> QED
  BY <1>1 DEF Inv

LEMMA StartKeeps ==
  ASSUME Inv, NEW job \in Jobs, Start(job)
  PROVE  Inv'
<1>1. /\ exports < MaxExports /\ disk' = disk
      /\ exports' = (IF job \in Repeats THEN exports + 1 ELSE MaxExports)
      /\ outcome' = Refused("statement") \/ outcome' = NoOutcome
  BY DEF Start
<1>2. exports' \in 0 .. MaxExports
  <2>1. exports \in 0 .. MaxExports /\ MaxExports \in Nat
    BY ExportAssumption DEF Inv
  <2> QED
    BY <2>1, <1>1
<1>3. DiskStates'
  BY <1>1 DEF Inv, DiskStates
<1>4. Told(outcome')
  BY <1>1 DEF Told, Refused, NoOutcome
<1>5. export' # Idle => Runs(export') /\ Placed(export', DOMAIN disk', DOMAIN found')
  BY StartRuns
<1> QED
  BY <1>2, <1>3, <1>4, <1>5 DEF Inv

LEMMA WriteRowKeeps ==
  ASSUME Inv, WriteRow
  PROVE  Inv'
<1>1. export.phase = "rows" /\ outcome' = outcome /\ exports' = exports
  BY DEF WriteRow
<1>2. Runs(export) /\ Placed(export, DOMAIN disk, DOMAIN found)
  BY <1>1, PhaseRuns
<1>3. /\ Runs(export') /\ Placed(export', DOMAIN disk', DOMAIN found')
      /\ disk' = disk \/ \E path : Written(path, "partial", <<>>)
  BY <1>2, WriteRowIs
<1>4. DiskStates'
  BY <1>3, DiskKept DEF Inv
<1> QED
  BY <1>1, <1>3, <1>4 DEF Inv

LEMMA EmptyFileKeeps ==
  ASSUME Inv, EmptyFile
  PROVE  Inv'
<1>1. export.phase = "finish" /\ exports' = exports
  BY DEF EmptyFile
<1>2. Runs(export) /\ Placed(export, DOMAIN disk, DOMAIN found)
  BY <1>1, PhaseRuns
<1>3. CASE export' = Idle /\ disk' = disk /\ outcome' = Refused("exists")
  <2>1. outcome'.kind \in {"none", "error"}
    BY <1>3 DEF Refused
  <2> QED
    BY <2>1, <1>1, <1>3, GivenUp
<1>4. CASE /\ Runs(export') /\ Placed(export', DOMAIN disk', DOMAIN found')
           /\ outcome' = outcome
           /\ \E path : Written(path, "partial", <<>>)
  <2>1. DiskStates'
    BY <1>4, DiskKept DEF Inv
  <2> QED
    BY <2>1, <1>1, <1>4 DEF Inv
<1> QED
  BY <1>2, <1>3, <1>4, EmptyFileRuns

LEMMA FinishFileKeeps ==
  ASSUME Inv, FinishFile
  PROVE  Inv'
<1>1. export.phase = "finish" /\ outcome' = outcome /\ exports' = exports
  BY DEF FinishFile, Finishing
<1>2. Runs(export) /\ Placed(export, DOMAIN disk, DOMAIN found)
  BY <1>1, PhaseRuns
<1>3. /\ Runs(export') /\ Placed(export', DOMAIN disk', DOMAIN found')
      /\ \/ disk' = disk
         \/ \E path : \E state \in {"partial", "whole", "torn"} : \E document : Written(path, state, document)
  BY <1>2, FinishFileRuns
<1>4. DiskStates'
  BY <1>3, DiskKept DEF Inv
<1> QED
  BY <1>1, <1>3, <1>4 DEF Inv

LEMMA ReturnKeeps ==
  ASSUME Inv, Return
  PROVE  Inv'
<1>1. /\ export.phase = "finish" /\ Len(export.files) = Len(export.order)
      /\ export' = Idle /\ UNCHANGED <<disk, exports>>
      /\ IF export.error THEN outcome' = Refused("stream") ELSE outcome' = Done(export)
  BY DEF Return, Finished
<1>2. Runs(export)
  BY <1>1, PhaseRuns
<1>3. CASE export.error
  <2>1. outcome'.kind \in {"none", "error"}
    BY <1>1, <1>3 DEF Refused
  <2> QED
    BY <2>1, <1>1, GivenUp
<1>4. CASE ~export.error
  <2>1. /\ outcome'.kind = "ok" /\ outcome'.job = export.job
        /\ outcome'.rows = export.written /\ outcome'.files = export.files
    BY <1>1, <1>4 DEF Done
  <2>2. RightFiles(export.job, export.written, export.files)
    BY <1>1, <1>2, <1>4, AllFilesRight
  <2>3. Told(outcome')
    BY <2>1, <2>2 DEF Told
  <2>4. DiskStates'
    BY <1>1 DEF Inv, DiskStates
  <2> QED
    BY <2>3, <2>4, <1>1 DEF Inv
<1> QED
  BY <1>3, <1>4

LEMMA InvInit == Init => Inv
<1> SUFFICES ASSUME Init PROVE Inv
  OBVIOUS
<1>1. exports \in 0 .. MaxExports
  BY ExportAssumption DEF Init
<1>2. DiskStates
  BY DEF Init, DiskStates
<1>3. Told(outcome)
  BY DEF Init, NoOutcome, Told
<1> QED
  BY <1>1, <1>2, <1>3 DEF Init, Inv

LEMMA InvKept == Inv /\ [Next]_vars => Inv'
<1> SUFFICES ASSUME Inv, [Next]_vars PROVE Inv'
  OBVIOUS
<1>1. ASSUME NEW job \in Jobs, Start(job) PROVE Inv'
  BY <1>1, StartKeeps
<1>2. CASE Fetch
  <2>1. export.phase = "fetch" /\ UNCHANGED <<disk, outcome, exports, found>>
    BY <1>2 DEF Fetch
  <2>2. export # Idle /\ Runs(export)
    BY <2>1, PhaseRuns
  <2> QED
    BY <1>2, <2>1, <2>2, FetchRuns, LocalsOnly
<1>3. CASE WriteRow
  BY <1>3, WriteRowKeeps
<1>4. CASE StopAtLimit
  <2>1. export.phase = "rows" /\ UNCHANGED <<disk, outcome, exports, found>>
    BY <1>4 DEF StopAtLimit
  <2>2. export # Idle /\ Runs(export)
    BY <2>1, PhaseRuns
  <2> QED
    BY <1>4, <2>1, <2>2, StopAtLimitRuns, LocalsOnly
<1>5. CASE NoPartitionColumn
  <2>1. export.phase = "rows" /\ UNCHANGED <<disk, outcome, exports, found>>
    BY <1>5 DEF NoPartitionColumn
  <2>2. export # Idle /\ Runs(export)
    BY <2>1, PhaseRuns
  <2> QED
    BY <1>5, <2>1, <2>2, NoPartitionColumnRuns, LocalsOnly
<1>6. CASE EmptyFile
  BY <1>6, EmptyFileKeeps
<1>7. CASE FinishFile
  BY <1>7, FinishFileKeeps
<1>8. CASE Return
  BY <1>8, ReturnKeeps
<1>9. CASE FetchFails
  <2>1. export.phase = "fetch" /\ UNCHANGED <<disk, outcome, exports, found>>
    BY <1>9 DEF FetchFails
  <2>2. export # Idle /\ Runs(export)
    BY <2>1, PhaseRuns
  <2> QED
    BY <1>9, <2>1, <2>2, FetchFailsRuns, LocalsOnly
<1>10. CASE WriteFails
  <2>1. export.phase = "rows" /\ UNCHANGED <<disk, outcome, exports, found>>
    BY <1>10 DEF WriteFails
  <2>2. export # Idle /\ Runs(export)
    BY <2>1, PhaseRuns
  <2> QED
    BY <1>10, <2>1, <2>2, WriteFailsRuns, LocalsOnly
<1>11. CASE FinishFails \/ ManifestFails \/ Crash
  <2>1. export' = Idle /\ UNCHANGED <<disk, exports>> /\ outcome'.kind \in {"none", "error"}
    BY <1>11 DEF FinishFails, ManifestFails, Crash, Refused, NoOutcome
  <2> QED
    BY <2>1, GivenUp
<1>12. CASE UNCHANGED vars
  <2>1. DiskStates'
    BY <1>12 DEF vars, Inv, DiskStates
  <2> QED
    BY <2>1, <1>12 DEF vars, Inv
<1> QED
  BY <1>1, <1>2, <1>3, <1>4, <1>5, <1>6, <1>7, <1>8, <1>9, <1>10, <1>11, <1>12
     DEF Next, Proceed, Fail

LEMMA InvAlways == Spec => []Inv
<1> QED
  BY InvInit, InvKept, PTL DEF Spec

-----------------------------------------------------------------------------
LEMMA InvTypeOK == Inv => TypeOK
<1> SUFFICES ASSUME Inv PROVE TypeOK
  OBVIOUS
<1>1. ASSUME export # Idle
      PROVE  /\ export.phase \in {"fetch", "rows", "finish"}
             /\ Range(export.order) = DOMAIN export.parts
             /\ Len(export.files) <= Len(export.order)
             /\ export.written + Len(export.batch) <= export.fetched
             /\ \A k \in DOMAIN export.parts : spec.preview \/ export.parts[k].path \in DOMAIN disk
  <2> DEFINE e == export
  <2>1. Shape(e) /\ Reading(e) /\ Ordered(e) /\ Filed(e) /\ Placed(e, DOMAIN disk, DOMAIN found)
    BY <1>1 DEF Inv, Runs
  <2>2. e.written + Len(e.batch) <= e.fetched
    <3>1. e.written \in Nat /\ e.fetched \in Nat
      BY <2>1 DEF Shape
    <3>2. CASE e.phase = "rows"
      BY <3>1, <3>2, <2>1 DEF Reading
    <3>3. CASE e.phase # "rows"
      <4>1. Len(e.batch) = 0 /\ e.written <= e.fetched
        BY <3>3, <2>1, EmptyIsSeq DEF Reading
      <4> QED
        BY <3>1, <4>1
    <3> QED
      BY <3>2, <3>3
  <2>3. \A k \in DOMAIN e.parts : spec.preview \/ e.parts[k].path \in DOMAIN disk
    BY <2>1 DEF Placed, spec
  <2> QED
    BY <2>1, <2>2, <2>3 DEF Shape, Ordered, Filed
<1> QED
  BY <1>1 DEF Inv, TypeOK, DiskStates, Told

LEMMA InvEveryRowCounted == Inv => EveryRowCounted
BY DEF Inv, Told, RightFiles, RowsOf, EveryRowCounted, Succeeded, Reported

\* The locals of run() keep their ranges in every export, started, failed or
\* killed: the order names every partition, no more files are reported than there
\* are, no row is counted that was not fetched, and no partition of an export to
\* files is without its file.
THEOREM ExportTypeOK == Spec => []TypeOK
<1> QED
  BY InvAlways, InvTypeOK, PTL

\* Whatever the rows, the batches, the limit and the way of partitioning: an
\* export that reports success has fed its writers, and counted, as many rows as
\* it was asked for, each file as many as belong to its partition; no partition is
\* reported twice, and the counts add up to the one reported.  What the writers
\* make of the rows is not in it: a full sheet drops them.
THEOREM EveryRowIsCounted == Spec => []EveryRowCounted
<1> QED
  BY InvAlways, InvEveryRowCounted, PTL

\* The same counts while what was exported is imported elsewhere.
THEOREM InterchangeRowCounted == InterchangeSpec => []EveryRowCounted
<1>1. [Transfer]_allVars => [Next]_vars
  BY DEF Transfer, allVars, Import, Insert, InsertFails
<1> QED
  BY <1>1, InvInit, InvKept, InvEveryRowCounted, PTL DEF InterchangeSpec

-----------------------------------------------------------------------------
(* What a step does to the files that are there                                *)

KeepsExisting ==
  \A p \in DOMAIN disk :
    \/ disk'[p] = disk[p]
    \/ ~spec.preview /\ (spec.overwrite \/ p \notin DOMAIN found)

LEMMA OneFile ==
  ASSUME NEW path, NEW state, NEW document, Written(path, state, document), ~spec.preview,
         spec.overwrite \/ path \notin DOMAIN disk \/ path \notin DOMAIN found
  PROVE  KeepsExisting
<1>1. ASSUME NEW p \in DOMAIN disk, p # path PROVE disk'[p] = disk[p]
  BY <1>1 DEF Written
<1> QED
  BY <1>1 DEF KeepsExisting

LEMMA StepKeepsExisting ==
  ASSUME Inv, [Next]_vars
  PROVE  KeepsExisting
<1>1. CASE disk' = disk
  BY <1>1 DEF KeepsExisting
<1>2. CASE WriteRow
  <2>1. export.phase = "rows"
    BY <1>2 DEF WriteRow
  <2>2. \/ disk' = disk
        \/ /\ ~spec.preview
           /\ \E path : /\ spec.overwrite \/ path \notin DOMAIN disk
                        /\ Written(path, "partial", <<>>)
    BY <1>2, <2>1, PhaseRuns, WriteRowIs
  <2> QED
    BY <1>1, <2>2, OneFile
<1>3. CASE EmptyFile
  <2>1. export.phase = "finish"
    BY <1>3 DEF EmptyFile
  <2>2. \/ disk' = disk
        \/ /\ ~spec.preview
           /\ \E path : /\ spec.overwrite \/ path \notin DOMAIN disk
                        /\ Written(path, "partial", <<>>)
    BY <1>3, <2>1, PhaseRuns, EmptyFileRuns
  <2> QED
    BY <1>1, <2>2, OneFile
<1>4. CASE FinishFile
  <2>1. export.phase = "finish"
    BY <1>4 DEF FinishFile, Finishing
  <2>2. \/ disk' = disk
        \/ /\ ~spec.preview
           /\ \E path \in DOMAIN disk :
                /\ spec.overwrite \/ path \notin DOMAIN found
                /\ \E state \in {"partial", "whole", "torn"} : \E document : Written(path, state, document)
    BY <1>4, <2>1, PhaseRuns, FinishFileRuns
  <2> QED
    BY <1>1, <2>2, OneFile
<1>5. disk' = disk \/ WriteRow \/ EmptyFile \/ FinishFile
  BY DEF Next, Proceed, Fail, vars, Start, Fetch, StopAtLimit, NoPartitionColumn, Return,
         FetchFails, WriteFails, FinishFails, ManifestFails, Crash
<1> QED
  BY <1>1, <1>2, <1>3, <1>4, <1>5

\* A file that was there when the export started is kept by every step of it, also
\* of one that is tried again after a failure, unless it may overwrite; a preview
\* touches none.
THEOREM ExistingFilesKept == Spec => ExistingKept
<1>1. Inv /\ [Next]_vars => [KeepsExisting]_vars
  BY StepKeepsExisting
<1>2. [][KeepsExisting]_vars => ExistingKept
  BY DEF KeepsExisting, ExistingKept
<1> QED
  BY <1>1, <1>2, InvAlways, PTL DEF Spec
=============================================================================
