---------------------------- MODULE SqlTextProofs ----------------------------
(* What holds of the two lexers for every script: neither reads past its end,  *)
(* the statements stand in order and do not overlap, the blanked text of an    *)
(* ASCII script has its length, every step reads a symbol, and a script they   *)
(* are both meant for is to them, and to leading_keyword, the same text.       *)
EXTENDS SqlText, FiniteSetTheorems, WellFoundedInduction, TLAPS

-----------------------------------------------------------------------------
(* Induction over numbers, said of sets. *)

\* A set of numbers that is not empty has a least one.
LEMMA LeastNumber ==
  ASSUME NEW T, T \subseteq Nat, T # {}
  PROVE  \E x \in T : \A y \in T : x <= y
<1> DEFINE R == OpToRel(<, Nat)
<1>1. IsWellFoundedOn(R, Nat)
  BY NatLessThanWellFounded
<1>2. \A x, y \in Nat : y < x => <<y, x>> \in R
  BY DEF OpToRel
<1> HIDE DEF R
<1>3. PICK x \in T : \A y \in T : ~ (<<y, x>> \in R)
  BY <1>1, WFMin
<1>4. \A y \in T : x <= y
  <2> TAKE y \in T
  <2>1. x \in Nat /\ y \in Nat
    OBVIOUS
  <2>2. ~ (y < x)
    BY <1>2, <1>3, <2>1
  <2> QED
    BY <2>1, <2>2
<1> QED
  BY <1>4

\* A set that holds 0 and with every number the next holds all numbers.
LEMMA EveryNumber ==
  ASSUME NEW S, 0 \in S, \A n \in Nat : n \in S => n + 1 \in S
  PROVE  \A n \in Nat : n \in S
<1> DEFINE T == Nat \ S
<1> SUFFICES ASSUME T # {} PROVE FALSE
  OBVIOUS
<1>1. PICK x \in T : \A y \in T : x <= y
  BY LeastNumber
<1>2. x \in Nat /\ x # 0
  OBVIOUS
<1>3. x - 1 \in Nat /\ ~ (x <= x - 1) /\ (x - 1) + 1 = x
  BY <1>2
<1>4. x - 1 \in S
  BY <1>1, <1>3
<1> QED
  BY <1>3, <1>4

-----------------------------------------------------------------------------
(* Runs of symbols are bounded by what is left of the text. *)

LEMMA IntervalSize ==
  ASSUME NEW a \in Int, NEW c \in Int, a <= c
  PROVE  IsFiniteSet(a .. c - 1) /\ Cardinality(a .. c - 1) = c - a
<1>1. c - 1 \in Int
  OBVIOUS
<1>2. /\ IsFiniteSet(a .. c - 1)
      /\ Cardinality(a .. c - 1) = (IF a > c - 1 THEN 0 ELSE c - 1 - a + 1)
  BY <1>1, FS_Interval
<1> QED BY <1>2

LEMMA RunBound ==
  ASSUME text \in Seq(Symbols), NEW i \in 0 .. Len(text), NEW S
  PROVE  Run(i, S) \in 0 .. Len(text) - i
<1> DEFINE inRun == {j \in i .. Len(text) - 1 : \A k \in i .. j : At(k) \in S}
<1>1. /\ IsFiniteSet(i .. Len(text) - 1)
      /\ Cardinality(i .. Len(text) - 1) = Len(text) - i
  <2>1. Len(text) \in Int /\ i \in Int /\ i <= Len(text)
    OBVIOUS
  <2> QED BY <2>1, IntervalSize, Zenon
<1>2. /\ IsFiniteSet(inRun)
      /\ Cardinality(inRun) <= Len(text) - i
  BY <1>1, FS_Subset
<1>3. Cardinality(inRun) \in Nat
  BY <1>2, FS_CardinalityType
<1> QED BY <1>2, <1>3 DEF Run

LEMMA RunBackBound ==
  ASSUME text \in Seq(Symbols), NEW e \in 0 .. Len(text), NEW S
  PROVE  RunBack(e, S) \in 0 .. e
<1> DEFINE inRun == {j \in 0 .. e - 1 : \A k \in j .. e - 1 : At(k) \in S}
<1>1. /\ IsFiniteSet(0 .. e - 1)
      /\ Cardinality(0 .. e - 1) = e
  <2>1. 0 \in Int /\ e \in Int /\ 0 <= e
    OBVIOUS
  <2>2. IsFiniteSet(0 .. e - 1) /\ Cardinality(0 .. e - 1) = e - 0
    BY <2>1, IntervalSize, Zenon
  <2> QED BY <2>1, <2>2
<1>2. /\ IsFiniteSet(inRun)
      /\ Cardinality(inRun) <= e
  BY <1>1, FS_Subset
<1>3. Cardinality(inRun) \in Nat
  BY <1>2, FS_CardinalityType
<1> QED BY <1>2, <1>3 DEF RunBack

(* When something is left of a fragment, what is cut off in front and what is  *)
(* cut off at the back do not meet.                                            *)
LEMMA TrimLeavesSomething ==
  ASSUME text \in Seq(Symbols),
         NEW s \in 0 .. Len(text), NEW e \in 0 .. Len(text),
         s + Run(s, Whitespace) < e
  PROVE  s + Run(s, Whitespace) < e - RunBack(e, Whitespace)
<1> DEFINE front == {j \in s .. Len(text) - 1 : \A k \in s .. j : At(k) \in Whitespace}
           back  == {j \in 0 .. e - 1 : \A k \in j .. e - 1 : At(k) \in Whitespace}
<1>1. Run(s, Whitespace) = Cardinality(front) /\ RunBack(e, Whitespace) = Cardinality(back)
  BY DEF Run, RunBack
<1>2. Run(s, Whitespace) \in Nat /\ RunBack(e, Whitespace) \in Nat
  BY RunBound, RunBackBound
<1>3. s < e
  BY <1>2
<1>4. IsFiniteSet(front) /\ IsFiniteSet(back)
  <2>1. IsFiniteSet(s .. Len(text) - 1) /\ IsFiniteSet(0 .. e - 1)
    BY FS_Interval
  <2>2. front \subseteq s .. Len(text) - 1 /\ back \subseteq 0 .. e - 1
    OBVIOUS
  <2> QED BY <2>1, <2>2, FS_Subset
<1>5. IsFiniteSet(s .. e - 1) /\ Cardinality(s .. e - 1) = e - s
  <2>1. s \in Int /\ e \in Int /\ s <= e
    BY <1>3
  <2> QED BY <2>1, IntervalSize, Zenon
<1>6. ~(s .. e - 1 \subseteq front)
  <2>1. ASSUME s .. e - 1 \subseteq front PROVE FALSE
    <3>1. e - s <= Cardinality(front)
      BY <2>1, <1>4, <1>5, FS_Subset
    <3> QED BY <3>1, <1>1, <1>2
  <2> QED BY <2>1
<1>7. PICK solid \in s .. e - 1 : At(solid) \notin Whitespace
  <2>1. PICK j \in s .. e - 1 : j \notin front
    BY <1>6
  <2>2. \E k \in s .. j : At(k) \notin Whitespace
    BY <2>1
  <2> QED BY <2>2
<1>8. /\ \A j \in front : j < solid
      /\ \A j \in back : solid < j
  BY <1>7
<1>9. front \cap back = {} /\ front \cup back \subseteq (s .. e - 1) \ {solid}
  <2>1. front \cap back = {}
    <3>1. ASSUME NEW j, j \in front, j \in back PROVE FALSE
      <4>1. j < solid /\ solid < j
        BY <3>1, <1>8, Zenon
      <4>2. j \in Int
        BY <3>1
      <4> QED BY <4>1, <4>2
    <3> QED BY <3>1, Zenon
  <2>2. ASSUME NEW j \in front PROVE j \in (s .. e - 1) \ {solid}
    <3>1. j \in Int /\ s <= j /\ j < solid
      BY <1>8
    <3> QED BY <3>1
  <2>3. ASSUME NEW j \in back PROVE j \in (s .. e - 1) \ {solid}
    <3>1. j \in Int /\ j <= e - 1 /\ solid < j
      BY <1>8
    <3> QED BY <3>1
  <2> QED BY <2>1, <2>2, <2>3, Zenon
<1>10. /\ IsFiniteSet((s .. e - 1) \ {solid})
       /\ Cardinality((s .. e - 1) \ {solid}) = e - s - 1
  BY <1>5, <1>7, FS_RemoveElement
<1>11. Cardinality(front) + Cardinality(back) <= e - s - 1
  <2>1. Cardinality(front \cup back) <= e - s - 1
    BY <1>9, <1>10, FS_Subset
  <2>2. Cardinality(front \cap back) = 0
    BY <1>9, FS_EmptySet
  <2>3. Cardinality(front \cup back) = Cardinality(front) + Cardinality(back) - Cardinality(front \cap back)
    BY <1>4, FS_Union
  <2>4. Cardinality(front) \in Nat /\ Cardinality(back) \in Nat
    BY <1>4, FS_CardinalityType
  <2> QED BY <2>1, <2>2, <2>3, <2>4
<1> QED BY <1>1, <1>2, <1>11

-----------------------------------------------------------------------------
(* What the helpers find lies inside the text. *)

LEMMA AtInside ==
  ASSUME text \in Seq(Symbols), NEW i \in Nat, At(i) # "end"
  PROVE  i < Len(text)
BY DEF At

LEMMA StartsWithInside ==
  ASSUME NEW i \in Nat, NEW prefix \in Seq(Symbols), StartsWith(i, prefix)
  PROVE  Len(prefix) \in Nat \ {0} /\ i + Len(prefix) <= Len(text)
BY DEF StartsWith

LEMMA DollarTagInside ==
  ASSUME text \in Seq(Symbols), NEW i \in 0 .. Len(text) - 1, ParseDollarTag(i) # <<>>
  PROVE  /\ ParseDollarTag(i) \in Seq(Symbols)
         /\ Len(ParseDollarTag(i)) \in Nat \ {0}
         /\ i + Len(ParseDollarTag(i)) <= Len(text)
<1> DEFINE to == i + 1 + Run(i + 1, Word)
<1>1. to \in i + 1 .. Len(text)
  BY RunBound
<1>2. At(to) = "$" /\ ParseDollarTag(i) = SubSeq(text, i + 1, to + 1)
  BY DEF ParseDollarTag
<1>3. to < Len(text)
  BY <1>1, <1>2, AtInside
<1> HIDE DEF to
<1>4. SubSeq(text, i + 1, to + 1) \in Seq(Symbols) /\ Len(SubSeq(text, i + 1, to + 1)) = to + 1 - i
  BY <1>1, <1>3
<1> QED BY <1>1, <1>2, <1>3, <1>4

LEMMA ParseDollarTagType ==
  ASSUME text \in Seq(Symbols), NEW i \in 0 .. Len(text) - 1
  PROVE  ParseDollarTag(i) \in Seq(Symbols)
<1>1. CASE ParseDollarTag(i) = <<>>
  BY <1>1
<1>2. CASE ParseDollarTag(i) # <<>>
  BY <1>2, DollarTagInside
<1> QED BY <1>1, <1>2

LEMMA DelimiterInside ==
  ASSUME text \in Seq(Symbols), NEW i \in 0 .. Len(text) - 1, ParseDelimiter(i).width > 0
  PROVE  /\ ParseDelimiter(i).width \in Nat
         /\ i + ParseDelimiter(i).width <= Len(text)
         /\ ParseDelimiter(i).delimiter \in Seq(Symbols)
<1> DEFINE from == i + 1 + Run(i + 1, Blank)
           to   == from + Run(from, Except(Whitespace))
           line == to + Run(to, Except({"nl"}))
           next == IF line < Len(text) THEN line + 1 ELSE line
<1>1. from \in i + 1 .. Len(text)
  BY RunBound
<1>2. to \in from .. Len(text)
  <2> HIDE DEF from
  <2> QED BY <1>1, RunBound
<1>3. line \in to .. Len(text)
  <2> HIDE DEF to, from
  <2> QED BY <1>1, <1>2, RunBound
<1>4. ParseDelimiter(i) = [width |-> next - i, delimiter |-> SubSeq(text, from + 1, to)]
  <2>1. NoDirective.width = 0
    BY DEF NoDirective
  <2> QED BY <2>1 DEF ParseDelimiter
<1> HIDE DEF from, to, line
<1>5. SubSeq(text, from + 1, to) \in Seq(Symbols)
  BY <1>1, <1>2
<1> QED BY <1>1, <1>2, <1>3, <1>4, <1>5

LEMMA OpensInside ==
  ASSUME text \in Seq(Symbols), NEW i \in 0 .. Len(text) - 1
  PROVE  /\ Opens(i).mode \in Modes
         /\ Opens(i).width \in Nat \ {0}
         /\ i + Opens(i).width <= Len(text)
         /\ Opens(i).mode = "dollar" => ParseDollarTag(i) # <<>>
<1>1. ParseDollarTag(i) # <<>> => /\ Len(ParseDollarTag(i)) \in Nat \ {0}
                                  /\ i + Len(ParseDollarTag(i)) <= Len(text)
                                  /\ At(i) = "$"
  BY DollarTagInside DEF ParseDollarTag
<1>2. At(i + 1) # "end" => i + 2 <= Len(text)
  BY DEF At
<1>3. /\ Opens(i).mode \in Modes
      /\ Opens(i).mode = "dollar" => ParseDollarTag(i) # <<>>
  BY <1>1 DEF Opens, Modes, Pair
<1>4. ASSUME Pair(i, "-", "-") \/ Pair(i, "/", "*")
      PROVE  Opens(i).width = 2 /\ i + 2 <= Len(text)
  <2>1. At(i + 1) # "end"
    BY <1>4 DEF Pair
  <2>2. CASE Pair(i, "-", "-")
    <3>1. ~Pair(i, "/", "*") /\ At(i) = "-"
      BY <2>2 DEF Pair
    <3>2. Opens(i) = [mode |-> "line", width |-> 2]
      BY <2>2, <3>1, <1>1 DEF Opens
    <3> QED BY <3>2, <2>1, <1>2
  <2>3. CASE Pair(i, "/", "*")
    <3>1. ~Pair(i, "-", "-") /\ At(i) = "/"
      BY <2>3 DEF Pair
    <3>2. Opens(i) = [mode |-> "block", width |-> 2]
      BY <2>3, <3>1, <1>1 DEF Opens
    <3> QED BY <3>2, <2>1, <1>2
  <2> QED BY <1>4, <2>2, <2>3
<1>5. ASSUME ~Pair(i, "-", "-"), ~Pair(i, "/", "*")
      PROVE  Opens(i).width = 1 \/ (ParseDollarTag(i) # <<>> /\ Opens(i).width = Len(ParseDollarTag(i)))
  <2>1. CASE ParseDollarTag(i) # <<>>
    <3>1. Opens(i) = [mode |-> "dollar", width |-> Len(ParseDollarTag(i))]
      BY <1>1, <1>5, <2>1 DEF Opens
    <3> QED BY <3>1, <2>1
  <2>2. CASE ParseDollarTag(i) = <<>>
    BY <1>5, <2>2 DEF Opens
  <2> QED BY <2>1, <2>2
<1> QED BY <1>1, <1>3, <1>4, <1>5

LEMMA EscapesInside ==
  ASSUME text \in Seq(Symbols), index \in 0 .. Len(text) - 1, NEW m, Escapes(index, m)
  PROVE  index + 2 <= Len(text)
BY DEF Escapes

LEMMA PairInside ==
  ASSUME text \in Seq(Symbols), index \in 0 .. Len(text) - 1, NEW p, NEW q, q # "end", Pair(index, p, q)
  PROVE  index + 2 <= Len(text)
BY DEF Pair, At

-----------------------------------------------------------------------------
(* A fragment that is pushed goes behind the others, before what is read next. *)

StatementSet == [start : 0 .. Len(text), end : 0 .. Len(text)]

LEMMA StatementOffsets ==
  ASSUME text \in Seq(Symbols), NEW q \in Seq(StatementSet), NEW s \in DOMAIN q
  PROVE  q[s].start \in Nat /\ q[s].end \in Nat
<1>1. q[s] \in StatementSet
  OBVIOUS
<1>2. q[s].start \in 0 .. Len(text) /\ q[s].end \in 0 .. Len(text)
  BY <1>1 DEF StatementSet
<1> QED BY <1>2

LEMMA PushKeepsOrder ==
  ASSUME TypeOK, Ordered, reader = "split"
  PROVE  /\ PushStatement(start, index) \in Seq(StatementSet)
         /\ \A s \in DOMAIN PushStatement(start, index) :
              /\ PushStatement(start, index)[s].start < PushStatement(start, index)[s].end
              /\ PushStatement(start, index)[s].end <= index
         /\ \A s, later \in DOMAIN PushStatement(start, index) :
              s < later => PushStatement(start, index)[s].end <= PushStatement(start, index)[later].start
<1> DEFINE from   == start + Run(start, Whitespace)
           to     == index - RunBack(index, Whitespace)
           pushed == PushStatement(start, index)
<1>1. /\ text \in Seq(Symbols) /\ start \in 0 .. Len(text) /\ index \in 0 .. Len(text) /\ start <= index
      /\ statements \in Seq(StatementSet)
      /\ \A s \in DOMAIN statements : statements[s].start < statements[s].end /\ statements[s].end <= start
      /\ \A s, later \in DOMAIN statements : s < later => statements[s].end <= statements[later].start
  BY DEF TypeOK, Ordered, StatementSet
<1>2. CASE ~(from < index)
  <2>1. pushed = statements
    BY <1>2 DEF PushStatement
  <2>2. \A s \in DOMAIN statements : statements[s].end \in Nat
    BY <1>1, StatementOffsets
  <2> QED BY <1>1, <2>1, <2>2
<1>3. CASE from < index
  <2>1. pushed = Append(statements, [start |-> from, end |-> to])
    BY <1>3 DEF PushStatement
  <2>2. Run(start, Whitespace) \in Nat /\ RunBack(index, Whitespace) \in 0 .. index
    BY <1>1, RunBound, RunBackBound
  <2>3. from < to
    BY <1>1, <1>3, TrimLeavesSomething
  <2>4. from \in 0 .. Len(text) /\ to \in 0 .. Len(text) /\ start <= from /\ to <= index
    BY <1>1, <1>3, <2>2
  <2> HIDE DEF from, to
  <2>5. [start |-> from, end |-> to] \in StatementSet
    BY <2>4 DEF StatementSet
  <2>6. pushed \in Seq(StatementSet) /\ DOMAIN pushed = 1 .. Len(statements) + 1
    BY <1>1, <2>1, <2>5
  <2>7. /\ \A s \in DOMAIN statements : pushed[s] = statements[s]
        /\ pushed[Len(statements) + 1] = [start |-> from, end |-> to]
        /\ DOMAIN statements = 1 .. Len(statements) /\ Len(statements) \in Nat
    BY <1>1, <2>1, <2>5
  <2>8. ASSUME NEW s \in DOMAIN pushed
        PROVE  pushed[s].start < pushed[s].end /\ pushed[s].end <= index
    <3>1. CASE s \in DOMAIN statements
      <4>1. statements[s].end \in Nat /\ statements[s].start \in Nat
        BY <3>1, <1>1, StatementOffsets
      <4> QED BY <3>1, <4>1, <1>1, <2>7
    <3>2. CASE s = Len(statements) + 1
      BY <3>2, <2>3, <2>4, <2>7
    <3> QED BY <3>1, <3>2, <2>6, <2>7
  <2>9. ASSUME NEW s \in DOMAIN pushed, NEW later \in DOMAIN pushed, s < later
        PROVE  pushed[s].end <= pushed[later].start
    <3>1. s \in DOMAIN statements
      BY <2>6, <2>7, <2>9
    <3>2. CASE later \in DOMAIN statements
      BY <3>1, <3>2, <2>7, <2>9, <1>1
    <3>3. CASE later = Len(statements) + 1
      <4>1. statements[s].end \in Nat
        BY <3>1, <1>1, StatementOffsets
      <4> QED BY <3>1, <3>3, <4>1, <2>4, <2>7, <1>1
    <3> QED BY <3>2, <3>3, <2>6, <2>7
  <2> HIDE DEF pushed
  <2>10. /\ pushed \in Seq(StatementSet)
         /\ \A s \in DOMAIN pushed : pushed[s].start < pushed[s].end /\ pushed[s].end <= index
         /\ \A s, later \in DOMAIN pushed : s < later => pushed[s].end <= pushed[later].start
    BY <2>6, <2>8, <2>9
  <2> QED BY <2>10 DEF pushed
<1> QED BY <1>2, <1>3

-----------------------------------------------------------------------------
(* The invariant: besides the properties, that strip_noise starts with nothing *)
(* written.                                                                    *)

MaskEmpty == reader = "split" => mask = <<>>

IInv == TypeOK /\ Ordered /\ MaskAligned /\ MaskEmpty

Kept == IInv' /\ (reader' = reader => index' > index)

LEMMA InitIInv == Init => IInv
<1> SUFFICES ASSUME Init PROVE IInv
  OBVIOUS
<1>1. text \in Seq(Symbols)
  BY TextsAssumption DEF Init
<1>2. /\ statements = <<>> /\ mask = <<>> /\ tag = <<>>
      /\ reader = "split" /\ index = 0 /\ start = 0 /\ depth = 0 /\ mode = "normal"
  BY DEF Init
<1>3. TypeOK
  <2>1. <<>> \in Seq(StatementSet) /\ <<>> \in Seq(Symbols)
    OBVIOUS
  <2>2. delimiter \in Seq(Symbols)
    BY SymbolsAssumption DEF Init
  <2>3. Len(text) \in Nat
    BY <1>1
  <2> QED BY <1>1, <1>2, <2>1, <2>2, <2>3 DEF TypeOK, Modes, StatementSet
<1>4. Ordered /\ MaskAligned /\ MaskEmpty
  BY <1>2 DEF Ordered, MaskAligned, MaskEmpty
<1> QED BY <1>3, <1>4 DEF IInv

(* What a step of split has to show: it stays inside the text, with mode,      *)
(* depth and tag of their types, and leaves the statements alone.              *)
LEMMA SplitStep ==
  ASSUME IInv, reader = "split", index < Len(text),
         NEW n \in Nat \ {0}, NEW m \in Modes, Splitting(n, m), index + n <= Len(text),
         depth' \in Nat, m = "block" => depth' > 0, tag' \in Seq(Symbols),
         UNCHANGED <<delimiter, start, statements>>
  PROVE  IInv' /\ (reader' = reader => index' > index)
<1>1. /\ text' = text /\ reader' = "split" /\ mask' = mask /\ index' = index + n /\ mode' = m
      /\ delimiter' = delimiter /\ start' = start /\ statements' = statements
  BY DEF Splitting, Step
<1>2. TypeOK'
  BY <1>1 DEF IInv, TypeOK
<1>3. Ordered'
  BY <1>1 DEF IInv, Ordered
<1>4. MaskAligned' /\ MaskEmpty'
  BY <1>1 DEF IInv, MaskAligned, MaskEmpty
<1>5. index' > index
  BY <1>1 DEF IInv, TypeOK
<1> QED BY <1>2, <1>3, <1>4, <1>5 DEF IInv

(* The same for a step that ends a statement. *)
LEMMA SplitPushStep ==
  ASSUME IInv, reader = "split", index < Len(text),
         NEW n \in Nat \ {0}, Splitting(n, "normal"), index + n <= Len(text),
         statements' = PushStatement(start, index), start' = index',
         delimiter' \in Seq(Symbols), UNCHANGED <<depth, tag>>
  PROVE  IInv' /\ (reader' = reader => index' > index)
<1>1. /\ text' = text /\ reader' = "split" /\ mask' = mask /\ index' = index + n
      /\ mode' = "normal" /\ start' = index + n
      /\ statements' = PushStatement(start, index) /\ depth' = depth /\ tag' = tag
  BY DEF Splitting, Step
<1>2. TypeOK /\ Ordered
  BY DEF IInv
<1>3. /\ statements' \in Seq(StatementSet)
      /\ \A s \in DOMAIN statements' : statements'[s].start < statements'[s].end /\ statements'[s].end <= index
      /\ \A s, later \in DOMAIN statements' : s < later => statements'[s].end <= statements'[later].start
  BY <1>1, <1>2, PushKeepsOrder
<1>4. index \in Nat /\ Len(text) \in Nat
  BY <1>2 DEF TypeOK
<1>5. TypeOK'
  BY <1>1, <1>2, <1>3, <1>4 DEF TypeOK, Modes, StatementSet
<1>6. Ordered'
  <2>1. \A s \in DOMAIN statements' : statements'[s].end \in Nat
    <3>1. text \in Seq(Symbols) /\ statements' \in Seq(StatementSet)
      BY <1>2, <1>3 DEF TypeOK
    <3> QED BY <3>1, StatementOffsets
  <2> QED BY <1>1, <1>3, <1>4, <2>1 DEF Ordered
<1>7. MaskAligned' /\ MaskEmpty'
  BY <1>1 DEF IInv, MaskAligned, MaskEmpty
<1> QED BY <1>1, <1>4, <1>5, <1>6, <1>7 DEF IInv

(* A step of strip_noise writes as much as it reads, of an ASCII letter.       *)
Emits(n, out) ==
  /\ n \in Nat \ {0} /\ index + n <= Len(text)
  /\ out \in Seq(Symbols)
  /\ Len(out) = n \/ text[index + 1] \in Wide

(* And for a step of strip_noise.                                              *)
LEMMA MaskStep ==
  ASSUME IInv, reader = "mask", index < Len(text),
         NEW n, NEW m, NEW out, Masking(n, m, out), Emits(n, out), m \in Modes,
         depth' \in Nat, m = "block" => depth' > 0, tag' \in Seq(Symbols)
  PROVE  Kept
<1>1. /\ UNCHANGED <<text, reader, delimiter, start, statements>>
      /\ index' = index + n /\ mode' = m /\ mask' = mask \o out
  BY DEF Masking, Step
<1>2. /\ index \in Nat /\ Len(mask) \in Nat /\ mask \in Seq(Symbols) /\ text \in Seq(Symbols)
      /\ index + 1 \in DOMAIN text /\ Len(text) \in Nat
  BY DEF IInv, TypeOK
<1>3. /\ mask' \in Seq(Symbols) /\ Len(mask') = Len(mask) + Len(out) /\ Len(out) \in Nat
      /\ index' \in Nat /\ index < index' /\ index' <= Len(text)
  BY <1>1, <1>2 DEF Emits
<1>4. TypeOK'
  BY <1>1, <1>3 DEF IInv, TypeOK
<1>5. Ordered'
  BY <1>1 DEF IInv, Ordered
<1>6. MaskAligned'
  BY <1>1, <1>2, <1>3 DEF IInv, MaskAligned, Emits
<1>7. MaskEmpty'
  BY <1>1 DEF MaskEmpty
<1> QED BY <1>3, <1>4, <1>5, <1>6, <1>7 DEF IInv, Kept

-----------------------------------------------------------------------------
(* Every step keeps the invariant and reads on. *)

LEMMA SplitKeeps ==
  ASSUME IInv, Split
  PROVE  Kept
<1>1. /\ text \in Seq(Symbols) /\ index \in 0 .. Len(text) /\ depth \in Nat /\ tag \in Seq(Symbols)
      /\ delimiter \in Seq(Symbols)
      /\ mode = "block" => depth > 0
  BY DEF IInv, TypeOK
<1>2. CASE SplitDirective
  <2>1. reader = "split" /\ index < Len(text) /\ index \in 0 .. Len(text) - 1
    BY <1>1, <1>2 DEF SplitDirective, More
  <2>2. ParseDelimiter(index).width > 0
    BY <1>2 DEF SplitDirective, AtDirective
  <2>3. /\ ParseDelimiter(index).width \in Nat \ {0}
        /\ index + ParseDelimiter(index).width <= Len(text)
        /\ ParseDelimiter(index).delimiter \in Seq(Symbols)
    BY <1>1, <2>1, <2>2, DelimiterInside
  <2> QED BY <1>2, <2>1, <2>3, SplitPushStep DEF SplitDirective, Kept
<1>3. CASE SplitOpen
  <2>1. reader = "split" /\ index < Len(text) /\ index \in 0 .. Len(text) - 1
    BY <1>1, <1>3 DEF SplitOpen, More
  <2>2. /\ Opens(index).mode \in Modes
        /\ Opens(index).width \in Nat \ {0}
        /\ index + Opens(index).width <= Len(text)
        /\ ParseDollarTag(index) \in Seq(Symbols)
    BY <1>1, <2>1, OpensInside, ParseDollarTagType
  <2>3. /\ Splitting(Opens(index).width, Opens(index).mode)
        /\ mode' = Opens(index).mode
        /\ depth' = (IF mode' = "block" THEN 1 ELSE depth)
        /\ tag' = (IF mode' = "dollar" THEN ParseDollarTag(index) ELSE tag)
        /\ UNCHANGED <<delimiter, start, statements>>
    BY <1>3 DEF SplitOpen, Splitting, Step
  <2> QED BY <1>1, <2>1, <2>2, <2>3, SplitStep DEF Kept
<1>4. CASE SplitTerminator
  <2>1. /\ reader = "split" /\ index < Len(text) /\ index \in Nat
        /\ StartsWith(index, delimiter) /\ Splitting(Len(delimiter), "normal")
        /\ statements' = PushStatement(start, index) /\ start' = index'
        /\ UNCHANGED <<depth, tag, delimiter>>
    BY <1>1, <1>4 DEF SplitTerminator, More
  <2>3. delimiter' \in Seq(Symbols)
    BY <1>1, <2>1
  <2>2. Len(delimiter) \in Nat \ {0} /\ index + Len(delimiter) <= Len(text)
    BY <1>1, <2>1, StartsWithInside
  <2> QED BY <1>1, <2>1, <2>2, SplitPushStep DEF Kept
<1>5. CASE SplitPlain
  <2>1. /\ reader = "split" /\ index < Len(text) /\ Splitting(1, "normal")
        /\ UNCHANGED <<depth, tag, delimiter, start, statements>>
    BY <1>5 DEF SplitPlain, More
  <2>2. index + 1 <= Len(text) /\ "normal" \in Modes
    BY <1>1, <2>1 DEF Modes
  <2> QED BY <1>1, <2>1, <2>2, SplitStep DEF Kept
<1>6. CASE SplitLine
  <2> DEFINE m == IF At(index) = "nl" THEN "normal" ELSE "line"
  <2>1. /\ reader = "split" /\ index < Len(text) /\ Splitting(1, m)
        /\ UNCHANGED <<depth, tag, delimiter, start, statements>>
    BY <1>6 DEF SplitLine, More
  <2>2. index + 1 <= Len(text) /\ m \in Modes /\ m # "block"
    BY <1>1, <2>1 DEF Modes
  <2> HIDE DEF m
  <2> QED BY <1>1, <2>1, <2>2, SplitStep DEF Kept
<1>7. CASE SplitBlock
  <2>1. /\ reader = "split" /\ index < Len(text) /\ index \in 0 .. Len(text) - 1 /\ depth > 0
        /\ UNCHANGED <<tag, delimiter, start, statements>>
    BY <1>1, <1>7 DEF SplitBlock, More
  <2>2. "block" \in Modes /\ "normal" \in Modes /\ index + 1 <= Len(text)
    BY <1>1, <2>1 DEF Modes
  <2>3. CASE Pair(index, "/", "*")
    <3>1. Splitting(2, "block") /\ depth' = depth + 1
      BY <1>7, <2>3 DEF SplitBlock
    <3>2. index + 2 <= Len(text)
      BY <1>1, <2>1, <2>3, PairInside
    <3> QED BY <1>1, <2>1, <2>2, <3>1, <3>2, SplitStep DEF Kept
  <2>4. CASE ~Pair(index, "/", "*") /\ Pair(index, "*", "/")
    <3> DEFINE m == IF depth = 1 THEN "normal" ELSE "block"
    <3>1. Splitting(2, m) /\ depth' = depth - 1
      BY <1>7, <2>4 DEF SplitBlock
    <3>2. index + 2 <= Len(text)
      BY <1>1, <2>1, <2>4, PairInside
    <3>3. m \in Modes /\ depth' \in Nat /\ (m = "block" => depth' > 0)
      BY <1>1, <2>1, <2>2, <3>1
    <3> HIDE DEF m
    <3> QED BY <1>1, <2>1, <3>1, <3>2, <3>3, SplitStep DEF Kept
  <2>5. CASE ~Pair(index, "/", "*") /\ ~Pair(index, "*", "/")
    <3>1. Splitting(1, "block") /\ depth' = depth
      BY <1>7, <2>5 DEF SplitBlock
    <3> QED BY <1>1, <2>1, <2>2, <3>1, SplitStep DEF Kept
  <2> QED BY <2>3, <2>4, <2>5
<1>8. CASE SplitDollar
  <2>1. /\ reader = "split" /\ index < Len(text) /\ index \in Nat
        /\ UNCHANGED <<depth, tag, delimiter, start, statements>>
    BY <1>1, <1>8 DEF SplitDollar, More
  <2>2. "dollar" \in Modes /\ "normal" \in Modes /\ index + 1 <= Len(text)
    BY <1>1, <2>1 DEF Modes
  <2>3. CASE StartsWith(index, tag)
    <3>1. Splitting(Len(tag), "normal")
      BY <1>8, <2>3 DEF SplitDollar
    <3>2. Len(tag) \in Nat \ {0} /\ index + Len(tag) <= Len(text)
      BY <1>1, <2>1, <2>3, StartsWithInside
    <3> QED BY <1>1, <2>1, <2>2, <3>1, <3>2, SplitStep DEF Kept
  <2>4. CASE ~StartsWith(index, tag)
    <3>1. Splitting(1, "dollar")
      BY <1>8, <2>4 DEF SplitDollar
    <3> QED BY <1>1, <2>1, <2>2, <3>1, SplitStep DEF Kept
  <2> QED BY <2>3, <2>4
<1>9. CASE SplitEnd
  <2>1. /\ reader = "split" /\ text' = text /\ reader' = "mask" /\ index' = 0 /\ mode' = "normal"
        /\ depth' = 0 /\ tag' = <<>> /\ delimiter' = delimiter /\ start' = start /\ mask' = mask
        /\ statements' = PushStatement(start, index)
    BY <1>9 DEF SplitEnd
  <2>2. TypeOK /\ Ordered
    BY DEF IInv
  <2>3. /\ statements' \in Seq(StatementSet)
        /\ \A s \in DOMAIN statements' : statements'[s].start < statements'[s].end
        /\ \A s, later \in DOMAIN statements' : s < later => statements'[s].end <= statements'[later].start
    BY <2>1, <2>2, PushKeepsOrder
  <2>4. TypeOK'
    BY <2>1, <2>2, <2>3 DEF TypeOK, Modes, StatementSet
  <2>5. Ordered'
    BY <2>1, <2>3 DEF Ordered
  <2>6. MaskAligned' /\ MaskEmpty'
    BY <2>1 DEF IInv, MaskEmpty, MaskAligned
  <2> QED BY <2>1, <2>4, <2>5, <2>6 DEF IInv, Kept
<1>10. ASSUME NEW q \in DOMAIN Quote, SplitQuoted(q)
       PROVE  Kept
  <2>1. /\ reader = "split" /\ index < Len(text) /\ index \in 0 .. Len(text) - 1 /\ mode = q
        /\ UNCHANGED <<depth, tag, delimiter, start, statements>>
    BY <1>1, <1>10 DEF SplitQuoted, More
  <2>2. q \in Modes /\ "normal" \in Modes /\ index + 1 <= Len(text) /\ q # "block"
    BY <1>1, <2>1 DEF Modes, Quote
  <2>3. Quote[q] # "end"
    BY DEF Quote
  <2>4. CASE Escapes(index, q) \/ Pair(index, Quote[q], Quote[q])
    <3>1. Splitting(2, q)
      BY <1>10, <2>4 DEF SplitQuoted
    <3>2. index + 2 <= Len(text)
      BY <1>1, <2>1, <2>3, <2>4, EscapesInside, PairInside
    <3> QED BY <1>1, <2>1, <2>2, <3>1, <3>2, SplitStep DEF Kept
  <2>5. CASE ~(Escapes(index, q) \/ Pair(index, Quote[q], Quote[q]))
    <3> DEFINE m == IF At(index) = Quote[q] THEN "normal" ELSE q
    <3>1. Splitting(1, m)
      BY <1>10, <2>5 DEF SplitQuoted
    <3>2. m \in Modes /\ m # "block"
      BY <2>2
    <3> HIDE DEF m
    <3> QED BY <1>1, <2>1, <2>2, <3>1, <3>2, SplitStep DEF Kept
  <2> QED BY <2>4, <2>5
<1> QED BY <1>2, <1>3, <1>4, <1>5, <1>6, <1>7, <1>8, <1>9, <1>10 DEF Split

LEMMA WrittenSymbols == "sp" \in Symbols /\ "nl" \in Symbols /\ "c2" \in Symbols
BY SymbolsAssumption, Zenon

LEMMA SpacesType ==
  ASSUME NEW n \in Nat
  PROVE  Spaces(n) \in Seq(Symbols) /\ Len(Spaces(n)) = n
BY WrittenSymbols DEF Spaces

LEMMA BlankedType == ASSUME NEW b PROVE Blanked(b) \in Seq(Symbols) /\ Len(Blanked(b)) = 1
BY WrittenSymbols DEF Blanked

LEMMA StripNoiseKeeps ==
  ASSUME IInv, StripNoise
  PROVE  Kept
<1>1. /\ text \in Seq(Symbols) /\ index \in 0 .. Len(text) /\ depth \in Nat /\ tag \in Seq(Symbols)
      /\ mode = "block" => depth > 0
      /\ mask \in Seq(Symbols) /\ Len(mask) \in Nat
  BY DEF IInv, TypeOK
<1>2. CASE MaskOpen
  <2> DEFINE w == IF Opens(index).mode = "line" THEN 1 ELSE Opens(index).width
  <2>1. reader = "mask" /\ index < Len(text) /\ index \in 0 .. Len(text) - 1
    BY <1>1, <1>2 DEF MaskOpen, More
  <2>2. /\ Opens(index).mode \in Modes
        /\ Opens(index).width \in Nat \ {0}
        /\ index + Opens(index).width <= Len(text)
        /\ ParseDollarTag(index) \in Seq(Symbols)
    BY <1>1, <2>1, OpensInside, ParseDollarTagType
  <2>3. w \in Nat \ {0} /\ index + w <= Len(text)
    BY <1>1, <2>1, <2>2
  <2>4. /\ Masking(w, Opens(index).mode, Spaces(w))
        /\ mode' = Opens(index).mode
        /\ depth' = (IF mode' = "block" THEN 1 ELSE depth)
        /\ tag' = (IF mode' = "dollar" THEN ParseDollarTag(index) ELSE tag)
    BY <1>2 DEF MaskOpen, Masking, Step
  <2> HIDE DEF w
  <2>5. Spaces(w) \in Seq(Symbols) /\ Len(Spaces(w)) = w
    BY <2>3, SpacesType
  <2>6. Emits(w, Spaces(w))
    BY <1>1, <2>1, <2>2, <2>3, <2>4, <2>5 DEF Emits
  <2> QED BY <1>1, <2>1, <2>2, <2>3, <2>4, <2>5, <2>6, MaskStep
<1>3. CASE MaskPlain
  <2>1. /\ reader = "mask" /\ index < Len(text) /\ Masking(1, "normal", Copied(At(index)))
        /\ UNCHANGED <<depth, tag>>
    BY <1>3 DEF MaskPlain, More
  <2>2. index + 1 <= Len(text) /\ "normal" \in Modes
    BY <1>1, <2>1 DEF Modes
  <2>3. At(index) = text[index + 1] /\ At(index) \in Symbols /\ "c2" \in Symbols
    BY <1>1, <2>1, WrittenSymbols DEF At
  <2>4. Copied(At(index)) \in Seq(Symbols) /\ (Len(Copied(At(index))) = 1 \/ text[index + 1] \in Wide)
    BY <2>3 DEF Copied
  <2>6. Emits(1, Copied(At(index)))
    BY <1>1, <2>1, <2>2, <2>4 DEF Emits
  <2> QED BY <1>1, <2>1, <2>2, <2>4, <2>6, MaskStep
<1>4. CASE MaskLine
  <2> DEFINE m == IF At(index) = "nl" THEN "normal" ELSE "line"
  <2>1. /\ reader = "mask" /\ index < Len(text) /\ Masking(1, m, Blanked(At(index)))
        /\ UNCHANGED <<depth, tag>>
    BY <1>4 DEF MaskLine, More
  <2>2. index + 1 <= Len(text) /\ m \in Modes /\ m # "block"
    BY <1>1, <2>1 DEF Modes
  <2> HIDE DEF m
  <2>6. Emits(1, Blanked(At(index)))
    BY <1>1, <2>1, <2>2, BlankedType DEF Emits
  <2> QED BY <1>1, <2>1, <2>2, BlankedType, <2>6, MaskStep
<1>5. CASE MaskBlock
  <2>1. /\ reader = "mask" /\ index < Len(text) /\ index \in 0 .. Len(text) - 1 /\ depth > 0
        /\ UNCHANGED tag
    BY <1>1, <1>5 DEF MaskBlock, More
  <2>2. "block" \in Modes /\ "normal" \in Modes /\ index + 1 <= Len(text)
    BY <1>1, <2>1 DEF Modes
  <2>3. Spaces(2) \in Seq(Symbols) /\ Len(Spaces(2)) = 2
    BY SpacesType
  <2>4. CASE Pair(index, "/", "*")
    <3>1. Masking(2, "block", Spaces(2)) /\ depth' = depth + 1
      BY <1>5, <2>4 DEF MaskBlock
    <3>2. index + 2 <= Len(text)
      BY <1>1, <2>1, <2>4, PairInside
    <3>6. Emits(2, Spaces(2))
      BY <1>1, <2>1, <2>2, <2>3, <3>1, <3>2 DEF Emits
    <3> QED BY <1>1, <2>1, <2>2, <2>3, <3>1, <3>2, <3>6, MaskStep
  <2>5. CASE ~Pair(index, "/", "*") /\ Pair(index, "*", "/")
    <3> DEFINE m == IF depth = 1 THEN "normal" ELSE "block"
    <3>1. Masking(2, m, Spaces(2)) /\ depth' = depth - 1
      BY <1>5, <2>5 DEF MaskBlock
    <3>2. index + 2 <= Len(text)
      BY <1>1, <2>1, <2>5, PairInside
    <3>3. m \in Modes /\ depth' \in Nat /\ (m = "block" => depth' > 0)
      BY <1>1, <2>1, <2>2, <3>1
    <3> HIDE DEF m
    <3>6. Emits(2, Spaces(2))
      BY <1>1, <2>1, <2>3, <3>1, <3>2, <3>3 DEF Emits
    <3> QED BY <1>1, <2>1, <2>3, <3>1, <3>2, <3>3, <3>6, MaskStep
  <2>6. CASE ~Pair(index, "/", "*") /\ ~Pair(index, "*", "/")
    <3>1. Masking(1, "block", Blanked(At(index))) /\ depth' = depth
      BY <1>5, <2>6 DEF MaskBlock
    <3>6. Emits(1, Blanked(At(index)))
      BY <1>1, <2>1, <2>2, <3>1, BlankedType DEF Emits
    <3> QED BY <1>1, <2>1, <2>2, <3>1, BlankedType, <3>6, MaskStep
  <2> QED BY <2>4, <2>5, <2>6
<1>6. CASE MaskSingle
  <2>1. /\ reader = "mask" /\ index < Len(text) /\ index \in 0 .. Len(text) - 1
        /\ UNCHANGED <<depth, tag>>
    BY <1>1, <1>6 DEF MaskSingle, More
  <2>2. "single" \in Modes /\ "normal" \in Modes /\ index + 1 <= Len(text)
    BY <1>1, <2>1 DEF Modes
  <2>3. Spaces(2) \in Seq(Symbols) /\ Len(Spaces(2)) = 2
    BY SpacesType
  <2>4. CASE Escapes(index, "single") \/ Pair(index, "quote", "quote")
    <3>1. Masking(2, "single", Spaces(2))
      BY <1>6, <2>4 DEF MaskSingle
    <3>2. index + 2 <= Len(text)
      BY <1>1, <2>1, <2>4, EscapesInside, PairInside
    <3>6. Emits(2, Spaces(2))
      BY <1>1, <2>1, <2>2, <2>3, <3>1, <3>2 DEF Emits
    <3> QED BY <1>1, <2>1, <2>2, <2>3, <3>1, <3>2, <3>6, MaskStep
  <2>5. CASE ~(Escapes(index, "single") \/ Pair(index, "quote", "quote"))
    <3> DEFINE m == IF At(index) = "quote" THEN "normal" ELSE "single"
    <3>1. Masking(1, m, <<"sp">>)
      BY <1>6, <2>5 DEF MaskSingle
    <3>2. m \in Modes /\ m # "block"
      BY <2>2
    <3>3. <<"sp">> \in Seq(Symbols) /\ Len(<<"sp">>) = 1
      BY WrittenSymbols
    <3> HIDE DEF m
    <3>6. Emits(1, <<"sp">>)
      BY <1>1, <2>1, <2>2, <3>1, <3>2, <3>3 DEF Emits
    <3> QED BY <1>1, <2>1, <2>2, <3>1, <3>2, <3>3, <3>6, MaskStep
  <2> QED BY <2>4, <2>5
<1>7. CASE MaskDollar
  <2>1. /\ reader = "mask" /\ index < Len(text) /\ index \in Nat /\ UNCHANGED <<depth, tag>>
    BY <1>1, <1>7 DEF MaskDollar, More
  <2>2. "dollar" \in Modes /\ "normal" \in Modes /\ index + 1 <= Len(text)
    BY <1>1, <2>1 DEF Modes
  <2>3. CASE StartsWith(index, tag)
    <3>1. Masking(Len(tag), "normal", Spaces(Len(tag)))
      BY <1>7, <2>3 DEF MaskDollar
    <3>2. Len(tag) \in Nat \ {0} /\ index + Len(tag) <= Len(text)
      BY <1>1, <2>1, <2>3, StartsWithInside
    <3>3. Spaces(Len(tag)) \in Seq(Symbols) /\ Len(Spaces(Len(tag))) = Len(tag)
      BY <3>2, SpacesType
    <3>6. Emits(Len(tag), Spaces(Len(tag)))
      BY <1>1, <2>1, <2>2, <3>1, <3>2, <3>3 DEF Emits
    <3> QED BY <1>1, <2>1, <2>2, <3>1, <3>2, <3>3, <3>6, MaskStep
  <2>4. CASE ~StartsWith(index, tag)
    <3>1. Masking(1, "dollar", Blanked(At(index)))
      BY <1>7, <2>4 DEF MaskDollar
    <3>6. Emits(1, Blanked(At(index)))
      BY <1>1, <2>1, <2>2, <3>1, BlankedType DEF Emits
    <3> QED BY <1>1, <2>1, <2>2, <3>1, BlankedType, <3>6, MaskStep
  <2> QED BY <2>3, <2>4
<1>8. CASE MaskEnd
  <2>1. /\ reader = "mask" /\ reader' = "done"
        /\ UNCHANGED <<text, index, mode, depth, tag, delimiter, start, statements, mask>>
    BY <1>8 DEF MaskEnd
  <2>2. TypeOK' /\ Ordered'
    BY <2>1 DEF IInv, TypeOK, Ordered
  <2>3. MaskAligned' /\ MaskEmpty'
    BY <2>1 DEF IInv, MaskAligned, MaskEmpty
  <2> QED BY <2>1, <2>2, <2>3 DEF IInv, Kept
<1> QED BY <1>2, <1>3, <1>4, <1>5, <1>6, <1>7, <1>8 DEF StripNoise

LEMMA NextKeeps == IInv /\ [Next]_vars => IInv' /\ [reader' = reader => index' > index]_vars
<1> SUFFICES ASSUME IInv, [Next]_vars
             PROVE  IInv' /\ [reader' = reader => index' > index]_vars
  OBVIOUS
<1>1. CASE Split
  BY <1>1, SplitKeeps DEF Kept
<1>2. CASE StripNoise
  BY <1>2, StripNoiseKeeps DEF Kept
<1>3. CASE UNCHANGED vars
  BY <1>3 DEF vars, IInv, TypeOK, Ordered, MaskAligned, MaskEmpty
<1> QED BY <1>1, <1>2, <1>3 DEF Next

LEMMA InvariantHolds == Spec => []IInv
<1>1. Init => IInv
  BY InitIInv
<1>2. IInv /\ [Next]_vars => IInv'
  BY NextKeeps
<1> QED BY <1>1, <1>2, PTL DEF Spec

-----------------------------------------------------------------------------
(* THEOREM.  For every script, no lexer reads past its end, and the depth of a *)
(* comment never goes below zero (split, strip_noise).                         *)
THEOREM LexersStayInside == Spec => []TypeOK
<1>1. IInv => TypeOK
  BY DEF IInv
<1> QED BY <1>1, InvariantHolds, PTL

(* THEOREM.  For every script the statements are not empty, do not overlap and *)
(* stand in the order of the script (split, push_statement).                   *)
THEOREM StatementsAreOrdered == Spec => []Ordered
<1>1. IInv => Ordered
  BY DEF IInv
<1> QED BY <1>1, InvariantHolds, PTL

(* THEOREM.  For every script of ASCII letters the blanked text is as long as  *)
(* what was read of the script (strip_noise).                                  *)
THEOREM MaskKeepsOffsets == Spec => []MaskAligned
<1>1. IInv => MaskAligned
  BY DEF IInv
<1> QED BY <1>1, InvariantHolds, PTL

(* THEOREM.  Both loops come to an end on every script: each step reads at     *)
(* least one symbol.                                                           *)
THEOREM LexersAdvance == Spec => Advances
<1>1. IInv /\ [Next]_vars => [reader' = reader => index' > index]_vars
  BY NextKeeps
<1> QED BY <1>1, InvariantHolds, PTL DEF Spec, Advances

-----------------------------------------------------------------------------
(* A run stops at the first symbol that is not of its kind. *)

LEMMA RunStops ==
  ASSUME text \in Seq(Symbols), NEW i \in 0 .. Len(text), NEW S,
         NEW k \in i .. Len(text) - 1, At(k) \notin S
  PROVE  Run(i, S) \in Nat /\ i + Run(i, S) <= k
<1> DEFINE inRun == {j \in i .. Len(text) - 1 : \A m \in i .. j : At(m) \in S}
<1>1. inRun \subseteq i .. k - 1
  OBVIOUS
<1>2. IsFiniteSet(i .. k - 1) /\ Cardinality(i .. k - 1) = k - i
  <2>1. i \in Int /\ k \in Int /\ i <= k
    OBVIOUS
  <2> QED BY <2>1, IntervalSize, Zenon
<1>3. IsFiniteSet(inRun) /\ Cardinality(inRun) <= k - i
  BY <1>1, <1>2, FS_Subset
<1>4. Run(i, S) = Cardinality(inRun) /\ Cardinality(inRun) \in Nat
  BY <1>3, FS_CardinalityType DEF Run
<1> HIDE DEF inRun
<1> QED BY <1>3, <1>4

LEMMA RunBackStops ==
  ASSUME text \in Seq(Symbols), NEW e \in 0 .. Len(text), NEW S,
         NEW k \in 0 .. e - 1, At(k) \notin S
  PROVE  RunBack(e, S) \in Nat /\ k < e - RunBack(e, S)
<1> DEFINE inRun == {j \in 0 .. e - 1 : \A m \in j .. e - 1 : At(m) \in S}
<1>1. inRun \subseteq k + 1 .. e - 1
  OBVIOUS
<1>2. IsFiniteSet(k + 1 .. e - 1) /\ Cardinality(k + 1 .. e - 1) = e - (k + 1)
  <2>1. k + 1 \in Int /\ e \in Int /\ k + 1 <= e
    OBVIOUS
  <2> QED BY <2>1, IntervalSize, Zenon
<1>3. IsFiniteSet(inRun) /\ Cardinality(inRun) <= e - (k + 1)
  BY <1>1, <1>2, FS_Subset
<1>4. RunBack(e, S) = Cardinality(inRun) /\ Cardinality(inRun) \in Nat
  BY <1>3, FS_CardinalityType DEF RunBack
<1> HIDE DEF inRun
<1> QED BY <1>3, <1>4

LEMMA RunHolds ==
  ASSUME text \in Seq(Symbols), NEW i \in 0 .. Len(text), NEW S,
         NEW k \in i .. i + Run(i, S) - 1
  PROVE  At(k) \in S
<1>1. Run(i, S) \in 0 .. Len(text) - i /\ Len(text) \in Nat
  BY RunBound
<1>2. k \in i .. Len(text) - 1 /\ ~(i + Run(i, S) <= k)
  BY <1>1
<1> QED BY <1>2, RunStops

LEMMA RunBackHolds ==
  ASSUME text \in Seq(Symbols), NEW e \in 0 .. Len(text), NEW S,
         NEW k \in e - RunBack(e, S) .. e - 1
  PROVE  At(k) \in S
<1>1. RunBack(e, S) \in 0 .. e
  BY RunBackBound
<1>2. k \in 0 .. e - 1 /\ ~(k < e - RunBack(e, S))
  BY <1>1
<1> QED BY <1>2, RunBackStops

-----------------------------------------------------------------------------
(* What a fragment covers once it is pushed: what was covered before, all of   *)
(* it that is not blank, and nothing behind it.                                *)

CoveredBy(q, i) == \E s \in DOMAIN q : q[s].start <= i /\ i < q[s].end

LEMMA PushCovers ==
  ASSUME TypeOK, Ordered, reader = "split"
  PROVE  LET pushed == PushStatement(start, index)
         IN  /\ \A i \in 0 .. start - 1 : CoveredBy(pushed, i) <=> Covered(i)
             /\ \A i \in start .. index - 1 : At(i) \notin Whitespace => CoveredBy(pushed, i)
             /\ \A i \in Nat : CoveredBy(pushed, i) => i < index
             /\ \/ Len(pushed) = Len(statements) + 1
                \/ /\ pushed = statements
                   /\ \A i \in start .. index - 1 : At(i) \in Whitespace
<1> DEFINE from   == start + Run(start, Whitespace)
           to     == index - RunBack(index, Whitespace)
           pushed == PushStatement(start, index)
<1>1. /\ text \in Seq(Symbols) /\ start \in 0 .. Len(text) /\ index \in 0 .. Len(text) /\ start <= index
      /\ statements \in Seq(StatementSet) /\ Len(text) \in Nat
  BY DEF TypeOK, Ordered, StatementSet
<1>2. Run(start, Whitespace) \in Nat /\ from \in Nat /\ start <= from
  BY <1>1, RunBound
<1>3. /\ pushed \in Seq(StatementSet)
      /\ \A s \in DOMAIN pushed : pushed[s].end <= index
  BY PushKeepsOrder
<1>4. ASSUME NEW i \in Nat, CoveredBy(pushed, i) PROVE i < index
  <2>1. PICK s \in DOMAIN pushed : pushed[s].start <= i /\ i < pushed[s].end
    BY <1>4 DEF CoveredBy
  <2>2. pushed[s].end \in Nat
    BY <1>1, <1>3, StatementOffsets
  <2> HIDE DEF pushed
  <2> QED BY <1>1, <1>3, <2>1, <2>2
<1>5. ASSUME NEW i \in start .. index - 1, At(i) \notin Whitespace
      PROVE  from <= i /\ i < to /\ from < index
  <2>1. i \in start .. Len(text) - 1 /\ i \in 0 .. index - 1
    BY <1>1
  <2>2. from <= i
    BY <1>1, <1>5, <2>1, RunStops
  <2>3. i < to
    BY <1>1, <1>5, <2>1, RunBackStops
  <2> HIDE DEF from, to
  <2> QED BY <1>1, <1>2, <1>5, <2>2, <2>3
<1>6. CASE ~(from < index)
  <2>1. pushed = statements
    BY <1>6 DEF PushStatement
  <2>2. \A i \in start .. index - 1 : At(i) \in Whitespace
    BY <1>5, <1>6
  <2>3. \A i : CoveredBy(pushed, i) <=> Covered(i)
    BY <2>1 DEF CoveredBy, Covered
  <2> HIDE DEF pushed, from, to
  <2>4. /\ \A i \in 0 .. start - 1 : CoveredBy(pushed, i) <=> Covered(i)
        /\ \A i \in start .. index - 1 : At(i) \notin Whitespace => CoveredBy(pushed, i)
    BY <2>2, <2>3
  <2> QED BY <1>4, <2>1, <2>2, <2>4 DEF pushed
<1>7. CASE from < index
  <2>1. pushed = Append(statements, [start |-> from, end |-> to])
    BY <1>7 DEF PushStatement
  <2>2. /\ DOMAIN statements = 1 .. Len(statements) /\ Len(statements) \in Nat
        /\ DOMAIN pushed = 1 .. Len(statements) + 1
        /\ Len(pushed) = Len(statements) + 1
        /\ \A s \in DOMAIN statements : pushed[s] = statements[s]
        /\ pushed[Len(statements) + 1] = [start |-> from, end |-> to]
    <3> HIDE DEF from, to
    <3> QED BY <1>1, <2>1
  <2> HIDE DEF pushed, from, to
  <2>3. pushed[Len(statements) + 1].start = from /\ pushed[Len(statements) + 1].end = to
    BY <2>2
  <2>4. ASSUME NEW i \in 0 .. start - 1 PROVE CoveredBy(pushed, i) <=> Covered(i)
    <3>1. ASSUME Covered(i) PROVE CoveredBy(pushed, i)
      BY <2>2, <3>1 DEF Covered, CoveredBy
    <3>2. ASSUME CoveredBy(pushed, i) PROVE Covered(i)
      <4>1. PICK s \in DOMAIN pushed : pushed[s].start <= i /\ i < pushed[s].end
        BY <3>2 DEF CoveredBy
      <4>2. s # Len(statements) + 1
        BY <1>1, <1>2, <2>3, <4>1
      <4>3. s \in DOMAIN statements
        BY <2>2, <4>2
      <4> QED BY <2>2, <4>1, <4>3 DEF Covered
    <3> QED BY <3>1, <3>2
  <2>5. ASSUME NEW i \in start .. index - 1, At(i) \notin Whitespace PROVE CoveredBy(pushed, i)
    <3>1. Len(statements) + 1 \in DOMAIN pushed
      BY <2>2
    <3> QED BY <1>5, <2>3, <2>5, <3>1 DEF CoveredBy
  <2> QED BY <1>4, <2>2, <2>4, <2>5 DEF pushed
<1> QED BY <1>6, <1>7

-----------------------------------------------------------------------------
(* Where a lexer stands in the text: mode, depth and tag when it reads symbol  *)
(* i, or that it jumps over i.  A trace is the whole way of strip_noise; split *)
(* goes the same way, but over the two symbols of "--" at once.                *)

Place(m, d, t) == [mode |-> m, depth |-> d, tag |-> t]

Inside == Place("inside", 0, <<>>)

Here == Place(mode, depth, tag)

SharedModes == {"normal", "line", "block", "single", "dollar"}

Go(n, p) == [width |-> n, place |-> p]

Opened(i, p) ==
  LET m == Opens(i).mode
  IN  Go(IF m = "line" THEN 1 ELSE Opens(i).width,
         Place(m, IF m = "block" THEN 1 ELSE p.depth, IF m = "dollar" THEN ParseDollarTag(i) ELSE p.tag))

InBlock(i, p) ==
  IF Pair(i, "/", "*") THEN Go(2, Place("block", p.depth + 1, p.tag))
  ELSE IF Pair(i, "*", "/") THEN Go(2, Place(IF p.depth = 1 THEN "normal" ELSE "block", p.depth - 1, p.tag))
  ELSE Go(1, Place("block", p.depth, p.tag))

InSingle(i, p) ==
  IF Escapes(i, "single") \/ Pair(i, "quote", "quote") THEN Go(2, Place("single", p.depth, p.tag))
  ELSE Go(1, Place(IF At(i) = "quote" THEN "normal" ELSE "single", p.depth, p.tag))

After(i, p) ==
  IF p.mode = "normal" THEN Opened(i, p)
  ELSE IF p.mode = "line" THEN Go(1, Place(IF At(i) = "nl" THEN "normal" ELSE "line", p.depth, p.tag))
  ELSE IF p.mode = "block" THEN InBlock(i, p)
  ELSE IF p.mode = "single" THEN InSingle(i, p)
  ELSE IF StartsWith(i, p.tag) THEN Go(Len(p.tag), Place("normal", p.depth, p.tag))
  ELSE Go(1, Place("dollar", p.depth, p.tag))

Visits(f, i) == f[i].mode # "inside"

Trace(f, n) ==
  /\ f[0] = Place("normal", 0, <<>>)
  /\ \A i \in 0 .. n - 1 : Visits(f, i) =>
       LET a == After(i, f[i])
       IN  /\ a.width \in Nat \ {0}
           /\ i + a.width <= n
           /\ f[i + a.width] = a.place
           /\ \A j \in i + 1 .. i + a.width - 1 : ~Visits(f, j)

Cut(f, i) == f[i].mode = "normal" /\ At(i) = "semi"

GoesOn(f, n, w, p) ==
  \E g : /\ Trace(g, n + w)
         /\ g[n + w] = p
         /\ \A i \in 0 .. n : g[i] = f[i]
         /\ \A i \in n + 1 .. n + w - 1 : ~Visits(g, i)

LEMMA TraceGoesOn ==
  ASSUME NEW n \in Nat, NEW f, Trace(f, n), 
         NEW w \in Nat \ {0}, w = After(n, f[n]).width,
         NEW p, p = After(n, f[n]).place, p.mode # "inside"
  PROVE  GoesOn(f, n, w, p)
<1> DEFINE g == [i \in Nat |-> IF i <= n THEN f[i] ELSE IF i = n + w THEN p ELSE Inside]
<1>1. /\ g[n + w] = p
      /\ \A i \in 0 .. n : g[i] = f[i]
  OBVIOUS
<1>2. \A i \in n + 1 .. n + w - 1 : ~Visits(g, i)
  <2>1. ASSUME NEW i \in n + 1 .. n + w - 1 PROVE ~Visits(g, i)
    <3>1. i \in Nat /\ ~(i <= n) /\ i # n + w
      OBVIOUS
    <3>2. g[i] = Inside
      BY <3>1
    <3> HIDE DEF g
    <3> QED BY <3>2 DEF Visits, Inside, Place
  <2> QED BY <2>1
<1> HIDE DEF g
<1>3. Trace(g, n + w)
  <2>1. g[0] = Place("normal", 0, <<>>)
    BY <1>1 DEF Trace
  <2>2. ASSUME NEW i \in 0 .. n + w - 1, Visits(g, i)
        PROVE  LET b == After(i, g[i])
               IN  /\ b.width \in Nat \ {0}
                   /\ i + b.width <= n + w
                   /\ g[i + b.width] = b.place
                   /\ \A j \in i + 1 .. i + b.width - 1 : ~Visits(g, j)
    <3>1. i <= n
      BY <1>2, <2>2
    <3>2. CASE i = n
      <4>1. After(i, g[i]) = After(n, f[n])
        BY <1>1, <3>2
      <4> QED BY <4>1, <1>1, <1>2, <3>2
    <3>3. CASE i < n
      <4> DEFINE b == After(i, f[i])
      <4>1. i \in 0 .. n - 1 /\ g[i] = f[i]
        BY <1>1, <3>3
      <4>2. Visits(f, i)
        BY <2>2, <4>1 DEF Visits
      <4>3. /\ b.width \in Nat \ {0} /\ i + b.width <= n /\ f[i + b.width] = b.place
            /\ \A j \in i + 1 .. i + b.width - 1 : ~Visits(f, j)
        BY <4>1, <4>2 DEF Trace
      <4>4. After(i, g[i]) = b
        BY <4>1
      <4> HIDE DEF b
      <4>5. g[i + b.width] = f[i + b.width]
        BY <1>1, <4>1, <4>3
      <4>6. \A j \in i + 1 .. i + b.width - 1 : g[j] = f[j]
        BY <1>1, <4>1, <4>3
      <4>7. \A j \in i + 1 .. i + b.width - 1 : ~Visits(g, j)
        BY <4>3, <4>6 DEF Visits
      <4>8. i + b.width <= n + w
        BY <4>1, <4>3
      <4> QED BY <4>3, <4>4, <4>5, <4>7, <4>8
    <3> QED BY <3>1, <3>2, <3>3
  <2> QED BY <2>1, <2>2 DEF Trace
<1> QED BY <1>1, <1>2, <1>3 DEF GoesOn

-----------------------------------------------------------------------------
(* Both lexers follow After. *)

LEMMA PlainOpens ==
  ASSUME text \in Seq(Symbols), Plain, NEW i \in 0 .. Len(text) - 1
  PROVE  /\ Opens(i).mode \in SharedModes
         /\ Opens(i).mode = "normal" => Opens(i).width = 1
         /\ At(i) = "semi" => Opens(i).mode = "normal"
         /\ Opens(i).mode = "line" => \/ Opens(i).width = 1
                                      \/ Opens(i).width = 2 /\ At(i + 1) = "-" /\ i + 2 <= Len(text)
         /\ ~AtDirective(i)
         /\ At(i) \notin Wide
<1>1. At(i) \notin Wide \cup {"dquote", "bq", "delimiter"}
  BY DEF At, Plain
<1>2. ~AtDirective(i)
  BY <1>1 DEF AtDirective, ParseDelimiter, NoDirective
<1>3. ParseDollarTag(i) # <<>> => At(i) = "$"
  BY DEF ParseDollarTag
<1>4. CASE Pair(i, "-", "-")
  <2>1. At(i) = "-" /\ At(i + 1) = "-" /\ ~Pair(i, "/", "*")
    BY <1>4 DEF Pair
  <2>2. Opens(i) = [mode |-> "line", width |-> 2]
    BY <1>4, <2>1, <1>3 DEF Opens
  <2>3. i + 2 <= Len(text)
    BY <2>1 DEF At
  <2> QED BY <1>1, <1>2, <2>1, <2>2, <2>3 DEF SharedModes
<1>5. CASE Pair(i, "/", "*")
  <2>1. At(i) = "/" /\ ~Pair(i, "-", "-")
    BY <1>5 DEF Pair
  <2>2. Opens(i) = [mode |-> "block", width |-> 2]
    BY <1>5, <2>1, <1>3 DEF Opens
  <2> QED BY <1>1, <1>2, <2>1, <2>2 DEF SharedModes
<1>6. CASE ~Pair(i, "-", "-") /\ ~Pair(i, "/", "*") /\ ParseDollarTag(i) # <<>>
  <2>1. At(i) = "$"
    BY <1>3, <1>6
  <2>2. Opens(i) = [mode |-> "dollar", width |-> Len(ParseDollarTag(i))]
    BY <1>6, <2>1 DEF Opens
  <2> QED BY <1>1, <1>2, <2>1, <2>2 DEF SharedModes
<1>7. CASE ~Pair(i, "-", "-") /\ ~Pair(i, "/", "*") /\ ParseDollarTag(i) = <<>>
  <2>1. CASE At(i) = "#"
    <3>1. Opens(i) = [mode |-> "line", width |-> 1]
      BY <1>7, <2>1 DEF Opens
    <3> QED BY <1>1, <1>2, <2>1, <3>1 DEF SharedModes
  <2>2. CASE At(i) = "quote"
    <3>1. Opens(i) = [mode |-> "single", width |-> 1]
      BY <1>7, <2>2 DEF Opens
    <3> QED BY <1>1, <1>2, <2>2, <3>1 DEF SharedModes
  <2>3. CASE At(i) \notin {"#", "quote"}
    <3>1. Opens(i) = [mode |-> "normal", width |-> 1]
      BY <1>1, <1>7, <2>3 DEF Opens
    <3> QED BY <1>1, <1>2, <3>1 DEF SharedModes
  <2> QED BY <2>1, <2>2, <2>3
<1> QED BY <1>4, <1>5, <1>6, <1>7

(* The next place is one step away, or two steps, both into a line comment. *)
Follows(a) == index' = index + a.width /\ Here' = a.place

Dashes ==
  /\ mode = "normal" /\ At(index) = "-" /\ At(index + 1) = "-"
  /\ After(index, Here) = Go(1, Place("line", depth, tag))
  /\ index' = index + 2
  /\ Here' = Place("line", depth, tag)

LEMMA SplitFollows ==
  ASSUME IInv, Plain, Split, reader' = "split", mode \in SharedModes, delimiter = <<"semi">>
  PROVE  /\ index < Len(text)
         /\ mode' \in SharedModes
         /\ Follows(After(index, Here)) \/ Dashes
<1>1. /\ text \in Seq(Symbols) /\ index \in 0 .. Len(text) /\ depth \in Nat
  BY DEF IInv, TypeOK
<1>2. Here = Place(mode, depth, tag) /\ Here' = Place(mode', depth', tag')
  BY DEF Here
<1>3. CASE SplitDirective
  <2>1. index \in 0 .. Len(text) - 1 /\ AtDirective(index)
    BY <1>1, <1>3 DEF SplitDirective, More
  <2> QED BY <1>1, <2>1, PlainOpens
<1>4. CASE SplitOpen
  <2>1. /\ index \in 0 .. Len(text) - 1 /\ mode = "normal" /\ Opens(index).mode # "normal"
        /\ index' = index + Opens(index).width /\ mode' = Opens(index).mode
        /\ depth' = (IF mode' = "block" THEN 1 ELSE depth)
        /\ tag' = (IF mode' = "dollar" THEN ParseDollarTag(index) ELSE tag)
    BY <1>1, <1>4 DEF SplitOpen, More, Splitting, Step
  <2>2. /\ Opens(index).mode \in SharedModes
        /\ Opens(index).mode = "line" => \/ Opens(index).width = 1
                                         \/ Opens(index).width = 2 /\ At(index + 1) = "-"
    BY <1>1, <2>1, PlainOpens
  <2>3. After(index, Here) = Go(IF mode' = "line" THEN 1 ELSE Opens(index).width, Place(mode', depth', tag'))
    BY <1>2, <2>1 DEF After, Opened, Place
  <2>4. CASE mode' = "line" /\ Opens(index).width = 2
    <3>1. At(index) = "-" /\ At(index + 1) = "-"
      BY <2>1, <2>4 DEF Opens, Pair
    <3>2. depth' = depth /\ tag' = tag
      BY <2>1, <2>4
    <3> QED BY <1>2, <2>1, <2>2, <2>3, <2>4, <3>1, <3>2 DEF Dashes
  <2>5. CASE ~(mode' = "line" /\ Opens(index).width = 2)
    <3>1. (IF mode' = "line" THEN 1 ELSE Opens(index).width) = Opens(index).width
      BY <2>1, <2>2, <2>5
    <3>2. Follows(After(index, Here))
      BY <1>2, <2>1, <2>3, <3>1 DEF Follows, Go
    <3> QED BY <2>1, <2>2, <3>2
  <2> QED BY <2>4, <2>5
<1>5. CASE SplitTerminator \/ SplitPlain
  <2>1. /\ index \in 0 .. Len(text) - 1 /\ mode = "normal" /\ Opens(index).mode = "normal"
        /\ index' = index + 1 /\ mode' = "normal" /\ depth' = depth /\ tag' = tag
    <3>1. Len(delimiter) = 1
      OBVIOUS
    <3> QED BY <1>1, <1>5, <3>1 DEF SplitTerminator, SplitPlain, More, Splitting, Step
  <2>2. Opens(index).width = 1
    BY <1>1, <2>1, PlainOpens
  <2>3. After(index, Here) = Go(1, Place(mode', depth', tag'))
    BY <1>2, <2>1, <2>2 DEF After, Opened, Place
  <2> QED BY <1>2, <2>1, <2>3 DEF Follows, Go, SharedModes
<1>6. CASE SplitLine
  <2>1. /\ index \in 0 .. Len(text) - 1 /\ mode = "line" /\ index' = index + 1
        /\ mode' = (IF At(index) = "nl" THEN "normal" ELSE "line") /\ depth' = depth /\ tag' = tag
    BY <1>1, <1>6 DEF SplitLine, More, Splitting, Step
  <2>2. After(index, Here) = Go(1, Place(mode', depth', tag'))
    BY <1>2, <2>1 DEF After, Place
  <2> QED BY <1>2, <2>1, <2>2 DEF Follows, Go, SharedModes
<1>7. CASE SplitBlock
  <2>1. /\ index \in 0 .. Len(text) - 1 /\ mode = "block" /\ tag' = tag
        /\ IF Pair(index, "/", "*")
           THEN index' = index + 2 /\ mode' = "block" /\ depth' = depth + 1
           ELSE IF Pair(index, "*", "/")
           THEN index' = index + 2 /\ mode' = (IF depth = 1 THEN "normal" ELSE "block") /\ depth' = depth - 1
           ELSE index' = index + 1 /\ mode' = "block" /\ depth' = depth
    BY <1>1, <1>7 DEF SplitBlock, More, Splitting, Step
  <2>2. After(index, Here) = Go(index' - index, Place(mode', depth', tag'))
    BY <1>1, <1>2, <2>1 DEF After, InBlock, Place
  <2>3. index' \in Nat
    BY <2>1
  <2> QED BY <1>1, <1>2, <2>1, <2>2, <2>3 DEF Follows, Go, SharedModes
<1>8. CASE SplitDollar
  <2>1. /\ index \in 0 .. Len(text) - 1 /\ mode = "dollar" /\ depth' = depth /\ tag' = tag
        /\ IF StartsWith(index, tag) THEN index' = index + Len(tag) /\ mode' = "normal"
           ELSE index' = index + 1 /\ mode' = "dollar"
    BY <1>1, <1>8 DEF SplitDollar, More, Splitting, Step
  <2>2. After(index, Here) = Go(IF StartsWith(index, tag) THEN Len(tag) ELSE 1, Place(mode', depth', tag'))
    BY <1>2, <2>1 DEF After, Place
  <2> QED BY <1>2, <2>1, <2>2 DEF Follows, Go, SharedModes
<1>9. CASE SplitEnd
  BY <1>9 DEF SplitEnd
<1>10. ASSUME NEW q \in DOMAIN Quote, SplitQuoted(q)
       PROVE  /\ index < Len(text) /\ mode' \in SharedModes /\ Follows(After(index, Here))
  <2>1. q = "single" /\ Quote[q] = "quote"
    BY <1>10 DEF Quote, SplitQuoted, More, SharedModes
  <2>2. /\ index \in 0 .. Len(text) - 1 /\ mode = "single" /\ depth' = depth /\ tag' = tag
        /\ IF Escapes(index, "single") \/ Pair(index, "quote", "quote")
           THEN index' = index + 2 /\ mode' = "single"
           ELSE index' = index + 1 /\ mode' = (IF At(index) = "quote" THEN "normal" ELSE "single")
    BY <1>1, <1>10, <2>1 DEF SplitQuoted, More, Splitting, Step
  <2>3. After(index, Here) = Go(index' - index, Place(mode', depth', tag'))
    BY <1>1, <1>2, <2>2 DEF After, InSingle, Place
  <2> QED BY <1>1, <1>2, <2>2, <2>3 DEF Follows, Go, SharedModes
<1> QED BY <1>3, <1>4, <1>5, <1>6, <1>7, <1>8, <1>9, <1>10 DEF Split

LEMMA OneSymbol ==
  ASSUME NEW S, NEW q \in Seq(S), NEW k \in 1 .. Len(q)
  PROVE  SubSeq(q, k, k) = <<q[k]>>
<1>1. k - k + 1 = 1 /\ k + 1 - 1 = k /\ k \in Int
  OBVIOUS
<1>2. SubSeq(q, k, k) = [i \in 1 .. 1 |-> q[k + i - 1]]
  BY <1>1
<1>3. \A i \in 1 .. 1 : q[k + i - 1] = q[k]
  BY <1>1
<1>4. ASSUME NEW x PROVE [i \in 1 .. 1 |-> x] = <<x>>
  OBVIOUS
<1> QED BY <1>2, <1>3, <1>4

(* split ends a statement at a semicolon it meets in mode normal, and nowhere  *)
(* else.                                                                       *)
LEMMA SplitEndsAtCuts ==
  ASSUME IInv, Plain, Split, reader' = "split", delimiter = <<"semi">>
  PROVE  /\ UNCHANGED <<text, mask, delimiter>>
         /\ IF mode = "normal" /\ At(index) = "semi"
            THEN /\ statements' = PushStatement(start, index)
                 /\ index' = index + 1 /\ start' = index' /\ mode' = "normal"
            ELSE UNCHANGED <<statements, start>>
<1>1. /\ text \in Seq(Symbols) /\ index \in 0 .. Len(text)
  BY DEF IInv, TypeOK
<1>2. StartsWith(index, delimiter) <=> index < Len(text) /\ At(index) = "semi"
  <2>1. Len(delimiter) = 1 /\ delimiter # <<>>
    OBVIOUS
  <2>2. CASE index < Len(text)
    <3>1. index + 1 \in 1 .. Len(text)
      BY <1>1, <2>2
    <3>2. SubSeq(text, index + 1, index + 1) = <<text[index + 1]>>
      BY <1>1, <3>1, OneSymbol, Zenon
    <3>3. At(index) = text[index + 1]
      BY <1>1, <2>2 DEF At
    <3>4. ASSUME NEW x, NEW y PROVE <<x>> = <<y>> <=> x = y
      OBVIOUS
    <3>5. SubSeq(text, index + 1, index + 1) = delimiter <=> At(index) = "semi"
      BY <3>2, <3>3, <3>4
    <3> QED BY <1>1, <2>1, <2>2, <3>1, <3>5 DEF StartsWith
  <2>3. CASE ~(index < Len(text))
    BY <1>1, <2>1, <2>3 DEF StartsWith
  <2> QED BY <2>2, <2>3
<1>4. \A i \in 0 .. Len(text) - 1 : ~AtDirective(i) /\ (At(i) = "semi" => Opens(i).mode = "normal")
  BY <1>1, PlainOpens
<1>5. CASE SplitDirective
  BY <1>1, <1>4, <1>5 DEF SplitDirective, More
<1>6. CASE SplitTerminator
  <2>1. /\ At(index) = "semi" /\ mode = "normal" /\ Len(delimiter) = 1
    BY <1>2, <1>6 DEF SplitTerminator, More
  <2> QED BY <1>6, <2>1 DEF SplitTerminator, Splitting, Step
<1>7. CASE SplitOpen \/ SplitPlain
  <2>1. index \in 0 .. Len(text) - 1 /\ At(index) # "semi"
    BY <1>1, <1>2, <1>4, <1>7 DEF SplitOpen, SplitPlain, More
  <2> QED BY <1>7, <2>1 DEF SplitOpen, SplitPlain, Splitting, Step
<1>8. CASE SplitLine \/ SplitBlock \/ SplitDollar
  BY <1>8 DEF SplitLine, SplitBlock, SplitDollar, More, Splitting, Step
<1>9. CASE SplitEnd
  BY <1>9 DEF SplitEnd
<1>10. ASSUME NEW q \in DOMAIN Quote, SplitQuoted(q)
       PROVE  mode # "normal" /\ UNCHANGED <<text, mask, delimiter, statements, start>>
  BY <1>10 DEF SplitQuoted, Quote, More, Splitting, Step
<1> QED BY <1>5, <1>6, <1>7, <1>8, <1>9, <1>10 DEF Split

(* strip_noise copies what it meets in mode normal and does not open anything, *)
(* and writes blanks for the rest.                                             *)
Blanks(n, out) == out \in Seq(Symbols) /\ Len(out) = n /\ \A k \in 1 .. n : out[k] \in {"sp", "nl"}

LEMMA BlanksWritten ==
  /\ \A n \in Nat : Blanks(n, Spaces(n))
  /\ \A b : Blanks(1, Blanked(b))
  /\ Blanks(1, <<"sp">>)
<1>1. \A n \in Nat : Blanks(n, Spaces(n))
  BY SpacesType DEF Spaces, Blanks
<1>2. Blanks(1, <<"sp">>) /\ Blanks(1, <<"nl">>)
  BY WrittenSymbols DEF Blanks
<1>3. \A b : Blanks(1, Blanked(b))
  BY <1>2 DEF Blanked
<1> QED BY <1>1, <1>2, <1>3

Writes(n, out) ==
  /\ out \in Seq(Symbols) /\ Len(out) = n
  /\ \A k \in 1 .. n :
       IF k = 1 /\ mode = "normal" /\ Opens(index).mode = "normal"
       THEN out[k] = At(index) ELSE out[k] \in {"sp", "nl"}
  /\ mask' = mask \o out

LEMMA MaskFollows ==
  ASSUME IInv, Plain, StripNoise, reader' = "mask"
  PROVE  /\ index < Len(text) /\ reader = "mask"
         /\ UNCHANGED <<text, statements>>
         /\ Follows(After(index, Here))
         /\ \E out : Writes(After(index, Here).width, out)
<1> DEFINE Goal(n) == /\ index < Len(text) /\ reader = "mask"
                      /\ UNCHANGED <<text, statements>>
                      /\ index' = index + n
                      /\ After(index, Here) = Go(n, Place(mode', depth', tag'))
                      /\ \E out : Writes(n, out)
<1>1. /\ text \in Seq(Symbols) /\ index \in 0 .. Len(text) /\ depth \in Nat /\ tag \in Seq(Symbols)
  BY DEF IInv, TypeOK
<1>2. Here = Place(mode, depth, tag) /\ Here' = Place(mode', depth', tag')
  BY DEF Here
<1>3. SUFFICES \E n : Goal(n)
  <2>1. PICK n : Goal(n)
    BY <1>3
  <2>2. After(index, Here).width = n /\ After(index, Here).place = Here'
    BY <1>2, <2>1 DEF Go
  <2> QED BY <2>1, <2>2 DEF Follows
<1>4. ASSUME NEW n, NEW out, Blanks(n, out), mask' = mask \o out, ~(mode = "normal" /\ Opens(index).mode = "normal")
      PROVE  Writes(n, out)
  BY <1>4 DEF Blanks, Writes
<1>5. CASE MaskOpen
  <2> DEFINE w == IF Opens(index).mode = "line" THEN 1 ELSE Opens(index).width
  <2>1. /\ index \in 0 .. Len(text) - 1 /\ mode = "normal" /\ Opens(index).mode # "normal" /\ reader = "mask"
        /\ index' = index + w /\ mode' = Opens(index).mode
        /\ depth' = (IF mode' = "block" THEN 1 ELSE depth)
        /\ tag' = (IF mode' = "dollar" THEN ParseDollarTag(index) ELSE tag)
        /\ mask' = mask \o Spaces(w)
        /\ UNCHANGED <<text, statements>>
    BY <1>1, <1>5 DEF MaskOpen, More, Masking, Step
  <2>3. After(index, Here) = Go(w, Place(mode', depth', tag'))
    BY <1>2, <2>1 DEF After, Opened, Place
  <2>4. w \in Nat
    BY <1>1, <2>1, OpensInside
  <2> HIDE DEF w
  <2>5. Writes(w, Spaces(w))
    BY <1>4, <2>1, <2>4, BlanksWritten
  <2>6. Goal(w)
    BY <2>1, <2>3, <2>5
  <2> QED BY <2>6
<1>6. CASE MaskPlain
  <2>1. /\ index \in 0 .. Len(text) - 1 /\ mode = "normal" /\ reader = "mask"
        /\ Opens(index).mode \in {"normal", "double", "backtick"}
        /\ index' = index + 1 /\ mode' = "normal" /\ depth' = depth /\ tag' = tag
        /\ mask' = mask \o Copied(At(index))
        /\ UNCHANGED <<text, statements>>
    BY <1>1, <1>6 DEF MaskPlain, More, Masking, Step
  <2>2. Opens(index).mode = "normal" /\ Opens(index).width = 1 /\ At(index) \notin Wide
    <3>1. Opens(index).mode = "normal"
      BY <1>1, <2>1, PlainOpens DEF SharedModes
    <3> QED BY <1>1, <2>1, <3>1, PlainOpens
  <2>3. After(index, Here) = Go(1, Place(mode', depth', tag'))
    BY <1>2, <2>1, <2>2 DEF After, Opened, Place
  <2>4. At(index) \in Symbols
    BY <1>1, <2>1 DEF At
  <2>5. Writes(1, Copied(At(index)))
    BY <2>1, <2>2, <2>4 DEF Writes, Copied
  <2>6. Goal(1)
    BY <2>1, <2>3, <2>5
  <2> QED BY <2>6
<1>7. CASE MaskLine
  <2>1. /\ index \in 0 .. Len(text) - 1 /\ mode = "line" /\ index' = index + 1 /\ reader = "mask"
        /\ mode' = (IF At(index) = "nl" THEN "normal" ELSE "line") /\ depth' = depth /\ tag' = tag
        /\ mask' = mask \o Blanked(At(index))
        /\ UNCHANGED <<text, statements>>
    BY <1>1, <1>7 DEF MaskLine, More, Masking, Step
  <2>2. After(index, Here) = Go(1, Place(mode', depth', tag'))
    BY <1>2, <2>1 DEF After, Place
  <2>3. Writes(1, Blanked(At(index)))
    BY <1>4, <2>1, BlanksWritten
  <2>4. Goal(1)
    BY <2>1, <2>2, <2>3
  <2> QED BY <2>4
<1>8. CASE MaskBlock
  <2>1. /\ index \in 0 .. Len(text) - 1 /\ mode = "block" /\ tag' = tag /\ reader = "mask"
        /\ UNCHANGED <<text, statements>>
    BY <1>1, <1>8 DEF MaskBlock, More, Masking
  <2>2. CASE Pair(index, "/", "*") \/ Pair(index, "*", "/")
    <3>1. /\ index' = index + 2 /\ mask' = mask \o Spaces(2)
          /\ IF Pair(index, "/", "*") THEN mode' = "block" /\ depth' = depth + 1
             ELSE mode' = (IF depth = 1 THEN "normal" ELSE "block") /\ depth' = depth - 1
      BY <1>8, <2>2 DEF MaskBlock, Masking, Step
    <3>2. After(index, Here) = Go(2, Place(mode', depth', tag'))
      BY <1>2, <2>1, <2>2, <3>1 DEF After, InBlock, Place
    <3>3. Writes(2, Spaces(2))
      BY <1>4, <2>1, <3>1, BlanksWritten
    <3>4. Goal(2)
      BY <2>1, <3>1, <3>2, <3>3
    <3> QED BY <3>4
  <2>3. CASE ~Pair(index, "/", "*") /\ ~Pair(index, "*", "/")
    <3>1. index' = index + 1 /\ mask' = mask \o Blanked(At(index)) /\ mode' = "block" /\ depth' = depth
      BY <1>8, <2>3 DEF MaskBlock, Masking, Step
    <3>2. After(index, Here) = Go(1, Place(mode', depth', tag'))
      BY <1>2, <2>1, <2>3, <3>1 DEF After, InBlock, Place
    <3>3. Writes(1, Blanked(At(index)))
      BY <1>4, <2>1, <3>1, BlanksWritten
    <3>4. Goal(1)
      BY <2>1, <3>1, <3>2, <3>3
    <3> QED BY <3>4
  <2> QED BY <2>2, <2>3
<1>9. CASE MaskSingle
  <2>1. /\ index \in 0 .. Len(text) - 1 /\ mode = "single" /\ tag' = tag /\ depth' = depth /\ reader = "mask"
        /\ UNCHANGED <<text, statements>>
    BY <1>1, <1>9 DEF MaskSingle, More, Masking
  <2>2. CASE Escapes(index, "single") \/ Pair(index, "quote", "quote")
    <3>1. index' = index + 2 /\ mask' = mask \o Spaces(2) /\ mode' = "single"
      BY <1>9, <2>2 DEF MaskSingle, Masking, Step
    <3>2. After(index, Here) = Go(2, Place(mode', depth', tag'))
      BY <1>2, <2>1, <2>2, <3>1 DEF After, InSingle, Place
    <3>3. Writes(2, Spaces(2))
      BY <1>4, <2>1, <3>1, BlanksWritten
    <3>4. Goal(2)
      BY <2>1, <3>1, <3>2, <3>3
    <3> QED BY <3>4
  <2>3. CASE ~(Escapes(index, "single") \/ Pair(index, "quote", "quote"))
    <3>1. /\ index' = index + 1 /\ mask' = mask \o <<"sp">>
          /\ mode' = (IF At(index) = "quote" THEN "normal" ELSE "single")
      BY <1>9, <2>3 DEF MaskSingle, Masking, Step
    <3>2. After(index, Here) = Go(1, Place(mode', depth', tag'))
      BY <1>2, <2>1, <2>3, <3>1 DEF After, InSingle, Place
    <3>3. Writes(1, <<"sp">>)
      BY <1>4, <2>1, <3>1, BlanksWritten
    <3>4. Goal(1)
      BY <2>1, <3>1, <3>2, <3>3
    <3> QED BY <3>4
  <2> QED BY <2>2, <2>3
<1>10. CASE MaskDollar
  <2>1. /\ index \in 0 .. Len(text) - 1 /\ mode = "dollar" /\ depth' = depth /\ tag' = tag /\ reader = "mask"
        /\ UNCHANGED <<text, statements>>
    BY <1>1, <1>10 DEF MaskDollar, More, Masking
  <2>2. CASE StartsWith(index, tag)
    <3>1. index' = index + Len(tag) /\ mask' = mask \o Spaces(Len(tag)) /\ mode' = "normal"
      BY <1>10, <2>2 DEF MaskDollar, Masking, Step
    <3>2. After(index, Here) = Go(Len(tag), Place(mode', depth', tag'))
      BY <1>2, <2>1, <2>2, <3>1 DEF After, Place
    <3>3. Len(tag) \in Nat
      BY <1>1
    <3>4. Writes(Len(tag), Spaces(Len(tag)))
      BY <1>4, <2>1, <3>1, <3>3, BlanksWritten
    <3>5. Goal(Len(tag))
      BY <2>1, <3>1, <3>2, <3>4
    <3> QED BY <3>5
  <2>3. CASE ~StartsWith(index, tag)
    <3>1. index' = index + 1 /\ mask' = mask \o Blanked(At(index)) /\ mode' = "dollar"
      BY <1>10, <2>3 DEF MaskDollar, Masking, Step
    <3>2. After(index, Here) = Go(1, Place(mode', depth', tag'))
      BY <1>2, <2>1, <2>3, <3>1 DEF After, Place
    <3>3. Writes(1, Blanked(At(index)))
      BY <1>4, <2>1, <3>1, BlanksWritten
    <3>4. Goal(1)
      BY <2>1, <3>1, <3>2, <3>3
    <3> QED BY <3>4
  <2> QED BY <2>2, <2>3
<1>11. CASE MaskEnd
  BY <1>11 DEF MaskEnd
<1> QED BY <1>5, <1>6, <1>7, <1>8, <1>9, <1>10, <1>11 DEF StripNoise

-----------------------------------------------------------------------------
(* The invariant: split has ended a statement at each semicolon in mode normal *)
(* and lost nothing else but blanks; strip_noise goes the way split went and   *)
(* leaves standing what is met in mode normal and opens nothing; a statement   *)
(* starts in mode normal, and ends before a blank, a semicolon or the end.     *)

CutsEnd(f, n) ==
  \A i \in 0 .. n - 1 : IF Cut(f, i) THEN ~Covered(i) ELSE At(i) \notin Whitespace => Covered(i)

SomeCut(f, n) == \E i \in 0 .. n - 1 : Cut(f, i)

Stands(f, i) == f[i].mode = "normal" /\ Opens(i).mode = "normal"

Delimited(f, q) ==
  \A s \in DOMAIN q :
    /\ f[q[s].start].mode = "normal"
    /\ q[s].end = Len(text) \/ At(q[s].end) \in Whitespace \cup {"semi"}

SplitSeen(f) ==
  /\ Trace(f, index)
  /\ f[index] = Here
  /\ CutsEnd(f, start)
  /\ \A i \in start .. index - 1 : ~Cut(f, i)
  /\ statements = <<>> \/ SomeCut(f, start)
  /\ f[start].mode = "normal"
  /\ Delimited(f, statements)

MaskSeen(f) ==
  /\ Trace(f, Len(text))
  /\ f[index] = Here
  /\ CutsEnd(f, Len(text))
  /\ Len(statements) = 1 \/ SomeCut(f, Len(text)) \/ \A i \in 0 .. Len(text) - 1 : At(i) \in Whitespace
  /\ Delimited(f, statements)
  /\ \A i \in 0 .. index - 1 :
       IF Stands(f, i) THEN MaskAt(i) = At(i) ELSE MaskAt(i) \in {"sp", "nl"}
  /\ reader = "done" => index = Len(text)

SameText ==
  Plain => \/ /\ reader = "split" /\ delimiter = <<"semi">> /\ mode \in SharedModes
              /\ \E f : SplitSeen(f)
           \/ /\ reader # "split"
              /\ \E f : MaskSeen(f)

LEMMA InitSameText == Init => SameText
<1> SUFFICES ASSUME Init PROVE SameText
  OBVIOUS
<1> DEFINE f == [i \in {0} |-> Place("normal", 0, <<>>)]
<1>1. f[0] = Place("normal", 0, <<>>)
  OBVIOUS
<1> HIDE DEF f
<1>2. /\ reader = "split" /\ index = 0 /\ start = 0 /\ statements = <<>> /\ delimiter = <<"semi">>
      /\ mode = "normal" /\ Here = Place("normal", 0, <<>>)
  BY DEF Init, Here
<1>3. Trace(f, 0) /\ CutsEnd(f, 0)
  BY <1>1 DEF Trace, CutsEnd
<1>4. SplitSeen(f)
  BY <1>1, <1>2, <1>3 DEF SplitSeen, Delimited, Place
<1> QED BY <1>2, <1>4 DEF SameText, SharedModes

LEMMA AfterReads ==
  ASSUME IInv, index < Len(text), mode \in SharedModes
  PROVE  After(index, Here).width \in Nat \ {0} /\ After(index, Here).place.mode # "inside"
<1>1. /\ text \in Seq(Symbols) /\ index \in 0 .. Len(text) - 1 /\ tag \in Seq(Symbols)
  BY DEF IInv, TypeOK
<1>2. Here.mode = mode /\ Here.depth = depth /\ Here.tag = tag
  BY DEF Here, Place
<1>3. CASE mode = "normal"
  <2>1. Opens(index).width \in Nat \ {0} /\ Opens(index).mode \in Modes
    BY <1>1, OpensInside
  <2> QED BY <1>2, <1>3, <2>1 DEF After, Opened, Go, Place, Modes
<1>4. CASE mode = "line"
  BY <1>2, <1>4 DEF After, Go, Place
<1>5. CASE mode = "block"
  BY <1>2, <1>5 DEF After, InBlock, Go, Place
<1>6. CASE mode = "single"
  BY <1>2, <1>6 DEF After, InSingle, Go, Place
<1>7. CASE mode = "dollar"
  <2>1. StartsWith(index, tag) => Len(tag) \in Nat \ {0}
    BY <1>1, StartsWithInside
  <2> QED BY <1>2, <1>7, <2>1 DEF After, Go, Place
<1> QED BY <1>3, <1>4, <1>5, <1>6, <1>7 DEF SharedModes

LEMMA SplitTrace ==
  ASSUME IInv, index < Len(text), mode \in SharedModes, NEW f, Trace(f, index), f[index] = Here,
         Follows(After(index, Here)) \/ Dashes
  PROVE  \E g : /\ Trace(g, index') /\ g[index'] = Here'
                /\ \A i \in 0 .. index : g[i] = f[i]
                /\ \A i \in index + 1 .. index' - 1 : g[i].mode # "normal"
<1>1. /\ index \in Nat
      /\ After(index, Here).width \in Nat \ {0}
      /\ After(index, Here).place.mode # "inside"
  BY AfterReads DEF IInv, TypeOK
<1>2. PICK w \in Nat \ {0}, p \in {After(index, Here).place} : w = After(index, Here).width
  BY <1>1
<1>3. w = After(index, f[index]).width /\ p = After(index, f[index]).place /\ p.mode # "inside"
  BY <1>1, <1>2
<1>4. PICK g : /\ Trace(g, index + w)
               /\ g[index + w] = p
               /\ \A i \in 0 .. index : g[i] = f[i]
               /\ \A i \in index + 1 .. index + w - 1 : ~Visits(g, i)
  <2>1. GoesOn(f, index, w, p)
    BY <1>1, <1>3, TraceGoesOn
  <2> QED BY <2>1 DEF GoesOn
<1>5. CASE Follows(After(index, Here))
  <2>1. index' = index + w /\ Here' = p
    BY <1>2, <1>5 DEF Follows
  <2>2. \A i \in index + 1 .. index' - 1 : g[i].mode # "normal"
    <3>1. \A i \in index + 1 .. index + w - 1 : g[i].mode = "inside"
      BY <1>4, Zenon DEF Visits
    <3> QED BY <1>1, <2>1, <3>1
  <2> QED BY <1>4, <2>1, <2>2
<1>6. CASE Dashes
  <2>1. w = 1 /\ p = Place("line", depth, tag) /\ index' = index + 2 /\ Here' = p /\ At(index + 1) = "-"
    BY <1>2, <1>6 DEF Dashes, Go
  <2>2. g[index + 1] = p /\ Trace(g, index + 1)
    BY <1>4, <2>1
  <2>3. /\ After(index + 1, g[index + 1]).width = 1
        /\ After(index + 1, g[index + 1]).place = p
        /\ p.mode = "line"
    BY <2>1, <2>2 DEF After, Place, Go
  <2>4. PICK h : /\ Trace(h, index + 1 + 1)
                 /\ h[index + 1 + 1] = p
                 /\ \A i \in 0 .. index + 1 : h[i] = g[i]
    <3>1. index + 1 \in Nat /\ 1 \in Nat \ {0} /\ p.mode # "inside"
      BY <1>1, <2>3
    <3>2. GoesOn(g, index + 1, 1, p)
      BY <2>2, <2>3, <3>1, TraceGoesOn
    <3> QED BY <3>2 DEF GoesOn
  <2>5. index + 1 + 1 = index'
    BY <1>1, <2>1
  <2>6. \A i \in 0 .. index : h[i] = f[i]
    BY <1>1, <1>4, <2>4
  <2>7. \A i \in index + 1 .. index' - 1 : h[i].mode # "normal"
    <3>1. ASSUME NEW i \in index + 1 .. index' - 1 PROVE i = index + 1 /\ i \in 0 .. index + 1
      BY <1>1, <2>1
    <3>2. h[index + 1] = p
      BY <1>1, <2>2, <2>4
    <3> QED BY <2>3, <3>1, <3>2
  <2> QED BY <2>1, <2>4, <2>5, <2>6, <2>7
<1> QED BY <1>5, <1>6

(* What is read of the text does not change while the text does not. *)
LEMMA SameReading ==
  ASSUME text' = text
  PROVE  /\ \A i : At(i)' = At(i)
         /\ \A i : Opens(i)' = Opens(i)
         /\ \A i, p : After(i, p)' = After(i, p)
<1>1. /\ \A i : At(i)' = At(i)
      /\ \A i, p, q : Pair(i, p, q)' <=> Pair(i, p, q)
      /\ \A i, p : StartsWith(i, p)' <=> StartsWith(i, p)
      /\ \A i, m : Escapes(i, m)' <=> Escapes(i, m)
  BY DEF At, Pair, StartsWith, Escapes
<1>2. \A i, S : Run(i, S)' = Run(i, S)
  <2>1. ASSUME NEW i, NEW S PROVE Run(i, S)' = Run(i, S)
    <3> DEFINE inRun(t) == {j \in i .. Len(t) - 1 : \A k \in i .. j : (IF k \in 0 .. Len(t) - 1 THEN t[k + 1] ELSE "end") \in S}
    <3>1. Run(i, S) = Cardinality(inRun(text)) /\ Run(i, S)' = Cardinality(inRun(text'))
      BY DEF Run, At
    <3>2. inRun(text') = inRun(text)
      <4> HIDE DEF inRun
      <4> QED OBVIOUS
    <3> QED BY <3>1, <3>2
  <2> QED BY <2>1
<1>3. \A i : ParseDollarTag(i)' = ParseDollarTag(i)
  BY <1>1, <1>2 DEF ParseDollarTag
<1>4. \A i : Opens(i)' = Opens(i)
  BY <1>1, <1>3 DEF Opens
<1>5. \A i, p : After(i, p)' = After(i, p)
  BY <1>1, <1>3, <1>4 DEF After, Opened, InBlock, InSingle, Go, Place
<1> QED BY <1>1, <1>4, <1>5

(* A fragment that is pushed begins where the lexer was in mode normal. *)
LEMMA StandingSymbols ==
  ASSUME NEW i, At(i) \in Whitespace \cup Word \cup {"semi"}
  PROVE  Opens(i) = [mode |-> "normal", width |-> 1]
BY DEF Opens, Pair, ParseDollarTag, Whitespace, Blank, Word, Keyword

LEMMA BlanksAreWalked ==
  ASSUME text \in Seq(Symbols), NEW n \in 0 .. Len(text), NEW f, Trace(f, n),
         NEW a \in 0 .. n, NEW b \in a .. n, f[a].mode = "normal",
         \A k \in a .. b - 1 : At(k) \in Whitespace
  PROVE  f[b].mode = "normal"
<1> DEFINE S == {m \in Nat : a + m <= b => f[a + m].mode = "normal"}
<1>1. 0 \in S
  OBVIOUS
<1>2. ASSUME NEW m \in Nat, m \in S PROVE m + 1 \in S
  <2>1. SUFFICES ASSUME a + (m + 1) <= b PROVE f[a + (m + 1)].mode = "normal"
    OBVIOUS
  <2>2. PICK i \in a .. b - 1 : i = a + m /\ i + 1 = a + (m + 1)
    <3>1. a + m \in a .. b - 1 /\ (a + m) + 1 = a + (m + 1)
      BY <2>1
    <3> QED BY <3>1
  <2>3. i \in 0 .. n - 1 /\ f[i].mode = "normal" /\ At(i) \in Whitespace
    BY <1>2, <2>1, <2>2
  <2>4. Visits(f, i) /\ Opens(i) = [mode |-> "normal", width |-> 1]
    BY <2>3, StandingSymbols DEF Visits
  <2>5. After(i, f[i]).width = 1 /\ After(i, f[i]).place.mode = "normal"
    BY <2>3, <2>4 DEF After, Opened, Go, Place
  <2>6. f[i + After(i, f[i]).width] = After(i, f[i]).place
    BY <2>3, <2>4 DEF Trace
  <2> QED BY <2>2, <2>5, <2>6
<1> HIDE DEF S
<1>3. \A m \in Nat : m \in S
  BY <1>1, <1>2, EveryNumber
<1>4. b - a \in Nat /\ a + (b - a) = b
  OBVIOUS
<1>5. b - a \in S
  BY <1>3, <1>4
<1> QED BY <1>4, <1>5 DEF S

LEMMA PushDelimits ==
  ASSUME TypeOK, Ordered, reader = "split", NEW f, Trace(f, index), f[start].mode = "normal",
         Delimited(f, statements), index = Len(text) \/ At(index) = "semi"
  PROVE  Delimited(f, PushStatement(start, index))
<1> DEFINE from   == start + Run(start, Whitespace)
           to     == index - RunBack(index, Whitespace)
           pushed == PushStatement(start, index)
<1>1. /\ text \in Seq(Symbols) /\ start \in 0 .. Len(text) /\ index \in 0 .. Len(text) /\ start <= index
      /\ statements \in Seq(StatementSet) /\ Len(text) \in Nat
  BY DEF TypeOK, Ordered, StatementSet
<1>2. CASE ~(from < index)
  BY <1>2 DEF PushStatement
<1>3. CASE from < index
  <2>1. pushed = Append(statements, [start |-> from, end |-> to])
    BY <1>3 DEF PushStatement
  <2>2. Run(start, Whitespace) \in Nat /\ RunBack(index, Whitespace) \in 0 .. index
    BY <1>1, RunBound, RunBackBound
  <2>3. f[from].mode = "normal"
    <3>1. from \in start .. index /\ start \in 0 .. index
      BY <1>1, <1>3, <2>2
    <3>2. \A k \in start .. from - 1 : At(k) \in Whitespace
      <4> SUFFICES ASSUME NEW k \in start .. from - 1 PROVE At(k) \in Whitespace
        OBVIOUS
      <4>1. k \in start .. start + Run(start, Whitespace) - 1
        BY <1>1, <2>2
      <4> QED BY <1>1, <4>1, RunHolds
    <3> HIDE DEF from
    <3> QED BY <1>1, <3>1, <3>2, BlanksAreWalked
  <2>4. to = Len(text) \/ At(to) \in Whitespace \cup {"semi"}
    <3>1. CASE RunBack(index, Whitespace) = 0
      BY <1>1, <3>1
    <3>2. CASE RunBack(index, Whitespace) # 0
      <4>1. to \in index - RunBack(index, Whitespace) .. index - 1
        BY <1>1, <2>2, <3>2
      <4>2. At(to) \in Whitespace
        BY <1>1, <4>1, RunBackHolds
      <4> QED BY <4>2
    <3> QED BY <3>1, <3>2
  <2> HIDE DEF from, to
  <2>5. /\ DOMAIN statements = 1 .. Len(statements) /\ Len(statements) \in Nat
        /\ DOMAIN pushed = 1 .. Len(statements) + 1
        /\ \A s \in DOMAIN statements : pushed[s] = statements[s]
        /\ pushed[Len(statements) + 1] = [start |-> from, end |-> to]
    BY <1>1, <2>1
  <2> HIDE DEF pushed
  <2>6. ASSUME NEW s \in DOMAIN pushed
        PROVE  /\ f[pushed[s].start].mode = "normal"
               /\ pushed[s].end = Len(text) \/ At(pushed[s].end) \in Whitespace \cup {"semi"}
    <3>1. CASE s = Len(statements) + 1
      <4>1. pushed[s].start = from /\ pushed[s].end = to
        BY <2>5, <3>1
      <4> QED BY <2>3, <2>4, <4>1
    <3>2. CASE s # Len(statements) + 1
      <4>1. s \in DOMAIN statements /\ pushed[s] = statements[s]
        BY <2>5, <3>2
      <4> QED BY <4>1 DEF Delimited
    <3> QED BY <3>1, <3>2
  <2> QED BY <2>6 DEF Delimited, pushed
<1> QED BY <1>2, <1>3

LEMMA DelimitedByAlike ==
  ASSUME text \in Seq(Symbols), NEW n \in Nat, NEW f, NEW g, \A i \in 0 .. n : g[i] = f[i],
         NEW q \in Seq(StatementSet), \A s \in DOMAIN q : q[s].start < q[s].end /\ q[s].end <= n,
         Delimited(f, q)
  PROVE  Delimited(g, q)
<1>1. ASSUME NEW s \in DOMAIN q PROVE q[s].start \in 0 .. n
  <2>1. q[s].start \in Nat /\ q[s].end \in Nat
    BY StatementOffsets
  <2> QED BY <2>1
<1> QED BY <1>1 DEF Delimited

LEMMA SplitKeepsText ==
  ASSUME IInv, IInv', SameText, Plain, Split, reader = "split", reader' = "split"
  PROVE  SameText'
<1>1. /\ delimiter = <<"semi">> /\ mode \in SharedModes
      /\ \E f : SplitSeen(f)
  BY DEF SameText
<1>2. PICK f : SplitSeen(f)
  BY <1>1
<1>3. /\ index < Len(text) /\ mode' \in SharedModes
      /\ Follows(After(index, Here)) \/ Dashes
  BY <1>1, SplitFollows
<1>4. /\ UNCHANGED <<text, mask, delimiter>>
      /\ IF mode = "normal" /\ At(index) = "semi"
         THEN /\ statements' = PushStatement(start, index)
              /\ index' = index + 1 /\ start' = index' /\ mode' = "normal"
         ELSE UNCHANGED <<statements, start>>
  BY <1>1, SplitEndsAtCuts
<1>5. Trace(f, index) /\ f[index] = Here
  BY <1>2 DEF SplitSeen
<1>6. PICK g : /\ Trace(g, index') /\ g[index'] = Here'
               /\ \A i \in 0 .. index : g[i] = f[i]
               /\ \A i \in index + 1 .. index' - 1 : g[i].mode # "normal"
  BY <1>1, <1>3, <1>5, SplitTrace
<1>7. /\ index \in Nat /\ start \in Nat /\ start <= index
      /\ index' \in Nat /\ start' \in Nat /\ index' > index
  <2>1. Kept
    BY SplitKeeps
  <2> QED BY <2>1 DEF Kept, IInv, TypeOK
<1>8. /\ \A i \in 0 .. index - 1 : Cut(g, i) <=> Cut(f, i)
      /\ Cut(g, index) <=> mode = "normal" /\ At(index) = "semi"
      /\ \A i \in index + 1 .. index' - 1 : ~Cut(g, i)
  <2>1. \A i \in 0 .. index - 1 : Cut(g, i) <=> Cut(f, i)
    BY <1>6, <1>7 DEF Cut
  <2>2. g[index].mode = mode
    BY <1>5, <1>6, <1>7 DEF Here, Place
  <2> QED BY <1>6, <2>1, <2>2 DEF Cut
<1>9. \A i : At(i)' = At(i) /\ (Cut(g, i)' <=> Cut(g, i))
  BY <1>4, SameReading DEF Cut
<1>10. Trace(g, index)'
  BY <1>4, <1>6, SameReading DEF Trace, Visits
<1>11. /\ CutsEnd(f, start)
       /\ \A i \in start .. index - 1 : ~Cut(f, i)
       /\ statements = <<>> \/ SomeCut(f, start)
       /\ f[start].mode = "normal"
       /\ Delimited(f, statements)
  BY <1>2 DEF SplitSeen
<1>12. CASE mode = "normal" /\ At(index) = "semi"
  <2>1. statements' = PushStatement(start, index) /\ index' = index + 1 /\ start' = index + 1
    BY <1>4, <1>12
  <2>2. /\ \A i \in 0 .. start - 1 : CoveredBy(statements', i) <=> Covered(i)
        /\ \A i \in start .. index - 1 : At(i) \notin Whitespace => CoveredBy(statements', i)
        /\ \A i \in Nat : CoveredBy(statements', i) => i < index
    BY <2>1, PushCovers DEF IInv
  <2>3. \A i : Covered(i)' <=> CoveredBy(statements', i)
    BY DEF Covered, CoveredBy
  <2>4. CutsEnd(g, start)'
    <3>1. ASSUME NEW i \in 0 .. index
          PROVE  IF Cut(g, i) THEN ~Covered(i)' ELSE At(i) \notin Whitespace => Covered(i)'
      <4>1. CASE i < start
        <5>1. i \in 0 .. start - 1 /\ i \in 0 .. index - 1
          BY <1>7, <4>1
        <5> QED BY <1>8, <1>11, <2>2, <2>3, <5>1 DEF CutsEnd
      <4>2. CASE start <= i /\ i < index
        <5>1. i \in start .. index - 1 /\ i \in 0 .. index - 1
          BY <1>7, <4>2
        <5> QED BY <1>8, <1>11, <2>2, <2>3, <5>1
      <4>3. CASE i = index
        BY <1>7, <1>8, <1>12, <2>2, <2>3, <4>3
      <4> QED BY <1>7, <4>1, <4>2, <4>3
    <3>2. 0 .. start' - 1 = 0 .. index
      BY <1>7, <2>1
    <3> QED BY <1>9, <3>1, <3>2 DEF CutsEnd
  <2>5. SomeCut(g, start)'
    <3>1. index \in 0 .. start' - 1
      BY <1>7, <2>1
    <3> QED BY <1>8, <1>9, <1>12, <3>1 DEF SomeCut
  <2>6. start' .. index' - 1 = {}
    BY <1>7, <2>1
  <2>7. g[start'].mode = "normal"
    BY <1>4, <1>6, <1>12, <2>1 DEF Here, Place
  <2>8. Delimited(g, statements)'
    <3>1. /\ statements' \in Seq(StatementSet) /\ text \in Seq(Symbols)
          /\ \A s \in DOMAIN statements' : statements'[s].start < statements'[s].end /\ statements'[s].end <= index
      BY <2>1, PushKeepsOrder DEF IInv, TypeOK
    <3>2. Delimited(f, statements')
      BY <1>5, <1>11, <1>12, <2>1, PushDelimits DEF IInv
    <3>3. Delimited(g, statements')
      BY <1>6, <1>7, <3>1, <3>2, DelimitedByAlike
    <3> QED BY <1>4, <1>9, <3>3 DEF Delimited
  <2>9. SplitSeen(g)'
    BY <1>6, <1>10, <2>4, <2>5, <2>6, <2>7, <2>8 DEF SplitSeen
  <2> QED BY <1>1, <1>3, <1>4, <2>9 DEF SameText
<1>13. CASE ~(mode = "normal" /\ At(index) = "semi")
  <2>1. statements' = statements /\ start' = start
    BY <1>4, <1>13
  <2>2. \A i : Covered(i)' <=> Covered(i)
    BY <2>1 DEF Covered
  <2>3. \A i \in 0 .. start - 1 : i \in 0 .. index - 1
    BY <1>7
  <2>4. CutsEnd(g, start)'
    BY <1>8, <1>9, <1>11, <2>1, <2>2, <2>3 DEF CutsEnd
  <2>5. statements' = <<>> \/ SomeCut(g, start)'
    BY <1>8, <1>9, <1>11, <2>1, <2>3 DEF SomeCut
  <2>6. \A i \in start' .. index' - 1 : ~Cut(g, i)'
    <3>1. PICK n \in Nat : n = index'
      BY <1>7
    <3>2. ASSUME NEW i \in start .. n - 1 PROVE ~Cut(g, i)
      <4>1. CASE i < index
        <5>1. i \in start .. index - 1 /\ i \in 0 .. index - 1
          BY <1>7, <4>1
        <5> QED BY <1>8, <1>11, <5>1
      <4>2. CASE i = index
        BY <1>8, <1>13, <4>2
      <4>3. CASE index < i
        <5>1. i \in index + 1 .. n - 1
          BY <1>7, <4>3
        <5> QED BY <1>8, <3>1, <5>1
      <4> QED BY <1>7, <4>1, <4>2, <4>3
    <3> QED BY <1>9, <2>1, <3>1, <3>2
  <2>7. g[start'].mode = "normal"
    BY <1>6, <1>7, <1>11, <2>1
  <2>8. Delimited(g, statements)'
    <3>1. /\ statements \in Seq(StatementSet) /\ text \in Seq(Symbols)
          /\ \A s \in DOMAIN statements : statements[s].start < statements[s].end /\ statements[s].end <= start
      BY DEF IInv, TypeOK, Ordered, StatementSet
    <3>2. \A i \in 0 .. start : g[i] = f[i]
      BY <1>6, <1>7
    <3>3. Delimited(g, statements)
      BY <1>7, <1>11, <3>1, <3>2, DelimitedByAlike
    <3> QED BY <1>4, <1>9, <2>1, <3>3 DEF Delimited
  <2>9. SplitSeen(g)'
    BY <1>6, <1>10, <2>4, <2>5, <2>6, <2>7, <2>8 DEF SplitSeen
  <2> QED BY <1>1, <1>3, <1>4, <2>9 DEF SameText
<1> QED BY <1>12, <1>13

LEMMA SplitEndKeepsText ==
  ASSUME IInv, SameText, Plain, SplitEnd
  PROVE  SameText'
<1>1. /\ reader = "split" /\ index = Len(text) /\ statements' = PushStatement(start, index)
      /\ reader' = "mask" /\ index' = 0 /\ text' = text
      /\ Here' = Place("normal", 0, <<>>)
  BY DEF SplitEnd, Here
<1>2. PICK f : SplitSeen(f)
  BY <1>1 DEF SameText
<1>3. /\ Trace(f, index) /\ f[index] = Here
      /\ CutsEnd(f, start)
      /\ \A i \in start .. index - 1 : ~Cut(f, i)
      /\ statements = <<>> \/ SomeCut(f, start)
      /\ f[start].mode = "normal"
      /\ Delimited(f, statements)
  BY <1>2 DEF SplitSeen
<1>4. /\ index \in Nat /\ start \in Nat /\ start <= index
      /\ statements \in Seq(StatementSet)
  BY <1>1 DEF IInv, TypeOK, StatementSet
<1>5. /\ \A i \in 0 .. start - 1 : CoveredBy(statements', i) <=> Covered(i)
      /\ \A i \in start .. index - 1 : At(i) \notin Whitespace => CoveredBy(statements', i)
      /\ \/ Len(statements') = Len(statements) + 1
         \/ /\ statements' = statements
            /\ \A i \in start .. index - 1 : At(i) \in Whitespace
  BY <1>1, PushCovers DEF IInv
<1>6. \A i : Covered(i)' <=> CoveredBy(statements', i)
  BY DEF Covered, CoveredBy
<1>7. \A i : At(i)' = At(i) /\ (Cut(f, i)' <=> Cut(f, i))
  BY <1>1, SameReading DEF Cut
<1>8. Trace(f, Len(text))'
  BY <1>1, <1>3, SameReading DEF Trace, Visits
<1>9. CutsEnd(f, Len(text))'
  <2>1. ASSUME NEW i \in 0 .. index - 1
        PROVE  IF Cut(f, i) THEN ~Covered(i)' ELSE At(i) \notin Whitespace => Covered(i)'
    <3>1. CASE i < start
      <4>1. i \in 0 .. start - 1
        BY <1>4, <3>1
      <4> QED BY <1>3, <1>5, <1>6, <4>1 DEF CutsEnd
    <3>2. CASE start <= i
      <4>1. i \in start .. index - 1
        BY <1>4, <3>2
      <4> QED BY <1>3, <1>5, <1>6, <4>1
    <3> QED BY <1>4, <3>1, <3>2
  <2> QED BY <1>1, <1>7, <2>1 DEF CutsEnd
<1>10. Len(statements') = 1 \/ SomeCut(f, Len(text))' \/ \A i \in 0 .. Len(text') - 1 : At(i)' \in Whitespace
  <2>1. CASE SomeCut(f, start)
    <3>1. \A i \in 0 .. start - 1 : i \in 0 .. index - 1
      BY <1>4
    <3>2. SomeCut(f, index)
      BY <2>1, <3>1 DEF SomeCut
    <3> QED BY <1>1, <1>7, <3>2 DEF SomeCut
  <2>2. CASE statements = <<>> /\ ~SomeCut(f, start)
    <3>1. Len(statements) = 0 /\ \A i : ~Covered(i)
      BY <2>2 DEF Covered
    <3>2. \A i \in 0 .. start - 1 : At(i) \in Whitespace
      BY <1>3, <2>2, <3>1 DEF CutsEnd, SomeCut
    <3>3. CASE Len(statements') = Len(statements) + 1
      BY <3>1, <3>3
    <3>4. CASE \A i \in start .. index - 1 : At(i) \in Whitespace
      <4>1. \A i \in 0 .. index - 1 : At(i) \in Whitespace
        BY <1>4, <3>2, <3>4
      <4> QED BY <1>1, <1>7, <4>1
    <3> QED BY <1>5, <3>3, <3>4
  <2> QED BY <1>3, <2>1, <2>2
<1>11. f[0] = Place("normal", 0, <<>>)
  BY <1>3 DEF Trace
<1>12. Delimited(f, statements)'
  <2>1. Delimited(f, statements')
    BY <1>1, <1>3, PushDelimits DEF IInv
  <2> QED BY <1>1, <1>7, <2>1 DEF Delimited
<1>13. MaskSeen(f)'
  <2>1. 0 .. index' - 1 = {}
    BY <1>1
  <2> QED BY <1>1, <1>8, <1>9, <1>10, <1>11, <1>12, <2>1 DEF MaskSeen
<1> QED BY <1>1, <1>13 DEF SameText

LEMMA Appended ==
  ASSUME NEW S, NEW p \in Seq(S), NEW q \in Seq(S)
  PROVE  /\ Len(p \o q) = Len(p) + Len(q)
         /\ \A k \in 1 .. Len(p) : (p \o q)[k] = p[k]
         /\ \A k \in 1 .. Len(q) : (p \o q)[Len(p) + k] = q[k]
<1>1. Len(p \o q) = Len(p) + Len(q)
  OBVIOUS
<1>2. ASSUME NEW k \in 1 .. Len(p) PROVE (p \o q)[k] = p[k]
  OBVIOUS
<1>3. ASSUME NEW k \in 1 .. Len(q) PROVE (p \o q)[Len(p) + k] = q[k]
  OBVIOUS
<1> QED BY <1>1, <1>2, <1>3

LEMMA MaskKeepsText ==
  ASSUME IInv, SameText, Plain, StripNoise, reader' = "mask"
  PROVE  SameText'
<1>1. /\ index < Len(text) /\ reader = "mask"
      /\ UNCHANGED <<text, statements>>
      /\ Follows(After(index, Here))
      /\ \E out : Writes(After(index, Here).width, out)
  BY MaskFollows
<1>2. PICK f : MaskSeen(f)
  BY <1>1 DEF SameText
<1>3. /\ Trace(f, Len(text)) /\ f[index] = Here
      /\ \A i \in 0 .. index - 1 :
           IF Stands(f, i) THEN MaskAt(i) = At(i) ELSE MaskAt(i) \in {"sp", "nl"}
  BY <1>2 DEF MaskSeen
<1>4. /\ index \in Nat /\ Len(text) \in Nat /\ mask \in Seq(Symbols) /\ mode \in Modes
  BY DEF IInv, TypeOK
<1>5. Len(mask) = index
  BY <1>1 DEF IInv, MaskAligned, Plain
<1>6. PICK w \in Nat \ {0} :
        /\ w = After(index, Here).width
        /\ f[index + w] = After(index, Here).place
        /\ \A j \in index + 1 .. index + w - 1 : ~Visits(f, j)
  <2>1. index \in 0 .. Len(text) - 1
    BY <1>1, <1>4
  <2>2. Visits(f, index)
    BY <1>3, <1>4 DEF Visits, Here, Place, Modes
  <2> QED BY <1>3, <2>1, <2>2 DEF Trace
<1>7. index' = index + w /\ f[index + w] = Here'
  BY <1>1, <1>6 DEF Follows
<1>8. PICK out : Writes(w, out)
  BY <1>1, <1>6
<1>9. /\ out \in Seq(Symbols) /\ Len(out) = w /\ mask' = mask \o out
      /\ \A k \in 1 .. w :
           IF k = 1 /\ mode = "normal" /\ Opens(index).mode = "normal"
           THEN out[k] = At(index) ELSE out[k] \in {"sp", "nl"}
  BY <1>8 DEF Writes
<1>10. \A i : At(i)' = At(i) /\ (Cut(f, i)' <=> Cut(f, i)) /\ (Stands(f, i)' <=> Stands(f, i))
  BY <1>1, SameReading DEF Cut, Stands
<1>11. ASSUME NEW i \in 0 .. index + w - 1
       PROVE  IF Stands(f, i) THEN MaskAt(i)' = At(i) ELSE MaskAt(i)' \in {"sp", "nl"}
  <2>1. /\ Len(mask') = index + w
        /\ \A k \in 1 .. index : mask'[k] = mask[k]
        /\ \A k \in 1 .. w : mask'[index + k] = out[k]
    <3>0. mask \in Seq(Symbols) /\ out \in Seq(Symbols)
      BY <1>4, <1>9
    <3>1. /\ Len(mask \o out) = Len(mask) + Len(out)
          /\ \A k \in 1 .. Len(mask) : (mask \o out)[k] = mask[k]
          /\ \A k \in 1 .. Len(out) : (mask \o out)[Len(mask) + k] = out[k]
      BY <3>0, Appended
    <3> QED BY <1>5, <1>9, <3>1, Zenon
  <2>2. MaskAt(i)' = mask'[i + 1] /\ i + 1 \in 1 .. index + w
    BY <1>4, <2>1 DEF MaskAt
  <2>3. CASE i < index
    <3>1. i \in 0 .. index - 1 /\ i + 1 <= index
      BY <1>4, <2>3
    <3>2. MaskAt(i) = mask[i + 1]
      BY <1>5, <3>1 DEF MaskAt
    <3> QED BY <1>3, <2>1, <2>2, <3>1, <3>2
  <2>4. CASE i = index
    <3>1. mask'[i + 1] = out[1]
      BY <1>4, <2>1, <2>4
    <3>2. Stands(f, i) <=> mode = "normal" /\ Opens(index).mode = "normal"
      BY <1>3, <2>4 DEF Stands, Here, Place
    <3>3. 1 \in 1 .. w
      OBVIOUS
    <3>4. IF mode = "normal" /\ Opens(index).mode = "normal"
          THEN out[1] = At(index) ELSE out[1] \in {"sp", "nl"}
      BY <1>9, <3>3
    <3> QED BY <2>2, <2>4, <3>1, <3>2, <3>4
  <2>5. CASE index < i
    <3>1. PICK k \in 2 .. w : index + k = i + 1
      <4>1. i + 1 - index \in 2 .. w /\ index + (i + 1 - index) = i + 1
        BY <1>4, <2>5
      <4> QED BY <4>1
    <3>2. k \in 1 .. w /\ k # 1 /\ i \in index + 1 .. index + w - 1
      BY <1>4, <2>5, <3>1
    <3>3. mask'[i + 1] \in {"sp", "nl"}
      <4>1. mask'[index + k] = out[k]
        BY <2>1, <3>2
      <4>2. out[k] \in {"sp", "nl"}
        BY <1>9, <3>2
      <4> QED BY <3>1, <4>1, <4>2
    <3>4. ~Stands(f, i)
      BY <1>6, <3>2 DEF Stands, Visits
    <3> QED BY <2>2, <3>3, <3>4
  <2> QED BY <1>4, <2>3, <2>4, <2>5
<1>12. MaskSeen(f)'
  <2>1. Trace(f, Len(text))'
    BY <1>1, <1>3, SameReading DEF Trace, Visits
  <2>2. \A i : Covered(i)' <=> Covered(i)
    BY <1>1 DEF Covered
  <2>3. CutsEnd(f, Len(text))'
    BY <1>1, <1>2, <1>10, <2>2 DEF CutsEnd, MaskSeen
  <2>4. Len(statements') = 1 \/ SomeCut(f, Len(text))' \/ \A i \in 0 .. Len(text') - 1 : At(i)' \in Whitespace
    BY <1>1, <1>2, <1>10 DEF SomeCut, MaskSeen
  <2>5. \A i \in 0 .. index' - 1 :
          IF Stands(f, i)' THEN MaskAt(i)' = At(i)' ELSE MaskAt(i)' \in {"sp", "nl"}
    <3>1. PICK n \in Nat : n = index' /\ n = index + w
      BY <1>4, <1>7
    <3>2. 0 .. n - 1 = 0 .. index + w - 1
      BY <1>4, <3>1
    <3>3. \A i \in 0 .. n - 1 :
            IF Stands(f, i)' THEN MaskAt(i)' = At(i)' ELSE MaskAt(i)' \in {"sp", "nl"}
      BY <1>10, <1>11, <3>2
    <3> QED BY <3>1, <3>3
  <2>6. f[index'] = Here'
    BY <1>7
  <2>7. Delimited(f, statements)'
    BY <1>1, <1>2, <1>10 DEF Delimited, MaskSeen
  <2> QED BY <1>1, <2>1, <2>3, <2>4, <2>5, <2>6, <2>7 DEF MaskSeen
<1> QED BY <1>12 DEF SameText

LEMMA MaskEndKeepsText ==
  ASSUME SameText, Plain, MaskEnd
  PROVE  SameText'
<1>1. /\ reader = "mask" /\ index = Len(text) /\ reader' = "done"
      /\ UNCHANGED <<text, index, mode, depth, tag, delimiter, start, statements, mask>>
  BY DEF MaskEnd
<1>2. PICK f : MaskSeen(f)
  BY <1>1 DEF SameText
<1>3. /\ \A i : At(i)' = At(i) /\ MaskAt(i)' = MaskAt(i)
      /\ \A i : (Cut(f, i)' <=> Cut(f, i)) /\ (Covered(i)' <=> Covered(i)) /\ (Stands(f, i)' <=> Stands(f, i))
  BY <1>1, SameReading DEF Cut, MaskAt, Covered, Stands
<1>4. Trace(f, Len(text))'
  BY <1>1, <1>2, SameReading DEF Trace, Visits, MaskSeen
<1>5. CutsEnd(f, Len(text))'
  BY <1>1, <1>2, <1>3 DEF CutsEnd, MaskSeen
<1>6. Len(statements') = 1 \/ SomeCut(f, Len(text))' \/ \A i \in 0 .. Len(text') - 1 : At(i)' \in Whitespace
  BY <1>1, <1>2, <1>3 DEF SomeCut, MaskSeen
<1>7. /\ f[index'] = Here'
      /\ \A i \in 0 .. index' - 1 :
           IF Stands(f, i)' THEN MaskAt(i)' = At(i)' ELSE MaskAt(i)' \in {"sp", "nl"}
  BY <1>1, <1>2, <1>3 DEF MaskSeen, Here
<1>8. Delimited(f, statements)'
  BY <1>1, <1>2, <1>3 DEF MaskSeen, Delimited
<1>9. MaskSeen(f)'
  BY <1>1, <1>4, <1>5, <1>6, <1>7, <1>8 DEF MaskSeen
<1> QED BY <1>1, <1>9 DEF SameText

LEMMA NextKeepsText == IInv /\ IInv' /\ SameText /\ [Next]_vars => SameText'
<1> SUFFICES ASSUME IInv, IInv', SameText, [Next]_vars, Plain' PROVE SameText'
  BY DEF SameText
<1>1. CASE UNCHANGED vars
  <2>1. /\ UNCHANGED <<text, reader, index, mode, depth, tag, delimiter, start, statements, mask>>
        /\ Plain
    BY <1>1 DEF vars, Plain
  <2>2. ASSUME NEW f
        PROVE  (SplitSeen(f)' <=> SplitSeen(f)) /\ (MaskSeen(f)' <=> MaskSeen(f))
    <3>1. /\ \A i : At(i)' = At(i) /\ MaskAt(i)' = MaskAt(i)
          /\ \A i : (Cut(f, i)' <=> Cut(f, i)) /\ (Covered(i)' <=> Covered(i)) /\ (Stands(f, i)' <=> Stands(f, i))
      BY <2>1, SameReading DEF Cut, MaskAt, Covered, Stands
    <3>2. /\ Trace(f, index)' <=> Trace(f, index)
          /\ Trace(f, Len(text))' <=> Trace(f, Len(text))
      BY <2>1, SameReading DEF Trace, Visits
    <3>3. /\ CutsEnd(f, start)' <=> CutsEnd(f, start)
          /\ CutsEnd(f, Len(text))' <=> CutsEnd(f, Len(text))
          /\ SomeCut(f, start)' <=> SomeCut(f, start)
          /\ SomeCut(f, Len(text))' <=> SomeCut(f, Len(text))
          /\ Here' = Here
      BY <2>1, <3>1 DEF CutsEnd, SomeCut, Here
    <3>4. Delimited(f, statements)' <=> Delimited(f, statements)
      BY <2>1, <3>1 DEF Delimited
    <3> QED BY <2>1, <3>1, <3>2, <3>3, <3>4 DEF SplitSeen, MaskSeen
  <2> QED BY <2>1, <2>2 DEF SameText
<1>2. CASE Split
  <2>1. text' = text /\ reader = "split" /\ reader' \in {"split", "mask"} /\ (reader' = "mask" => SplitEnd)
    BY <1>2 DEF Split, SplitDirective, SplitOpen, SplitTerminator, SplitPlain, SplitLine, SplitBlock,
                SplitDollar, SplitEnd, SplitQuoted, More, Splitting
  <2>2. Plain
    BY <2>1 DEF Plain
  <2> QED BY <1>2, <2>1, <2>2, SplitKeepsText, SplitEndKeepsText
<1>3. CASE StripNoise
  <2>1. text' = text /\ reader' \in {"mask", "done"} /\ (reader' = "done" => MaskEnd)
    BY <1>3 DEF StripNoise, MaskOpen, MaskPlain, MaskLine, MaskBlock, MaskSingle, MaskDollar, MaskEnd,
                More, Masking
  <2>2. Plain
    BY <2>1 DEF Plain
  <2> QED BY <1>3, <2>1, <2>2, MaskKeepsText, MaskEndKeepsText
<1> QED BY <1>1, <1>2, <1>3 DEF Next

LEMMA SameTextAgrees == IInv /\ SameText => LexersAgree
<1> SUFFICES ASSUME IInv, SameText, reader = "done", Plain
             PROVE  /\ \A i \in 0 .. Len(text) - 1 :
                         /\ At(i) = "semi" => (MaskAt(i) = "semi" <=> ~Covered(i))
                         /\ At(i) \notin Whitespace \cup {"semi"} => Covered(i)
                    /\ FilterAccepted => Len(statements) = 1
  BY DEF LexersAgree
<1>1. PICK f : MaskSeen(f)
  BY DEF SameText
<1>2. /\ index = Len(text) /\ index \in Nat
      /\ CutsEnd(f, index)
      /\ Len(statements) = 1 \/ SomeCut(f, index) \/ \A i \in 0 .. index - 1 : At(i) \in Whitespace
      /\ \A i \in 0 .. index - 1 :
           IF Stands(f, i) THEN MaskAt(i) = At(i) ELSE MaskAt(i) \in {"sp", "nl"}
      /\ text \in Seq(Symbols) /\ mask \in Seq(Symbols)
  BY <1>1 DEF MaskSeen, IInv, TypeOK
<1>3. /\ Len(mask) = index
      /\ \A i \in 0 .. index - 1 : MaskAt(i) = "semi" <=> Cut(f, i)
  <2>1. Len(mask) = index
    BY DEF IInv, MaskAligned, Plain
  <2>2. ASSUME NEW i \in 0 .. index - 1 PROVE MaskAt(i) = "semi" <=> Cut(f, i)
    <3>1. At(i) = "semi" => Opens(i).mode = "normal"
      BY StandingSymbols
    <3> QED BY <1>2, <3>1 DEF Cut, Stands
  <2> QED BY <2>1, <2>2
<1>4. ASSUME NEW i \in 0 .. index - 1
      PROVE  /\ At(i) = "semi" => (MaskAt(i) = "semi" <=> ~Covered(i))
             /\ At(i) \notin Whitespace \cup {"semi"} => Covered(i)
  <2>1. "semi" \notin Whitespace
    BY DEF Whitespace, Blank
  <2> QED BY <1>2, <1>3, <2>1 DEF CutsEnd, Cut
<1>5. ASSUME FilterAccepted PROVE Len(statements) = 1
  <2>1. ~SomeCut(f, index)
    <3>1. ASSUME NEW i \in 0 .. index - 1, Cut(f, i) PROVE FALSE
      <4>1. MaskAt(i) = "semi"
        BY <1>3, <3>1
      <4>2. i + 1 \in DOMAIN mask /\ mask[i + 1] = "semi"
        BY <1>2, <1>3, <4>1 DEF MaskAt
      <4> QED BY <1>5, <4>2 DEF FilterAccepted
    <3> QED BY <3>1 DEF SomeCut
  <2>2. ~(\A i \in 0 .. index - 1 : At(i) \in Whitespace)
    <3>1. PICK k \in DOMAIN text : text[k] \notin Whitespace
      BY <1>5 DEF FilterAccepted
    <3>2. k - 1 \in 0 .. index - 1 /\ At(k - 1) = text[k]
      BY <1>2 DEF At
    <3> QED BY <3>1, <3>2
  <2> QED BY <1>2, <2>1, <2>2
<1> QED BY <1>2, <1>4, <1>5

(* THEOREM.  For every script without quoted identifiers, directives and bytes *)
(* outside ASCII, split and strip_noise see the same text: a semicolon is left *)
(* standing exactly where a statement ended, nothing else but blanks is lost,  *)
(* and a filter validate_filter lets through is one statement.                 *)
THEOREM LexersSeeTheSame == Spec => []LexersAgree
<1>1. IInv /\ [Next]_vars => IInv'
  BY NextKeeps
<1> QED BY <1>1, InitSameText, InvariantHolds, NextKeepsText, SameTextAgrees, PTL DEF Spec

-----------------------------------------------------------------------------
(* What leading_keyword goes over: the function of CodeFrom exists, since it   *)
(* only looks ahead.                                                           *)

LEMMA RunStarts ==
  ASSUME text \in Seq(Symbols), NEW i \in 0 .. Len(text) - 1, NEW S, At(i) \in S
  PROVE  /\ Run(i, S) \in 1 .. Len(text) - i
         /\ i + Run(i, S) < Len(text) => At(i + Run(i, S)) \notin S
<1> DEFINE inRun == {j \in i .. Len(text) - 1 : \A m \in i .. j : At(m) \in S}
           r     == Run(i, S)
<1>1. r \in 0 .. Len(text) - i /\ Len(text) \in Nat /\ r = Cardinality(inRun)
  BY RunBound DEF Run
<1>2. IsFiniteSet(inRun)
  <2>1. IsFiniteSet(i .. Len(text) - 1)
    BY FS_Interval
  <2>2. inRun \subseteq i .. Len(text) - 1
    OBVIOUS
  <2> QED BY <2>1, <2>2, FS_Subset
<1>3. r # 0
  <2>1. i \in inRun
    OBVIOUS
  <2> QED BY <1>1, <1>2, <2>1, FS_EmptySet
<1>4. ASSUME i + r < Len(text), At(i + r) \in S PROVE FALSE
  <2>1. \A m \in i .. i + r - 1 : At(m) \in S
    BY <1>1, RunHolds
  <2>2. i .. (i + r + 1) - 1 \subseteq inRun
    <3>1. ASSUME NEW j \in i .. i + r, NEW m \in i .. j PROVE At(m) \in S
      <4>1. m = i + r \/ m \in i .. i + r - 1
        BY <1>1
      <4> QED BY <1>4, <2>1, <4>1
    <3>2. \A j \in i .. (i + r + 1) - 1 : j \in i .. i + r /\ j \in i .. Len(text) - 1
      BY <1>1, <1>4
    <3> HIDE DEF r
    <3> QED BY <3>1, <3>2
  <2>3. Cardinality(i .. (i + r + 1) - 1) = (i + r + 1) - i
    <3>1. i \in Int /\ i + r + 1 \in Int /\ i <= i + r + 1
      BY <1>1
    <3> HIDE DEF r
    <3> QED BY <3>1, IntervalSize
  <2>4. Cardinality(i .. (i + r + 1) - 1) <= Cardinality(inRun)
    BY <1>2, <2>2, FS_Subset
  <2> HIDE DEF r, inRun
  <2> QED BY <1>1, <2>3, <2>4
<1> QED BY <1>1, <1>3, <1>4

Sites == (0 .. Len(text) + 1) \X Nat

CodeNext(c, e, i, d) ==
  IF i >= e THEN e
  ELSE IF Pair(i, "/", "*") THEN c[<<i + 2, d + 1>>]
  ELSE IF d > 0 THEN IF Pair(i, "*", "/") THEN c[<<i + 2, d - 1>>] ELSE c[<<i + 1, d>>]
  ELSE IF At(i) \in Whitespace THEN c[<<i + 1, 0>>]
  ELSE IF Pair(i, "-", "-") \/ At(i) = "#" THEN c[<<i + Run(i, Except({"nl"})), 0>>]
  ELSE i

CodeTo(c, e, D) == c = [p \in D |-> CodeNext(c, e, p[1], p[2])]

LEMMA LineRun ==
  ASSUME text \in Seq(Symbols), NEW i \in 0 .. Len(text) - 1, Pair(i, "-", "-") \/ At(i) = "#"
  PROVE  /\ Run(i, Except({"nl"})) \in 1 .. Len(text) - i
         /\ \A k \in i .. i + Run(i, Except({"nl"})) - 1 : At(k) # "nl"
         /\ i + Run(i, Except({"nl"})) < Len(text) => At(i + Run(i, Except({"nl"}))) = "nl"
<1>1. At(i) \in Except({"nl"})
  BY DEF At, Pair, Except
<1>2. /\ Run(i, Except({"nl"})) \in 1 .. Len(text) - i
      /\ i + Run(i, Except({"nl"})) < Len(text) => At(i + Run(i, Except({"nl"}))) \notin Except({"nl"})
  BY <1>1, RunStarts
<1>3. \A k \in i .. i + Run(i, Except({"nl"})) - 1 : At(k) \in Except({"nl"})
  BY RunHolds
<1>4. ASSUME NEW k \in 0 .. Len(text) - 1, At(k) \notin Except({"nl"}) PROVE At(k) = "nl"
  BY <1>4 DEF At, Except
<1>5. ASSUME NEW k \in i .. i + Run(i, Except({"nl"})) - 1 PROVE At(k) # "nl"
  BY <1>3 DEF Except
<1>6. ASSUME i + Run(i, Except({"nl"})) < Len(text) PROVE At(i + Run(i, Except({"nl"}))) = "nl"
  <2>1. i + Run(i, Except({"nl"})) \in 0 .. Len(text) - 1
    BY <1>2, <1>6
  <2> QED BY <1>2, <1>4, <1>6, <2>1
<1> QED BY <1>2, <1>5, <1>6

SameAhead(b, c, i) == \A j \in i + 1 .. Len(text) + 1 : \A m \in Nat : b[<<j, m>>] = c[<<j, m>>]

LEMMA CodeLooksAhead ==
  ASSUME text \in Seq(Symbols), NEW e \in 0 .. Len(text), NEW i \in 0 .. Len(text) + 1, NEW d \in Nat,
         NEW b, NEW c, SameAhead(b, c, i)
  PROVE  CodeNext(b, e, i, d) = CodeNext(c, e, i, d)
<1>0. \A j \in i + 1 .. Len(text) + 1 : \A m \in Nat : b[<<j, m>>] = c[<<j, m>>]
  BY DEF SameAhead
<1>1. CASE i >= e
  BY <1>1 DEF CodeNext
<1>2. CASE i < e
  <2>1. i \in 0 .. Len(text) - 1 /\ ~(i >= e) /\ Len(text) \in Nat
    BY <1>2
  <2>2. /\ i + 1 \in i + 1 .. Len(text) + 1 /\ i + 2 \in i + 1 .. Len(text) + 1
        /\ d + 1 \in Nat /\ (d > 0 => d - 1 \in Nat) /\ 0 \in Nat
    BY <2>1
  <2>3. CASE Pair(i, "-", "-") \/ At(i) = "#"
    <3>1. i + Run(i, Except({"nl"})) \in i + 1 .. Len(text) + 1
      BY <2>1, <2>3, LineRun
    <3> QED BY <1>0, <2>1, <2>2, <3>1 DEF CodeNext
  <2>4. CASE ~(Pair(i, "-", "-") \/ At(i) = "#")
    BY <1>0, <2>1, <2>2, <2>4 DEF CodeNext
  <2> QED BY <2>3, <2>4
<1> QED BY <1>1, <1>2

Ahead(n) == {p \in Sites : p[1] + n > Len(text) + 1}

LEMMA CodeExists ==
  ASSUME text \in Seq(Symbols), NEW e \in 0 .. Len(text)
  PROVE  \A n \in Nat : \E c : CodeTo(c, e, Ahead(n))
<1> DEFINE S == {n \in Nat : \E c : CodeTo(c, e, Ahead(n))}
<1>0. Len(text) \in Nat
  OBVIOUS
<1>1. 0 \in S
  <2>1. Ahead(0) = {}
    BY <1>0 DEF Ahead, Sites
  <2>2. ASSUME NEW c PROVE [p \in {} |-> CodeNext(c, e, p[1], p[2])] = [p \in {} |-> 0]
    OBVIOUS
  <2>3. CodeTo([p \in {} |-> 0], e, {})
    BY <2>2 DEF CodeTo
  <2> QED BY <2>1, <2>3
<1>2. ASSUME NEW n \in Nat, n \in S
      PROVE  n + 1 \in S
  <2>1. PICK b : CodeTo(b, e, Ahead(n))
    BY <1>2
  <2> DEFINE c == [p \in Ahead(n + 1) |-> CodeNext(b, e, p[1], p[2])]
  <2>2. Ahead(n) \subseteq Ahead(n + 1)
    BY <1>0 DEF Ahead, Sites
  <2>3. \A p \in Ahead(n) : c[p] = b[p]
    BY <2>1, <2>2 DEF CodeTo
  <2>4. \A p \in Ahead(n + 1) : c[p] = CodeNext(b, e, p[1], p[2])
    OBVIOUS
  <2>5. c = [p \in Ahead(n + 1) |-> c[p]]
    OBVIOUS
  <2> HIDE DEF c
  <2>6. ASSUME NEW p \in Ahead(n + 1)
        PROVE  CodeNext(b, e, p[1], p[2]) = CodeNext(c, e, p[1], p[2])
    <3>1. p[1] \in 0 .. Len(text) + 1 /\ p[2] \in Nat /\ p[1] + (n + 1) > Len(text) + 1
      BY DEF Ahead, Sites
    <3>2. ASSUME NEW j \in p[1] + 1 .. Len(text) + 1, NEW m \in Nat PROVE b[<<j, m>>] = c[<<j, m>>]
      <4>1. <<j, m>> \in Sites /\ j + n > Len(text) + 1
        BY <1>0, <3>1 DEF Sites
      <4>2. <<j, m>> \in Ahead(n)
        BY <4>1 DEF Ahead
      <4> QED BY <2>3, <4>2
    <3>3. PICK i \in 0 .. Len(text) + 1, d \in Nat : i = p[1] /\ d = p[2]
      BY <3>1
    <3>4. CodeNext(b, e, i, d) = CodeNext(c, e, i, d)
      <4>1. SameAhead(b, c, i)
        BY <3>2, <3>3 DEF SameAhead
      <4> QED BY <4>1, CodeLooksAhead
    <3> QED BY <3>3, <3>4
  <2>7. CodeTo(c, e, Ahead(n + 1))
    BY <2>4, <2>5, <2>6 DEF CodeTo
  <2> QED BY <2>7
<1> HIDE DEF S
<1>3. \A n \in Nat : n \in S
  BY <1>1, <1>2, EveryNumber
<1> QED BY <1>3 DEF S

LEMMA CodeIs ==
  ASSUME text \in Seq(Symbols), NEW e \in 0 .. Len(text)
  PROVE  \E c : /\ \A i \in 0 .. Len(text) + 1 : \A d \in Nat : c[<<i, d>>] = CodeNext(c, e, i, d)
                /\ \A s : CodeFrom(s, e) = c[<<s, 0>>]
<1> DEFINE c == CHOOSE c : CodeTo(c, e, Sites)
<1>1. Ahead(Len(text) + 2) = Sites
  BY DEF Ahead, Sites
<1>2. Len(text) + 2 \in Nat
  OBVIOUS
<1>3. \E b : CodeTo(b, e, Sites)
  BY <1>1, <1>2, CodeExists
<1>4. CodeTo(c, e, Sites)
  BY <1>3
<1>5. \A s : CodeFrom(s, e) = c[<<s, 0>>]
  BY DEF CodeFrom, CodeTo, CodeNext, Sites
<1> HIDE DEF c
<1>6. ASSUME NEW i \in 0 .. Len(text) + 1, NEW d \in Nat PROVE c[<<i, d>>] = CodeNext(c, e, i, d)
  <2>1. <<i, d>> \in Sites /\ <<i, d>>[1] = i /\ <<i, d>>[2] = d
    BY DEF Sites
  <2> QED BY <1>4, <2>1 DEF CodeTo
<1> QED BY <1>5, <1>6

-----------------------------------------------------------------------------
(* What it goes over is what strip_noise blanks, and it stops at a symbol met  *)
(* in mode normal.                                                             *)

MaskLike(f) ==
  \A i \in 0 .. Len(text) - 1 : IF Stands(f, i) THEN MaskAt(i) = At(i) ELSE MaskAt(i) \in {"sp", "nl"}

EndsAt(e) == e = Len(text) \/ At(e) \in Whitespace \cup {"semi"}

Past(f, e, i, v) ==
  /\ v \in i .. e
  /\ \A k \in i .. v - 1 : MaskAt(k) \in Whitespace
  /\ v < e => /\ f[v].mode = "normal" /\ At(v) \notin Whitespace
              /\ ~Pair(v, "/", "*") /\ ~Pair(v, "-", "-") /\ At(v) # "#"

StandsAt(f, i, d) == IF d = 0 THEN f[i].mode = "normal" ELSE f[i].mode = "block" /\ f[i].depth = d

Skips(f, e, c, i) == \A d \in Nat : StandsAt(f, i, d) => Past(f, e, i, c[<<i, d>>])

LEMMA TraceJumps ==
  ASSUME text \in Seq(Symbols), NEW f, Trace(f, Len(text)), NEW i \in 0 .. Len(text) - 1, Visits(f, i),
         NEW w, NEW p, After(i, f[i]) = Go(w, p)
  PROVE  /\ w \in Nat \ {0} /\ i + w <= Len(text) /\ f[i + w] = p
         /\ \A j \in i + 1 .. i + w - 1 : ~Stands(f, j)
<1>1. After(i, f[i]).width = w /\ After(i, f[i]).place = p
  BY DEF Go
<1>2. /\ After(i, f[i]).width \in Nat \ {0}
      /\ i + After(i, f[i]).width <= Len(text)
      /\ f[i + After(i, f[i]).width] = After(i, f[i]).place
      /\ \A j \in i + 1 .. i + After(i, f[i]).width - 1 : ~Visits(f, j)
  BY DEF Trace
<1> QED BY <1>1, <1>2 DEF Stands, Visits

LEMMA PastFurther ==
  ASSUME NEW f, NEW e \in Nat, NEW i \in 0 .. e, NEW j \in i .. e, NEW v,
         \A k \in i .. j - 1 : MaskAt(k) \in Whitespace, Past(f, e, j, v)
  PROVE  Past(f, e, i, v)
<1>1. v \in j .. e /\ \A k \in j .. v - 1 : MaskAt(k) \in Whitespace
  BY DEF Past
<1>2. \A k \in i .. v - 1 : k \in i .. j - 1 \/ k \in j .. v - 1
  BY <1>1
<1>3. v \in i .. e
  BY <1>1
<1> QED BY <1>1, <1>2, <1>3 DEF Past

LEMMA BlankMask ==
  ASSUME NEW f, MaskLike(f), NEW i \in 0 .. Len(text) - 1, ~Stands(f, i) \/ At(i) \in Whitespace
  PROVE  MaskAt(i) \in Whitespace
BY DEF MaskLike, Whitespace, Blank

LEMMA LineIsWalked ==
  ASSUME text \in Seq(Symbols), NEW f, Trace(f, Len(text)),
         NEW a \in 0 .. Len(text), NEW b \in a .. Len(text), f[a].mode = "line",
         \A k \in a .. b - 1 : At(k) # "nl"
  PROVE  f[b].mode = "line"
<1> DEFINE S == {m \in Nat : a + m <= b => f[a + m].mode = "line"}
<1>1. 0 \in S
  OBVIOUS
<1>2. ASSUME NEW m \in Nat, m \in S PROVE m + 1 \in S
  <2>1. SUFFICES ASSUME a + (m + 1) <= b PROVE f[a + (m + 1)].mode = "line"
    OBVIOUS
  <2>2. PICK i \in a .. b - 1 : i = a + m /\ i + 1 = a + (m + 1)
    <3>1. a + m \in a .. b - 1 /\ (a + m) + 1 = a + (m + 1)
      BY <2>1
    <3> QED BY <3>1
  <2>3. i \in 0 .. Len(text) - 1 /\ f[i].mode = "line" /\ At(i) # "nl"
    BY <1>2, <2>1, <2>2
  <2>4. Visits(f, i)
    BY <2>3 DEF Visits
  <2>5. After(i, f[i]) = Go(1, Place("line", f[i].depth, f[i].tag))
    BY <2>3 DEF After
  <2>6. f[i + 1] = Place("line", f[i].depth, f[i].tag)
    BY <2>3, <2>4, <2>5, TraceJumps
  <2> QED BY <2>2, <2>6 DEF Place
<1> HIDE DEF S
<1>3. \A m \in Nat : m \in S
  BY <1>1, <1>2, EveryNumber
<1>4. b - a \in Nat /\ a + (b - a) = b
  OBVIOUS
<1>5. b - a \in S
  BY <1>3, <1>4
<1> QED BY <1>4, <1>5 DEF S

(* No pair of symbols reaches over the end of a statement. *)
LEMMA PairBefore ==
  ASSUME text \in Seq(Symbols), NEW e \in 0 .. Len(text), EndsAt(e), NEW i \in 0 .. e - 1,
         NEW q, NEW r \in {"*", "/", "-"}, Pair(i, q, r)
  PROVE  i + 2 <= e
<1>1. At(i + 1) = r
  BY DEF Pair
<1>2. At(Len(text)) = "end"
  BY DEF At
<1>3. i + 1 # e
  BY <1>1, <1>2 DEF EndsAt, Whitespace, Blank
<1> QED BY <1>3

LEMMA SkipsOn ==
  ASSUME text \in Seq(Symbols), Plain, NEW f, Trace(f, Len(text)), MaskLike(f),
         NEW e \in 0 .. Len(text), EndsAt(e),
         NEW c, \A i \in 0 .. Len(text) + 1 : \A d \in Nat : c[<<i, d>>] = CodeNext(c, e, i, d),
         NEW i \in 0 .. e - 1, \A j \in i + 1 .. e : Skips(f, e, c, j)
  PROVE  Skips(f, e, c, i)
<1> SUFFICES ASSUME NEW d \in Nat, StandsAt(f, i, d) PROVE Past(f, e, i, c[<<i, d>>])
  BY DEF Skips
<1>1. /\ c[<<i, d>>] = CodeNext(c, e, i, d) /\ ~(i >= e) /\ e \in Nat
      /\ i \in 0 .. Len(text) - 1 /\ Visits(f, i) /\ Len(text) \in Nat
  BY DEF StandsAt, Visits
<1>2. ASSUME NEW w \in Nat \ {0}, NEW p, After(i, f[i]) = Go(w, p), i + w <= e,
             ~Stands(f, i) \/ At(i) \in Whitespace,
             NEW m \in Nat, StandsAt(f, i + w, m), c[<<i, d>>] = c[<<i + w, m>>]
      PROVE  Past(f, e, i, c[<<i, d>>])
  <2>1. \A j \in i + 1 .. i + w - 1 : ~Stands(f, j)
    BY <1>1, <1>2, TraceJumps
  <2>2. ASSUME NEW k \in i .. i + w - 1 PROVE MaskAt(k) \in Whitespace
    <3>1. k \in 0 .. Len(text) - 1 /\ (k = i \/ k \in i + 1 .. i + w - 1)
      BY <1>1, <1>2
    <3> QED BY <1>2, <2>1, <3>1, BlankMask
  <2>3. i + w \in i + 1 .. e
    BY <1>1, <1>2
  <2>4. Past(f, e, i + w, c[<<i + w, m>>])
    BY <1>2, <2>3 DEF Skips
  <2>5. i \in 0 .. e /\ i + w \in i .. e
    BY <1>1, <2>3
  <2>6. Past(f, e, i, c[<<i + w, m>>])
    BY <1>1, <2>2, <2>4, <2>5, PastFurther
  <2> QED BY <1>2, <2>6
<1>3. CASE d > 0
  <2>1. f[i].mode = "block" /\ f[i].depth = d /\ ~Stands(f, i)
    BY <1>3 DEF StandsAt, Stands
  <2>2. After(i, f[i]) = InBlock(i, f[i])
    BY <2>1 DEF After
  <2>3. CASE Pair(i, "/", "*")
    <3>1. After(i, f[i]) = Go(2, Place("block", d + 1, f[i].tag))
      BY <2>1, <2>2, <2>3 DEF InBlock
    <3>2. c[<<i, d>>] = c[<<i + 2, d + 1>>]
      BY <1>1, <2>3 DEF CodeNext
    <3>3. f[i + 2] = Place("block", d + 1, f[i].tag)
      BY <1>1, <3>1, TraceJumps
    <3>4. StandsAt(f, i + 2, d + 1)
      BY <3>3 DEF StandsAt, Place
    <3>5. i + 2 <= e /\ 2 \in Nat \ {0} /\ d + 1 \in Nat
      BY <2>3, PairBefore
    <3> QED BY <1>2, <2>1, <3>1, <3>2, <3>4, <3>5
  <2>4. CASE ~Pair(i, "/", "*") /\ Pair(i, "*", "/")
    <3>1. After(i, f[i]) = Go(2, Place(IF d = 1 THEN "normal" ELSE "block", d - 1, f[i].tag))
      BY <2>1, <2>2, <2>4 DEF InBlock
    <3>2. c[<<i, d>>] = c[<<i + 2, d - 1>>]
      BY <1>1, <1>3, <2>4 DEF CodeNext
    <3>3. f[i + 2] = Place(IF d = 1 THEN "normal" ELSE "block", d - 1, f[i].tag)
      BY <1>1, <3>1, TraceJumps
    <3>4. StandsAt(f, i + 2, d - 1)
      BY <1>3, <3>3 DEF StandsAt, Place
    <3>5. i + 2 <= e /\ 2 \in Nat \ {0} /\ d - 1 \in Nat
      BY <1>3, <2>4, PairBefore
    <3> QED BY <1>2, <2>1, <3>1, <3>2, <3>4, <3>5
  <2>5. CASE ~Pair(i, "/", "*") /\ ~Pair(i, "*", "/")
    <3>1. After(i, f[i]) = Go(1, Place("block", d, f[i].tag))
      BY <2>1, <2>2, <2>5 DEF InBlock
    <3>2. c[<<i, d>>] = c[<<i + 1, d>>]
      BY <1>1, <1>3, <2>5 DEF CodeNext
    <3>3. f[i + 1] = Place("block", d, f[i].tag)
      BY <1>1, <3>1, TraceJumps
    <3>4. StandsAt(f, i + 1, d)
      BY <1>3, <3>3 DEF StandsAt, Place
    <3>5. i + 1 <= e /\ 1 \in Nat \ {0}
      BY <1>1
    <3> QED BY <1>2, <2>1, <3>1, <3>2, <3>4, <3>5
  <2> QED BY <2>3, <2>4, <2>5
<1>4. CASE d = 0
  <2>1. f[i].mode = "normal" /\ ~(d > 0)
    BY <1>4 DEF StandsAt
  <2>2. After(i, f[i]) = Opened(i, f[i])
    BY <2>1 DEF After
  <2>3. CASE Pair(i, "/", "*")
    <3>1. Opens(i) = [mode |-> "block", width |-> 2]
      BY <2>3 DEF Opens, Pair, ParseDollarTag
    <3>2. After(i, f[i]) = Go(2, Place("block", 1, f[i].tag)) /\ ~Stands(f, i)
      BY <2>2, <3>1 DEF Opened, Stands
    <3>3. c[<<i, d>>] = c[<<i + 2, 1>>]
      BY <1>1, <1>4, <2>3 DEF CodeNext
    <3>4. f[i + 2] = Place("block", 1, f[i].tag)
      BY <1>1, <3>2, TraceJumps
    <3>5. StandsAt(f, i + 2, 1)
      BY <3>4 DEF StandsAt, Place
    <3>6. i + 2 <= e /\ 2 \in Nat \ {0} /\ 1 \in Nat
      BY <2>3, PairBefore
    <3> QED BY <1>2, <3>2, <3>3, <3>5, <3>6
  <2>4. CASE ~Pair(i, "/", "*") /\ At(i) \in Whitespace
    <3>1. Opens(i) = [mode |-> "normal", width |-> 1]
      BY <2>4, StandingSymbols
    <3>2. After(i, f[i]) = Go(1, Place("normal", f[i].depth, f[i].tag))
      BY <2>2, <3>1 DEF Opened
    <3>3. c[<<i, d>>] = c[<<i + 1, 0>>]
      BY <1>1, <1>4, <2>1, <2>4 DEF CodeNext
    <3>4. f[i + 1] = Place("normal", f[i].depth, f[i].tag)
      BY <1>1, <3>2, TraceJumps
    <3>5. StandsAt(f, i + 1, 0)
      BY <3>4 DEF StandsAt, Place
    <3>6. i + 1 <= e /\ 1 \in Nat \ {0} /\ 0 \in Nat
      BY <1>1
    <3> QED BY <1>2, <2>4, <3>2, <3>3, <3>5, <3>6
  <2>5. CASE ~Pair(i, "/", "*") /\ At(i) \notin Whitespace /\ (Pair(i, "-", "-") \/ At(i) = "#")
    <3> DEFINE r == Run(i, Except({"nl"}))
    <3>1. /\ r \in 1 .. Len(text) - i
          /\ \A k \in i .. i + r - 1 : At(k) # "nl"
          /\ i + r < Len(text) => At(i + r) = "nl"
      BY <1>1, <2>5, LineRun
    <3>2. c[<<i, d>>] = c[<<i + r, 0>>]
      BY <1>1, <1>4, <2>1, <2>5 DEF CodeNext
    <3> HIDE DEF r
    <3>3. PICK j \in i + 1 .. Len(text) : j = i + r
      <4>1. i + r \in i + 1 .. Len(text)
        BY <1>1, <3>1
      <4> QED BY <4>1
    <3>4. /\ c[<<i, d>>] = c[<<j, 0>>]
          /\ \A k \in i .. j - 1 : At(k) # "nl"
          /\ j < Len(text) => At(j) = "nl"
      BY <3>1, <3>2, <3>3
    <3>5. PICK w \in {1, 2} : Opens(i) = [mode |-> "line", width |-> w]
      <4>1. Opens(i) \in {[mode |-> "line", width |-> 1], [mode |-> "line", width |-> 2]}
        BY <2>5 DEF Opens, Pair, ParseDollarTag
      <4> QED BY <4>1
    <3>6. After(i, f[i]) = Go(1, Place("line", f[i].depth, f[i].tag)) /\ ~Stands(f, i)
      BY <2>2, <3>5 DEF Opened, Stands
    <3>7. f[i + 1].mode = "line"
      <4>1. f[i + 1] = Place("line", f[i].depth, f[i].tag)
        BY <1>1, <3>6, TraceJumps
      <4> QED BY <4>1 DEF Place
    <3>8. ASSUME NEW k \in i + 1 .. j PROVE f[k].mode = "line"
      <4>1. i + 1 \in 0 .. Len(text) /\ k \in i + 1 .. Len(text)
        BY <1>1, <3>3
      <4>2. \A m \in i + 1 .. k - 1 : m \in i .. j - 1
        BY <3>3
      <4>3. \A m \in i + 1 .. k - 1 : At(m) # "nl"
        BY <3>4, <4>2
      <4> QED BY <3>7, <4>1, <4>3, LineIsWalked
    <3>9. ASSUME NEW k \in i .. j - 1 PROVE MaskAt(k) \in Whitespace
      <4>1. k \in 0 .. Len(text) - 1 /\ (k = i \/ k \in i + 1 .. j)
        BY <1>1, <3>3
      <4>2. ~Stands(f, k)
        BY <3>6, <3>8, <4>1 DEF Stands
      <4> QED BY <4>1, <4>2, BlankMask
    <3>10. CASE j >= e
      <4>1. j \in 0 .. Len(text) + 1 /\ 0 \in Nat
        BY <1>1, <3>3
      <4>2. c[<<j, 0>>] = e
        BY <3>10, <4>1 DEF CodeNext
      <4>3. e \in i .. e /\ ~(e < e) /\ \A k \in i .. e - 1 : k \in i .. j - 1
        BY <1>1, <3>3, <3>10
      <4> QED BY <3>4, <3>9, <4>2, <4>3 DEF Past
    <3>11. CASE j < e
      <4>1. /\ j \in 0 .. Len(text) - 1 /\ j \in 0 .. Len(text) + 1 /\ 0 \in Nat
            /\ ~(j >= e) /\ ~(0 > 0) /\ j + 1 \in i + 1 .. e /\ At(j) = "nl"
        BY <1>1, <3>3, <3>4, <3>11
      <4>2. c[<<j, 0>>] = c[<<j + 1, 0>>]
        <5>1. "nl" \in Whitespace /\ ~Pair(j, "/", "*")
          BY <4>1 DEF Whitespace, Pair
        <5> QED BY <4>1, <5>1 DEF CodeNext
      <4>3. f[j].mode = "line" /\ ~Stands(f, j)
        <5>1. j \in i + 1 .. j
          BY <3>3
        <5> QED BY <3>8, <5>1 DEF Stands
      <4>4. f[j + 1] = Place("normal", f[j].depth, f[j].tag)
        <5>1. After(j, f[j]) = Go(1, Place("normal", f[j].depth, f[j].tag)) /\ Visits(f, j)
          BY <4>1, <4>3 DEF After, Visits
        <5> QED BY <4>1, <5>1, TraceJumps
      <4>5. StandsAt(f, j + 1, 0)
        BY <4>4 DEF StandsAt, Place
      <4>6. Past(f, e, j + 1, c[<<j + 1, 0>>])
        BY <4>1, <4>5 DEF Skips
      <4>7. ASSUME NEW k \in i .. (j + 1) - 1 PROVE MaskAt(k) \in Whitespace
        <5>1. k = j \/ k \in i .. j - 1
          BY <3>3
        <5> QED BY <3>9, <4>1, <4>3, <5>1, BlankMask
      <4>8. i \in 0 .. e /\ j + 1 \in i .. e
        BY <1>1, <4>1
      <4>9. Past(f, e, i, c[<<j + 1, 0>>])
        BY <1>1, <4>6, <4>7, <4>8, PastFurther
      <4> QED BY <3>4, <4>2, <4>9
    <3>12. j >= e \/ j < e
      BY <1>1, <3>3
    <3> QED BY <3>10, <3>11, <3>12
  <2>6. CASE ~Pair(i, "/", "*") /\ At(i) \notin Whitespace /\ ~(Pair(i, "-", "-") \/ At(i) = "#")
    <3>1. c[<<i, d>>] = i
      BY <1>1, <2>1, <2>6 DEF CodeNext
    <3>2. i \in i .. e /\ i .. i - 1 = {}
      BY <1>1
    <3> QED BY <2>1, <2>6, <3>1, <3>2 DEF Past
  <2> QED BY <2>3, <2>4, <2>5, <2>6
<1> QED BY <1>3, <1>4

LEMMA SkipsAll ==
  ASSUME text \in Seq(Symbols), Plain, NEW f, Trace(f, Len(text)), MaskLike(f),
         NEW e \in 0 .. Len(text), EndsAt(e),
         NEW c, \A i \in 0 .. Len(text) + 1 : \A d \in Nat : c[<<i, d>>] = CodeNext(c, e, i, d)
  PROVE  \A i \in 0 .. e : Skips(f, e, c, i)
<1> DEFINE S == {n \in Nat : \A i \in 0 .. e : e - i <= n => Skips(f, e, c, i)}
<1>0. Len(text) \in Nat /\ e \in Nat
  OBVIOUS
<1>1. Skips(f, e, c, e)
  <2>1. ASSUME NEW d \in Nat PROVE Past(f, e, e, c[<<e, d>>])
    <3>1. c[<<e, d>>] = e
      <4>1. e \in 0 .. Len(text) + 1 /\ e >= e
        BY <1>0
      <4> QED BY <4>1 DEF CodeNext
    <3>2. e \in e .. e /\ ~(e < e) /\ e .. e - 1 = {}
      BY <1>0
    <3> QED BY <3>1, <3>2 DEF Past
  <2> QED BY <2>1 DEF Skips
<1>2. 0 \in S
  <2>1. \A i \in 0 .. e : e - i <= 0 => i = e
    BY <1>0
  <2> QED BY <1>1, <2>1
<1>3. ASSUME NEW n \in Nat, n \in S PROVE n + 1 \in S
  <2>1. ASSUME NEW i \in 0 .. e, e - i <= n + 1 PROVE Skips(f, e, c, i)
    <3>1. CASE i = e
      BY <1>1, <3>1
    <3>2. CASE i # e
      <4>1. i \in 0 .. e - 1
        BY <1>0, <3>2
      <4>2. \A j \in i + 1 .. e : j \in 0 .. e /\ e - j <= n
        BY <1>0, <2>1
      <4>3. \A j \in i + 1 .. e : Skips(f, e, c, j)
        BY <1>3, <4>2
      <4> QED BY <4>1, <4>3, SkipsOn
    <3> QED BY <3>1, <3>2
  <2> QED BY <2>1
<1> HIDE DEF S
<1>4. \A n \in Nat : n \in S
  BY <1>2, <1>3, EveryNumber
<1>5. \A i \in 0 .. e : e \in S /\ e - i <= e
  BY <1>0, <1>4
<1> QED BY <1>5 DEF S

-----------------------------------------------------------------------------
(* What comes first in a statement, as KindIsFirstWord says it. *)
FirstIs(i, e, solid, kind, first) ==
  /\ first \in solid \cup {e}
  /\ \A k \in solid : first <= k
  /\ \/ kind # <<>> /\ kind[1] = MaskAt(first)
     \/ kind = <<>> /\ MaskAt(first) \notin Word
     \/ kind = <<>> /\ \E k \in i .. first - 1 : At(k) \in {"quote", "$"}

LEMMA WhatStops ==
  ASSUME text \in Seq(Symbols), Plain, NEW v \in 0 .. Len(text) - 1,
         ~Pair(v, "/", "*"), ~Pair(v, "-", "-"), At(v) # "#", Opens(v).mode # "normal"
  PROVE  At(v) \in {"quote", "$"}
<1>1. At(v) = text[v + 1] /\ v + 1 \in DOMAIN text
  BY DEF At
<1>2. At(v) \notin {"dquote", "bq"}
  BY <1>1 DEF Plain
<1>3. CASE At(v) = "$"
  BY <1>3
<1>4. CASE At(v) # "$"
  <2>1. ParseDollarTag(v) = <<>>
    BY <1>4 DEF ParseDollarTag
  <2>2. CASE At(v) # "quote"
    <3>1. Opens(v) = [mode |-> "normal", width |-> 1]
      BY <1>2, <2>1, <2>2 DEF Opens
    <3> QED BY <3>1
  <2> QED BY <2>2
<1> QED BY <1>3, <1>4

LEMMA FirstWord ==
  ASSUME text \in Seq(Symbols), Plain, mask \in Seq(Symbols), Len(mask) = Len(text),
         NEW f, Trace(f, Len(text)), MaskLike(f),
         NEW e \in 0 .. Len(text), EndsAt(e), NEW i \in 0 .. e, f[i].mode = "normal"
  PROVE  \E first : FirstIs(i, e, {k \in i .. e - 1 : MaskAt(k) \notin Whitespace}, LeadingKeyword(i, e), first)
<1> DEFINE solid == {k \in i .. e - 1 : MaskAt(k) \notin Whitespace}
           kind  == LeadingKeyword(i, e)
           v     == CodeFrom(i, e)
<1>1. Past(f, e, i, v)
  <2>1. PICK c : /\ \A k \in 0 .. Len(text) + 1 : \A d \in Nat : c[<<k, d>>] = CodeNext(c, e, k, d)
                 /\ \A s : CodeFrom(s, e) = c[<<s, 0>>]
    BY CodeIs
  <2>2. Skips(f, e, c, i)
    BY <2>1, SkipsAll
  <2>3. StandsAt(f, i, 0) /\ 0 \in Nat
    BY DEF StandsAt
  <2>4. Past(f, e, i, c[<<i, 0>>])
    BY <2>2, <2>3 DEF Skips
  <2> QED BY <2>1, <2>4
<1>2. kind = SubSeq(text, v + 1, IF v + Run(v, Word) < e THEN v + Run(v, Word) ELSE e)
  BY DEF LeadingKeyword
<1> HIDE DEF kind, v
<1>3. /\ v \in i .. e /\ v \in Nat /\ e \in Nat /\ Len(text) \in Nat
      /\ \A k \in i .. v - 1 : MaskAt(k) \in Whitespace
      /\ v < e => /\ f[v].mode = "normal" /\ At(v) \notin Whitespace
                  /\ ~Pair(v, "/", "*") /\ ~Pair(v, "-", "-") /\ At(v) # "#"
  BY <1>1 DEF Past
<1>4. \A k \in solid : v <= k
  <2>1. ASSUME NEW k \in solid PROVE v <= k
    <3>1. k \in i .. e - 1 /\ k \notin i .. v - 1
      BY <1>3
    <3> QED BY <1>3, <3>1
  <2> QED BY <2>1
<1>5. CASE v < e
  <2>1. v \in 0 .. Len(text) - 1 /\ v \in i .. e - 1 /\ At(v) = text[v + 1] /\ v \in 0 .. Len(text)
    BY <1>3, <1>5 DEF At
  <2>2. Run(v, Word) \in 0 .. Len(text) - v
    BY <2>1, RunBound
  <2>3. CASE At(v) \in Word
    <3>1. Run(v, Word) \in 1 .. Len(text) - v
      BY <2>1, <2>3, RunStarts
    <3>2. PICK to \in v + 1 .. e : kind = SubSeq(text, v + 1, to)
      <4>1. (IF v + Run(v, Word) < e THEN v + Run(v, Word) ELSE e) \in v + 1 .. e
        BY <1>3, <1>5, <3>1
      <4> QED BY <1>2, <4>1
    <3>3. Len(kind) = to - v /\ kind[1] = text[v + 1] /\ kind # <<>>
      BY <1>3, <2>1, <3>2
    <3>4. MaskAt(v) = At(v)
      <4>1. Stands(f, v)
        <5>1. Opens(v) = [mode |-> "normal", width |-> 1]
          BY <2>3, StandingSymbols
        <5> QED BY <1>3, <1>5, <5>1 DEF Stands
      <4> QED BY <2>1, <4>1 DEF MaskLike
    <3>5. v \in solid
      BY <1>3, <1>5, <2>1, <3>4
    <3>6. FirstIs(i, e, solid, kind, v)
      <4> HIDE DEF solid
      <4> QED BY <1>4, <2>1, <3>3, <3>4, <3>5 DEF FirstIs
    <3> QED BY <3>6 DEF kind
  <2>4. CASE At(v) \notin Word
    <3>1. kind = <<>>
      <4>1. v + Run(v, Word) <= v
        <5>1. v \in v .. Len(text) - 1
          BY <2>1
        <5> QED BY <2>1, <2>4, <5>1, RunStops
      <4>2. v + Run(v, Word) = v
        BY <1>3, <2>2, <4>1
      <4>3. kind = SubSeq(text, v + 1, v)
        BY <1>2, <1>5, <4>2
      <4> QED BY <1>3, <2>1, <4>3
    <3>2. CASE Stands(f, v)
      <4>1. MaskAt(v) = At(v)
        BY <2>1, <3>2 DEF MaskLike
      <4>2. v \in solid
        BY <1>3, <1>5, <2>1, <4>1
      <4>3. FirstIs(i, e, solid, kind, v)
        <5> HIDE DEF solid
        <5> QED BY <1>4, <2>4, <3>1, <4>1, <4>2 DEF FirstIs
      <4> QED BY <4>3 DEF kind
    <3>3. CASE ~Stands(f, v)
      <4>1. At(v) \in {"quote", "$"}
        <5>1. Opens(v).mode # "normal"
          BY <1>3, <1>5, <3>3 DEF Stands
        <5> QED BY <1>3, <1>5, <2>1, <5>1, WhatStops
      <4>2. MaskAt(v) \in Whitespace
        BY <2>1, <3>3, BlankMask
      <4>3. PICK first \in solid \cup {e} : \A k \in solid \cup {e} : first <= k
        <5>1. solid \cup {e} \subseteq Nat /\ solid \cup {e} # {}
          BY <1>3
        <5> HIDE DEF solid
        <5> QED BY <5>1, LeastNumber
      <4>4. v \in i .. first - 1
        <5>1. first # v
          BY <1>5, <4>2, <4>3, <1>3
        <5>2. v <= first /\ first \in Nat
          <6>1. first = e \/ first \in solid
            BY <4>3
          <6>2. first \in Nat
            BY <1>3, <6>1
          <6> QED BY <1>3, <1>4, <6>1, <6>2
        <5> QED BY <1>3, <5>1, <5>2
      <4>5. FirstIs(i, e, solid, kind, first)
        <5> HIDE DEF solid
        <5> QED BY <3>1, <4>1, <4>3, <4>4 DEF FirstIs
      <4> QED BY <4>5 DEF kind
    <3> QED BY <3>2, <3>3
  <2> QED BY <2>3, <2>4
<1>6. CASE v = e
  <2>1. kind = <<>>
    <3>1. Run(v, Word) \in 0 .. Len(text) - v
      BY <1>6, RunBound
    <3>2. ~(v + Run(v, Word) < e)
      BY <1>3, <1>6, <3>1
    <3>3. kind = SubSeq(text, e + 1, e)
      BY <1>2, <1>6, <3>2
    <3> QED BY <1>3, <3>3
  <2>2. solid = {}
    <3>1. ASSUME NEW k \in solid PROVE FALSE
      <4>1. k \in i .. e - 1 /\ v <= k
        BY <1>4
      <4> QED BY <1>3, <1>6, <4>1
    <3> QED BY <3>1
  <2>3. MaskAt(e) \notin Word
    <3>1. CASE e = Len(text)
      <4>1. MaskAt(e) = "end"
        BY <3>1 DEF MaskAt
      <4> QED BY <4>1 DEF Word, Keyword
    <3>2. CASE e # Len(text)
      <4>1. At(e) \in Whitespace \cup {"semi"} /\ e \in 0 .. Len(text) - 1
        BY <1>3, <3>2 DEF EndsAt
      <4>2. MaskAt(e) \in Whitespace \cup {"semi"}
        BY <4>1 DEF MaskLike, Whitespace, Blank
      <4> QED BY <4>2 DEF Whitespace, Blank, Word, Keyword
    <3> QED BY <3>1, <3>2
  <2>4. FirstIs(i, e, solid, kind, e)
    <3> HIDE DEF solid
    <3> QED BY <2>1, <2>2, <2>3 DEF FirstIs
  <2> QED BY <2>4 DEF kind
<1>7. v < e \/ v = e
  BY <1>3
<1> QED BY <1>5, <1>6, <1>7

LEMMA SameTextNames == IInv /\ SameText => KindIsFirstWord
<1> SUFFICES ASSUME IInv, SameText, reader = "done", Plain, NEW s \in DOMAIN statements
             PROVE  \E first : FirstIs(statements[s].start, statements[s].end,
                                       {k \in statements[s].start .. statements[s].end - 1 : MaskAt(k) \notin Whitespace},
                                       LeadingKeyword(statements[s].start, statements[s].end), first)
  BY Zenon DEF KindIsFirstWord, FirstIs
<1>1. PICK f : MaskSeen(f)
  BY DEF SameText
<1>2. /\ text \in Seq(Symbols) /\ mask \in Seq(Symbols) /\ Len(text) \in Nat
      /\ statements[s].start \in 0 .. Len(text) /\ statements[s].end \in 0 .. Len(text)
  <2>1. statements \in Seq(StatementSet)
    BY DEF IInv, TypeOK, StatementSet
  <2>2. statements[s] \in StatementSet
    BY <2>1
  <2>3. statements[s].start \in 0 .. Len(text) /\ statements[s].end \in 0 .. Len(text)
    BY <2>2 DEF StatementSet
  <2>4. text \in Seq(Symbols) /\ mask \in Seq(Symbols)
    BY DEF IInv, TypeOK
  <2> QED BY <2>3, <2>4
<1>3. statements[s].start \in 0 .. statements[s].end
  <2>1. statements[s].start < statements[s].end
    BY DEF IInv, Ordered
  <2> QED BY <1>2, <2>1
<1>4. index = Len(text) /\ Len(mask) = Len(text)
  BY <1>1 DEF MaskSeen, IInv, MaskAligned, Plain
<1>5. Trace(f, Len(text)) /\ MaskLike(f)
  BY <1>1, <1>4 DEF MaskSeen, MaskLike
<1>6. EndsAt(statements[s].end) /\ f[statements[s].start].mode = "normal"
  BY <1>1 DEF MaskSeen, Delimited, EndsAt
<1> QED BY <1>2, <1>3, <1>4, <1>5, <1>6, FirstWord

(* THEOREM.  For every such script, leading_keyword agrees with them: the kind *)
(* of a statement, which decides how it is run and whether it is a write, is   *)
(* the first word strip_noise leaves standing in it, unless a literal is first.*)
THEOREM KindIsTheFirstWord == Spec => []KindIsFirstWord
<1>1. IInv /\ [Next]_vars => IInv'
  BY NextKeeps
<1> QED BY <1>1, InitSameText, InvariantHolds, NextKeepsText, SameTextNames, PTL DEF Spec
=============================================================================
