------------------------------- MODULE SqlText -------------------------------
(* The two lexers of sqlparse.rs, which the daemon, the editor and the guards  *)
(* read SQL with: split cuts a script into statements, and strip_noise blanks  *)
(* out literals and comments so that keywords can be looked for.  They are     *)
(* two loops written apart, with the same modes, and everything else in the    *)
(* file trusts that they see the same text.  Here they run one after the other *)
(* over the same script, one action for each arm of their loops.               *)
(*                                                                             *)
(* A script is a sequence of symbols.  A symbol is a byte, except that a run   *)
(* of letters the code compares as a whole ("update", "where", "delimiter")    *)
(* is one symbol.  Some bytes are named ("nl" ends a line, "bq" is a backtick, *)
(* "semi" a semicolon), and "c3" and "a9" are the two bytes of one letter      *)
(* outside ASCII.  Offsets count symbols from 0.                               *)
EXTENDS Naturals, Sequences, FiniteSets

CONSTANTS
  Symbols,    \* what scripts are made of
  Texts       \* the scripts

ASSUME SymbolsAssumption == {"semi", "sp", "nl", "c2"} \subseteq Symbols /\ "end" \notin Symbols
ASSUME TextsAssumption == Texts \subseteq Seq(Symbols)

Blank      == {"sp", "tab"}
Whitespace == Blank \cup {"nl"}
Keyword    == {"update", "delete", "set", "from", "where", "select", "limit"}
Word       == Keyword \cup {"a", "t"}
Wide       == {"c3", "a9"}

Modes == {"normal", "line", "block", "single", "double", "backtick", "dollar"}

VARIABLES
  text,         \* sql
  reader,       \* the lexer that is running: "split", "mask" or, at last, "done"
  index,        \* offset of the next symbol
  mode,         \* enum Mode
  depth,        \* block_depth
  tag,          \* dollar_tag
  delimiter,    \* what ends a statement
  start,        \* where the pending statement starts
  statements,   \* what split gives: offsets of the trimmed statements
  mask          \* what strip_noise gives

vars == <<text, reader, index, mode, depth, tag, delimiter, start, statements, mask>>

-----------------------------------------------------------------------------
(* Looking at the text. *)

At(i) == IF i \in 0 .. Len(text) - 1 THEN text[i + 1] ELSE "end"

StartsWith(i, prefix) ==
  /\ prefix # <<>>
  /\ i + Len(prefix) <= Len(text)
  /\ SubSeq(text, i + 1, i + Len(prefix)) = prefix

Pair(i, first, second) == At(i) = first /\ At(i + 1) = second

(* How many symbols from i on belong to S, and how many before e. *)
Run(i, S)     == Cardinality({j \in i .. Len(text) - 1 : \A k \in i .. j : At(k) \in S})
RunBack(e, S) == Cardinality({j \in 0 .. e - 1 : \A k \in j .. e - 1 : At(k) \in S})

Except(S) == {text[k] : k \in DOMAIN text} \ S

AtLineStart(i) == LET j == i - RunBack(i, Blank) IN j = 0 \/ At(j - 1) = "nl"

(* DELIMITER xx: the new delimiter and the width of the line it stands on. *)
NoDirective == [width |-> 0, delimiter |-> <<>>]

ParseDelimiter(i) ==
  LET from == i + 1 + Run(i + 1, Blank)
      to   == from + Run(from, Except(Whitespace))
      line == to + Run(to, Except({"nl"}))
      next == IF line < Len(text) THEN line + 1 ELSE line
  IN  IF At(i) = "delimiter" /\ from > i + 1 /\ to > from
      THEN [width |-> next - i, delimiter |-> SubSeq(text, from + 1, to)]
      ELSE NoDirective

(* $$ or $tag$ *)
ParseDollarTag(i) ==
  LET to == i + 1 + Run(i + 1, Word)
  IN  IF At(i) = "$" /\ At(to) = "$" THEN SubSeq(text, i + 1, to + 1) ELSE <<>>

(* The pending fragment s .. e - 1 without the blanks around it, unless        *)
(* nothing is left of it.                                                      *)
PushStatement(s, e) ==
  LET from == s + Run(s, Whitespace)
      to   == e - RunBack(e, Whitespace)
  IN  IF from < e THEN Append(statements, [start |-> from, end |-> to]) ELSE statements

-----------------------------------------------------------------------------
Init ==
  /\ text \in Texts
  /\ reader = "split"
  /\ index = 0
  /\ mode = "normal"
  /\ depth = 0
  /\ tag = <<>>
  /\ delimiter = <<"semi">>
  /\ start = 0
  /\ statements = <<>>
  /\ mask = <<>>

More(r, m) == reader = r /\ mode = m /\ index < Len(text)

(* Go over n symbols, into mode m. *)
Step(n, m) == index' = index + n /\ mode' = m

-----------------------------------------------------------------------------
(* split: one action for each mode, and for each thing it may meet outside     *)
(* quotes and comments.                                                        *)

Splitting(n, m) ==
  /\ Step(n, m)
  /\ UNCHANGED <<text, reader, mask>>

(* The modes a symbol opens, first match first. *)
Opens(i) ==
  CASE Pair(i, "-", "-")        -> [mode |-> "line", width |-> 2]
    [] At(i) = "#"              -> [mode |-> "line", width |-> 1]
    [] Pair(i, "/", "*")        -> [mode |-> "block", width |-> 2]
    [] At(i) = "quote"          -> [mode |-> "single", width |-> 1]
    [] At(i) = "dquote"         -> [mode |-> "double", width |-> 1]
    [] At(i) = "bq"             -> [mode |-> "backtick", width |-> 1]
    [] ParseDollarTag(i) # <<>> -> [mode |-> "dollar", width |-> Len(ParseDollarTag(i))]
    [] OTHER                    -> [mode |-> "normal", width |-> 1]

AtDirective(i) == AtLineStart(i) /\ ParseDelimiter(i).width > 0

SplitDirective ==
  /\ More("split", "normal")
  /\ AtDirective(index)
  /\ Splitting(ParseDelimiter(index).width, "normal")
  /\ statements' = PushStatement(start, index)
  /\ delimiter' = ParseDelimiter(index).delimiter
  /\ start' = index'
  /\ UNCHANGED <<depth, tag>>

SplitOpen ==
  /\ More("split", "normal")
  /\ ~AtDirective(index)
  /\ Opens(index).mode # "normal"
  /\ Splitting(Opens(index).width, Opens(index).mode)
  /\ depth' = IF mode' = "block" THEN 1 ELSE depth
  /\ tag' = IF mode' = "dollar" THEN ParseDollarTag(index) ELSE tag
  /\ UNCHANGED <<delimiter, start, statements>>

(* MUTANT of SplitTerminator: the next statement starts where the last did. *)
TerminatorKeepsStart ==
  /\ More("split", "normal")
  /\ ~AtDirective(index)
  /\ Opens(index).mode = "normal"
  /\ StartsWith(index, delimiter)
  /\ Splitting(Len(delimiter), "normal")
  /\ statements' = PushStatement(start, index)
  /\ UNCHANGED <<depth, tag, delimiter, start>>

SplitTerminator ==
  /\ More("split", "normal")
  /\ ~AtDirective(index)
  /\ Opens(index).mode = "normal"
  /\ StartsWith(index, delimiter)
  /\ Splitting(Len(delimiter), "normal")
  /\ statements' = PushStatement(start, index)
  /\ start' = index'
  /\ UNCHANGED <<depth, tag, delimiter>>

SplitPlain ==
  /\ More("split", "normal")
  /\ ~AtDirective(index)
  /\ Opens(index).mode = "normal"
  /\ ~StartsWith(index, delimiter)
  /\ Splitting(1, "normal")
  /\ UNCHANGED <<depth, tag, delimiter, start, statements>>

SplitLine ==
  /\ More("split", "line")
  /\ Splitting(1, IF At(index) = "nl" THEN "normal" ELSE "line")
  /\ UNCHANGED <<depth, tag, delimiter, start, statements>>

SplitBlock ==
  /\ More("split", "block")
  /\ IF Pair(index, "/", "*")
     THEN Splitting(2, "block") /\ depth' = depth + 1
     ELSE IF Pair(index, "*", "/")
     THEN Splitting(2, IF depth = 1 THEN "normal" ELSE "block") /\ depth' = depth - 1
     ELSE Splitting(1, "block") /\ depth' = depth
  /\ UNCHANGED <<tag, delimiter, start, statements>>

(* The three kinds of quotes: a doubled quote stays inside, and so does what   *)
(* follows a backslash, except between backticks.                              *)
Quote == [single |-> "quote", double |-> "dquote", backtick |-> "bq"]

(* MUTANT of Escapes: a backslash at the very end escapes what is not there.   *)
EscapesTheEnd(i, m) == m # "backtick" /\ At(i) = "bslash"

Escapes(i, m) == m # "backtick" /\ At(i) = "bslash" /\ i + 1 < Len(text)

SplitQuoted(m) ==
  /\ More("split", m)
  /\ IF Escapes(index, m) \/ Pair(index, Quote[m], Quote[m])
     THEN Splitting(2, m)
     ELSE Splitting(1, IF At(index) = Quote[m] THEN "normal" ELSE m)
  /\ UNCHANGED <<depth, tag, delimiter, start, statements>>

SplitDollar ==
  /\ More("split", "dollar")
  /\ IF StartsWith(index, tag) THEN Splitting(Len(tag), "normal") ELSE Splitting(1, "dollar")
  /\ UNCHANGED <<depth, tag, delimiter, start, statements>>

(* The tail is a statement too; strip_noise starts over on the same text. *)
SplitEnd ==
  /\ reader = "split"
  /\ index = Len(text)
  /\ statements' = PushStatement(start, index)
  /\ reader' = "mask"
  /\ index' = 0
  /\ mode' = "normal"
  /\ depth' = 0
  /\ tag' = <<>>
  /\ UNCHANGED <<text, delimiter, start, mask>>

-----------------------------------------------------------------------------
(* strip_noise: the same text, blanked out.  It has no mode for double quotes  *)
(* and backticks, and it copies byte by byte: a byte outside ASCII is written  *)
(* as the two bytes of the character with that number.                         *)

(* MUTANT of Spaces: one blank for a token of several bytes. *)
OneSpace(n) == <<"sp">>

Spaces(n) == [k \in 1 .. n |-> "sp"]

Copied(b) == IF b \in Wide THEN <<"c2", b>> ELSE <<b>>

(* A blank that keeps the line ends. *)
Blanked(b) == IF b = "nl" THEN <<"nl">> ELSE <<"sp">>

Masking(n, m, out) ==
  /\ Step(n, m)
  /\ mask' = mask \o out
  /\ UNCHANGED <<text, reader, delimiter, start, statements>>

(* The first byte of "--" is replaced, the second as part of the comment. *)
MaskOpen ==
  /\ More("mask", "normal")
  /\ Opens(index).mode \in {"line", "block", "single", "dollar"}
  /\ LET width == IF Opens(index).mode = "line" THEN 1 ELSE Opens(index).width
     IN  Masking(width, Opens(index).mode, Spaces(width))
  /\ depth' = IF mode' = "block" THEN 1 ELSE depth
  /\ tag' = IF mode' = "dollar" THEN ParseDollarTag(index) ELSE tag

MaskPlain ==
  /\ More("mask", "normal")
  /\ Opens(index).mode \in {"normal", "double", "backtick"}
  /\ Masking(1, "normal", Copied(At(index)))
  /\ UNCHANGED <<depth, tag>>

MaskLine ==
  /\ More("mask", "line")
  /\ Masking(1, IF At(index) = "nl" THEN "normal" ELSE "line", Blanked(At(index)))
  /\ UNCHANGED <<depth, tag>>

MaskBlock ==
  /\ More("mask", "block")
  /\ IF Pair(index, "/", "*")
     THEN Masking(2, "block", Spaces(2)) /\ depth' = depth + 1
     ELSE IF Pair(index, "*", "/")
     THEN Masking(2, IF depth = 1 THEN "normal" ELSE "block", Spaces(2)) /\ depth' = depth - 1
     ELSE Masking(1, "block", Blanked(At(index))) /\ depth' = depth
  /\ UNCHANGED tag

(* MUTANT of MaskSingle: no backslash escapes, as in standard SQL. *)
MaskSingleNoEscapes ==
  /\ More("mask", "single")
  /\ IF Pair(index, "quote", "quote")
     THEN Masking(2, "single", Spaces(2))
     ELSE Masking(1, IF At(index) = "quote" THEN "normal" ELSE "single", <<"sp">>)
  /\ UNCHANGED <<depth, tag>>

MaskSingle ==
  /\ More("mask", "single")
  /\ IF Escapes(index, "single") \/ Pair(index, "quote", "quote")
     THEN Masking(2, "single", Spaces(2))
     ELSE Masking(1, IF At(index) = "quote" THEN "normal" ELSE "single", <<"sp">>)
  /\ UNCHANGED <<depth, tag>>

MaskDollar ==
  /\ More("mask", "dollar")
  /\ IF StartsWith(index, tag)
     THEN Masking(Len(tag), "normal", Spaces(Len(tag)))
     ELSE Masking(1, "dollar", Blanked(At(index)))
  /\ UNCHANGED <<depth, tag>>

MaskEnd ==
  /\ reader = "mask"
  /\ index = Len(text)
  /\ reader' = "done"
  /\ UNCHANGED <<text, index, mode, depth, tag, delimiter, start, statements, mask>>

Split == \/ SplitDirective \/ SplitOpen \/ SplitTerminator \/ SplitPlain
         \/ SplitLine \/ SplitBlock \/ SplitDollar \/ SplitEnd
         \/ \E m \in DOMAIN Quote : SplitQuoted(m)

StripNoise == \/ MaskOpen \/ MaskPlain \/ MaskLine \/ MaskBlock \/ MaskSingle \/ MaskDollar \/ MaskEnd

Next == Split \/ StripNoise

Spec == Init /\ [][Next]_vars

-----------------------------------------------------------------------------
(* What the results are used for. *)

(* statement_at: the first statement that reaches from before the cursor to    *)
(* it, or else the last one; 0 when there is none.                             *)
Holds(s, offset) == statements[s].start <= offset /\ offset <= statements[s].end

StatementAt(offset) ==
  LET holding == {s \in DOMAIN statements : Holds(s, offset)}
  IN  IF holding = {} THEN Len(statements)
      ELSE CHOOSE s \in holding : \A other \in holding : s <= other

(* MUTANT of CodeFrom: comments that do not nest. *)
CodeFromFlat(s, e) ==
  LET code[p \in (0 .. Len(text) + 1) \X Nat] ==
        LET i == p[1]
            d == p[2]
        IN  IF i >= e THEN e
            ELSE IF Pair(i, "/", "*") THEN code[<<i + 2, 1>>]
            ELSE IF d > 0 THEN IF Pair(i, "*", "/") THEN code[<<i + 2, 0>>] ELSE code[<<i + 1, d>>]
            ELSE IF At(i) \in Whitespace THEN code[<<i + 1, 0>>]
            ELSE IF Pair(i, "-", "-") \/ At(i) = "#"
                 THEN code[<<i + Run(i, Except({"nl"})), 0>>]
            ELSE i
  IN  code[<<s, 0>>]

(* leading_keyword: over the blanks and the comments, nested ones too, and     *)
(* then the letters that follow, as far as e.                                  *)
CodeFrom(s, e) ==
  LET code[p \in (0 .. Len(text) + 1) \X Nat] ==
        LET i == p[1]
            d == p[2]
        IN  IF i >= e THEN e
            ELSE IF Pair(i, "/", "*") THEN code[<<i + 2, d + 1>>]
            ELSE IF d > 0 THEN IF Pair(i, "*", "/") THEN code[<<i + 2, d - 1>>] ELSE code[<<i + 1, d>>]
            ELSE IF At(i) \in Whitespace THEN code[<<i + 1, 0>>]
            ELSE IF Pair(i, "-", "-") \/ At(i) = "#"
                 THEN code[<<i + Run(i, Except({"nl"})), 0>>]
            ELSE i
  IN  code[<<s, 0>>]

LeadingKeyword(s, e) ==
  LET from == CodeFrom(s, e)
      to   == from + Run(from, Word)
  IN  SubSeq(text, from + 1, IF to < e THEN to ELSE e)

(* find_keyword: the first offset from on where the word stands alone, outside *)
(* parentheses opened since, in the blanked text; Missing when there is none.  *)
Missing == Len(mask) + 1

MaskAt(i) == IF i \in 0 .. Len(mask) - 1 THEN mask[i + 1] ELSE "end"

IsWordAt(i, word) == MaskAt(i) = word /\ MaskAt(i - 1) \notin Word /\ MaskAt(i + 1) \notin Word

AtTopLevel(from, i) ==
  Cardinality({j \in from .. i : MaskAt(j) = "("}) = Cardinality({j \in from .. i : MaskAt(j) = ")"})

(* MUTANT of FindKeyword: parentheses are not counted. *)
FindKeywordAnywhere(word, from) ==
  LET found == {i \in from .. Len(mask) - 1 : IsWordAt(i, word)}
  IN  IF found = {} THEN Missing ELSE CHOOSE i \in found : \A other \in found : i <= other

FindKeyword(word, from) ==
  LET found == {i \in from .. Len(mask) - 1 : IsWordAt(i, word) /\ AtTopLevel(from, i)}
  IN  IF found = {} THEN Missing ELSE CHOOSE i \in found : \A other \in found : i <= other

(* contains_keyword and is_unfiltered_write, of the whole text. *)
ContainsKeyword(word) == \E i \in 0 .. Len(mask) - 1 : IsWordAt(i, word)

IsUnfilteredWrite ==
  /\ LeadingKeyword(0, Len(text)) \in {<<"update">>, <<"delete">>}
  /\ ~ContainsKeyword("where")

(* validate_filter *)
FilterAccepted ==
  /\ \A k \in DOMAIN mask : mask[k] # "semi"
  /\ \E k \in DOMAIN text : text[k] \notin Whitespace

(* blast_radius: what the preview selects from, <<>> when it is declined.      *)
(* Offsets found in the blanked text are used to cut the text itself, and the  *)
(* verb is cut off by its length, which takes for granted that the text begins *)
(* with it; to cut outside the text, or inside a letter, ends the session's    *)
(* thread.                                                                     *)
Trimmed(s, e) ==
  LET from == s + Run(s, Whitespace)
  IN  IF from < e THEN SubSeq(text, from + 1, e - RunBack(e, Whitespace)) ELSE <<>>

Cuttable(i) == i <= Len(text) /\ At(i) # "a9"

BodyEnd == Len(text) - RunBack(Len(text), {"semi"})

BlastOfDelete ==
  LET from == FindKeyword("from", 0)
      lead == Run(0, Whitespace)
  IN  IF from = Missing THEN <<>>
      ELSE IF ~Cuttable(from) THEN <<"panic">>
      ELSE IF Trimmed(lead + 1, from) # <<>> THEN <<>>
      ELSE Trimmed(from + 1, BodyEnd)

BlastOfUpdate ==
  LET set       == FindKeyword("set", 0)
      where     == FindKeyword("where", set)
      target    == Trimmed(1, set)
      predicate == IF where = Missing THEN <<>> ELSE Trimmed(where, BodyEnd)
  IN  IF set = Missing THEN <<>>
      ELSE IF ~Cuttable(set) \/ (where # Missing /\ ~Cuttable(where)) THEN <<"panic">>
      ELSE IF target = <<>> \/ predicate = <<>> THEN target
      ELSE target \o <<"sp">> \o predicate

BlastRadius ==
  CASE LeadingKeyword(0, Len(text)) = <<"delete">> -> BlastOfDelete
    [] LeadingKeyword(0, Len(text)) = <<"update">> -> BlastOfUpdate
    [] OTHER -> <<>>

-----------------------------------------------------------------------------
(* Properties.                                                                 *)

(* TYPE INVARIANT.  No lexer reads past the end of the text, whatever is left  *)
(* open there, and the depth of a comment never goes below zero, where an      *)
(* unsigned counter would panic.                                               *)
TypeOK ==
  /\ text \in Seq(Symbols)
  /\ reader \in {"split", "mask", "done"}
  /\ index \in 0 .. Len(text)
  /\ mode \in Modes
  /\ depth \in Nat
  /\ mode = "block" => depth > 0
  /\ tag \in Seq(Symbols)
  /\ delimiter \in Seq(Symbols)
  /\ start \in 0 .. Len(text)
  /\ reader = "split" => start <= index
  /\ statements \in Seq([start : 0 .. Len(text), end : 0 .. Len(text)])
  /\ mask \in Seq(Symbols)

(* SAFETY.  The statements are not empty, stand one after the other in the     *)
(* text, and none reaches into what is still to be read: no symbol is run      *)
(* twice, and the order of the script is kept (split and push_statement).      *)
Ordered ==
  /\ \A s \in DOMAIN statements :
       /\ statements[s].start < statements[s].end
       /\ reader = "split" => statements[s].end <= start
  /\ \A s, later \in DOMAIN statements :
       s < later => statements[s].end <= statements[later].start

(* SAFETY.  In a text of ASCII letters the blanked text is as long as what has *)
(* been read: an offset found in one is an offset of the other, which          *)
(* blast_radius and contains_keyword take for granted.                         *)
MaskAligned ==
  reader # "split" /\ (\A k \in DOMAIN text : text[k] \notin Wide) => Len(mask) = index

(* ACTION PROPERTY.  Every step reads on or ends its lexer: no script, however *)
(* it is quoted and whatever delimiter it sets, keeps the daemon's reader      *)
(* thread in one of the loops for ever.                                        *)
Advances == [][reader' = reader => index' > index]_vars

(* Scripts both lexers are meant for: no quoted identifiers, which strip_noise *)
(* does not know, and no directive.                                            *)
Plain == \A k \in DOMAIN text : text[k] \notin Wide \cup {"dquote", "bq", "delimiter"}

Covered(i) == \E s \in DOMAIN statements : statements[s].start <= i /\ i < statements[s].end

(* SAFETY.  The two lexers see the same text: a semicolon strip_noise leaves   *)
(* standing is one split ended a statement at, one that split kept inside a    *)
(* statement is one strip_noise blanked out, and split loses nothing else but  *)
(* blanks: the comments at the end of a script, which its own comment says     *)
(* are dropped, are kept too (see CommentTailIsDropped in SqlGuards).  A       *)
(* filter validate_filter lets through is one statement.                       *)
LexersAgree ==
  reader = "done" /\ Plain =>
    /\ \A i \in 0 .. Len(text) - 1 :
         /\ At(i) = "semi" => (MaskAt(i) = "semi" <=> ~Covered(i))
         /\ At(i) \notin Whitespace \cup {"semi"} => Covered(i)
    /\ FilterAccepted => Len(statements) = 1

(* SAFETY.  The third reader, leading_keyword, agrees with them: the kind of a *)
(* statement, which decides how it is run and whether it is a write, is the    *)
(* first word strip_noise leaves standing in it, unless a literal is first.    *)
KindIsFirstWord ==
  reader = "done" /\ Plain =>
    \A s \in DOMAIN statements :
      LET st    == statements[s]
          solid == {i \in st.start .. st.end - 1 : MaskAt(i) \notin Whitespace}
          kind  == LeadingKeyword(st.start, st.end)
      IN  \E first \in solid \cup {st.end} :
            /\ \A i \in solid : first <= i
            /\ \/ kind # <<>> /\ kind[1] = MaskAt(first)
               \/ kind = <<>> /\ MaskAt(first) \notin Word
               \/ kind = <<>> /\ \E i \in st.start .. first - 1 : At(i) \in {"quote", "$"}
=============================================================================
