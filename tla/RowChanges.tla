----------------------------- MODULE RowChanges -----------------------------
(* Row changes, as the data buffer asks for them and the adapters carry them   *)
(* out (render_change, where_clause, coerce and apply_changes of the three     *)
(* adapters), the pages of a table a preview shows (build_select), and the     *)
(* changes the undo log keeps to put a row back.                               *)
(*                                                                             *)
(* A table is a set of rows of three columns: the primary key, one that may    *)
(* hold NULL and one that may not.  Values are opaque.  A change names columns *)
(* by functions from some of the columns to values, as its JSON objects do.    *)
EXTENDS Naturals, Sequences, FiniteSets, SequencesExt

CONSTANTS
  Keys,      \* values of the primary key
  Values     \* values of the other columns, besides NULL

Null     == "NULL"
Columns  == {"id", "a", "b"}
Nullable == {"a"}
Default  == [a |-> Null, b |-> "x"]
Rows     == [id : Keys, a : Values \cup {Null}, b : Values]

None == [c \in {} |-> Null]

\* Some of the columns, as a client may give them.
Given == {f \in UNION {[C -> Keys \cup Values \cup {Null}] : C \in SUBSET Columns} :
            "id" \in DOMAIN f => f["id"] \in Keys}

ASSUME ValuesAssumption == Keys # {} /\ Default.b \in Values /\ Null \notin Keys \cup Values

\* The columns of g win over those of f.
Overlay(f, g) == [c \in DOMAIN f \cup DOMAIN g |-> IF c \in DOMAIN g THEN g[c] ELSE f[c]]

UniqueKeys(t) == \A r, s \in t : r.id = s.id => r = s

-----------------------------------------------------------------------------
(* One change on a table: whether the adapter renders it and the server takes  *)
(* it, the rows it counts, and the table it leaves.                            *)

Refused(t) == [ok |-> FALSE, count |-> 0, table |-> t]

\* coerce: NULL only where the column allows it.
Coerced(f) == \A c \in DOMAIN f : f[c] = Null => c \in Nullable

(* MUTANT of Matches: the values the editor saw are not compared. *)
MatchesKeyOnly(r, pk, expect) == \A c \in DOMAIN pk : r[c] = pk[c]

(* The key, and the values the editor saw in the columns it sets, compared so  *)
(* that NULL equals NULL (is not distinct from, <=>, is).                      *)
Matches(r, pk, expect) ==
  /\ \A c \in DOMAIN pk : r[c] = pk[c]
  /\ \A c \in DOMAIN expect \ DOMAIN pk : r[c] = expect[c]

RunUpdate(t, change) ==
  LET hit     == {r \in t : Matches(r, change.pk, change.expect)}
      updated == (t \ hit) \cup {Overlay(r, change.set) : r \in hit}
  IN  IF \/ change.pk = None \/ change.set = None
         \/ ~Coerced(change.set) \/ ~Coerced(change.pk) \/ ~Coerced(change.expect)
         \/ ~UniqueKeys(updated) \/ Cardinality(updated) # Cardinality(t)
      THEN Refused(t)
      ELSE [ok |-> TRUE, count |-> Cardinality(hit), table |-> updated]

(* A key that is left out is generated.  Keys bounds it: when all are taken,   *)
(* one of them is given again and the insert refused.                          *)
Generated(t) ==
  LET free == Keys \ {r.id : r \in t}
  IN  IF free = {} THEN CHOOSE k \in Keys : TRUE ELSE CHOOSE k \in free : TRUE

RunInsert(t, change) ==
  LET row      == Overlay([id |-> Generated(t), a |-> Default.a, b |-> Default.b], change.values)
      inserted == t \cup {row}
  IN  IF change.values = None \/ ~Coerced(change.values) \/ row \in t \/ ~UniqueKeys(inserted)
      THEN Refused(t)
      ELSE [ok |-> TRUE, count |-> 1, table |-> inserted]

\* MariaDB adds a limit 1, which a primary key makes idle.
RunDelete(t, change) ==
  LET hit == {r \in t : Matches(r, change.pk, change.expect)}
  IN  IF change.pk = None \/ ~Coerced(change.pk) \/ ~Coerced(change.expect)
      THEN Refused(t)
      ELSE [ok |-> TRUE, count |-> Cardinality(hit), table |-> t \ hit]

Run(t, change) ==
  CASE change.op = "update" -> RunUpdate(t, change)
    [] change.op = "insert" -> RunInsert(t, change)
    [] change.op = "delete" -> RunDelete(t, change)

(* apply_changes: all of them, each on at least one row, or none.              *)
ApplyNext(result, change) ==
  LET r == Run(result.table, change)
  IN  IF result.ok /\ r.ok /\ r.count > 0 THEN [ok |-> TRUE, table |-> r.table]
                                           ELSE [ok |-> FALSE, table |-> result.table]

\* ran[n]: after the first n of them.
Ran(t, changes) ==
  LET ran[n \in 0 .. Len(changes)] ==
        IF n = 0 THEN [ok |-> TRUE, table |-> t] ELSE ApplyNext(ran[n - 1], changes[n])
  IN  ran

ApplyChanges(t, changes) ==
  LET result == Ran(t, changes)[Len(changes)]
  IN  IF result.ok THEN result ELSE [ok |-> FALSE, table |-> t]

-----------------------------------------------------------------------------
(* The pages of a table: filtered, ordered and cut.  The order is by the       *)
(* primary key unless another column is asked for, and then rows that are      *)
(* equal there come in any order.                                              *)

Passes(r, filter) == filter => r.a = "x"

\* Any order of the values will do; NULL comes first.
Before(v, w) == v # w /\ (v = Null \/ (w # Null /\ v = "x"))

KeyOrder == SetToSeq(Keys)
KeyBefore(k, l) == \E i, j \in DOMAIN KeyOrder : i < j /\ KeyOrder[i] = k /\ KeyOrder[j] = l

InOrder(s, sort) ==
  \A i, j \in DOMAIN s : i < j =>
    IF sort = "id" THEN KeyBefore(s[i].id, s[j].id) ELSE ~Before(s[j][sort], s[i][sort])

Pages(t, want, limit) ==
  LET kept   == {r \in t : Passes(r, want.filter)}
      sorted == {s \in SetToSeqs(kept) : InOrder(s, want.sort)}
      last(s) == IF Len(s) < want.offset + limit THEN Len(s) ELSE want.offset + limit
  IN  {SubSeq(s, want.offset + 1, last(s)) : s \in sorted}

-----------------------------------------------------------------------------
(* The undo log: the change that puts a row back, where it can be known.       *)

(* MUTANT of KeyAfter: the key the row had before. *)
KeyBeforeChange(change) == change.pk

(* The row is found by what its key has become. *)
KeyAfter(change) ==
  [c \in DOMAIN change.pk |-> IF c \in DOMAIN change.set THEN change.set[c] ELSE change.pk[c]]

Invertible(change) == change.op = "update" \/ change.op = "insert"

Invert(change) ==
  IF change.op = "update"
  THEN [op |-> "update", set |-> change.expect, pk |-> KeyAfter(change), expect |-> None]
  ELSE [op |-> "delete", pk |-> change.values, expect |-> None]

\* As statements of a query buffer, run by hand one after the other: no row is
\* no error.
RunInverse(t, change) == Run(t, Invert(change)).table

Undoing(t, changes) ==
  LET undoing[n \in 0 .. Len(changes)] ==
        IF n = 0 THEN t
        ELSE IF Invertible(changes[n]) THEN RunInverse(undoing[n - 1], changes[n])
        ELSE undoing[n - 1]
  IN  undoing

Undone(t, changes) == Undoing(t, changes)[Len(changes)]
=============================================================================
