------------------------------ MODULE SqlGuards ------------------------------
(* What the guards of the query buffer are told about a write before it runs:  *)
(* lint-sql's unfiltered-write and blast-radius's preview, both read off the   *)
(* blanked text.  Writes are built here from their parts, so that what the     *)
(* guards should have said is known without reading the text a second time.    *)
EXTENDS SqlText

CONSTANTS
  Leads,      \* what stands before the verb
  Targets,    \* the table, or join, that is written
  Values,     \* the right side of the assignment
  Filters,    \* the condition after where; <<>> for none
  Tails       \* what follows the condition: order by, limit; <<>> for none

Join(parts) ==
  LET joined[n \in 0 .. Len(parts)] == IF n = 0 THEN <<>> ELSE joined[n - 1] \o parts[n]
  IN  joined[Len(parts)]

WhereOf(p) == IF p.filter = <<>> THEN <<>> ELSE <<"sp", "where", "sp">> \o p.filter
TailOf(p)  == IF p.tail = <<>> THEN <<>> ELSE <<"sp">> \o p.tail

Update(p) ==
  Join(<<p.lead, <<"update", "sp">>, p.target, <<"sp", "set", "sp", "a", "=">>, p.value, WhereOf(p), TailOf(p)>>)

Delete(p) ==
  Join(<<p.lead, <<"delete", "sp", "from", "sp">>, p.target, WhereOf(p), TailOf(p)>>)

Parts == [lead : Leads, target : Targets, value : Values, filter : Filters, tail : Tails]

TextOf(verb, p) == IF verb = "update" THEN Update(p) ELSE Delete(p)

Writes == {TextOf(verb, p) : verb \in {"update", "delete"}, p \in Parts}

(* The guards have the script, and it is one of the writes. *)
Guarded == reader = "done" /\ text \in Writes

(* The parts it was built from. *)
IsWrite(verb, p) == text = TextOf(verb, p)

(* The preview, when there is one, selects from the rows the write will        *)
(* change: those of the target that meet the condition, as far as the tail     *)
(* lets them.                                                                  *)
PreviewAgrees(p) == BlastRadius # <<>> => BlastRadius = p.target \o WhereOf(p) \o TailOf(p)

(* The updates blast_radius previews without having understood them:           *)
(*   - something before the verb, which is cut off by its six bytes from       *)
(*     where the text begins;                                                  *)
(*   - a quoted identifier before the condition: strip_noise leaves it         *)
(*     standing, and a keyword in it counts;                                   *)
(*   - order by and limit with no where before them: they are dropped.         *)
(* A delete is cut at its from and taken over as it stands, or declined.       *)
Misread(verb, p) ==
  /\ verb = "update"
  /\ \/ p.lead # <<>>
     \/ "dquote" \in {(p.target \o p.value)[k] : k \in DOMAIN (p.target \o p.value)}
     \/ p.filter = <<>> /\ p.tail # <<>>

(* SAFETY.  Of every delete, and of every update that is not one of those      *)
(* above, the preview is of the rows the write will change: a where of a       *)
(* subquery, of a literal or of a comment is not taken for the update's own    *)
(* (blast_radius and find_keyword).                                            *)
PreviewIsExact ==
  Guarded => \A verb \in {"update", "delete"}, p \in Parts :
    IsWrite(verb, p) /\ ~Misread(verb, p) => PreviewAgrees(p)

(* NOT AN INVARIANT: "the rewrite has to be exact rather than clever: anything *)
(* not confidently understood returns None" (sqlparse.rs:686).                 *)
PreviewOrNone ==
  Guarded => \A verb \in {"update", "delete"}, p \in Parts : IsWrite(verb, p) => PreviewAgrees(p)

(* NOT AN INVARIANT: "True when a write statement lacks a where clause"        *)
(* (sqlparse.rs:312).  A where of a subquery counts as one of the statement,   *)
(* so an update of every row passes the guard unnoticed; find_keyword takes    *)
(* care of it, contains_keyword does not.                                      *)
UnfilteredIsSeen ==
  Guarded => \A verb \in {"update", "delete"}, p \in Parts :
    IsWrite(verb, p) /\ p.filter = <<>> => IsUnfilteredWrite

(* NOT AN INVARIANT: "empty fragments (a stray ;, a comment-only tail) are     *)
(* dropped" (sqlparse.rs:44).  push_statement drops what is blank, and a       *)
(* comment is not: a script that ends in a comment has one statement more,     *)
(* that holds no code, and it is sent to the server.                           *)
CommentTailIsDropped ==
  reader = "done" /\ statements # <<>> =>
    LET tail == statements[Len(statements)]
    IN  CodeFrom(tail.start, tail.end) < tail.end

(* NOT AN INVARIANT: "the statement containing byte offset, if any"            *)
(* (sqlparse.rs:197), in its weakest form: the statement given for a cursor    *)
(* that is in none has no other one between the cursor and it.  It is always   *)
(* the last of the script.                                                     *)
CursorRunsANeighbour ==
  reader = "done" =>
    \A offset \in 0 .. Len(text), between \in DOMAIN statements :
      LET run == StatementAt(offset)
      IN  ~Holds(run, offset) =>
            ~(offset < statements[between].start /\ between < run)
=============================================================================
