---------------------------- MODULE AtomicBatches ----------------------------
(* What a session promises about the batches of row changes it reports as      *)
(* applied: each is a unit.  A batch is saved when it is reported, or waits    *)
(* for the end of the transaction the user has open, and then all that wait    *)
(* are saved or all of them are gone, together and for good.                   *)
CONSTANT Writes

VARIABLE fates   \* of the batches that were reported

Init == fates = [b \in {} |-> "gone"]

Waiting == {b \in DOMAIN fates : fates[b] = "waiting"}

\* A batch with a transaction of its own finds no other waiting.
Report(b, fate) ==
  /\ b \notin DOMAIN fates
  /\ fate = "saved" => Waiting = {}
  /\ fates' = [c \in DOMAIN fates \cup {b} |-> IF c = b THEN fate ELSE fates[c]]

EndTransaction(fate) ==
  fates' = [b \in DOMAIN fates |-> IF fates[b] = "waiting" THEN fate ELSE fates[b]]

Next ==
  \/ \E b \in (SUBSET Writes) \ {{}}, fate \in {"saved", "waiting"} : Report(b, fate)
  \/ \E fate \in {"saved", "gone"} : EndTransaction(fate)

Spec == Init /\ [][Next]_fates
=============================================================================
