---------------------------- MODULE MCDataBuffer ----------------------------
(* Four keys, a page of two rows out of three, one text too long for its       *)
(* column.                                                                     *)
EXTENDS DataBuffer

SmallKeys   == {"k1", "k2", "k3", "k4"}
SmallValues == {"x", "long"}
SmallWidth  ==
  [v \in SmallKeys \cup SmallValues \cup {Null, Blank, Cut} |-> IF v = "long" THEN 3 ELSE 1]

Row(k, a, b) == [id |-> k, a |-> a, b |-> b]

SmallTables == {{Row("k1", Null, "x"), Row("k2", "x", "long"), Row("k3", "x", "x")}}

SmallOthers ==
  {[op |-> "update", pk |-> [id |-> "k1"], set |-> [a |-> "long"], expect |-> None],
   [op |-> "delete", pk |-> [id |-> "k2"], expect |-> None]}

SmallLines == {Row("k4", "x", "x"), Row(Blank, Blank, "x"), Row("k1", "long", Blank)}
=============================================================================
