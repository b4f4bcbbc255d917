--------------------------- MODULE MCSessionTasks ---------------------------
(* The model-checking instance of SessionTasks: the writes are              *)
(* interchangeable model values.                                            *)
EXTENDS SessionTasks, TLC

Symmetry == Permutations(Writes)
=============================================================================
