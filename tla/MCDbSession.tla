---------------------------- MODULE MCDbSession ----------------------------
(* The model-checking instance of DbSession: the writes are interchangeable *)
(* model values.                                                            *)
EXTENDS DbSession, TLC

Symmetry == Permutations(Writes)
=============================================================================
