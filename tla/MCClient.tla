------------------------------ MODULE MCClient ------------------------------
(* The model-checking instance of Client.  The connections could be         *)
(* permuted, but symmetry is left out: EveryRequestSettles is a liveness     *)
(* property, for which it is not sound.                                      *)
EXTENDS Client

CONSTANTS a, b
=============================================================================
