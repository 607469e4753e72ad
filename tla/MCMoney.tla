------------------------------ MODULE MCMoney ------------------------------
(***************************************************************************)
(* Small instances of Money.  The requests at the desk with the most states  *)
(* are interchangeable.                                                      *)
(***************************************************************************)
EXTENDS Money, TLC

Symmetry == Permutations(Callers)
=============================================================================
