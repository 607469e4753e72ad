----------------------------- MODULE MCSessions -----------------------------
(***************************************************************************)
(* Small instances of SessionRules.  Tokens are interchangeable, and so are  *)
(* the two tabs of the first browser; the second browser has one.            *)
(***************************************************************************)
EXTENDS SessionRules, TLC

CONSTANTS b1, b2, w1, w2, w3

MCTabs == {<<b1, w1>>, <<b1, w2>>, <<b2, w3>>}

Symmetry == Permutations(Tokens) \cup Permutations({w1, w2})
=============================================================================
