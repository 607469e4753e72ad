------------------------------ MODULE MCBrowser ------------------------------
(* Instances of Browser for TLC: tokens are interchangeable, and so are the    *)
(* two tabs of the first browser.                                              *)
EXTENDS Browser, TLC

CONSTANTS b1, b2, w1, w2, w3, acme, zeta

MCTabs == {<<b1, w1>>, <<b1, w2>>, <<b2, w3>>}

BrowserSymmetry == Permutations(Tokens) \cup Permutations({w1, w2}) \cup Permutations({acme, zeta})
=============================================================================
