--------------------------- MODULE MCSubscription ---------------------------
(***************************************************************************)
(* Small instances of SubscriptionRules.  Events are interchangeable, and so *)
(* are requests.                                                             *)
(***************************************************************************)
EXTENDS SubscriptionRules, TLC

Symmetry == Permutations(Events) \cup Permutations(Requests)
=============================================================================
