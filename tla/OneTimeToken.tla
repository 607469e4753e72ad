---------------------------- MODULE OneTimeToken ----------------------------
(***************************************************************************)
(* What rotation promises: each login has a chain of tokens of which one is  *)
(* good at a time.  Exchanging it makes another one good, never one that was *)
(* good before.                                                             *)
(***************************************************************************)
CONSTANTS Logins, Tokens, None

VARIABLES
    good,    \* good[l]: the token of l that can be exchanged, or None
    spent    \* spent[l]: the tokens of l that were good once

chain == <<good, spent>>

Init ==
    /\ good = [l \in Logins |-> None]
    /\ spent = [l \in Logins |-> {}]

Begin(l, t) ==
    /\ good[l] = None
    /\ t \notin spent[l]
    /\ good' = [good EXCEPT ![l] = t]
    /\ UNCHANGED spent

Exchange(l, t) ==
    /\ good[l] # None
    /\ t \notin spent[l] \cup {good[l]}
    /\ good' = [good EXCEPT ![l] = t]
    /\ spent' = [spent EXCEPT ![l] = spent[l] \cup {good[l]}]

\* Several logins of the user can end in one step.
End(ls) ==
    /\ ls # {}
    /\ \A l \in ls : good[l] # None
    /\ good' = [l \in Logins |-> IF l \in ls THEN None ELSE good[l]]
    /\ spent' = [l \in Logins |-> IF l \in ls THEN spent[l] \cup {good[l]} ELSE spent[l]]

Next ==
    \/ \E l \in Logins, t \in Tokens : Begin(l, t) \/ Exchange(l, t)
    \/ \E ls \in SUBSET Logins : End(ls)

Spec == Init /\ [][Next]_chain
=============================================================================
