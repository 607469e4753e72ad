--------------------------- MODULE DepositLedger ---------------------------
(***************************************************************************)
(* What a security deposit is: money collected once from a client, of which  *)
(* some is given back, some is kept, and the rest is held.                   *)
(***************************************************************************)
EXTENDS Naturals

CONSTANTS Contracts, Amounts

VARIABLES held, back, kept

ledger == <<held, back, kept>>

Init ==
    /\ held = [c \in Contracts |-> 0]
    /\ back = [c \in Contracts |-> 0]
    /\ kept = [c \in Contracts |-> 0]

Collect(c, a) ==
    /\ held[c] + back[c] + kept[c] = 0
    /\ held' = [held EXCEPT ![c] = a]
    /\ UNCHANGED <<back, kept>>

GiveBack(c, n) ==
    /\ n <= held[c]
    /\ held' = [held EXCEPT ![c] = held[c] - n]
    /\ back' = [back EXCEPT ![c] = back[c] + n]
    /\ UNCHANGED kept

Keep(c, n) ==
    /\ n <= held[c]
    /\ held' = [held EXCEPT ![c] = held[c] - n]
    /\ kept' = [kept EXCEPT ![c] = kept[c] + n]
    /\ UNCHANGED back

Next ==
    \E c \in Contracts, n \in Amounts : Collect(c, n) \/ GiveBack(c, n) \/ Keep(c, n)

Spec == Init /\ [][Next]_ledger
=============================================================================
