---------------------------- MODULE DepositRules ----------------------------
(***************************************************************************)
(* When a deposit is a ledger.  The code locks nothing between the read and  *)
(* the write of a settlement, so two settlements of one deposit can pay out  *)
(* more than was collected.  What does hold depends on how users settle:     *)
(* a behaviour keeps one rule from its beginning to its end.                 *)
(***************************************************************************)
EXTENDS Deposits

VARIABLE rule

\* "none": any interleaving, what the code allows; "serial": settlements of one
\* deposit come one after the other, and everything else interleaves.
Rules == {"none", "serial"}

OneAtATime ==
    \A p, q \in Requests :
        (p # q /\ req[p].op = "settle" /\ req[q].op = "settle")
            => req[p].contract # req[q].contract

RuledInit == Init /\ rule \in Rules

RuledNext ==
    /\ Next
    /\ rule = "serial" => OneAtATime'
    /\ UNCHANGED rule

RuledSpec == RuledInit /\ [][RuledNext]_<<vars, rule>>

-----------------------------------------------------------------------------
\* deposits.service.ts: `Cannot refund ..., only ... remaining`.  One settlement at
\* a time, the client and the company together never get more than was collected.
NeverOverdrawn ==
    rule = "serial" =>
        \A c \in Contracts : deposit[c].refunded + deposit[c].consumed <= deposit[c].amount

\* One settlement at a time, the status and the settlement date tell what became
\* of the money: HELD while nothing was refunded and something is left, REFUNDED
\* and CONSUMED when nothing is left, PARTIAL_REFUND when some was refunded;
\* settled exactly when nothing is left.
StatusTellsLedger ==
    rule = "serial" =>
        \A c \in Contracts :
            LET row == deposit[c]
            IN  row.status # "ABSENT" =>
                    /\ row.settled <=> Remaining(row) = 0
                    /\ row.status = "HELD" => row.refunded = 0 /\ Remaining(row) > 0
                    /\ row.status = "REFUNDED" => row.refunded > 0 /\ Remaining(row) = 0
                    /\ row.status = "CONSUMED" => row.consumed = row.amount
                    /\ row.status = "PARTIAL_REFUND" => row.refunded > 0

\* The ledger of the contracts whose users keep the rule; of the others nothing
\* is claimed, and their ledger stays empty.
InLedger(n) == IF rule = "serial" THEN n ELSE 0

Ledger == INSTANCE DepositLedger WITH
    held <- [c \in Contracts |-> InLedger(Remaining(deposit[c]))],
    back <- [c \in Contracts |-> InLedger(deposit[c].refunded)],
    kept <- [c \in Contracts |-> InLedger(deposit[c].consumed)]

\* One settlement at a time, the three amount columns are a ledger: every cent
\* collected is held, given back or kept, and moves once.
ImplementsLedger == Ledger!Spec
=============================================================================
