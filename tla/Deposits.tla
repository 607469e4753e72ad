------------------------------ MODULE Deposits ------------------------------
(***************************************************************************)
(* DepositsService: the security deposit of a rental contract.  It is        *)
(* collected once and then refunded or consumed, wholly or in parts.         *)
(*                                                                         *)
(* Every settlement reads the row, computes the new amounts from what it     *)
(* read, and writes them as absolute values in a second statement.  Two      *)
(* settlements of one deposit can both read before either writes.  Amounts   *)
(* are whole cents.                                                          *)
(***************************************************************************)
EXTENDS Naturals, Integers

CONSTANTS
    Contracts,   \* the contracts deposits are for
    Requests,    \* requests that can be in flight together
    MaxAmount,   \* bound: the largest deposit, in cents
    None         \* a column an update leaves alone; an absent amount

DepositStatus == {"HELD", "REFUNDED", "PARTIAL_REFUND", "CONSUMED"}

ASSUME DepositAssumption ==
    /\ MaxAmount \in Nat
    /\ None \notin Contracts \cup Int \cup BOOLEAN \cup DepositStatus

VARIABLES
    deposit,     \* deposit[c]: the row of contract c, "ABSENT" until collected
    req          \* req[q]: the write a request is about to make, or Idle

vars == <<deposit, req>>

Amounts == 1..MaxAmount

DepositRow == [status : DepositStatus \cup {"ABSENT"}, amount : Nat,
               refunded : Nat, consumed : Nat, settled : BOOLEAN]

\* The columns an update writes.
Data == [status : DepositStatus \cup {None}, refunded : Nat \cup {None},
         consumed : Nat \cup {None}, settled : BOOLEAN \cup {None}]

\* The data of a refund and of a consumption: None for a column left alone.
Refunding(status, refunded, settled) ==
    [status |-> status, refunded |-> refunded, consumed |-> None, settled |-> settled]

Consuming(status, consumed, settled) ==
    [status |-> status, refunded |-> None, consumed |-> consumed, settled |-> settled]

NoData == [status |-> None, refunded |-> None, consumed |-> None, settled |-> None]

Request == [op : {"none", "collect", "settle"}, contract : Contracts \cup {None},
            amount : Amounts \cup {None}, data : Data]

Idle == [op |-> "none", contract |-> None, amount |-> None, data |-> NoData]

NoDeposit == [status |-> "ABSENT", amount |-> 0, refunded |-> 0, consumed |-> 0,
              settled |-> FALSE]

Init ==
    /\ deposit = [c \in Contracts |-> NoDeposit]
    /\ req = [q \in Requests |-> Idle]

-----------------------------------------------------------------------------

\* findFirst found no deposit of the contract.
Collect(q, c, a) ==
    /\ req[q] = Idle
    /\ deposit[c].status = "ABSENT"
    /\ req' = [req EXCEPT ![q] = [op |-> "collect", contract |-> c, amount |-> a,
                                  data |-> NoData]]
    /\ UNCHANGED deposit

\* The column contractId is unique: the insert succeeds only for the first.
InsertDeposit(q) ==
    /\ req[q].op = "collect"
    /\ deposit[req[q].contract].status = "ABSENT"
    /\ deposit' = [deposit EXCEPT ![req[q].contract] =
                        [status |-> "HELD", amount |-> req[q].amount, refunded |-> 0,
                         consumed |-> 0, settled |-> FALSE]]
    /\ req' = [req EXCEPT ![q] = Idle]

\* Mutant: what was consumed is forgotten.
NotRefunded(row) == row.amount - row.refunded

Remaining(row) == row.amount - row.refunded - row.consumed

\* A settlement has read an open deposit and computed what it will write.
Settle(q, c, data) ==
    /\ req[q] = Idle
    /\ deposit[c].status \in {"HELD", "PARTIAL_REFUND"}
    /\ req' = [req EXCEPT ![q] = [op |-> "settle", contract |-> c, amount |-> None,
                                  data |-> data]]
    /\ UNCHANGED deposit

RefundFull(q, c) ==
    /\ Remaining(deposit[c]) > 0
    /\ Settle(q, c, Refunding("REFUNDED", deposit[c].refunded + Remaining(deposit[c]), TRUE))

\* Mutant: the amount is not compared with what remains.
RefundPartialUnchecked(q, c, n) ==
    LET last == n >= Remaining(deposit[c])
    IN  Settle(q, c, Refunding(IF last THEN "REFUNDED" ELSE "PARTIAL_REFUND",
                               deposit[c].refunded + n, last \/ deposit[c].settled))

\* A partial refund of all that remains settles the deposit; otherwise it
\* writes back the settlement columns it has read.
RefundPartial(q, c, n) ==
    LET last == n = Remaining(deposit[c])
    IN  /\ n <= Remaining(deposit[c])
        /\ Settle(q, c, Refunding(IF last THEN "REFUNDED" ELSE "PARTIAL_REFUND",
                                  deposit[c].refunded + n, last \/ deposit[c].settled))

\* Mutant: the refunds before are not asked for.
ConsumedStatusOfCall(row, n) == IF n < Remaining(row) THEN None ELSE "REFUNDED"

\* Mutant: a status of its own, which the enum does not have.
ConsumedStatusPartial(row, n) == IF n < Remaining(row) THEN "PARTIAL" ELSE "CONSUMED"

\* The status a consumption of n leaves, of what remains at most: one that
\* leaves something held writes no status, so a deposit partly consumed is still
\* HELD, or PARTIAL_REFUND.
ConsumedStatus(row, n) ==
    IF n < Remaining(row) THEN None
    ELSE IF row.refunded = 0 THEN "CONSUMED" ELSE "PARTIAL_REFUND"

\* Mutant: a consumption without an amount keeps the whole deposit.
ConsumeCollected(q, c, n) ==
    LET kept == IF n = None THEN deposit[c].amount ELSE n
    IN  Settle(q, c, Consuming(ConsumedStatus(deposit[c], kept), deposit[c].consumed + kept,
                               IF kept >= Remaining(deposit[c]) THEN TRUE ELSE None))

\* Without an amount n, all that remains.
Consume(q, c, n) ==
    LET kept == IF n = None THEN Remaining(deposit[c]) ELSE n
    IN  /\ 0 < kept /\ kept <= Remaining(deposit[c])
        /\ Settle(q, c, Consuming(ConsumedStatus(deposit[c], kept), deposit[c].consumed + kept,
                                  IF kept = Remaining(deposit[c]) THEN TRUE ELSE None))

\* An update leaves the columns it does not name.
Given(new, old) == IF new = None THEN old ELSE new

Updated(row, data) ==
    [status |-> Given(data.status, row.status),
     amount |-> row.amount,
     refunded |-> Given(data.refunded, row.refunded),
     consumed |-> Given(data.consumed, row.consumed),
     settled |-> Given(data.settled, row.settled)]

\* The row is updated by its id, whatever it holds by now.
WriteSettlement(q) ==
    /\ req[q].op = "settle"
    /\ deposit' = [deposit EXCEPT ![req[q].contract] =
                        Updated(deposit[req[q].contract], req[q].data)]
    /\ req' = [req EXCEPT ![q] = Idle]

\* The statement fails, the connection is lost, the server restarts, two
\* collections drew one number, or the contract got its deposit meanwhile.
Abort(q) ==
    /\ req[q] # Idle
    /\ req' = [req EXCEPT ![q] = Idle]
    /\ UNCHANGED deposit

Settlement(q, c) ==
    \/ RefundFull(q, c)
    \/ \E n \in Amounts : RefundPartial(q, c, n)
    \/ \E n \in Amounts \cup {None} : Consume(q, c, n)

Next ==
    \E q \in Requests :
        \/ \E c \in Contracts, a \in Amounts : Collect(q, c, a)
        \/ InsertDeposit(q)
        \/ \E c \in Contracts : Settlement(q, c)
        \/ WriteSettlement(q)
        \/ Abort(q)

Spec == Init /\ [][Next]_vars

-----------------------------------------------------------------------------
\* Every column and request holds a value of its type.
TypeOK ==
    /\ deposit \in [Contracts -> DepositRow]
    /\ req \in [Requests -> Request]

\* However settlements race, neither what is refunded nor what is consumed
\* exceeds, on its own, what was collected.
EachWithinDeposit ==
    \A c \in Contracts : /\ deposit[c].refunded <= deposit[c].amount
                         /\ deposit[c].consumed <= deposit[c].amount
=============================================================================
