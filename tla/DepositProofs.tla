---------------------------- MODULE DepositProofs ----------------------------
(***************************************************************************)
(* Proofs about the deposits, for any number of contracts and requests and   *)
(* any amounts: what holds however settlements race, and that deposits whose *)
(* settlements come one after the other are a ledger.                        *)
(***************************************************************************)
EXTENDS DepositRules, TLAPS

\* What a settlement writes over the row it has read: n cents of what remains
\* are given back, or kept.
Moves(row, data) ==
    \/ \E n \in 1..Remaining(row) : data.refunded = row.refunded + n /\ data.consumed = None
    \/ \E n \in 1..Remaining(row) : data.consumed = row.consumed + n /\ data.refunded = None

\* A row before and after its collection.
RowInv(row) ==
    /\ row.amount <= MaxAmount
    /\ row.refunded <= row.amount
    /\ row.consumed <= row.amount
    /\ row.status = "ABSENT" => row.amount = 0

\* A request that settles will write amounts within the deposit it has read;
\* the deposit is never collected anew, so they stay within it.
RequestInv(call) ==
    /\ call.op = "collect" => call.contract \in Contracts /\ call.amount \in Amounts
    /\ call.op = "settle" =>
            /\ call.contract \in Contracts
            /\ deposit[call.contract].status # "ABSENT"
            /\ call.data.refunded # None =>
                    call.data.refunded <= deposit[call.contract].amount
            /\ call.data.consumed # None =>
                    call.data.consumed <= deposit[call.contract].amount

RaceInv ==
    /\ TypeOK
    /\ \A c \in Contracts : RowInv(deposit[c])
    /\ \A q \in Requests : RequestInv(req[q])

\* One settlement at a time, what a request has read is still there.
SerialInv ==
    rule = "serial" =>
        /\ OneAtATime
        /\ \A c \in Contracts : deposit[c].refunded + deposit[c].consumed <= deposit[c].amount
        /\ \A q \in Requests : req[q].op = "settle" =>
                Moves(deposit[req[q].contract], req[q].data)

-----------------------------------------------------------------------------
\* The status a consumption writes is one of the enum, or none.
LEMMA ConsumedStatusType ==
    ASSUME NEW row, NEW n PROVE ConsumedStatus(row, n) \in DepositStatus \cup {None}
BY DEF ConsumedStatus, DepositStatus

\* Every settlement reads a deposit that is open and moves some of what remains.
LEMMA SettlementMoves ==
    ASSUME TypeOK, NEW q \in Requests, NEW c \in Contracts, Settlement(q, c)
    PROVE  \E data \in Data : Settle(q, c, data) /\ Moves(deposit[c], data)
<1> DEFINE row == deposit[c]
<1>0. /\ row.refunded \in Nat /\ row.consumed \in Nat
      /\ row.settled \in BOOLEAN /\ Remaining(row) \in Int
    BY DEF TypeOK, DepositRow, Remaining
<1>1. CASE RefundFull(q, c)
    <2> DEFINE data == Refunding("REFUNDED", row.refunded + Remaining(row), TRUE)
    <2>a. Settle(q, c, data) /\ Remaining(row) > 0
        BY <1>1 DEF RefundFull
    <2>1. Remaining(row) \in 1..Remaining(row)
        BY <1>0, <2>a
    <2>2. data \in Data
        BY <1>0, <2>1 DEF Data, Refunding, DepositStatus
    <2>3. Moves(row, data)
        BY <2>1 DEF Moves, Refunding
    <2> QED
        BY <2>a, <2>2, <2>3
<1>2. ASSUME NEW n \in Amounts, RefundPartial(q, c, n)
      PROVE  \E data \in Data : Settle(q, c, data) /\ Moves(deposit[c], data)
    <2> DEFINE last == n = Remaining(row)
    <2> DEFINE data == Refunding(IF last THEN "REFUNDED" ELSE "PARTIAL_REFUND",
                                 row.refunded + n, last \/ row.settled)
    <2>a. Settle(q, c, data) /\ n <= Remaining(row)
        BY <1>2 DEF RefundPartial
    <2>1. n \in 1..Remaining(row)
        BY <1>0, <2>a, DepositAssumption DEF Amounts
    <2>2. (last \/ row.settled) \in BOOLEAN
        BY <1>0
    <2>3. data \in Data
        BY <1>0, <2>1, <2>2, DepositAssumption DEF Data, Refunding, DepositStatus, Amounts
    <2>4. Moves(row, data)
        BY <2>1 DEF Moves, Refunding
    <2> QED
        BY <2>a, <2>3, <2>4
<1>3. ASSUME NEW n \in Amounts \cup {None}, Consume(q, c, n)
      PROVE  \E data \in Data : Settle(q, c, data) /\ Moves(deposit[c], data)
    <2> DEFINE k == IF n = None THEN Remaining(row) ELSE n
    <2> DEFINE data == Consuming(ConsumedStatus(row, k), row.consumed + k,
                                 IF k = Remaining(row) THEN TRUE ELSE None)
    <2>a. Settle(q, c, data) /\ 0 < k /\ k <= Remaining(row)
        BY <1>3 DEF Consume
    <2>1. k \in 1..Remaining(row)
        BY <1>0, <2>a, DepositAssumption DEF Amounts
    <2>2. data \in Data
        BY <1>0, <2>1, ConsumedStatusType DEF Data, Consuming
    <2>3. Moves(row, data)
        BY <2>1 DEF Moves, Consuming
    <2> QED
        BY <2>a, <2>2, <2>3
<1> QED
    BY <1>1, <1>2, <1>3 DEF Settlement

-----------------------------------------------------------------------------
\* What each kind of step does to the rows and the requests.

LEMMA IdleType == Idle \in Request /\ NoData \in Data
    BY DEF Idle, Request, NoData, Data

\* A settlement that has read stays within the deposit and changes no row.
LEMMA SettlementRace ==
    ASSUME RaceInv, NEW q \in Requests, NEW c \in Contracts, Settlement(q, c)
    PROVE  RaceInv'
<1>1. PICK data \in Data : Settle(q, c, data) /\ Moves(deposit[c], data)
    BY SettlementMoves DEF RaceInv
<1> DEFINE call == [op |-> "settle", contract |-> c, amount |-> None, data |-> data]
<1>2. /\ deposit' = deposit /\ req' = [req EXCEPT ![q] = call]
      /\ deposit[c].status # "ABSENT"
    BY <1>1 DEF Settle
<1>3. call \in Request
    BY DEF Request
<1>4. TypeOK'
    BY <1>2, <1>3 DEF RaceInv, TypeOK
<1>5. /\ deposit[c].refunded \in Nat /\ deposit[c].consumed \in Nat
      /\ deposit[c].amount \in Nat /\ deposit[c].refunded <= deposit[c].amount
      /\ deposit[c].consumed <= deposit[c].amount
    BY DEF RaceInv, TypeOK, DepositRow, RowInv
<1>6. /\ data.refunded # None => data.refunded <= deposit[c].amount
      /\ data.consumed # None => data.consumed <= deposit[c].amount
    BY <1>1, <1>5 DEF Moves, Remaining
<1>7. RequestInv(call)
    BY <1>2, <1>6 DEF RequestInv
<1>8. ASSUME NEW p \in Requests PROVE RequestInv(req[p])'
    BY <1>2, <1>7 DEF RaceInv, RequestInv, TypeOK
<1> QED
    BY <1>2, <1>4, <1>8 DEF RaceInv

\* Collecting, inserting, writing and aborting keep what holds in any race.
LEMMA CollectRace ==
    ASSUME RaceInv, NEW q \in Requests, NEW c \in Contracts, NEW a \in Amounts,
           Collect(q, c, a)
    PROVE  RaceInv'
<1> DEFINE call == [op |-> "collect", contract |-> c, amount |-> a, data |-> NoData]
<1>1. deposit' = deposit /\ req' = [req EXCEPT ![q] = call]
    BY DEF Collect
<1>2. call \in Request
    BY IdleType DEF Request
<1>3. TypeOK'
    BY <1>1, <1>2 DEF RaceInv, TypeOK
<1>4. RequestInv(call)
    BY DEF RequestInv
<1>5. ASSUME NEW p \in Requests PROVE RequestInv(req[p])'
    BY <1>1, <1>4 DEF RaceInv, RequestInv, TypeOK
<1> QED
    BY <1>1, <1>3, <1>5 DEF RaceInv

LEMMA InsertRace ==
    ASSUME RaceInv, NEW q \in Requests, InsertDeposit(q)
    PROVE  RaceInv'
<1> DEFINE c == req[q].contract
<1> DEFINE row == [status |-> "HELD", amount |-> req[q].amount, refunded |-> 0,
                   consumed |-> 0, settled |-> FALSE]
<1>1. /\ deposit' = [deposit EXCEPT ![c] = row] /\ req' = [req EXCEPT ![q] = Idle]
      /\ deposit[c].status = "ABSENT" /\ req[q].op = "collect"
    BY DEF InsertDeposit
<1>2. c \in Contracts /\ req[q].amount \in Nat /\ req[q].amount <= MaxAmount
    BY <1>1, DepositAssumption DEF RaceInv, RequestInv, Amounts
<1>3. row \in DepositRow /\ RowInv(row)
    BY <1>2 DEF DepositRow, DepositStatus, RowInv
<1>4. TypeOK'
    BY <1>1, <1>3, IdleType DEF RaceInv, TypeOK
<1>5. ASSUME NEW d \in Contracts PROVE RowInv(deposit[d])'
    BY <1>1, <1>3 DEF RaceInv, RowInv, TypeOK
<1>6. ASSUME NEW p \in Requests PROVE RequestInv(req[p])'
    <2>1. CASE p = q
        BY <1>1, <2>1 DEF RequestInv, RaceInv, TypeOK, Idle
    <2>2. CASE p # q
        <3>1. req'[p] = req[p] /\ RequestInv(req[p])
            BY <1>1, <2>2 DEF RaceInv, TypeOK
        <3>2. req[p].op = "settle" => req[p].contract # c
            BY <1>1, <3>1 DEF RequestInv
        <3> QED
            BY <1>1, <3>1, <3>2 DEF RequestInv, RaceInv, TypeOK
    <2> QED
        BY <2>1, <2>2
<1> QED
    BY <1>4, <1>5, <1>6 DEF RaceInv

LEMMA WriteRace ==
    ASSUME RaceInv, NEW q \in Requests, WriteSettlement(q)
    PROVE  RaceInv'
<1> DEFINE c == req[q].contract
<1> DEFINE row == Updated(deposit[c], req[q].data)
<1>1. /\ deposit' = [deposit EXCEPT ![c] = row] /\ req' = [req EXCEPT ![q] = Idle]
      /\ req[q].op = "settle"
    BY DEF WriteSettlement
<1>2. /\ c \in Contracts /\ deposit[c] \in DepositRow /\ req[q].data \in Data
      /\ RowInv(deposit[c]) /\ RequestInv(req[q])
    BY <1>1 DEF RaceInv, TypeOK, Request, RequestInv
<1>3. row \in DepositRow
    BY <1>2 DEF DepositRow, Data, Updated, Given
<1>4. row.amount = deposit[c].amount /\ row.status # "ABSENT"
    BY <1>1, <1>2 DEF Updated, Given, RequestInv, Data, DepositStatus
<1>5. RowInv(row)
    BY <1>1, <1>2, <1>4 DEF RowInv, Updated, Given, RequestInv
<1>6. TypeOK'
    BY <1>1, <1>3, IdleType DEF RaceInv, TypeOK
<1>7. ASSUME NEW d \in Contracts PROVE RowInv(deposit[d])'
    BY <1>1, <1>5 DEF RaceInv, RowInv, TypeOK
<1>8. ASSUME NEW p \in Requests PROVE RequestInv(req[p])'
    <2>1. CASE p = q
        BY <1>1, <2>1 DEF RequestInv, RaceInv, TypeOK, Idle
    <2>2. CASE p # q
        <3>1. req'[p] = req[p] /\ RequestInv(req[p])
            BY <1>1, <2>2 DEF RaceInv, TypeOK
        <3> QED
            BY <1>1, <1>4, <3>1 DEF RequestInv, RaceInv, TypeOK
    <2> QED
        BY <2>1, <2>2
<1> QED
    BY <1>6, <1>7, <1>8 DEF RaceInv

LEMMA AbortRace ==
    ASSUME RaceInv, NEW q \in Requests, Abort(q)
    PROVE  RaceInv'
<1>1. deposit' = deposit /\ req' = [req EXCEPT ![q] = Idle]
    BY DEF Abort
<1>2. TypeOK'
    BY <1>1, IdleType DEF RaceInv, TypeOK
<1>3. ASSUME NEW p \in Requests PROVE RequestInv(req[p])'
    BY <1>1 DEF RaceInv, RequestInv, TypeOK, Idle
<1> QED
    BY <1>1, <1>2, <1>3 DEF RaceInv

LEMMA RaceStep == RaceInv /\ [RuledNext]_<<vars, rule>> => RaceInv'
<1> SUFFICES ASSUME RaceInv, [RuledNext]_<<vars, rule>> PROVE RaceInv'
    OBVIOUS
<1>1. CASE UNCHANGED <<vars, rule>>
    BY <1>1 DEF vars, RaceInv, TypeOK, RowInv, RequestInv
<1>2. CASE Next
    <2>1. PICK q \in Requests :
            \/ \E c \in Contracts, a \in Amounts : Collect(q, c, a)
            \/ InsertDeposit(q)
            \/ \E c \in Contracts : Settlement(q, c)
            \/ WriteSettlement(q)
            \/ Abort(q)
        BY <1>2 DEF Next
    <2> QED
        BY <2>1, CollectRace, InsertRace, SettlementRace, WriteRace, AbortRace
<1> QED
    BY <1>1, <1>2 DEF RuledNext

LEMMA RaceInit == RuledInit => RaceInv
<1> SUFFICES ASSUME Init PROVE RaceInv
    BY DEF RuledInit
<1>1. NoDeposit \in DepositRow /\ RowInv(NoDeposit)
    BY DepositAssumption DEF NoDeposit, DepositRow, RowInv
<1>2. TypeOK
    BY <1>1, IdleType DEF Init, TypeOK
<1>3. \A q \in Requests : RequestInv(req[q])
    BY DEF Init, RequestInv, Idle
<1> QED
    BY <1>1, <1>2, <1>3 DEF RaceInv, Init

\* Every column and request holds a value of its type, for any number of
\* contracts and requests.
THEOREM TypeCorrect == RuledSpec => []TypeOK
<1>1. RaceInv => TypeOK
    BY DEF RaceInv
<1> QED
    BY <1>1, RaceInit, RaceStep, PTL DEF RuledSpec

\* However settlements race, each amount column stays within the deposit.
THEOREM WithinDeposit == RuledSpec => []EachWithinDeposit
<1>1. RaceInv => EachWithinDeposit
    BY DEF RaceInv, RowInv, EachWithinDeposit
<1> QED
    BY <1>1, RaceInit, RaceStep, PTL DEF RuledSpec

-----------------------------------------------------------------------------
\* One settlement at a time.

\* What a settlement in flight will write moves some of what remains now.
LEMMA WriteMoves ==
    ASSUME RaceInv, SerialInv, rule = "serial", NEW q \in Requests, WriteSettlement(q)
    PROVE  LET c == req[q].contract
               row == deposit[c]
           IN  /\ c \in Contracts
               /\ req' = [req EXCEPT ![q] = Idle]
               /\ \E n \in Amounts :
                    /\ n <= Remaining(row)
                    /\ \E new \in DepositRow :
                        /\ deposit' = [deposit EXCEPT ![c] = new]
                        /\ new.amount = row.amount
                        /\ \/ new.refunded = row.refunded + n /\ new.consumed = row.consumed
                           \/ new.consumed = row.consumed + n /\ new.refunded = row.refunded
<1> DEFINE c == req[q].contract
<1> DEFINE row == deposit[c]
<1> DEFINE new == Updated(row, req[q].data)
<1>1. /\ deposit' = [deposit EXCEPT ![c] = new] /\ req' = [req EXCEPT ![q] = Idle]
      /\ req[q].op = "settle"
    BY DEF WriteSettlement
<1>2. /\ c \in Contracts /\ row \in DepositRow /\ req[q].data \in Data
      /\ RowInv(row) /\ Moves(row, req[q].data)
    BY <1>1 DEF RaceInv, TypeOK, Request, RequestInv, SerialInv
<1>3. new \in DepositRow /\ new.amount = row.amount
    BY <1>2 DEF DepositRow, Data, Updated, Given
<1>4. Remaining(row) \in Int /\ Remaining(row) <= MaxAmount
    BY <1>2, DepositAssumption DEF DepositRow, RowInv, Remaining
<1>5. ASSUME NEW n \in 1..Remaining(row) PROVE n \in Amounts /\ n <= Remaining(row)
    BY <1>4, DepositAssumption DEF Amounts
<1>6. \E n \in 1..Remaining(row) :
        \/ new.refunded = row.refunded + n /\ new.consumed = row.consumed
        \/ new.consumed = row.consumed + n /\ new.refunded = row.refunded
    <2>1. \A n \in 1..Remaining(row) : row.refunded + n # None /\ row.consumed + n # None
        BY <1>2, DepositAssumption DEF DepositRow
    <2> QED
        BY <1>2, <2>1 DEF Moves, Updated, Given
<1> QED
    BY <1>1, <1>2, <1>3, <1>5, <1>6

LEMMA SerialStep ==
    RaceInv /\ SerialInv /\ [RuledNext]_<<vars, rule>> => SerialInv'
<1> SUFFICES ASSUME RaceInv, SerialInv, [RuledNext]_<<vars, rule>>, rule' = "serial"
             PROVE  SerialInv'
    BY DEF SerialInv
<1>1. CASE UNCHANGED <<vars, rule>>
    BY <1>1 DEF vars, SerialInv, OneAtATime, Moves
<1>2. CASE RuledNext
    <2>1. rule = "serial" /\ Next /\ OneAtATime'
        BY <1>2 DEF RuledNext
    <2>2. /\ \A c \in Contracts :
                deposit[c].refunded + deposit[c].consumed <= deposit[c].amount
          /\ \A q \in Requests : req[q].op = "settle" =>
                Moves(deposit[req[q].contract], req[q].data)
          /\ OneAtATime
        BY <2>1 DEF SerialInv
    <2> DEFINE Sums == \A c \in Contracts :
                deposit[c].refunded + deposit[c].consumed <= deposit[c].amount
    <2> DEFINE Fresh == \A p \in Requests : req[p].op = "settle" =>
                Moves(deposit[req[p].contract], req[p].data)
    <2> SUFFICES Sums' /\ Fresh'
        BY <2>1 DEF SerialInv
    <2>3. ASSUME NEW q \in Requests, NEW c \in Contracts, NEW a \in Amounts,
                 Collect(q, c, a)
          PROVE  Sums' /\ Fresh'
        BY <2>2, <2>3 DEF Collect, RaceInv, TypeOK
    <2>4. ASSUME NEW q \in Requests, InsertDeposit(q) PROVE Sums' /\ Fresh'
        <3>1. Sums'
            BY <2>2, <2>4, DepositAssumption
            DEF InsertDeposit, RaceInv, TypeOK, RequestInv, Amounts
        <3>2. ASSUME NEW p \in Requests, req'[p].op = "settle"
              PROVE  Moves(deposit[req[p].contract], req[p].data)'
            <4>1. p # q /\ req'[p] = req[p]
                BY <2>4, <3>2 DEF InsertDeposit, RaceInv, TypeOK, Idle
            <4>2. deposit'[req[p].contract] = deposit[req[p].contract]
                BY <2>4, <3>2, <4>1 DEF InsertDeposit, RaceInv, TypeOK, RequestInv
            <4> QED
                BY <2>2, <3>2, <4>1, <4>2 DEF Moves
        <3> QED
            BY <3>1, <3>2
    <2>5. ASSUME NEW q \in Requests, NEW c \in Contracts, Settlement(q, c)
          PROVE  Sums' /\ Fresh'
        <3>1. PICK data \in Data : Settle(q, c, data) /\ Moves(deposit[c], data)
            BY <2>5, SettlementMoves DEF RaceInv
        <3>2. Sums'
            BY <2>2, <3>1 DEF Settle
        <3>3. ASSUME NEW p \in Requests, req'[p].op = "settle"
              PROVE  Moves(deposit[req[p].contract], req[p].data)'
            <4>1. CASE p = q
                <5>1. req'[p].contract = c /\ req'[p].data = data /\ deposit' = deposit
                    BY <3>1, <4>1 DEF Settle, RaceInv, TypeOK
                <5> QED
                    BY <3>1, <5>1 DEF Moves
            <4>2. CASE p # q
                <5>1. req'[p] = req[p] /\ deposit' = deposit
                    BY <3>1, <4>2 DEF Settle, RaceInv, TypeOK
                <5> QED
                    BY <2>2, <3>3, <5>1 DEF Moves
            <4> QED
                BY <4>1, <4>2
        <3> QED
            BY <3>2, <3>3
    <2>6. ASSUME NEW q \in Requests, WriteSettlement(q) PROVE Sums' /\ Fresh'
        <3> DEFINE c == req[q].contract
        <3>1. c \in Contracts /\ req' = [req EXCEPT ![q] = Idle] /\ req[q].op = "settle"
            BY <2>1, <2>6, WriteMoves DEF WriteSettlement
        <3>2. PICK n \in Amounts, new \in DepositRow :
                /\ n <= Remaining(deposit[c])
                /\ deposit' = [deposit EXCEPT ![c] = new]
                /\ new.amount = deposit[c].amount
                /\ \/ new.refunded = deposit[c].refunded + n
                        /\ new.consumed = deposit[c].consumed
                   \/ new.consumed = deposit[c].consumed + n
                        /\ new.refunded = deposit[c].refunded
            BY <2>1, <2>6, WriteMoves
        <3>3. new.refunded + new.consumed <= new.amount
            BY <3>1, <3>2, DepositAssumption DEF Remaining, RaceInv, TypeOK, DepositRow, Amounts
        <3>4. Sums'
            BY <2>2, <3>1, <3>2, <3>3 DEF RaceInv, TypeOK
        <3>5. ASSUME NEW p \in Requests, req'[p].op = "settle"
              PROVE  Moves(deposit[req[p].contract], req[p].data)'
            <4>1. p # q /\ req'[p] = req[p]
                BY <3>1, <3>5 DEF RaceInv, TypeOK, Idle
            <4>2. req[p].contract # c
                BY <2>2, <3>1, <3>5, <4>1 DEF OneAtATime
            <4>3. deposit'[req[p].contract] = deposit[req[p].contract]
                BY <3>2, <3>5, <4>1, <4>2 DEF RaceInv, TypeOK, RequestInv
            <4> QED
                BY <2>2, <3>5, <4>1, <4>3 DEF Moves
        <3> QED
            BY <3>4, <3>5
    <2>7. ASSUME NEW q \in Requests, Abort(q) PROVE Sums' /\ Fresh'
        BY <2>2, <2>7 DEF Abort, RaceInv, TypeOK, Idle
    <2> QED
        BY <2>1, <2>3, <2>4, <2>5, <2>6, <2>7 DEF Next
<1> QED
    BY <1>1, <1>2

LEMMA SerialInit == RuledInit => SerialInv
<1> SUFFICES ASSUME Init PROVE SerialInv
    BY DEF RuledInit
<1> QED
    BY DEF Init, SerialInv, OneAtATime, NoDeposit, Idle

\* Deposits whose settlements come one after the other never pay out more than
\* was collected.
THEOREM NotOverdrawn == RuledSpec => []NeverOverdrawn
<1>1. RaceInv /\ SerialInv => NeverOverdrawn
    BY DEF SerialInv, NeverOverdrawn
<1> QED
    BY <1>1, RaceInit, RaceStep, SerialInit, SerialStep, PTL DEF RuledSpec

-----------------------------------------------------------------------------
\* What the status and the settlement date tell of the amounts.

\* The columns of one collected row agree.
Told(row) ==
    /\ row.settled <=> Remaining(row) = 0
    /\ row.status = "HELD" => row.refunded = 0 /\ Remaining(row) > 0
    /\ row.status = "REFUNDED" => row.refunded > 0 /\ Remaining(row) = 0
    /\ row.status = "CONSUMED" => row.consumed = row.amount
    /\ row.status = "PARTIAL_REFUND" => row.refunded > 0

\* One settlement at a time, they agree in every row, and in every row as the
\* settlement in flight will leave it.
ToldInv ==
    rule = "serial" =>
        /\ \A c \in Contracts : deposit[c].status # "ABSENT" => Told(deposit[c])
        /\ \A q \in Requests : req[q].op = "settle" =>
                Told(Updated(deposit[req[q].contract], req[q].data))

\* None is no value a column can hold.
LEMMA NoneIsNoValue ==
    /\ \A n \in Int : n # None
    /\ TRUE # None /\ FALSE # None
    /\ "REFUNDED" # None /\ "PARTIAL_REFUND" # None /\ "CONSUMED" # None
BY DepositAssumption DEF DepositStatus

\* A row after n cents of what remained moved agrees, if it is settled exactly
\* when nothing is left and its status fits.
LEMMA ToldAfter ==
    ASSUME NEW row, NEW new, NEW n \in Nat,
           row.amount \in Nat, row.refunded \in Nat, row.consumed \in Nat,
           0 < n, n <= Remaining(row), new.amount = row.amount,
           \/ new.refunded = row.refunded + n /\ new.consumed = row.consumed
                /\ \/ n = Remaining(row) /\ new.status = "REFUNDED"
                   \/ n # Remaining(row) /\ new.status = "PARTIAL_REFUND"
           \/ new.refunded = row.refunded /\ new.consumed = row.consumed + n
                /\ \/ n = Remaining(row) /\ row.refunded = 0 /\ new.status = "CONSUMED"
                   \/ row.refunded > 0 /\ new.status = "PARTIAL_REFUND"
                   \/ n < Remaining(row) /\ row.refunded = 0 /\ new.status = "HELD",
           n = Remaining(row) => new.settled = TRUE,
           n # Remaining(row) => new.settled = FALSE
    PROVE  Told(new)
<1>1. Remaining(row) = row.amount - row.refunded - row.consumed
    BY DEF Remaining
<1>2. Remaining(new) = Remaining(row) - n /\ Remaining(row) \in Int
    BY <1>1 DEF Remaining
<1>3. new.settled <=> Remaining(new) = 0
    BY <1>1, <1>2
<1>4. /\ new.status = "HELD" => new.refunded = 0 /\ Remaining(new) > 0
      /\ new.status = "REFUNDED" => new.refunded > 0 /\ Remaining(new) = 0
      /\ new.status = "CONSUMED" => new.consumed = new.amount
      /\ new.status = "PARTIAL_REFUND" => new.refunded > 0
    <2>1. CASE new.refunded = row.refunded + n /\ new.consumed = row.consumed
        BY <1>1, <1>2, <2>1
    <2>2. CASE new.refunded = row.refunded /\ new.consumed = row.consumed + n
        BY <1>1, <1>2, <2>2
    <2> QED
        BY <2>1, <2>2
<1> QED
    BY <1>3, <1>4 DEF Told

\* Each settlement computes, from a row that agrees, a row that agrees.
LEMMA SettlementTold ==
    ASSUME RaceInv, NEW q \in Requests, NEW c \in Contracts, Settlement(q, c),
           Told(deposit[c])
    PROVE  \E data : Settle(q, c, data) /\ Told(Updated(deposit[c], data))
<1> DEFINE row == deposit[c]
<1>0. /\ row.refunded \in Nat /\ row.consumed \in Nat /\ row.amount \in Nat
      /\ row.settled \in BOOLEAN /\ Remaining(row) \in Int
    BY DEF RaceInv, TypeOK, DepositRow, Remaining
<1>1. CASE RefundFull(q, c)
    <2> DEFINE data == Refunding("REFUNDED", row.refunded + Remaining(row), TRUE)
    <2> DEFINE new == Updated(row, data)
    <2>1. Settle(q, c, data) /\ Remaining(row) > 0
        BY <1>1 DEF RefundFull
    <2>2. /\ new.status = "REFUNDED" /\ new.amount = row.amount
          /\ new.refunded = row.refunded + Remaining(row) /\ new.consumed = row.consumed
          /\ new.settled = TRUE
        BY <1>0, NoneIsNoValue DEF Updated, Given, Refunding
    <2>3. Told(new)
        <3> HIDE DEF new, row
        <3>1. PICK n \in Nat : n = Remaining(row)
            BY <1>0, <2>1
        <3>2. 0 < n /\ n <= Remaining(row) /\ new.refunded = row.refunded + n
            BY <2>1, <2>2, <3>1
        <3> QED
            BY <1>0, <2>2, <3>1, <3>2, ToldAfter
    <2> QED
        BY <2>1, <2>3
<1>2. ASSUME NEW n \in Amounts, RefundPartial(q, c, n)
      PROVE  \E data : Settle(q, c, data) /\ Told(Updated(deposit[c], data))
    <2> DEFINE last == n = Remaining(row)
    <2> DEFINE data == Refunding(IF last THEN "REFUNDED" ELSE "PARTIAL_REFUND",
                                 row.refunded + n, last \/ row.settled)
    <2> DEFINE new == Updated(row, data)
    <2>1. Settle(q, c, data) /\ n <= Remaining(row) /\ n \in Nat /\ n > 0
        BY <1>2, DepositAssumption DEF RefundPartial, Amounts
    <2>2. row.settled = FALSE
        BY <1>0, <2>1 DEF Told
    <2>3. (last \/ row.settled) = last /\ last # None
        BY <2>2, NoneIsNoValue
    <2>4. /\ new.status = (IF last THEN "REFUNDED" ELSE "PARTIAL_REFUND")
          /\ new.amount = row.amount /\ new.refunded = row.refunded + n
          /\ new.consumed = row.consumed /\ new.settled = last
        BY <1>0, <2>1, <2>3, NoneIsNoValue DEF Updated, Given, Refunding
    <2>5. Told(new)
        <3> HIDE DEF new, row
        <3> QED
            BY <1>0, <2>1, <2>4, ToldAfter
    <2> QED
        BY <2>1, <2>5
<1>3. ASSUME NEW n \in Amounts \cup {None}, Consume(q, c, n)
      PROVE  \E data : Settle(q, c, data) /\ Told(Updated(deposit[c], data))
    <2> DEFINE k == IF n = None THEN Remaining(row) ELSE n
    <2> DEFINE all == k = Remaining(row)
    <2> DEFINE data == Consuming(ConsumedStatus(row, k), row.consumed + k,
                                 IF all THEN TRUE ELSE None)
    <2> DEFINE new == Updated(row, data)
    <2>1. /\ Settle(q, c, data) /\ 0 < k /\ k <= Remaining(row)
          /\ row.status \in {"HELD", "PARTIAL_REFUND"}
        BY <1>3 DEF Consume, Settle
    <2>2. k \in Nat
        BY <1>0, <1>3, <2>1, DepositAssumption DEF Amounts
    <2>3. /\ row.settled = FALSE
          /\ row.status = "HELD" => row.refunded = 0
          /\ row.status = "PARTIAL_REFUND" => row.refunded > 0
        BY <1>0, <2>1, <2>2 DEF Told
    <2>4. /\ new.status = Given(ConsumedStatus(row, k), row.status)
          /\ new.amount = row.amount /\ new.refunded = row.refunded
          /\ new.consumed = Given(row.consumed + k, row.consumed)
          /\ new.settled = Given(IF all THEN TRUE ELSE None, row.settled)
        BY DEF Updated, Consuming, Given
    <2>5. /\ new.consumed = row.consumed + k
          /\ all => new.settled = TRUE
          /\ ~all => new.settled = FALSE
        <3> HIDE DEF new, row, k
        <3>1. row.consumed + k # None
            BY <1>0, <2>2, NoneIsNoValue
        <3> QED
            BY <2>3, <2>4, <3>1, NoneIsNoValue DEF Given
    <2>6. \/ all /\ row.refunded = 0 /\ new.status = "CONSUMED"
          \/ row.refunded > 0 /\ new.status = "PARTIAL_REFUND"
          \/ k < Remaining(row) /\ row.refunded = 0 /\ new.status = "HELD"
        <3> HIDE DEF new, row, k
        <3>1. CASE k < Remaining(row)
            BY <1>0, <2>1, <2>2, <2>3, <2>4, <3>1 DEF Given, ConsumedStatus
        <3>2. CASE ~(k < Remaining(row))
            BY <1>0, <2>1, <2>2, <2>4, <3>2, NoneIsNoValue DEF Given, ConsumedStatus
        <3> QED
            BY <3>1, <3>2
    <2>7. Told(new)
        <3> HIDE DEF new, row, k
        <3> QED
            BY <1>0, <2>1, <2>2, <2>4, <2>5, <2>6, ToldAfter
    <2> QED
        BY <2>1, <2>7
<1> QED
    BY <1>1, <1>2, <1>3 DEF Settlement

LEMMA ToldStep ==
    RaceInv /\ SerialInv /\ ToldInv /\ [RuledNext]_<<vars, rule>> => ToldInv'
<1> SUFFICES ASSUME RaceInv, SerialInv, ToldInv, [RuledNext]_<<vars, rule>>,
                    rule' = "serial"
             PROVE  ToldInv'
    BY DEF ToldInv
<1>1. CASE UNCHANGED <<vars, rule>>
    BY <1>1 DEF vars, ToldInv
<1>2. CASE RuledNext
    <2> DEFINE Rows == \A c \in Contracts : deposit[c].status # "ABSENT" => Told(deposit[c])
    <2> DEFINE Writes == \A p \in Requests : req[p].op = "settle" =>
                Told(Updated(deposit[req[p].contract], req[p].data))
    <2>1. rule = "serial" /\ Next /\ Rows /\ Writes /\ OneAtATime
        BY <1>2 DEF RuledNext, ToldInv, SerialInv
    <2> SUFFICES Rows' /\ Writes'
        BY DEF ToldInv
    <2>3. ASSUME NEW q \in Requests, NEW c \in Contracts, NEW a \in Amounts,
                 Collect(q, c, a)
          PROVE  Rows' /\ Writes'
        BY <2>1, <2>3 DEF Collect, RaceInv, TypeOK
    <2>4. ASSUME NEW q \in Requests, InsertDeposit(q) PROVE Rows' /\ Writes'
        <3> DEFINE d == req[q].contract
        <3> DEFINE new == [status |-> "HELD", amount |-> req[q].amount, refunded |-> 0,
                           consumed |-> 0, settled |-> FALSE]
        <3>1. /\ deposit' = [deposit EXCEPT ![d] = new] /\ deposit[d].status = "ABSENT"
              /\ req' = [req EXCEPT ![q] = Idle]
              /\ req[q].amount \in Nat /\ req[q].amount > 0
            BY <2>4, DepositAssumption DEF InsertDeposit, RaceInv, RequestInv, Amounts
        <3>2. Told(new)
            BY <3>1 DEF Told, Remaining
        <3>3. Rows'
            BY <2>1, <3>1, <3>2 DEF RaceInv, TypeOK
        <3>4. ASSUME NEW p \in Requests, req'[p].op = "settle"
              PROVE  Told(Updated(deposit[req[p].contract], req[p].data))'
            <4>1. p # q /\ req'[p] = req[p]
                BY <3>1, <3>4 DEF RaceInv, TypeOK, Idle
            <4>2. deposit'[req[p].contract] = deposit[req[p].contract]
                BY <3>1, <3>4, <4>1 DEF RaceInv, TypeOK, RequestInv
            <4> QED
                BY <2>1, <3>4, <4>1, <4>2
        <3> QED
            BY <3>3, <3>4
    <2>5. ASSUME NEW q \in Requests, NEW c \in Contracts, Settlement(q, c)
          PROVE  Rows' /\ Writes'
        <3>1. deposit[c].status # "ABSENT"
            BY <2>5 DEF Settlement, RefundFull, RefundPartial, Consume, Settle
        <3>2. PICK data : Settle(q, c, data) /\ Told(Updated(deposit[c], data))
            BY <2>1, <2>5, <3>1, SettlementTold
        <3>3. deposit' = deposit /\ Rows'
            BY <2>1, <3>2 DEF Settle
        <3>4. ASSUME NEW p \in Requests, req'[p].op = "settle"
              PROVE  Told(Updated(deposit[req[p].contract], req[p].data))'
            <4>1. CASE p = q
                <5>1. req'[p].contract = c /\ req'[p].data = data
                    BY <3>2, <4>1 DEF Settle, RaceInv, TypeOK
                <5> QED
                    BY <3>2, <3>3, <5>1
            <4>2. CASE p # q
                <5>1. req'[p] = req[p]
                    BY <3>2, <4>2 DEF Settle, RaceInv, TypeOK
                <5> QED
                    BY <2>1, <3>3, <3>4, <5>1
            <4> QED
                BY <4>1, <4>2
        <3> QED
            BY <3>3, <3>4
    <2>6. ASSUME NEW q \in Requests, WriteSettlement(q) PROVE Rows' /\ Writes'
        <3> DEFINE d == req[q].contract
        <3>1. /\ req[q].op = "settle" /\ req' = [req EXCEPT ![q] = Idle]
              /\ deposit' = [deposit EXCEPT ![d] = Updated(deposit[d], req[q].data)]
            BY <2>6 DEF WriteSettlement
        <3>2. Told(Updated(deposit[d], req[q].data))
            BY <2>1, <3>1
        <3>3. Rows'
            BY <2>1, <3>1, <3>2 DEF RaceInv, TypeOK
        <3>4. ASSUME NEW p \in Requests, req'[p].op = "settle"
              PROVE  Told(Updated(deposit[req[p].contract], req[p].data))'
            <4>1. p # q /\ req'[p] = req[p]
                BY <3>1, <3>4 DEF RaceInv, TypeOK, Idle
            <4>2. req[p].contract # d
                BY <2>1, <3>1, <3>4, <4>1 DEF OneAtATime
            <4>3. deposit'[req[p].contract] = deposit[req[p].contract]
                BY <3>1, <3>4, <4>1, <4>2 DEF RaceInv, TypeOK, RequestInv
            <4> QED
                BY <2>1, <3>4, <4>1, <4>3
        <3> QED
            BY <3>3, <3>4
    <2>7. ASSUME NEW q \in Requests, Abort(q) PROVE Rows' /\ Writes'
        BY <2>1, <2>7 DEF Abort, RaceInv, TypeOK, Idle
    <2> QED
        BY <2>1, <2>3, <2>4, <2>5, <2>6, <2>7 DEF Next
<1> QED
    BY <1>1, <1>2

LEMMA ToldInit == RuledInit => ToldInv
    BY DEF RuledInit, Init, ToldInv, NoDeposit, Idle

\* Deposits settled one after the other tell by their status and settlement
\* date what became of the money.
THEOREM StatusTells == RuledSpec => []StatusTellsLedger
<1>1. ToldInv => StatusTellsLedger
    BY DEF ToldInv, Told, StatusTellsLedger
<1> QED
    BY <1>1, RaceInit, RaceStep, SerialInit, SerialStep, ToldInit, ToldStep, PTL
    DEF RuledSpec

-----------------------------------------------------------------------------
\* The three columns are a ledger.

LEMMA LedgerInit == RuledInit => Ledger!Init
    BY DEF RuledInit, Init, NoDeposit, Remaining, InLedger, Ledger!Init

\* Inserting a row collects its amount: nothing was held, refunded or consumed.
LEMMA InsertCollects ==
    ASSUME RaceInv, rule = "serial", rule' = rule, NEW q \in Requests, InsertDeposit(q)
    PROVE  Ledger!Next
<1> DEFINE c == req[q].contract
<1> DEFINE a == req[q].amount
<1>1. /\ c \in Contracts /\ a \in Amounts /\ a \in Nat
      /\ deposit[c].amount = 0 /\ deposit[c].refunded = 0 /\ deposit[c].consumed = 0
    BY DepositAssumption DEF InsertDeposit, RaceInv, TypeOK, DepositRow, RequestInv, RowInv, Amounts
<1>2. /\ deposit' = [deposit EXCEPT ![c] =
                [status |-> "HELD", amount |-> a, refunded |-> 0,
                 consumed |-> 0, settled |-> FALSE]]
      /\ deposit \in [Contracts -> DepositRow]
    BY DEF InsertDeposit, RaceInv, TypeOK
<1>3. ASSUME NEW d \in Contracts
      PROVE  /\ Remaining(deposit'[d]) = (IF d = c THEN a ELSE Remaining(deposit[d]))
             /\ deposit'[d].refunded = deposit[d].refunded
             /\ deposit'[d].consumed = deposit[d].consumed
    BY <1>1, <1>2 DEF Remaining
<1>4. Remaining(deposit[c]) = 0
    BY <1>1 DEF Remaining
<1>5. Ledger!Collect(c, a)
    BY <1>1, <1>3, <1>4 DEF Ledger!Collect, InLedger
<1> QED
    BY <1>1, <1>5 DEF Ledger!Next

\* Writing a settlement gives back or keeps some of what is held.
LEMMA WriteSettles ==
    ASSUME RaceInv, SerialInv, rule = "serial", rule' = rule, NEW q \in Requests,
           WriteSettlement(q)
    PROVE  Ledger!Next
<1> DEFINE c == req[q].contract
<1> DEFINE row == deposit[c]
<1>1. c \in Contracts /\ row \in DepositRow /\ deposit \in [Contracts -> DepositRow]
    BY WriteMoves DEF RaceInv, TypeOK
<1>2. PICK n \in Amounts, new \in DepositRow :
        /\ n <= Remaining(row)
        /\ deposit' = [deposit EXCEPT ![c] = new]
        /\ new.amount = row.amount
        /\ \/ new.refunded = row.refunded + n /\ new.consumed = row.consumed
           \/ new.consumed = row.consumed + n /\ new.refunded = row.refunded
    BY WriteMoves
<1>3. Remaining(new) = Remaining(row) - n
    BY <1>1, <1>2, DepositAssumption DEF Remaining, DepositRow, Amounts
<1>4. \A d \in Contracts : deposit'[d] = IF d = c THEN new ELSE deposit[d]
    BY <1>1, <1>2
<1>5. CASE new.refunded = row.refunded + n /\ new.consumed = row.consumed
    <2>1. Ledger!GiveBack(c, n)
        BY <1>1, <1>2, <1>3, <1>4, <1>5 DEF Ledger!GiveBack, InLedger
    <2> QED
        BY <1>1, <2>1 DEF Ledger!Next
<1>6. CASE new.consumed = row.consumed + n /\ new.refunded = row.refunded
    <2>1. Ledger!Keep(c, n)
        BY <1>1, <1>2, <1>3, <1>4, <1>6 DEF Ledger!Keep, InLedger
    <2> QED
        BY <1>1, <2>1 DEF Ledger!Next
<1> QED
    BY <1>2, <1>5, <1>6

LEMMA LedgerStep ==
    RaceInv /\ SerialInv /\ [RuledNext]_<<vars, rule>> => [Ledger!Next]_(Ledger!ledger)
<1> SUFFICES ASSUME RaceInv, SerialInv, [RuledNext]_<<vars, rule>>
             PROVE  Ledger!Next \/ UNCHANGED Ledger!ledger
    OBVIOUS
<1>1. rule' = rule
    BY DEF RuledNext
<1>2. CASE rule # "serial"
    BY <1>1, <1>2 DEF InLedger, Ledger!ledger
<1>3. CASE deposit' = deposit
    BY <1>1, <1>3 DEF InLedger, Remaining, Ledger!ledger
<1>4. CASE rule = "serial" /\ deposit' # deposit
    <2>1. Next
        BY <1>4 DEF RuledNext, vars
    <2>2. \E q \in Requests : InsertDeposit(q) \/ WriteSettlement(q)
        BY <1>4, <2>1
        DEF Next, Collect, Settlement, RefundFull, RefundPartial, Consume, Settle, Abort
    <2> QED
        BY <1>1, <1>4, <2>2, InsertCollects, WriteSettles
<1> QED
    BY <1>2, <1>3, <1>4

\* Deposits settled one after the other implement the ledger, for any number of
\* contracts and requests and any amounts.
THEOREM IsLedger == RuledSpec => ImplementsLedger
    BY RaceInit, RaceStep, SerialInit, SerialStep, LedgerInit, LedgerStep, PTL
    DEF RuledSpec, ImplementsLedger, Ledger!Spec
=============================================================================
