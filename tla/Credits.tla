------------------------------ MODULE Credits ------------------------------
(***************************************************************************)
(* The loan behind a vehicle: VehicleCreditsService and syncCreditAlerts.    *)
(* A credit is written with its installments in one transaction; paying an   *)
(* installment reads the credit and the installment before its transaction   *)
(* and writes absolute balances in it; every write ends in a resync of the   *)
(* alert that an installment is due.  Credits share no row, so there is one. *)
(* Amounts are whole cents.                                                  *)
(***************************************************************************)
EXTENDS Amortization, AlertSync, FiniteSets

CONSTANTS
    Payers,       \* requests that can be in flight together
    Financed,     \* amounts that are financed: principal less down payment
    Rates,        \* monthly rates, pairs <<num, den>>
    Terms,        \* numbers of installments
    Sums,         \* what users enter as paid: any amount is accepted
    Ahead,        \* how many days before an installment its alert is raised
    LastDay       \* bound: the last day of a behaviour

VARIABLES
    date,
    credit,       \* the row, "ABSENT" until it is inserted
    installment,  \* its installments, one a day
    dunning,      \* [alert |-> how many CREDIT_PAYMENT_DUE alerts are not RESOLVED]
    cashed,       \* the sum of what was recorded as paid
    call          \* call[q]: the request in flight, or Hung

creditVars == <<date, credit, installment, dunning, cashed, call>>

CreditRow == [status : {"ABSENT", "ACTIVE", "PAID_OFF"}, financed : Nat,
              balance : Nat, paid : Nat]

NoCredit == [status |-> "ABSENT", financed |-> 0, balance |-> 0, paid |-> 0]

\* number, sum: the installment and what is paid; seen: the credit as read.
Hung == [step |-> "hung", number |-> 0, sum |-> 0, seen |-> NoCredit, agenda |-> <<>>]

Call == [step : {"hung", "insert", "installment", "commit", "sync", "next", "perform"},
         number : Nat, sum : Nat, seen : CreditRow, agenda : Seq(Statement({"alert"}))]

CreditInit ==
    /\ date = 0
    /\ credit = NoCredit
    /\ installment = <<>>
    /\ dunning = [alert |-> 0]
    /\ cashed = 0
    /\ call = [q \in Payers |-> Hung]

Midnight ==
    /\ date < LastDay
    /\ date' = date + 1
    /\ UNCHANGED <<credit, installment, dunning, cashed, call>>

Move(q, from, to) ==
    /\ call[q].step = from
    /\ call' = [call EXCEPT ![q] = [call[q] EXCEPT !.step = to]]

-----------------------------------------------------------------------------
\* VehicleCreditsService

CreateCredit(q) ==
    /\ credit = NoCredit
    /\ Move(q, "hung", "insert")
    /\ UNCHANGED <<date, credit, installment, dunning, cashed>>

\* The transaction: the credit and its installments, the i-th due on day i.
InsertCredit(q, financed, rate, term) ==
    /\ credit = NoCredit
    /\ Move(q, "insert", "sync")
    /\ credit' = [status |-> "ACTIVE", financed |-> financed, balance |-> financed, paid |-> 0]
    /\ LET rows == AmortizationSchedule(financed, rate[1], rate[2], term)
       IN  installment' = [i \in 1..term |-> [portion |-> rows[i].portion,
                                              interest |-> rows[i].interest, paid |-> FALSE]]
    /\ UNCHANGED <<date, dunning, cashed>>

ReadCredit(q, i, sum) ==
    /\ call[q] = Hung
    /\ credit # NoCredit
    /\ i \in DOMAIN installment
    /\ call' = [call EXCEPT ![q] = [Hung EXCEPT !.step = "installment", !.number = i,
                                                !.sum = sum, !.seen = credit]]
    /\ UNCHANGED <<date, credit, installment, dunning, cashed>>

\* Mutant: an installment can be paid again.
ReadAnyInstallment(q) ==
    /\ Move(q, "installment", "commit")
    /\ UNCHANGED <<date, credit, installment, dunning, cashed>>

\* One that is PAID answers 400.
ReadInstallment(q) ==
    /\ call[q].step = "installment"
    /\ call' = [call EXCEPT ![q] = IF installment[call[q].number].paid THEN Hung
                                   ELSE [call[q] EXCEPT !.step = "commit"]]
    /\ UNCHANGED <<date, credit, installment, dunning, cashed>>

\* Mutant: the entered sum, and not the principal it contains, is taken off.
BalanceLessSum(seen, i, sum) == IF sum < seen.balance THEN seen.balance - sum ELSE 0

\* What is left of the balance that was read.
BalanceAfter(seen, i, sum) ==
    IF installment[i].portion < seen.balance THEN seen.balance - installment[i].portion ELSE 0

\* The transaction becomes visible.
CommitInstallment(q) ==
    LET seen == call[q].seen
        left == BalanceAfter(seen, call[q].number, call[q].sum)
    IN  /\ Move(q, "commit", "sync")
        /\ installment' = [installment EXCEPT ![call[q].number].paid = TRUE]
        /\ credit' = [credit EXCEPT !.paid = seen.paid + call[q].sum, !.balance = left,
                                    !.status = IF left = 0 THEN "PAID_OFF" ELSE seen.status]
        /\ cashed' = cashed + call[q].sum
        /\ UNCHANGED <<date, dunning>>

-----------------------------------------------------------------------------
\* AlertsService, syncCreditAlerts

Unpaid == {i \in DOMAIN installment : ~installment[i].paid}

\* The first installment that is not paid.
NextDue == CHOOSE i \in Unpaid : \A j \in Unpaid : i <= j

\* A credit that is not ACTIVE is left alone, and so is its alert.
ReadForSync(q) ==
    /\ call[q].step = "sync"
    /\ call' = [call EXCEPT ![q] = IF credit.status = "ACTIVE" THEN [Hung EXCEPT !.step = "next"]
                                   ELSE Hung]
    /\ UNCHANGED <<date, credit, installment, dunning, cashed>>

\* Mutant: the last installment instead of the next.
PlanByLast ==
    IF Unpaid = {} THEN <<Settle("alert")>>
    ELSE IF Len(installment) - Ahead <= date THEN <<Raise("alert")>> ELSE <<Settle("alert")>>

CreditPlan ==
    IF Unpaid = {} THEN <<Settle("alert")>>
    ELSE IF NextDue - Ahead <= date THEN <<Raise("alert")>> ELSE <<Settle("alert")>>

FindNext(q) ==
    /\ call[q].step = "next"
    /\ call' = [call EXCEPT ![q] = [call[q] EXCEPT !.step = "perform", !.agenda = CreditPlan]]
    /\ UNCHANGED <<date, credit, installment, dunning, cashed>>

PerformDunning(q) ==
    /\ call[q].agenda # <<>>
    /\ dunning' = OpenAfter(dunning, call[q].agenda)
    /\ LET rest == AgendaAfter(dunning, call[q].agenda)
       IN  call' = [call EXCEPT ![q] = IF rest = <<>> THEN Hung ELSE [call[q] EXCEPT !.agenda = rest]]
    /\ UNCHANGED <<date, credit, installment, cashed>>

\* POST /alerts/resync
ResyncCredit(q) ==
    /\ credit.status = "ACTIVE"
    /\ Move(q, "hung", "sync")
    /\ UNCHANGED <<date, credit, installment, dunning, cashed>>

\* A statement fails or the server restarts.
HangUp(q) ==
    /\ call[q] # Hung
    /\ call' = [call EXCEPT ![q] = Hung]
    /\ UNCHANGED <<date, credit, installment, dunning, cashed>>

-----------------------------------------------------------------------------

CreditNext ==
    \/ Midnight
    \/ \E q \in Payers :
        \/ CreateCredit(q)
        \/ \E financed \in Financed, rate \in Rates, term \in Terms :
            InsertCredit(q, financed, rate, term)
        \/ \E i \in DOMAIN installment, sum \in Sums : ReadCredit(q, i, sum)
        \/ ReadInstallment(q)
        \/ CommitInstallment(q)
        \/ ResyncCredit(q)
        \/ ReadForSync(q)
        \/ FindNext(q)
        \/ PerformDunning(q)
        \/ HangUp(q)

CreditTypeOK ==
    /\ date \in 0..LastDay
    /\ credit \in CreditRow
    /\ installment \in Seq([portion : Int, interest : Int, paid : BOOLEAN])
    /\ dunning \in [{"alert"} -> Nat]
    /\ cashed \in Nat
    /\ call \in [Payers -> Call]
=============================================================================
