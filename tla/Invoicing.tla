----------------------------- MODULE Invoicing -----------------------------
(***************************************************************************)
(* The invoices of clients, the payments they make on them, and the alert    *)
(* that an invoice is overdue: InvoicesService, PaymentsService and the      *)
(* invoice part of AlertsService.                                            *)
(*                                                                         *)
(* A payment is a transaction at READ COMMITTED: it reads the invoice with   *)
(* no lock and writes absolute amounts when it commits, so two payments can  *)
(* read one invoice before either commits.  After the commit, and outside    *)
(* the transaction, the request brings the alert of the invoice up to date   *)
(* in further statements.  Totals are whole cents.                          *)
(***************************************************************************)
EXTENDS Integers

CONSTANTS
    Invoices,     \* ids of invoice rows
    Callers,     \* requests that can be in flight together
    MaxTotal,    \* bound: the largest total of an invoice, the largest payment
    MaxReceived,  \* bound: no payment of an invoice begins beyond this sum
    Horizon,      \* bound: the last day of a behaviour
    NoInvoice

ASSUME InvoicingAssumption ==
    /\ MaxTotal \in Nat
    /\ MaxReceived \in Nat
    /\ Horizon \in Nat
    /\ NoInvoice \notin Invoices \cup Nat

VARIABLES
    now,       \* the day
    invoice,   \* invoice[i]: the row, "ABSENT" until it is inserted
    received,  \* received[i]: the sum of the CONFIRMED payment rows of i
    alerts,    \* alerts[i]: how many INVOICE_OVERDUE alerts of i are not RESOLVED
    call        \* call[q]: the request in flight, or NoCall

invoicingVars == <<now, invoice, received, alerts, call>>

\* A line of an invoice may cost nothing, a payment is of a cent at least.
Totals == 0..MaxTotal
Sums == 1..MaxTotal
Days == 0..Horizon

\* The statuses the code writes; an invoice is OVERDUE only in its alerts.
InvoiceStatus == {"ISSUED", "PARTIAL", "PAID"}
Unpaid == {"ISSUED", "PARTIAL"}

InvoiceRow == [status : InvoiceStatus \cup {"ABSENT"}, total : Nat, paid : Nat,
               balance : Nat, due : Days]

Steps == {"idle", "insert", "read", "commit", "sync", "find", "create", "resolve"}

Call == [step : Steps, invoice : Invoices \cup {NoInvoice}, amount : Nat,
            due : Days, paid : Nat]

NoCall == [step |-> "idle", invoice |-> NoInvoice, amount |-> 0, due |-> 0, paid |-> 0]

InvoicingInit ==
    /\ now = 0
    /\ invoice = [i \in Invoices |-> [status |-> "ABSENT", total |-> 0, paid |-> 0,
                                      balance |-> 0, due |-> 0]]
    /\ received = [i \in Invoices |-> 0]
    /\ alerts = [i \in Invoices |-> 0]
    /\ call = [q \in Callers |-> NoCall]

InvoicingTick ==
    /\ now < Horizon
    /\ now' = now + 1
    /\ UNCHANGED <<invoice, received, alerts, call>>

\* Request q, which was at step from, goes on at step to.
Go(q, from, to) ==
    /\ call[q].step = from
    /\ call' = [call EXCEPT ![q] = IF to = "idle" THEN NoCall
                                 ELSE [call[q] EXCEPT !.step = to]]

Begin(q, new) ==
    /\ call[q] = NoCall
    /\ call' = [call EXCEPT ![q] = new]
    /\ UNCHANGED <<now, invoice, received, alerts>>

-----------------------------------------------------------------------------
\* InvoicesService

CreateInvoice(q, i, total, due) ==
    /\ invoice[i].status = "ABSENT"
    /\ Begin(q, [NoCall EXCEPT !.step = "insert", !.invoice = i,
                             !.amount = total, !.due = due])

InsertInvoice(q) ==
    LET i == call[q].invoice
    IN  /\ Go(q, "insert", "sync")
        /\ invoice[i].status = "ABSENT"
        /\ invoice' = [invoice EXCEPT ![i] =
                [status |-> "ISSUED", total |-> call[q].amount, paid |-> 0,
                 balance |-> call[q].amount, due |-> call[q].due]]
        /\ UNCHANGED <<now, received, alerts>>

-----------------------------------------------------------------------------
\* PaymentsService

\* Any invoice takes payments, one that is PAID too.
CreatePayment(q, i, n) ==
    /\ invoice[i].status # "ABSENT"
    /\ received[i] + n <= MaxReceived
    /\ Begin(q, [NoCall EXCEPT !.step = "read", !.invoice = i, !.amount = n])

ReadInvoice(q) ==
    /\ call[q].step = "read"
    /\ call' = [call EXCEPT ![q].step = "commit",
                          ![q].paid = invoice[call[q].invoice].paid]
    /\ UNCHANGED <<now, invoice, received, alerts>>

\* Mutant: the last payment overpays, and the balance is not cut off at zero.
PaidRowExactly(row, paid) ==
    [row EXCEPT !.paid = paid,
                !.balance = IF paid <= row.total THEN row.total - paid ELSE paid - row.total,
                !.status = IF paid = row.total THEN "PAID" ELSE "PARTIAL"]

\* The row when paid has been paid of it.
PaidRow(row, paid) ==
    [row EXCEPT !.paid = paid,
                !.balance = IF paid < row.total THEN row.total - paid ELSE 0,
                !.status = IF paid < row.total THEN "PARTIAL" ELSE "PAID"]

\* Mutant: the amount of the payment alone is written.
CommitOverwriting(q) ==
    LET i == call[q].invoice
    IN  /\ Go(q, "commit", "sync")
        /\ received' = [received EXCEPT ![i] = received[i] + call[q].amount]
        /\ invoice' = [invoice EXCEPT ![i] = PaidRow(invoice[i], call[q].amount)]
        /\ UNCHANGED <<now, alerts>>

\* Mutant: no transaction, and the insert of the payment fails.
CommitInvoiceOnly(q) ==
    LET i == call[q].invoice
    IN  /\ Go(q, "commit", "sync")
        /\ invoice' = [invoice EXCEPT ![i] = PaidRow(invoice[i],
                                                call[q].paid + call[q].amount)]
        /\ UNCHANGED <<now, received, alerts>>

\* The transaction becomes visible: the payment row, and the invoice with the
\* sum of what was read and of this payment.
CommitPayment(q) ==
    LET i == call[q].invoice
    IN  /\ Go(q, "commit", "sync")
        /\ received' = [received EXCEPT ![i] = received[i] + call[q].amount]
        /\ invoice' = [invoice EXCEPT ![i] = PaidRow(invoice[i],
                                                call[q].paid + call[q].amount)]
        /\ UNCHANGED <<now, alerts>>

-----------------------------------------------------------------------------
\* AlertsService, syncInvoiceAlerts.  It ends every creation of an invoice and
\* every payment; syncAll runs it for the invoices that are not paid.

SyncAll(q, i) ==
    /\ invoice[i].status \in Unpaid
    /\ Begin(q, [NoCall EXCEPT !.step = "sync", !.invoice = i])

\* Mutant: the status is not asked for.
DueDatePassed(i) == invoice[i].due <= now

\* A due date is the midnight that begins the day.
Overdue(i) == invoice[i].status \in Unpaid /\ invoice[i].due <= now

Decide(q) ==
    /\ Go(q, "sync", IF Overdue(call[q].invoice) THEN "find" ELSE "resolve")
    /\ UNCHANGED <<now, invoice, received, alerts>>

\* Mutant: the alert is created whether or not there is one.
FindNone(q) ==
    /\ Go(q, "find", "create")
    /\ UNCHANGED <<now, invoice, received, alerts>>

\* An alert that is there is updated (its texts, which are left out).
FindAlert(q) ==
    /\ Go(q, "find", IF alerts[call[q].invoice] > 0 THEN "idle" ELSE "create")
    /\ UNCHANGED <<now, invoice, received, alerts>>

CreateAlert(q) ==
    /\ Go(q, "create", "idle")
    /\ alerts' = [alerts EXCEPT ![call[q].invoice] = alerts[call[q].invoice] + 1]
    /\ UNCHANGED <<now, invoice, received>>

ResolveMatching(q) ==
    /\ Go(q, "resolve", "idle")
    /\ alerts' = [alerts EXCEPT ![call[q].invoice] = 0]
    /\ UNCHANGED <<now, invoice, received>>

\* A user resolves one alert.
Resolve(i) ==
    /\ alerts[i] > 0
    /\ alerts' = [alerts EXCEPT ![i] = alerts[i] - 1]
    /\ UNCHANGED <<now, invoice, received, call>>

SyncSteps == {"sync", "find", "create", "resolve"}

\* A statement fails or the server restarts: before the commit nothing is
\* written, after it the alert is left as it is.
AbortCall(q) ==
    /\ call[q] # NoCall
    /\ call' = [call EXCEPT ![q] = NoCall]
    /\ UNCHANGED <<now, invoice, received, alerts>>

-----------------------------------------------------------------------------

SyncStep(q) == Decide(q) \/ FindAlert(q) \/ CreateAlert(q) \/ ResolveMatching(q)

BeginStep(q) ==
    \/ \E i \in Invoices, total \in Totals, due \in Days : CreateInvoice(q, i, total, due)
    \/ \E i \in Invoices, n \in Sums : CreatePayment(q, i, n)
    \/ \E i \in Invoices : SyncAll(q, i)

InvoicingNext ==
    \/ InvoicingTick
    \/ \E q \in Callers :
        \/ BeginStep(q)
        \/ InsertInvoice(q)
        \/ ReadInvoice(q)
        \/ CommitPayment(q)
        \/ SyncStep(q)
        \/ AbortCall(q)
    \/ \E i \in Invoices : Resolve(i)

InvoicingSpec == InvoicingInit /\ [][InvoicingNext]_invoicingVars

-----------------------------------------------------------------------------
\* Every column, counter and request holds a value of its type.
InvoicingTypeOK ==
    /\ now \in Days
    /\ invoice \in [Invoices -> InvoiceRow]
    /\ received \in [Invoices -> Nat]
    /\ alerts \in [Invoices -> Nat]
    /\ call \in [Callers -> Call]

\* However payments race, the balance and the status of an invoice are those of
\* the sum it says was paid: an invoice is PAID exactly when something was paid on
\* it and nothing is left to pay, also when it is overpaid; one that nothing was
\* paid on is ISSUED, also when its total is zero.
RowAgrees ==
    \A i \in Invoices :
        LET row == invoice[i]
        IN  row.status # "ABSENT" =>
                /\ row.balance = IF row.paid < row.total THEN row.total - row.paid ELSE 0
                /\ row.status = "PAID" <=> row.paid > 0 /\ row.paid >= row.total
                /\ row.status = "ISSUED" <=> row.paid = 0

\* However payments race, an invoice is never credited with more than was
\* received for it.
NeverOverstated == \A i \in Invoices : invoice[i].paid <= received[i]

\* However payments race, an invoice agrees with itself and claims no more than
\* was received.
RowsTellPayments == RowAgrees /\ NeverOverstated

\* USE-CASES.md, PAY-02: "Full payment marks invoice PAID".  Of an invoice with
\* nothing to pay it says nothing until there is a payment.
FullPaymentMarksPaid ==
    \A i \in Invoices :
        (invoice[i].status # "ABSENT" /\ received[i] > 0 /\ received[i] >= invoice[i].total)
            => invoice[i].status = "PAID"
=============================================================================
