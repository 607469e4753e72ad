---------------------------- MODULE MoneyProofs ----------------------------
(***************************************************************************)
(* Invoices agree with themselves and with their payments, and their alerts  *)
(* with them, whatever invoices and requests there are; and what is proved   *)
(* of the deposits and of the invoices holds where there are both.           *)
(***************************************************************************)
EXTENDS Money, DepositProofs

\* What a request in flight brings along, and what it has found.
CallReady ==
    \A q \in Callers :
        /\ call[q].step = "idle" => call[q] = NoCall
        /\ call[q].step # "idle" => call[q].invoice \in Invoices
        /\ call[q].step = "insert" => call[q].amount \in Totals
        /\ call[q].step \in {"read", "commit"} => call[q].amount \in Sums
        /\ call[q].step \in {"read", "commit"} => invoice[call[q].invoice].status # "ABSENT"
        /\ call[q].step = "commit" => call[q].paid <= received[call[q].invoice]

\* An invoice that is not there has no payments.
Untouched == \A i \in Invoices : invoice[i].status = "ABSENT" => received[i] = 0

PaymentInv == InvoicingTypeOK /\ CallReady /\ Untouched /\ RowsTellPayments

-----------------------------------------------------------------------------

LEMMA InitInv == InvoicingInit => PaymentInv
<1> SUFFICES ASSUME InvoicingInit PROVE PaymentInv
  OBVIOUS
<1> USE InvoicingAssumption DEF InvoicingInit
<1>1. NoCall \in Call
  BY DEF NoCall, Call, Steps, Days
<1>2. InvoicingTypeOK
  BY <1>1 DEF InvoicingTypeOK, InvoiceRow, InvoiceStatus, Days
<1>3. CallReady /\ Untouched /\ RowsTellPayments
  BY DEF CallReady, NoCall, Untouched, RowsTellPayments, RowAgrees, NeverOverstated
<1> QED
  BY <1>2, <1>3 DEF PaymentInv

\* A request that goes on stays a request.
LEMMA GoType ==
    ASSUME InvoicingTypeOK, NEW q \in Callers, NEW from \in Steps, NEW to \in Steps, Go(q, from, to)
    PROVE  /\ call' \in [Callers -> Call]
           /\ \A p \in Callers \ {q} : call'[p] = call[p]
           /\ to = "idle" => call'[q] = NoCall
           /\ to # "idle" => /\ call'[q].step = to
                             /\ call'[q].invoice = call[q].invoice
                             /\ call'[q].amount = call[q].amount
                             /\ call'[q].paid = call[q].paid
<1>1. NoCall \in Call
  BY InvoicingAssumption DEF NoCall, Call, Steps, Days
<1>2. [call[q] EXCEPT !.step = to] \in Call
  BY DEF InvoicingTypeOK, Call
<1>3. call[q] \in Call
  BY DEF InvoicingTypeOK
<1> QED
  BY <1>1, <1>2, <1>3 DEF InvoicingTypeOK, Go, Call

\* Calls that can begin.
Opening(new) ==
    /\ new \in Call
    /\ new.step \in {"insert", "read", "sync"}
    /\ new.invoice \in Invoices
    /\ new.step = "insert" => new.amount \in Totals
    /\ new.step = "read" => new.amount \in Sums /\ invoice[new.invoice].status # "ABSENT"

\* What begins leaves the rows alone.
LEMMA BeginsWell ==
    ASSUME PaymentInv, NEW q \in Callers, NEW new, Opening(new), Begin(q, new)
    PROVE  PaymentInv'
<1>1. call' \in [Callers -> Call] /\ call'[q] = new /\ \A p \in Callers \ {q} : call'[p] = call[p]
  BY DEF PaymentInv, InvoicingTypeOK, Begin, Opening
<1>2. InvoicingTypeOK'
  BY <1>1 DEF PaymentInv, InvoicingTypeOK, Begin
<1>3. CallReady'
  <2> SUFFICES ASSUME NEW p \in Callers PROVE CallReady!(p)'
    BY DEF CallReady
  <2>1. CASE p = q
    BY <1>1, <2>1 DEF Opening, Begin
  <2>2. CASE p # q
    BY <1>1, <2>2 DEF PaymentInv, CallReady, Begin
  <2> QED
    BY <2>1, <2>2
<1>4. (Untouched /\ RowsTellPayments)'
  BY DEF PaymentInv, Untouched, RowsTellPayments, RowAgrees, NeverOverstated, Begin
<1> QED
  BY <1>2, <1>3, <1>4 DEF PaymentInv

LEMMA BeginStepInv ==
    ASSUME PaymentInv, NEW q \in Callers, BeginStep(q)
    PROVE  PaymentInv'
<1>0. NoCall \in Call
  BY InvoicingAssumption DEF NoCall, Call, Steps, Days
<1>1. ASSUME NEW i \in Invoices, NEW total \in Totals, NEW due \in Days,
             CreateInvoice(q, i, total, due)
      PROVE  PaymentInv'
  <2> DEFINE new == [NoCall EXCEPT !.step = "insert", !.invoice = i, !.amount = total, !.due = due]
  <2>1. total \in Nat
    BY InvoicingAssumption DEF Totals
  <2>2. new \in Call
    BY <1>0, <2>1 DEF Call, Steps
  <2>3. Opening(new)
    BY <2>2 DEF Opening, NoCall
  <2> QED
    BY <1>1, <2>3, BeginsWell DEF CreateInvoice
<1>2. ASSUME NEW i \in Invoices, NEW n \in Sums, CreatePayment(q, i, n)
      PROVE  PaymentInv'
  <2> DEFINE new == [NoCall EXCEPT !.step = "read", !.invoice = i, !.amount = n]
  <2>1. n \in Nat
    BY InvoicingAssumption DEF Sums
  <2>2. new \in Call
    BY <1>0, <2>1 DEF Call, Steps
  <2>3. Opening(new)
    BY <1>2, <2>2 DEF Opening, NoCall, CreatePayment
  <2> QED
    BY <1>2, <2>3, BeginsWell DEF CreatePayment
<1>3. ASSUME NEW i \in Invoices, SyncAll(q, i)
      PROVE  PaymentInv'
  <2> DEFINE new == [NoCall EXCEPT !.step = "sync", !.invoice = i]
  <2>1. new \in Call
    BY <1>0 DEF Call, Steps
  <2>2. Opening(new)
    BY <2>1 DEF Opening, NoCall
  <2> QED
    BY <1>3, <2>2, BeginsWell DEF SyncAll
<1> QED
  BY <1>1, <1>2, <1>3 DEF BeginStep

\* What a row says of itself.
Agrees(row) ==
    /\ row.status \in InvoiceStatus
    /\ row.balance = IF row.paid < row.total THEN row.total - row.paid ELSE 0
    /\ row.status = "PAID" <=> row.paid > 0 /\ row.paid >= row.total
    /\ row.status = "ISSUED" <=> row.paid = 0

LEMMA PaidRowAgrees ==
    ASSUME NEW row \in InvoiceRow, NEW paid \in Nat, paid > 0
    PROVE  PaidRow(row, paid) \in InvoiceRow /\ Agrees(PaidRow(row, paid)) /\ PaidRow(row, paid).paid = paid
<1> DEFINE new == PaidRow(row, paid)
<1>1. /\ new.paid = paid /\ new.total = row.total /\ new.due = row.due
      /\ new.balance = IF paid < row.total THEN row.total - paid ELSE 0
      /\ new.status = IF paid < row.total THEN "PARTIAL" ELSE "PAID"
  BY DEF PaidRow, InvoiceRow
<1>2. row.total \in Nat
  BY DEF InvoiceRow
<1>3. Agrees(new)
  BY <1>1, <1>2 DEF Agrees, InvoiceStatus
<1>4. new \in InvoiceRow
  <2> DEFINE balance == IF paid < row.total THEN row.total - paid ELSE 0
             status == IF paid < row.total THEN "PARTIAL" ELSE "PAID"
  <2>1. balance \in Nat /\ status \in InvoiceStatus \cup {"ABSENT"}
    BY <1>2 DEF InvoiceStatus
  <2>2. new = [row EXCEPT !.paid = paid, !.balance = balance, !.status = status]
    BY DEF PaidRow
  <2> HIDE DEF balance, status, new
  <2> QED
    BY <2>1, <2>2 DEF InvoiceRow
<1> QED
  BY <1>1, <1>3, <1>4

\* A write of one row that agrees with itself and with what was received.
LEMMA RowWritten ==
    ASSUME PaymentInv, NEW q \in Callers, NEW i \in Invoices, NEW row \in InvoiceRow,
           call' \in [Callers -> Call], call'[q].step = "sync", call'[q].invoice = i,
           \A p \in Callers \ {q} : call'[p] = call[p],
           invoice' = [invoice EXCEPT ![i] = row], Agrees(row), row.paid <= received'[i],
           received' \in [Invoices -> Nat], \A j \in Invoices : received[j] <= received'[j],
           \A j \in Invoices \ {i} : received'[j] = received[j],
           now' = now, alerts' = alerts
    PROVE  PaymentInv'
<1>1. /\ invoice'[i] = row
      /\ \A j \in Invoices \ {i} : invoice'[j] = invoice[j]
      /\ invoice' \in [Invoices -> InvoiceRow]
  BY DEF PaymentInv, InvoicingTypeOK
<1>2. InvoicingTypeOK'
  BY <1>1 DEF PaymentInv, InvoicingTypeOK
<1>3. row.status # "ABSENT"
  BY DEF Agrees, InvoiceStatus
<1>4. CallReady'
  <2> SUFFICES ASSUME NEW p \in Callers PROVE CallReady!(p)'
    BY DEF CallReady
  <2>1. CASE p = q
    BY <2>1
  <2>2. CASE p # q
    <3>1. call'[p] = call[p] /\ call[p] \in Call
      BY <2>2 DEF PaymentInv, InvoicingTypeOK
    <3>2. call[p].invoice \in Invoices =>
            /\ invoice[call[p].invoice].status # "ABSENT" => invoice'[call[p].invoice].status # "ABSENT"
            /\ received[call[p].invoice] <= received'[call[p].invoice]
            /\ received[call[p].invoice] \in Nat /\ received'[call[p].invoice] \in Nat
      BY <1>1, <1>3 DEF PaymentInv, InvoicingTypeOK
    <3> QED
      BY <3>1, <3>2 DEF PaymentInv, CallReady, Call
  <2> QED
    BY <2>1, <2>2
<1>5. Untouched'
  BY <1>1, <1>3 DEF PaymentInv, Untouched
<1>6. RowsTellPayments'
  BY <1>1 DEF PaymentInv, RowsTellPayments, RowAgrees, NeverOverstated, Agrees
<1> QED
  BY <1>2, <1>4, <1>5, <1>6 DEF PaymentInv

\* An insert and a commit write such rows.
LEMMA WriteStepInv ==
    ASSUME PaymentInv, NEW q \in Callers, InsertInvoice(q) \/ CommitPayment(q)
    PROVE  PaymentInv'
<1> DEFINE i == call[q].invoice
<1>0. /\ call[q] \in Call /\ i \in Invoices
      /\ call[q].amount \in Nat /\ (CommitPayment(q) => call[q].amount > 0) /\ call[q].paid \in Nat /\ call[q].due \in Days
      /\ invoice[i] \in InvoiceRow /\ received[i] \in Nat
  BY InvoicingAssumption DEF PaymentInv, InvoicingTypeOK, CallReady, InsertInvoice, CommitPayment, Go, Call, Totals, Sums
<1>1. /\ call' \in [Callers -> Call] /\ call'[q].step = "sync" /\ call'[q].invoice = i
      /\ \A p \in Callers \ {q} : call'[p] = call[p]
  BY GoType DEF PaymentInv, InsertInvoice, CommitPayment, Steps
<1>2. CASE InsertInvoice(q)
  <2> DEFINE row == [status |-> "ISSUED", total |-> call[q].amount, paid |-> 0,
                     balance |-> call[q].amount, due |-> call[q].due]
  <2>1. row \in InvoiceRow /\ Agrees(row) /\ row.paid = 0
    BY <1>0 DEF InvoiceRow, InvoiceStatus, Agrees
  <2>2. /\ invoice' = [invoice EXCEPT ![i] = row]
        /\ received' = received /\ now' = now /\ alerts' = alerts
    BY <1>2 DEF InsertInvoice
  <2>3. /\ received' \in [Invoices -> Nat] /\ 0 <= received'[i]
        /\ \A j \in Invoices : received[j] <= received'[j]
    BY <1>0, <2>2 DEF PaymentInv, InvoicingTypeOK
  <2> HIDE DEF row
  <2> QED
    BY <1>0, <1>1, <2>1, <2>2, <2>3, RowWritten
<1>3. CASE CommitPayment(q)
  <2> DEFINE paid == call[q].paid + call[q].amount
             row == PaidRow(invoice[i], paid)
  <2>1. row \in InvoiceRow /\ Agrees(row) /\ row.paid = paid
    BY <1>0, <1>3, PaidRowAgrees
  <2>2. /\ invoice' = [invoice EXCEPT ![i] = row]
        /\ received' = [received EXCEPT ![i] = received[i] + call[q].amount]
        /\ now' = now /\ alerts' = alerts
    BY <1>3 DEF CommitPayment
  <2>3. call[q].paid <= received[i]
    BY <1>3 DEF PaymentInv, CallReady, CommitPayment, Go
  <2>4. /\ received' \in [Invoices -> Nat] /\ paid <= received'[i]
        /\ \A j \in Invoices : received[j] <= received'[j]
        /\ \A j \in Invoices \ {i} : received'[j] = received[j]
    BY <1>0, <2>2, <2>3 DEF PaymentInv, InvoicingTypeOK
  <2> HIDE DEF row
  <2> QED
    BY <1>0, <1>1, <2>1, <2>2, <2>4, RowWritten
<1> QED
  BY <1>2, <1>3

\* Every other step leaves the rows and what was received as they are.
LEMMA OtherStepInv ==
    ASSUME PaymentInv, NEW q \in Callers, ReadInvoice(q) \/ SyncStep(q) \/ AbortCall(q)
    PROVE  PaymentInv'
<1>0. /\ call[q] \in Call /\ CallReady!(q) /\ NoCall \in Call /\ NoCall.step = "idle"
      /\ call[q].invoice \in Invoices => invoice[call[q].invoice] \in InvoiceRow
  BY InvoicingAssumption DEF PaymentInv, InvoicingTypeOK, CallReady, NoCall, Call, Steps, Days
<1>1. /\ now' = now /\ invoice' = invoice /\ received' = received
      /\ \A p \in Callers \ {q} : call'[p] = call[p]
  BY DEF ReadInvoice, SyncStep, Decide, FindAlert, CreateAlert, ResolveMatching, AbortCall, Go,
         PaymentInv, InvoicingTypeOK
<1>2. \/ call'[q] = NoCall
      \/ /\ call'[q].step \in SyncSteps /\ call[q].step \in SyncSteps
         /\ call'[q] = [call[q] EXCEPT !.step = call'[q].step]
      \/ /\ ReadInvoice(q)
         /\ call'[q] = [call[q] EXCEPT !.step = "commit", !.paid = invoice[call[q].invoice].paid]
  <2>0. q \in DOMAIN call
    BY DEF PaymentInv, InvoicingTypeOK
  <2>1. CASE ReadInvoice(q)
    BY <2>0, <2>1 DEF ReadInvoice
  <2>2. ASSUME NEW from \in SyncSteps, NEW to \in SyncSteps \cup {"idle"}, Go(q, from, to)
        PROVE  \/ call'[q] = NoCall
               \/ /\ call'[q].step \in SyncSteps /\ call[q].step \in SyncSteps
                  /\ call'[q] = [call[q] EXCEPT !.step = call'[q].step]
    <3>1. CASE to = "idle"
      BY <2>0, <2>2, <3>1 DEF Go
    <3>2. CASE to # "idle"
      <4>1. call'[q] = [call[q] EXCEPT !.step = to] /\ call[q].step \in SyncSteps
        BY <2>0, <2>2, <3>2 DEF Go
      <4>2. call'[q].step = to
        BY <1>0, <4>1 DEF Call
      <4> QED
        BY <3>2, <4>1, <4>2
    <3> QED
      BY <3>1, <3>2
  <2>3. CASE SyncStep(q)
    BY <2>2, <2>3 DEF SyncStep, Decide, FindAlert, CreateAlert, ResolveMatching, SyncSteps
  <2>4. CASE AbortCall(q)
    BY <2>0, <2>4 DEF AbortCall
  <2> QED
    BY <2>1, <2>3, <2>4
<1>3. call'[q] \in Call /\ CallReady!(q)'
  <2>1. CASE call'[q] = NoCall
    BY <1>0, <2>1
  <2>2. CASE /\ call'[q].step \in SyncSteps /\ call[q].step \in SyncSteps
             /\ call'[q] = [call[q] EXCEPT !.step = call'[q].step]
    BY <1>0, <2>2 DEF SyncSteps, Call, Steps
  <2>3. CASE /\ ReadInvoice(q)
             /\ call'[q] = [call[q] EXCEPT !.step = "commit", !.paid = invoice[call[q].invoice].paid]
    <3>1. call[q].step = "read" /\ call[q].invoice \in Invoices
      BY <1>0, <2>3 DEF ReadInvoice
    <3>2. /\ invoice[call[q].invoice].paid \in Nat
          /\ invoice[call[q].invoice].paid <= received[call[q].invoice]
      BY <1>0, <3>1 DEF PaymentInv, InvoicingTypeOK, InvoiceRow, RowsTellPayments, NeverOverstated
    <3>3. call'[q] \in Call
      BY <1>0, <2>3, <3>2 DEF Call, Steps
    <3>4. /\ call'[q].step = "commit" /\ call'[q].paid = invoice[call[q].invoice].paid
          /\ call'[q].invoice = call[q].invoice /\ call'[q].amount = call[q].amount
      BY <1>0, <2>3 DEF Call
    <3> QED
      BY <1>0, <1>1, <3>1, <3>2, <3>3, <3>4
  <2> QED
    BY <1>2, <2>1, <2>2, <2>3
<1>4. call' \in [Callers -> Call]
  <2>1. call' = [call EXCEPT ![q] = call'[q]]
    BY DEF ReadInvoice, SyncStep, Decide, FindAlert, CreateAlert, ResolveMatching, AbortCall, Go,
           PaymentInv, InvoicingTypeOK
  <2> QED
    BY <1>3, <2>1 DEF PaymentInv, InvoicingTypeOK
<1>5. alerts' \in [Invoices -> Nat]
  BY <1>0 DEF PaymentInv, InvoicingTypeOK, ReadInvoice, SyncStep, Decide, FindAlert, CreateAlert,
         ResolveMatching, AbortCall, Go
<1>6. CallReady'
  <2> SUFFICES ASSUME NEW p \in Callers PROVE CallReady!(p)'
    BY DEF CallReady
  <2>1. CASE p = q
    BY <1>3, <2>1
  <2>2. CASE p # q
    BY <1>1, <2>2 DEF PaymentInv, CallReady
  <2> QED
    BY <2>1, <2>2
<1> QED
  BY <1>1, <1>4, <1>5, <1>6 DEF PaymentInv, InvoicingTypeOK, Untouched, RowsTellPayments, RowAgrees,
                                NeverOverstated

LEMMA NextInv == PaymentInv /\ [InvoicingNext]_invoicingVars => PaymentInv'
<1> SUFFICES ASSUME PaymentInv, [InvoicingNext]_invoicingVars PROVE PaymentInv'
  OBVIOUS
<1> USE DEF PaymentInv, InvoicingTypeOK, CallReady, Untouched, RowsTellPayments, RowAgrees, NeverOverstated
<1>1. CASE InvoicingTick
  BY <1>1, InvoicingAssumption DEF InvoicingTick, Days
<1>2. CASE \E i \in Invoices : Resolve(i)
  BY <1>2 DEF Resolve
<1>3. CASE UNCHANGED invoicingVars
  BY <1>3 DEF invoicingVars
<1>4. ASSUME NEW q \in Callers, BeginStep(q) \/ InsertInvoice(q) \/ ReadInvoice(q)
                                \/ CommitPayment(q) \/ SyncStep(q) \/ AbortCall(q)
      PROVE  PaymentInv'
  BY <1>4, BeginStepInv, WriteStepInv, OtherStepInv
<1> QED
  BY <1>1, <1>2, <1>3, <1>4 DEF InvoicingNext

LEMMA PaymentInvAlways == InvoicingSpec => []PaymentInv
  BY InitInv, NextInv, PTL DEF InvoicingSpec

\* Type correctness of every invoice and request.
THEOREM InvoicingTyped == InvoicingSpec => []InvoicingTypeOK
<1>1. PaymentInv => InvoicingTypeOK
  BY DEF PaymentInv
<1> QED
  BY <1>1, PaymentInvAlways, PTL

\* However payments race, the balance and the status of an invoice are those of
\* the sum it says was paid, and that is no more than was received
\* (PaymentsService.create).
THEOREM RowsAlwaysTell == InvoicingSpec => []RowsTellPayments
<1>1. PaymentInv => RowsTellPayments
  BY DEF PaymentInv
<1> QED
  BY <1>1, PaymentInvAlways, PTL

-----------------------------------------------------------------------------
\* The orders

CallStep(q) ==
    BeginStep(q) \/ InsertInvoice(q) \/ ReadInvoice(q) \/ CommitPayment(q) \/ SyncStep(q) \/ AbortCall(q)

\* A request leaves the others alone.
LEMMA OthersKeep ==
    ASSUME PaymentInv, NEW q \in Callers, CallStep(q)
    PROVE  \A p \in Callers \ {q} : call'[p] = call[p]
<1> USE DEF PaymentInv, InvoicingTypeOK
<1>1. CASE BeginStep(q)
  BY <1>1 DEF BeginStep, CreateInvoice, CreatePayment, SyncAll, Begin
<1>2. CASE InsertInvoice(q) \/ ReadInvoice(q) \/ CommitPayment(q)
  BY <1>2 DEF InsertInvoice, ReadInvoice, CommitPayment, Go
<1>3. CASE SyncStep(q) \/ AbortCall(q)
  BY <1>3 DEF SyncStep, Decide, FindAlert, CreateAlert, ResolveMatching, AbortCall, Go
<1> QED
  BY <1>1, <1>2, <1>3 DEF CallStep

\* Of the requests, only one that reads an invoice comes to its commit.
LEMMA CommitsAfterRead ==
    ASSUME PaymentInv, NEW q \in Callers, CallStep(q), ~ReadInvoice(q)
    PROVE  call'[q].step # "commit"
<1> USE DEF PaymentInv, InvoicingTypeOK
<1>1. CASE BeginStep(q)
  BY <1>1 DEF BeginStep, CreateInvoice, CreatePayment, SyncAll, Begin, NoCall
<1>2. ASSUME NEW from \in Steps, NEW to \in Steps \ {"commit"}, Go(q, from, to)
      PROVE  call'[q].step # "commit"
  BY <1>2, GoType DEF NoCall
<1>3. CASE InsertInvoice(q) \/ CommitPayment(q) \/ SyncStep(q)
  BY <1>2, <1>3 DEF InsertInvoice, CommitPayment, SyncStep, Decide, FindAlert, CreateAlert,
                    ResolveMatching, Steps
<1>4. CASE AbortCall(q)
  BY <1>4 DEF AbortCall, NoCall
<1> QED
  BY <1>1, <1>3, <1>4 DEF CallStep

\* Under a lock, what a request has read is still what was received.
LockedInv ==
    order = "locked" =>
        /\ OneReader
        /\ \A i \in Invoices : invoice[i].paid = received[i]
        /\ \A q \in Callers : call[q].step = "commit" => call[q].paid = received[call[q].invoice]

LEMMA LockedStep ==
    ASSUME PaymentInv, LockedInv, order = "locked", order' = order, OneReader',
           NEW q \in Callers, CallStep(q)
    PROVE  LockedInv'
<1> DEFINE i == call[q].invoice
<1>0. /\ \A p \in Callers \ {q} : call'[p] = call[p]
      /\ call[q] \in Call /\ call' \in [Callers -> Call] /\ CallReady
      /\ received \in [Invoices -> Nat] /\ invoice \in [Invoices -> InvoiceRow]
  <2>1. PaymentInv'
    BY BeginStepInv, WriteStepInv, OtherStepInv DEF CallStep
  <2> QED
    BY <2>1, OthersKeep DEF PaymentInv, InvoicingTypeOK
<1>1. CASE InsertInvoice(q)
  <2>1. /\ call[q].step = "insert" /\ i \in Invoices /\ invoice[i].status = "ABSENT"
        /\ received' = received /\ invoice'[i].paid = 0
        /\ \A j \in Invoices \ {i} : invoice'[j] = invoice[j]
    BY <1>0, <1>1 DEF InsertInvoice, Go, CallReady
  <2>2. received[i] = 0
    BY <2>1 DEF PaymentInv, Untouched
  <2>3. call'[q].step # "commit"
    BY <1>1, CommitsAfterRead, <2>1 DEF CallStep, ReadInvoice
  <2> QED
    BY <1>0, <2>1, <2>2, <2>3 DEF LockedInv
<1>2. CASE CommitPayment(q)
  <2>1. /\ call[q].step = "commit" /\ i \in Invoices
        /\ received' = [received EXCEPT ![i] = received[i] + call[q].amount]
        /\ invoice'[i].paid = call[q].paid + call[q].amount
        /\ \A j \in Invoices \ {i} : invoice'[j] = invoice[j]
    BY <1>0, <1>2 DEF CommitPayment, Go, CallReady, PaidRow, InvoiceRow
  <2>2. call[q].paid = received[i]
    BY <2>1 DEF LockedInv
  <2>3. call'[q].step # "commit"
    BY <1>2, CommitsAfterRead, <2>1 DEF CallStep, ReadInvoice
  <2>4. \A p \in Callers \ {q} : call[p].step = "commit" => call[p].invoice # i
    BY <2>1 DEF LockedInv, OneReader
  <2>5. \A p \in Callers : call[p].step = "commit" => call[p].invoice \in Invoices
    BY <1>0 DEF CallReady
  <2>6. /\ received'[i] = received[i] + call[q].amount
        /\ \A j \in Invoices \ {i} : received'[j] = received[j]
    BY <1>0, <2>1
  <2>7. \A j \in Invoices : invoice'[j].paid = received'[j]
    BY <2>1, <2>2, <2>6 DEF LockedInv
  <2>8. ASSUME NEW p \in Callers, call'[p].step = "commit"
        PROVE  call'[p].paid = received'[call'[p].invoice]
    BY <1>0, <2>3, <2>4, <2>5, <2>6, <2>8 DEF LockedInv
  <2> QED
    BY <2>7, <2>8 DEF LockedInv
<1>3. CASE ReadInvoice(q)
  <2>1. /\ call[q].step = "read" /\ i \in Invoices /\ received' = received /\ invoice' = invoice
        /\ call'[q].paid = invoice[i].paid /\ call'[q].invoice = i
    BY <1>0, <1>3 DEF ReadInvoice, CallReady, Call
  <2> QED
    BY <1>0, <2>1 DEF LockedInv
<1>4. CASE ~ReadInvoice(q) /\ (BeginStep(q) \/ SyncStep(q) \/ AbortCall(q))
  <2>1. received' = received /\ invoice' = invoice
    BY <1>4 DEF BeginStep, CreateInvoice, CreatePayment, SyncAll, Begin, SyncStep, Decide, FindAlert,
                CreateAlert, ResolveMatching, AbortCall
  <2>2. call'[q].step # "commit"
    BY <1>4, CommitsAfterRead
  <2> QED
    BY <1>0, <2>1, <2>2 DEF LockedInv
<1> QED
  BY <1>1, <1>2, <1>3, <1>4 DEF CallStep

\* When a request has stopped or found what it looks for, the alert of a paid
\* invoice is settled, or it will be.
SyncedInv ==
    order = "synced" =>
        /\ OneSync
        /\ OneOpenAlert
        /\ PaidIsQuiet
        /\ \A q \in Callers :
            /\ call[q].step = "create" => alerts[call[q].invoice] = 0
            /\ call[q].step \in {"find", "create"} => invoice[call[q].invoice].status \in Unpaid

\* What the end of a request does to the alerts of its invoice.
LEMMA SyncedAfter ==
    ASSUME PaymentInv, SyncedInv, order = "synced", order' = order, OneSync', PaymentInv',
           NEW q \in Callers, CallStep(q), NEW i \in Invoices, call[q].step # "idle" => call[q].invoice = i,
           call'[q].step # "idle" => call'[q].invoice = i,
           \A j \in Invoices \ {i} : invoice'[j] = invoice[j] /\ alerts'[j] = alerts[j],
           alerts'[i] <= 1,
           call'[q].step = "create" => alerts'[i] = 0,
           call'[q].step \in {"find", "create"} => invoice'[i].status \in Unpaid,
           call[q].step \in SyncSteps /\ call'[q].step \notin SyncSteps =>
                alerts'[i] = 0 \/ invoice'[i].status # "PAID",
           call[q].step \notin SyncSteps /\ call'[q].step \notin SyncSteps =>
                invoice'[i] = invoice[i] /\ alerts'[i] = alerts[i]
    PROVE  SyncedInv'
<1>0. /\ \A p \in Callers \ {q} : call'[p] = call[p]
      /\ CallReady /\ CallReady' /\ SyncSteps = {"sync", "find", "create", "resolve"}
  BY OthersKeep DEF PaymentInv, SyncSteps
<1>1. OneOpenAlert'
  BY DEF SyncedInv, OneOpenAlert
<1>2. ASSUME NEW j \in Invoices, invoice'[j].status = "PAID",
             \A p \in Callers : call'[p].step \in SyncSteps => call'[p].invoice # j
      PROVE  alerts'[j] = 0
  <2>1. CASE j = i
    BY <1>0, <1>2, <2>1 DEF SyncedInv, PaidIsQuiet
  <2>2. CASE j # i
    BY <1>0, <1>2, <2>2 DEF SyncedInv, PaidIsQuiet
  <2> QED
    BY <2>1, <2>2
<1>3. ASSUME NEW p \in Callers
      PROVE  /\ call'[p].step = "create" => alerts'[call'[p].invoice] = 0
             /\ call'[p].step \in {"find", "create"} => invoice'[call'[p].invoice].status \in Unpaid
  <2>1. CASE p = q
    BY <2>1
  <2>2. CASE p # q /\ call[p].step \in {"find", "create"}
    <3>1. call'[p] = call[p] /\ call[p].invoice \in Invoices
      BY <1>0, <2>2 DEF CallReady
    <3>2. CASE call[p].invoice # i
      BY <2>2, <3>1, <3>2 DEF SyncedInv
    <3>3. CASE call[p].invoice = i
      <4>1. call[q].step \notin SyncSteps /\ call'[q].step \notin SyncSteps
        BY <1>0, <2>2, <3>1, <3>3 DEF SyncedInv, OneSync, CallReady
      <4> QED
        BY <2>2, <3>1, <3>3, <4>1 DEF SyncedInv
    <3> QED
      BY <3>2, <3>3
  <2>3. CASE p # q /\ call[p].step \notin {"find", "create"}
    BY <1>0, <2>3
  <2> QED
    BY <2>1, <2>2, <2>3
<1> QED
  BY <1>1, <1>2, <1>3 DEF SyncedInv, PaidIsQuiet

LEMMA SyncedStep ==
    ASSUME PaymentInv, SyncedInv, order = "synced", order' = order, OneSync', PaymentInv',
           NEW q \in Callers, CallStep(q), ~CutShort(q)
    PROVE  SyncedInv'
<1> DEFINE i == call[q].invoice
<1> USE DEF SyncSteps
<1>0. /\ q \in DOMAIN call /\ call[q] \in Call /\ call'[q] \in Call /\ CallReady
      /\ alerts \in [Invoices -> Nat] /\ invoice \in [Invoices -> InvoiceRow]
      /\ NoCall.step = "idle"
  BY DEF PaymentInv, InvoicingTypeOK, NoCall
<1>1. CASE BeginStep(q)
  <2>1. PICK j \in Invoices : \/ \E total \in Totals, due \in Days : CreateInvoice(q, j, total, due)
                              \/ \E n \in Sums : CreatePayment(q, j, n)
                              \/ SyncAll(q, j)
    BY <1>1 DEF BeginStep
  <2>2. /\ call[q].step = "idle" /\ call'[q].invoice = j /\ call'[q].step \in {"insert", "read", "sync"}
        /\ invoice' = invoice /\ alerts' = alerts
    BY <1>0, <2>1 DEF CreateInvoice, CreatePayment, SyncAll, Begin, NoCall
  <2> QED
    BY <1>0, <2>2, SyncedAfter DEF SyncedInv, OneOpenAlert
<1>2. CASE InsertInvoice(q) \/ CommitPayment(q) \/ ReadInvoice(q)
  <2>1. /\ i \in Invoices /\ alerts' = alerts /\ call[q].step \in {"insert", "read", "commit"}
        /\ call'[q].invoice = i /\ call'[q].step \in {"sync", "commit"}
        /\ call'[q].step = "commit" => invoice' = invoice
        /\ \A j \in Invoices \ {i} : invoice'[j] = invoice[j]
    BY <1>0, <1>2 DEF InsertInvoice, CommitPayment, ReadInvoice, Go, CallReady, Call
  <2> QED
    BY <1>0, <2>1, SyncedAfter DEF SyncedInv, OneOpenAlert
<1>3. CASE Decide(q)
  <2>1. /\ i \in Invoices /\ alerts' = alerts /\ invoice' = invoice /\ call[q].step = "sync"
        /\ call'[q].invoice = i /\ call'[q].step \in {"find", "resolve"}
        /\ call'[q].step = "find" => invoice[i].status \in Unpaid
    BY <1>0, <1>3 DEF Decide, Go, CallReady, Call, Overdue
  <2> QED
    BY <1>0, <2>1, SyncedAfter DEF SyncedInv, OneOpenAlert
<1>4. CASE FindAlert(q)
  <2>1. /\ i \in Invoices /\ alerts' = alerts /\ invoice' = invoice /\ call[q].step = "find"
        /\ invoice[i].status \in Unpaid
    BY <1>0, <1>4 DEF FindAlert, Go, CallReady, SyncedInv
  <2>2. \/ call'[q].step = "idle"
        \/ call'[q].step = "create" /\ call'[q].invoice = i /\ alerts[i] = 0
    BY <1>0, <1>4, <2>1 DEF FindAlert, Go, Call
  <2> QED
    BY <1>0, <2>1, <2>2, SyncedAfter DEF SyncedInv, OneOpenAlert, Unpaid
<1>5. CASE CreateAlert(q)
  <2>1. /\ i \in Invoices /\ invoice' = invoice /\ call[q].step = "create" /\ call'[q].step = "idle"
        /\ alerts' = [alerts EXCEPT ![i] = alerts[i] + 1]
        /\ alerts[i] = 0 /\ invoice[i].status \in Unpaid
    BY <1>0, <1>5 DEF CreateAlert, Go, CallReady, SyncedInv
  <2> QED
    BY <1>0, <2>1, SyncedAfter DEF Unpaid
<1>6. CASE ResolveMatching(q)
  <2>1. /\ i \in Invoices /\ invoice' = invoice /\ call[q].step = "resolve" /\ call'[q].step = "idle"
        /\ alerts' = [alerts EXCEPT ![i] = 0]
    BY <1>0, <1>6 DEF ResolveMatching, Go, CallReady
  <2> QED
    BY <1>0, <2>1, SyncedAfter
<1>7. CASE AbortCall(q)
  <2>1. /\ i \in Invoices /\ alerts' = alerts /\ invoice' = invoice /\ call'[q].step = "idle"
        /\ call[q].step # "idle"
    BY <1>0, <1>7 DEF AbortCall, CallReady
  <2>2. call[q].step \in SyncSteps => alerts[i] = 0 \/ invoice[i].status \in Unpaid
    BY <1>0, <1>7, <2>1 DEF CutShort, SyncedInv
  <2> QED
    BY <1>0, <2>1, <2>2, SyncedAfter DEF SyncedInv, OneOpenAlert, Unpaid
<1> QED
  BY <1>1, <1>2, <1>3, <1>4, <1>5, <1>6, <1>7 DEF CallStep, SyncStep

RulesInv == PaymentInv /\ LockedInv /\ SyncedInv

LEMMA RulesInitInv == RuledInvoicingInit => RulesInv
<1> SUFFICES ASSUME RuledInvoicingInit PROVE RulesInv
  OBVIOUS
<1>1. PaymentInv
  BY InitInv DEF RuledInvoicingInit
<1>2. LockedInv /\ SyncedInv
  BY DEF RuledInvoicingInit, InvoicingInit, NoCall, LockedInv, OneReader, SyncedInv, OneSync,
         OneOpenAlert, PaidIsQuiet, SyncSteps
<1> QED
  BY <1>1, <1>2 DEF RulesInv

LEMMA RulesNextInv == RulesInv /\ [RuledInvoicingNext]_<<invoicingVars, order>> => RulesInv'
<1> SUFFICES ASSUME RulesInv, [RuledInvoicingNext]_<<invoicingVars, order>> PROVE RulesInv'
  OBVIOUS
<1>1. PaymentInv'
  BY NextInv DEF RulesInv, RuledInvoicingNext
<1>2. CASE UNCHANGED <<invoicingVars, order>>
  BY <1>1, <1>2 DEF RulesInv, LockedInv, OneReader, SyncedInv, OneSync, OneOpenAlert, PaidIsQuiet,
                    invoicingVars
<1>3. ASSUME NEW q \in Callers, CallStep(q), RuledInvoicingNext
      PROVE  LockedInv' /\ SyncedInv'
  <2>1. LockedInv'
    BY <1>3, LockedStep DEF RulesInv, RuledInvoicingNext, LockedInv
  <2>2. SyncedInv'
    BY <1>1, <1>3, SyncedStep DEF RulesInv, RuledInvoicingNext, SyncedInv
  <2> QED
    BY <2>1, <2>2
<1>4. CASE RuledInvoicingNext /\ InvoicingTick
  BY <1>1, <1>4 DEF RulesInv, RuledInvoicingNext, InvoicingTick, LockedInv, OneReader, SyncedInv,
                    OneSync, OneOpenAlert, PaidIsQuiet
<1>5. ASSUME RuledInvoicingNext, NEW i \in Invoices, Resolve(i)
      PROVE  LockedInv' /\ SyncedInv'
  <2>1. /\ now' = now /\ invoice' = invoice /\ received' = received /\ call' = call /\ order' = order
        /\ \A j \in Invoices : alerts'[j] \in Nat /\ alerts[j] \in Nat /\ alerts'[j] <= alerts[j]
    BY <1>5 DEF RulesInv, PaymentInv, InvoicingTypeOK, RuledInvoicingNext, Resolve
  <2>2. LockedInv'
    BY <2>1 DEF RulesInv, LockedInv, OneReader
  <2>3. \A q \in Callers : call[q].step = "create" => call[q].invoice \in Invoices
    BY DEF RulesInv, PaymentInv, CallReady
  <2>4. SyncedInv'
    BY <2>1, <2>3 DEF RulesInv, SyncedInv, OneSync, OneOpenAlert, PaidIsQuiet
  <2> QED
    BY <2>2, <2>4
<1> QED
  BY <1>1, <1>2, <1>3, <1>4, <1>5 DEF RulesInv, RuledInvoicingNext, InvoicingNext, CallStep

LEMMA RulesInvAlways == RuledInvoicingSpec => []RulesInv
  BY RulesInitInv, RulesNextInv, PTL DEF RuledInvoicingSpec

\* If an invoice were locked from its read to the commit, every payment that is
\* received would be credited to it, once.
THEOREM LockedPaymentsCount == RuledInvoicingSpec => []EveryPaymentCounts
<1>1. RulesInv => EveryPaymentCounts
  BY DEF RulesInv, LockedInv, EveryPaymentCounts
<1> QED
  BY <1>1, RulesInvAlways, PTL

\* Where one request at a time synchronises the alert of an invoice there is one
\* open alert at most (upsertAlert).
THEOREM SyncedOneAlert == RuledInvoicingSpec => []OneOpenAlert
<1>1. RulesInv => OneOpenAlert
  BY DEF RulesInv, SyncedInv, OneOpenAlert
<1> QED
  BY <1>1, RulesInvAlways, PTL

\* And when the request that paid an invoice is over, no alert says that it is
\* overdue (syncInvoiceAlerts).
THEOREM SyncedPaidIsQuiet == RuledInvoicingSpec => []PaidIsQuiet
<1>1. RulesInv => PaidIsQuiet
  BY DEF RulesInv, SyncedInv, PaidIsQuiet
<1> QED
  BY <1>1, RulesInvAlways, PTL
-----------------------------------------------------------------------------
\* Both desks

\* The deposits behave as they do without invoices, and the invoices as they do
\* without deposits: each desk sees the steps of the other as stuttering.
THEOREM DesksApart == MoneySpec => RuledSpec /\ RuledInvoicingSpec
<1>1. MoneyInit => RuledInit /\ RuledInvoicingInit
  BY DEF MoneyInit
<1>2. [MoneyNext]_moneyVars => [RuledNext]_<<vars, rule>>
  BY DEF MoneyNext, moneyVars, depositVars
<1>3. [MoneyNext]_moneyVars => [RuledInvoicingNext]_<<invoicingVars, order>>
  BY DEF MoneyNext, moneyVars, invoiceVars
<1> QED
  BY <1>1, <1>2, <1>3, PTL DEF MoneySpec, RuledSpec, RuledInvoicingSpec

\* Type correctness of every row and every request at both desks.
THEOREM MoneyTyped == MoneySpec => []MoneyTypeOK
<1>1. RulesInv => InvoicingTypeOK
  BY DEF RulesInv, PaymentInv
<1>2. RuledInvoicingSpec => []InvoicingTypeOK
  BY <1>1, RulesInvAlways, PTL
<1>3. TypeOK /\ InvoicingTypeOK => MoneyTypeOK
  BY DEF MoneyTypeOK
<1> QED
  BY <1>2, <1>3, DesksApart, TypeCorrect, PTL
\* Everything that is checked of small instances of the two desks.
THEOREM MoneyKept ==
  MoneySpec => /\ [](EachWithinDeposit /\ NeverOverdrawn /\ StatusTellsLedger)
               /\ [](RowsTellPayments /\ EveryPaymentCounts /\ OneOpenAlert /\ PaidIsQuiet)
               /\ ImplementsLedger
<1>1. RulesInv => RowsTellPayments
  BY DEF RulesInv, PaymentInv
<1>2. RuledInvoicingSpec => []RowsTellPayments
  BY <1>1, RulesInvAlways, PTL
<1> QED
  BY <1>2, DesksApart, WithinDeposit, NotOverdrawn, StatusTells, IsLedger,
     LockedPaymentsCount, SyncedOneAlert, SyncedPaidIsQuiet, PTL
=============================================================================
