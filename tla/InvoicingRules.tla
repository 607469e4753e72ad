--------------------------- MODULE InvoicingRules ---------------------------
(***************************************************************************)
(* What the invoices and alerts would give if requests did not disturb each  *)
(* other.  The code locks no row, so neither order is kept by it; a behaviour *)
(* keeps one order from its beginning to its end.                            *)
(***************************************************************************)
EXTENDS Invoicing

VARIABLE order

\* "none": any interleaving, what the code allows.
\* "locked": what a lock on the invoice row, taken when it is read, would give:
\* one transaction at a time between its read and its commit.
\* "synced": the alert of an invoice is synchronised by one request after the
\* other, and no request stops with the alert not yet up to date.
Orders == {"none", "locked", "synced"}

OneReader ==
    \A p, q \in Callers :
        (p # q /\ call[p].step = "commit" /\ call[q].step = "commit")
            => call[p].invoice # call[q].invoice

OneSync ==
    \A p, q \in Callers :
        (p # q /\ call[p].step \in SyncSteps /\ call[q].step \in SyncSteps)
            => call[p].invoice # call[q].invoice

\* Request q stops before the write that would bring the alert up to date.
CutShort(q) ==
    /\ \/ call[q].step \in {"sync", "create"}
       \/ call[q].step = "find" /\ alerts[call[q].invoice] = 0
       \/ call[q].step = "resolve" /\ alerts[call[q].invoice] > 0
    /\ AbortCall(q)

RuledInvoicingInit == InvoicingInit /\ order \in Orders

RuledInvoicingNext ==
    /\ InvoicingNext
    /\ order = "locked" => OneReader'
    /\ order = "synced" => OneSync' /\ \A q \in Callers : ~CutShort(q)
    /\ UNCHANGED order

RuledInvoicingSpec == RuledInvoicingInit /\ [][RuledInvoicingNext]_<<invoicingVars, order>>

-----------------------------------------------------------------------------
\* Under a lock, every payment received is credited to its invoice, once,
\* whatever aborts, overpayments and resyncs do meanwhile.
EveryPaymentCounts ==
    order = "locked" => \A i \in Invoices : invoice[i].paid = received[i]

\* schema.prisma: "One open alert per (tenant, type, target) — upserts on resync".
\* It is so when an alert is synchronised by one request at a time.
OneOpenAlert == order = "synced" => \A i \in Invoices : alerts[i] <= 1

\* When the request that paid an invoice is over, no alert says it is overdue,
\* if that request ran to its end undisturbed.
PaidIsQuiet ==
    order = "synced" =>
        \A i \in Invoices :
            (/\ invoice[i].status = "PAID"
             /\ \A q \in Callers : call[q].step \in SyncSteps => call[q].invoice # i)
            => alerts[i] = 0
=============================================================================
