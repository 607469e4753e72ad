SPECIFICATION RuledInvoicingSpec
CONSTANTS
    i1 = i1
    q1 = q1
    q2 = q2
    NoInvoice = NoInvoice
    Invoices = {i1}
    Callers = {q1,q2}
    MaxTotal = 2
    MaxReceived = 2
    Horizon = 0
INVARIANTS
    FullPaymentMarksPaid
CHECK_DEADLOCK FALSE
