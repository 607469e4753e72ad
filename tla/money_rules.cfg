SPECIFICATION MoneySpec
CONSTANTS
    None = None
    NoInvoice = NoInvoice
    Contracts = {c1, c2}
    Requests = {q1, q2}
    MaxAmount = 3
    Invoices = {i1}
    Callers = {p1, p2, p3}
    MaxTotal = 2
    MaxReceived = 3
    Horizon = 1
SYMMETRY Symmetry
INVARIANTS
    MoneyTypeOK
    EachWithinDeposit
    NeverOverdrawn
    StatusTellsLedger
    RowsTellPayments
    EveryPaymentCounts
    OneOpenAlert
    PaidIsQuiet
PROPERTIES
    ImplementsLedger
CHECK_DEADLOCK FALSE
