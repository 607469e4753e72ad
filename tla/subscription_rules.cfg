SPECIFICATION RuledSpec
CONSTANTS
    t1 = t1
    e1 = e1
    q1 = q1
    q2 = q2
    None = None
    Tenants = {t1}
    Events = {e1}
    Requests = {q1,q2}
    Periods = {1}
    Trial = 0
    Year = 1
    Horizon = 1
    MaxEnd = 2
    MaxPayments = 1
SYMMETRY Symmetry
INVARIANTS
    TypeOK
    NeverExtendedTwice
    EveryPaymentExtends
    ActiveHasEnd
PROPERTIES
    AddsToWhatIsLeft
CHECK_DEADLOCK FALSE
