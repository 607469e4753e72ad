SPECIFICATION OfficeSpec
CONSTANTS
    None = None
    Unlimited = Unlimited
    Schedules = {s1}
    Mechanics = {q1, q2}
    Types = {"oil"}
    Documents = {"INSURANCE_EXPIRY"}
    Window = 1
    MaxKm = 1
    Horizon = 1
    Dates = {1, 2}
    Payers = {q1, q2}
    Financed = {2, 23}
    Rates <- MCRates
    Terms = {1, 4}
    Sums = {4}
    Ahead = 1
    LastDay = 2
    Keys = {k1, k2, k3}
    Clerks = {q1, q2}
    Plans <- MCPlans
    Quota <- MCQuota
    MaxNumber = 5
    Base = 2
    Width = 2
    Nights = {n1, n2}
    Retention = 1
SYMMETRY OfficeSymmetry
INVARIANTS
    TypeOK
    AlertsTellTruth
    RefusalIsExplained
    CreditAddsUp
    OvershootBounded
    NumbersAreFresh
    RetentionHolds
PROPERTIES
    OdometerKept
CHECK_DEADLOCK FALSE
