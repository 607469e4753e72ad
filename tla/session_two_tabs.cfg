SPECIFICATION TwoTabsSpec
CONSTANTS
    b1 = b1
    b2 = b2
    w1 = w1
    w2 = w2
    w3 = w3
    t1 = t1
    t2 = t2
    t3 = t3
    None = None
    Browsers = {b1,b2}
    Tabs <- MCTabs
    Tokens = {t1,t2,t3}
INVARIANTS
    RotatesOnce
CHECK_DEADLOCK FALSE
