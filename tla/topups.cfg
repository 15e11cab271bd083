\* Two top-ups of one user whose events arrive in any order, any number of times.
SPECIFICATION FairSpec
CONSTANTS
    Users = {u1}
    Topups = {t1, t2}
    Req <- TwoTopups
    MaxTopup = 2
    Amounts = {2}
    MaxCash = 2
    u1 = u1
    t1 = t1
    t2 = t2
INVARIANTS
    TopupInv
    TopupsConserveMoney
    RecordedIsApplied
PROPERTIES
    FinalOrderStays
    PendingEnds
CHECK_DEADLOCK FALSE
