\* Admins release whatever they like.
SPECIFICATION Spec
CONSTANTS
    Owners = {o1, o2}
    Payouts = {p1, p2}
    NoPayout = NoPayout
    Req <- GateioAndManual
    MinPayout <- Minima
    Amounts = {2}
    MaxEarned = 4
    ScanLimit = 1
    o1 = o1
    o2 = o2
    p1 = p1
    p2 = p2
INVARIANTS
    NothingPaidTwice
CHECK_DEADLOCK FALSE
