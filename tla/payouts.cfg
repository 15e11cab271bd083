\* Two Gate.io payouts of an owner, and an owner who may be given earnings.
SPECIFICATION FairSpec
CONSTANTS
    Owners = {o1, o2}
    Payouts = {p1, p2}
    NoPayout = NoPayout
    Req <- TwoGateio
    MinPayout <- Minima
    Amounts = {2}
    MaxEarned = 4
    ScanLimit = 1
    o1 = o1
    o2 = o2
    p1 = p1
    p2 = p2
INVARIANTS
    PayoutInv
    TransferredOnce
    TransferredIsNotReturned
    PayoutsConserveMoney
PROPERTIES
    PayoutsMove
    FinalPayoutStays
    ImplementsEscrow
CHECK_DEADLOCK FALSE
