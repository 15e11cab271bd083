\* One stream and one other request of a user; no race that the code leaves open.
SPECIFICATION Spec
CONSTANTS
    Users = {u1}
    Charges = {c1, c2}
    Keys = {k1}
    NoKey = NoKey
    NoCharge = NoCharge
    Admins = {a1}
    Req <- TwoKinds
    Costs = {0, 15, 93}
    InitialCash = 100
    MonthlyCap = 200
    MarketBps = 1000
    RouterBps = 500
    MaxCandidates = 2
    Races = {}
    Grain = 1
    u1 = u1
    u2 = u2
    c1 = c1
    c2 = c2
    c3 = c3
    k1 = k1
INVARIANTS
    MoneyInv
    ProviderPaidInFull
PROPERTIES
    TerminalIsFinal
    ImplementsReservations
CHECK_DEADLOCK FALSE
