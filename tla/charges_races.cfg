\* Two admins and calls of any length, on charges of one user and one key.
SPECIFICATION Spec
CONSTANTS
    Users = {u1}
    Charges = {c1, c2}
    Keys = {k1}
    NoKey = NoKey
    NoCharge = NoCharge
    Admins = {a1, a2}
    Req <- SameKey
    Costs = {20, 90}
    InitialCash = 100
    MonthlyCap = 200
    MarketBps = 1000
    RouterBps = 500
    MaxCandidates = 1
    Races = {"slow_call", "admin_race"}
    Grain = 1
    u1 = u1
    u2 = u2
    c1 = c1
    c2 = c2
    c3 = c3
    k1 = k1
INVARIANTS
    HeldNeverExceedsActive
    MoneyConserved
CHECK_DEADLOCK FALSE
