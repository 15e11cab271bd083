\* A call or a stream may take longer than the ten minutes of maintenance.
SPECIFICATION Spec
CONSTANTS
    Users = {u1}
    Charges = {c1, c2}
    Keys = {k1}
    NoKey = NoKey
    NoCharge = NoCharge
    Admins = {}
    Req <- TwoKinds
    Costs = {20}
    InitialCash = 100
    MonthlyCap = 200
    MarketBps = 1000
    RouterBps = 500
    MaxCandidates = 2
    Races = {"slow_call"}
    Grain = 1
    u1 = u1
    u2 = u2
    c1 = c1
    c2 = c2
    c3 = c3
    k1 = k1
INVARIANTS
    HeldMatchesActive
CHECK_DEADLOCK FALSE
