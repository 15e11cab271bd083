\* A request made three times under one key, with two bodies and as a stream; no
\* admin ever acts: maintenance alone ends what handlers abandon.
SPECIFICATION FairSpec
CONSTANTS
    Users = {u1}
    Charges = {c1, c2, c3}
    Keys = {k1}
    NoKey = NoKey
    NoCharge = NoCharge
    Admins = {}
    Req <- RetriedKey
    Costs = {20}
    InitialCash = 100
    MonthlyCap = 200
    MarketBps = 1000
    RouterBps = 500
    MaxCandidates = 1
    Races = {}
    Grain = 1
    u1 = u1
    u2 = u2
    c1 = c1
    c2 = c2
    c3 = c3
    k1 = k1
INVARIANTS
    OneChargePerKey
    ReplayIsOfSettledCharge
PROPERTIES
    AbandonedIsEnded
CHECK_DEADLOCK FALSE
