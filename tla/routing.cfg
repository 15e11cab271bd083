SPECIFICATION MCSpec
CONSTANTS
    Shares = {s1, s2, s3}
    Models = {m1}
    Keys = {k1, k2}
    Requests = {r1, r2}
    NoKind = NoKind
    NoShare = NoShare
    NoKey = NoKey
    NoModel = NoModel
    PrimaryKey <- Primary
    HistoryKey <- NoHistory
    Follows <- Responses
    Asks <- AskM1
    PriceModel <- BillsAsked
    Protocol <- OneResponses
    Identified = {r1}
    FailsWith <- Failing
    Listings <- Tables
    Allowlists = {{}, {s1}}
    RuleMode <- OneExcluded
    RuleLists = {{s2}, {s2, s3}}
    StickyEnabled = TRUE
    SelectLimit = 2
    MaxAttempts = 2
    MaxFailures = 1
    s1 = s1
    s2 = s2
    s3 = s3
    m1 = m1
    m2 = m2
    r1 = r1
    r2 = r2
    k1 = k1
    k2 = k2
INVARIANTS
    RoutingInv
PROPERTIES
    SessionStaysWhileServed
CHECK_DEADLOCK FALSE
