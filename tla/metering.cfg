\* Rates of up to 50 % in total, amounts with two more digits than the ledger;
\* answers of three events in chunks of one to three bytes; three models and
\* three prices over four patterns.
SPECIFICATION Spec
CONSTANTS
    m1 = m1
    m2 = m2
    m3 = m3
    p1 = p1
    p2 = p2
    p3 = p3
    Grain = 4
    RateSteps = {0, 1, 500, 1000, 2500, 3333, 5000}
    MaxTotalBps = 5000
    MaxAmount = 120
    Events <- MCEvents
    Streams <- MCStreams
    MaxChunk = 3
    ModelIds = {m1, m2, m3}
    NoModel = NoModel
    PriceIds = {p1, p2, p3}
    Keys <- MCKeys
    Defaults <- MCDefaults
    Withdrawn <- MCWithdrawn
    Names <- MCNames
    Amounts = {1}
    Discounts = {10}
    DefaultAmount = 1
SYMMETRY Symmetry
INVARIANTS
    SplitIsExact
    ChunksDoNotMatter
    ReportedUsageIsCharged
    TablesAgree
    OfflineIsNotUndercut
    NoPriceIsLeftBehind
CHECK_DEADLOCK FALSE
