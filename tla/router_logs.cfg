SPECIFICATION FairLogsSpec
CONSTANTS
    Charges = {1, 2}
    Timer = timer
    Triggered = {t1}
    BatchLimit = 1
INVARIANTS
    LogsInv
PROPERTIES
    EndIsReported
CHECK_DEADLOCK FALSE
