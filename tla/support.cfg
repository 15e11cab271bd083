SPECIFICATION MCSpec
CONSTANTS
    Tickets = {t1, t2}
    Focal = t1
    Charges = {0, 1}
    NoCharge = NoCharge
    Handlers = {h1, h2}
    Aide = h1
    Attachments = {a1, a2}
    AdminFiles = {a2}
    Week = 0
    MaxClock = 2
    BatchSize = 1
    MaxFaults = 1
INVARIANTS
    SupportInv
CHECK_DEADLOCK FALSE
PROPERTIES
    OpenReportKeepsEvidence
    UnheardIsNotClosed
    SilentTicketCloses
    ExpiredEvidenceGoes
