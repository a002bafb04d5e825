SPECIFICATION OrderedSpec
CONSTANTS
    Attempts = {1, 2}
    Uploads = {1, 2, 3, 4}
    Tests = {t1}
    Runs = {1, 2}
    MaxFaults = 1
    Payloads <- FlakyReports
    Servers = {s1, s2}
    MaxJobFaults = 1
    Clients = {c1}
    EvidenceLimit = 1
INVARIANTS
    RetentionInv
    NotifiedPerRecord
    MissingOnlyDeleted
    PageAccounts
PROPERTY OldDataGoes
CHECK_DEADLOCK FALSE
