SPECIFICATION Spec
CONSTANTS
    Attempts = {1, 2, 3}
    Uploads = {u1, u2, u3}
    Tests = {t1, t2}
    Runs = {r1}
    MaxFaults = 1
    Payloads <- RetryPayloads
SYMMETRY Symmetry
INVARIANTS
    PatternMatchesDefinition
    CreatedOnce
    NotifiedOnce
    NoFlakeMissed
PROPERTIES
    ImplementsLedger
    LateResultsKeepFlake
CHECK_DEADLOCK FALSE
