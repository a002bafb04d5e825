SPECIFICATION PlannedSpec
CONSTANTS
    Attempts = {1, 2}
    Uploads = {u1, u2, u3, u4}
    Tests = {t1, t2}
    Runs = {r1, r2}
    MaxFaults = 0
    Payloads <- FlakyPayloads
INVARIANTS
    StatsBacked
    WaitsEnd
PROPERTY Answered
CHECK_DEADLOCK FALSE
