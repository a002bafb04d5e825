SPECIFICATION Spec
CONSTANTS
    Attempts = {1, 2}
    Uploads = {u1, u2, u3, u4}
    Tests = {t1}
    Runs = {r1, r2}
    MaxFaults = 0
    Payloads <- FlakyPayloads
SYMMETRY Symmetry
INVARIANT DuplicatesTolerated
CHECK_DEADLOCK FALSE
