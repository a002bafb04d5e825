SPECIFICATION NumberedSpec
CONSTANTS
    Keys = {k1, k2, k3}
    Names = {n1, n2, n3}
    Scopes = {ingest, read}
    IngestScopes = {ingest}
    Requests = {q1, q2}
    Uploads = {u1}
    Asks <- SomeAsks
    MaxDay = 1
INVARIANTS
    KeyWaitsEnd
    EndedOnce
    LimitInherited
    ShutOut
    RotationsHeld
PROPERTIES
    ImplementsRing
    Answered
CHECK_DEADLOCK FALSE
