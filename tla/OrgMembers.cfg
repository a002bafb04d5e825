SPECIFICATION NumberedSpec
CONSTANTS
    Users = {1, 2, 3}
    Requests = {q1, q2}
    Asks <- PairAsks
INVARIANTS
    MembersInv
    WaitsEnd
PROPERTIES
    DecidedOnCurrentRole
    Answered
CHECK_DEADLOCK FALSE
