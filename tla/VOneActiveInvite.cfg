SPECIFICATION OneEachSpec
CONSTANTS
    Users = {alice, bob}
    Requests = {q1}
    Asks <- OwnerRemovals
    Invites = {i1, i2}
    Ops = {o1, o2}
    OpAsks <- Creations
SYMMETRY Symmetry
INVARIANT OneActiveInvite
CHECK_DEADLOCK FALSE
