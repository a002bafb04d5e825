SPECIFICATION GuestSpec
CONSTANTS
    Users = {alice, bob}
    Requests = {q1}
    Asks <- OwnerRemovals
    Invites = {1, 2, 3, 4}
    Ops = {o1, o2}
    OpAsks <- OwnerAndGuestOps
INVARIANTS
    InvitesInv
    OneVerdict
    InviteWaitsEnd
PROPERTIES
    AsMembers
    ImplementsOrganization
    InviteAnswered
CHECK_DEADLOCK FALSE
