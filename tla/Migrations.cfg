SPECIFICATION FairSpec
CONSTANTS
    Servers = {s1, s2}
    Files = 4
    OneShot <- LastFile
    MaxCrashes = 2
INVARIANT InOrder
PROPERTY ServesUnlessHalfApplied
CHECK_DEADLOCK FALSE
