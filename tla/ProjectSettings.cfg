SPECIFICATION FirstSpec
CONSTANTS
    Requests = {q1, q2}
    Readers = {r1}
    Earlier = 1
    Limits = {9}
    MaxLimit = 1
    DefaultLimit = 1
    Users = {u1}
    Slugs = {s1}
    Hooks = {h1, h2}
    Asks <- HookAsks
    Flakes = {f1}
    ProjectOf <- EveryFlakeIn
INVARIANTS
    SettingsInv
    AuditTrail
    PostedWhereConfigured
    WalkSeesAll
PROPERTIES
    ImplementsNotices
    RequestsAnswered
    NotificationsEnd
CHECK_DEADLOCK FALSE
