CONSTANTS
    Offsets <- MCOffsets
    Behinds <- MCBehinds
    MaxSlow = 8
    Urls = {u1, u2}
    Loads = {l1, l2, l3, l4}
    Checks = {c1}
    Sends = {s1, s2}
    NewKeys = {n1, n2}
    WordChecks = {w1}
    MaxStarts = 2
    Accounts = {a1, a2}
    Slots = {1, 2}
    Delays = {1, 3}
    DefaultDelay = 3
    PendingDelay = 2
SPECIFICATION CallsSpec
CHECK_DEADLOCK FALSE
INVARIANTS
    LoaderServesAll
    SentIsPending
PROPERTIES
    ClockGetsBetter
    WrongClockIsSet
    LoadsAreAnswered
    NothingAfterDestructor
    SendingEnds
    KeysAreAnsweredAndGone
    RefreshComesInTime
