CONSTANTS
    k1 = k1
    k2 = k2
    b1 = b1
    b2 = b2
    c1 = c1
    c2 = c2
    Keys <- MCKeys
    Bytes <- MCBytes
    Empty = Empty
    Calls <- MCCalls
    MaxTyped = 2
SPECIFICATION FairSpec
INVARIANTS
    RemembersListedOnly
    WaitsForNewer
PROPERTIES
    PromptIsTrue
    DecryptEnds
    GoodPasswordExpires
