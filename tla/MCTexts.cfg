CONSTANTS
    MaxSalts = 2
    a1 = a1
    a2 = a2
    hello = hello
    blob = blob
    content = content
    late = late
    Keys = {k1}
    Addresses = {a1, a2}
    StateKey <- MCStateKey
    Told <- MCTold
    NewSettings <- MCNewSettings
    FirstSettings <- MCFirstSettings
    Unknown = Unknown
    NoText = NoText
    NoAddress = NoAddress
    NoNetwork = NoNetwork
    OldUrl = OldUrl
    NewUrl = NewUrl
    Mainnet = Mainnet
    MainnetTest = MainnetTest
    Ids = {1, 2}
    Contents <- MCContents
    Calls = {c1, c2}
SYMMETRY Symmetry
SPECIFICATION TextsSpec
INVARIANTS
    SaltHolds
    TextsStayHidden
    LoadedIsSaved
    SliceIsRight
    KeptOnlyAfterError
PROPERTY UsableStays
