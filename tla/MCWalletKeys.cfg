SPECIFICATION Spec
CONSTANTS
    k1 = k1
    k2 = k2
    p1 = p1
    p2 = p2
    Keys = {k1, k2}
    Passwords = {p1, p2}
    LocalPassword = LocalPassword
    NoEntry = NoEntry
    MaxSecrets = 6
    MaxEntries = 2
SYMMETRY Symmetry
INVARIANTS
    PersistedKeysUsable
    ListedKeysUsable
    MemoryMatchesDisk
    NoStraySecrets
PROPERTIES
    PasswordChangeAtomic
    KeepsCustody
