CONSTANTS
    t1 = t1
    m1 = m1
    bad = bad
    Keys = {k1}
    Configs = {t1, m1, bad}
    Valid = {t1, m1}
    Testnet2 = {t1}
    NoConfig = NoConfig
    Defaults <- MCOneDefault
    FirstSaved <- MCFirstSaved
    Impatient = TRUE
    MaxUpdates = 1
    MaxUpsets = 0
SPECIFICATION Spec
INVARIANT DeletionAllowed
