CONSTANTS
    t1 = t1
    m1 = m1
    bad = bad
    Keys = {k1}
    Configs = {t1, m1, bad}
    Valid = {t1, m1}
    Testnet2 = {t1}
    NoConfig = NoConfig
    Defaults <- MCDefaults
    FirstSaved <- MCFirstSaved
    Impatient = FALSE
    MaxUpdates = 1
    MaxUpsets = 1
SPECIFICATION FairSpec
INVARIANTS
    TypeOK
    OpenAnsweredOnce
    SettingsAgree
    ListOfThisNetwork
PROPERTY CallsEnd
