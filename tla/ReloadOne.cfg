CONSTANTS
    Clusters = {c1, c2, c3}
    Settings = {s1, s2}
    Invalid = Invalid
    HupBesideWatch = FALSE
    MaxEdits = 4
    MaxSignals = 2
SPECIFICATION FairSpec
INVARIANTS TypeOK SettledOnFile TargetsFollowConfig
PROPERTIES RebuildOnlyOnChange EditTakesEffect
