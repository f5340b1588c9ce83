CONSTANTS
    Clusters = {c1, c2, c3}
    Settings = {s1, s2}
    Invalid = Invalid
    HupBesideWatch = TRUE
    MaxEdits = 4
    MaxSignals = 1
SPECIFICATION Spec
INVARIANT TargetsFollowConfig
