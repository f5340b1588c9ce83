CONSTANTS
    Nil = Nil
    Names = {pve1, pve2}
    MaxConcurrent = 1
    MaxCycles = 2
    MaxReloads = 1
    ReloadMargin = 0
    MaxErrors = 1
SPECIFICATION Spec
PROPERTY ProcessLifetimeCounter
