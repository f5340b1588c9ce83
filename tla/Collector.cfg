CONSTANTS
    Nil = Nil
    Names = {pve1, pve2}
    MaxConcurrent = 1
    MaxCycles = 3
    MaxReloads = 2
    ReloadMargin = 2
    MaxErrors = 1
SPECIFICATION FairSpec
INVARIANTS TypeOK OneWholeCycle BoundedPolls StaleAtMostOnce CounterCurrent FailureIsolated
PROPERTIES ImplementsSnapshotModel CyclePublished ReloadTakesEffect StopsAfterShutdown
