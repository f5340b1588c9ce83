CONSTANTS
    Metrics = {m1, m2}
    Nobody = Nobody
    MaxCycles = 2
SPECIFICATION FairSpec
INVARIANTS ScrapeIsOneSnapshot RegisteredOnce PushIsFresh
PROPERTIES BackendsSettle
