CONSTANTS
    Setups <- Choices
    Scrapers = {c1, c2}
    MaxCycles = 2
SPECIFICATION FairSpec
INVARIANTS TypeOK FlushCoversScrapes OncePushesItsCycle
PROPERTIES ServesDespiteClusters RunReturns
