CONSTANTS
    Callers = {n1, n2}
    RetryCount = 2
    MaxCalls = 3
SPECIFICATION FairSpec
PROPERTIES ImplementsDoer RetriesTransientOnly CallReturns
