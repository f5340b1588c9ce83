CONSTANTS
    Main = Main
    n1 = n1
    n2 = n2
    n3 = n3
    Nodes = {n1, n2, n3}
    Setups <- Choices
    MaxItems = 1
SPECIFICATION FairSpec
INVARIANTS NodesIsolated NoSampleLost BoundedNodePolls
PROPERTIES ImplementsTargetPromise PollEnds
