SPECIFICATION Spec
CONSTANTS
    Threads = {"t1", "t2"}
    Pairs <- DistinctCookies
    Hosts = {"h1", "h2"}
    Ports = {1, 2}
INVARIANT TypeOK
INVARIANT FlowsLeadHome
INVARIANT ClientKnows
PROPERTY ImplementsFabric
