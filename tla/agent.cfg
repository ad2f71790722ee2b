SPECIFICATION Spec
CONSTANTS
    k1 = k1
    k2 = k2
    Keys = {k1, k2}
    Pairs <- TwoNetworks
    Hosts <- Nodes
    Here = "here"
    PostCreateExec <- Execs
    Budgets <- Busy
INVARIANT TypeOK
INVARIANT FabricOwned
INVARIANT MembersUpToDate
INVARIANT ResidentsServed
INVARIANT StrangersServed
CHECK_DEADLOCK FALSE
