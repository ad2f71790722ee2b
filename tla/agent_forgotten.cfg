SPECIFICATION Spec
CONSTANTS
    k1 = k1
    k2 = k2
    Keys = {k1}
    Pairs <- OneAddress
    Hosts <- Nodes
    Here = "here"
    PostCreateExec <- Execs
    Budgets <- Wandering
INVARIANT LocalServed
CHECK_DEADLOCK FALSE
