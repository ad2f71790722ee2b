SPECIFICATION Spec
CONSTANTS
    k1 = k1
    k2 = k2
    s1 = s1
    c1 = c1
    Keys = {k1, k2}
    NameOf <- Names
    Subnets = {s1}
    SubnetsOf <- SameNamespace
    SubnetDefs <- Pair
    Controllers = {c1}
    Budgets <- OneUpdate
    Ticks = {1}
    MaxLocks = 4
    Workers = 2
INVARIANT AddressExclusive
SYMMETRY SymKeys
CHECK_DEADLOCK FALSE
