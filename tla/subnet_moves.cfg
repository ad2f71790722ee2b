SPECIFICATION FairSpec
CONSTANTS
    a1 = a1
    a2 = a2
    b1 = b1
    v1 = v1
    v2 = v2
    Servers = {v1, v2}
    Subnets = {a1, a2, b1}
    NamespaceOf <- Namespaces
    Specs <- MCSpecs
    Scenarios <- Moves
    MinVNI = 1
    MaxVNI = 2
    MaxInFlight = 2
    Upsets = 1
INVARIANT TypeOK
INVARIANT ConflictsUnseen
PROPERTY GoalsReached
CHECK_DEADLOCK FALSE
