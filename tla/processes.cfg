SPECIFICATION FairSpec
CONSTANTS
    VNIs = {"vni1", "vni2"}
    Fabrics = {"ovs", "logger"}
    Faults = 2
    Signals = 2
INVARIANT TypeOK
INVARIANT RunOnce
INVARIANT WorkersReady
PROPERTY ComesUp
PROPERTY StopEnds
CHECK_DEADLOCK FALSE
