SPECIFICATION Spec
CONSTANTS
    Flags <- CommandLines
    Nodes = {"n1"}
    IPs = {1}
    Budgets <- Limits
INVARIANT TypeOK
INVARIANT LayoutSound
INVARIANT NothingForgotten
INVARIANT SlotsTellTruth
INVARIANT DuplicatesNoticed
INVARIANT PendingCovers
CHECK_DEADLOCK FALSE
