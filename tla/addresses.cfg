SPECIFICATION Spec
CONSTANTS
    Last = 7
    Base = 167837692
    VNIs = {1, 2097151}
INVARIANT Represents
INVARIANT PicksRight
INVARIANT ReadersAgree
INVARIANT NamesFaithful
INVARIANT ListsKeepOne
