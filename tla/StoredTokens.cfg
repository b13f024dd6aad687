CONSTANTS
    a1 = a1
    i1 = i1
    i2 = i2
    c1 = c1
    Admins <- OneAdmin
    Refreshes <- TwoRefreshes
    Callbacks <- OneCallback
    Layout = "plain"
    FieldSets <- GenericFields
    MaxPuts = 2
    MaxGen = 2
SPECIFICATION Spec
SYMMETRY Symmetry
INVARIANTS RevokedIsGone RevocationSticks
PROPERTIES ChangesExplained
\* Every process of the instance ends.
CHECK_DEADLOCK FALSE
