CONSTANTS
    a1 = a1
    i1 = i1
    i2 = i2
    c1 = c1
    Admins <- OneAdmin
    Refreshes <- TwoRefreshes
    Callbacks <- OneCallback
    Layout = "google"
    FieldSets <- GoogleFields
    MaxPuts = 0
    MaxGen = 0
SPECIFICATION Spec
SYMMETRY Symmetry
INVARIANTS RevokedIsGone
\* Every process of the instance ends.
CHECK_DEADLOCK FALSE
