CONSTANTS
    f1 = f1
    f2 = f2
    k1 = k1
    k2 = k2
    alice = alice
    bob = bob
    t1 = t1
    t2 = t2
    None = None
    Flows <- TwoFlows
    Callbacks <- TwoCallbacks
    Users <- TwoUsers
    UserTokens <- TwoTokens
    Configs <- SomeConfigs
    MaxReloads = 1
    MaxRestarts = 1
SPECIFICATION Spec
SYMMETRY Symmetry
INVARIANTS OneTokenPerUser RejectedOnlyAfterReload PlainOnlyAfterRemoval StoredIsThere
\* Every request of the instance ends.
CHECK_DEADLOCK FALSE
