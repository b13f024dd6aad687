CONSTANTS
    s1 = s1
    s2 = s2
    j1 = j1
    j2 = j2
    j3 = j3
    Services <- TwoServices
    Configured <- None
    Catalog <- TwoServices
    Listed = FALSE
    Jobs <- TwoJobs
SPECIFICATION Spec
INVARIANTS StoredIsIndexed
\* Every job of the instance ends.
CHECK_DEADLOCK FALSE
