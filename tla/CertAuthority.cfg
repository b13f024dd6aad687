CONSTANTS
    p1 = p1
    p2 = p2
    t1 = t1
    t2 = t2
    t3 = t3
    c1 = c1
    c2 = c2
    k1 = k1
    k2 = k2
    None = None
    Procs <- TwoProcs
    Threads <- ThreeThreads
    Proc <- TwoOfOne
    CertPaths <- TwoCerts
    KeyPaths <- TwoKeys
    MaxCAs = 2
    MaxMoves = 1
SPECIFICATION CASpec
SYMMETRY Symmetry
INVARIANTS OneAuthority NoDeadEnd AbleToSign
