CONSTANTS
    c1 = c1
    c2 = c2
    k1 = k1
    k2 = k2
    a = a
    b = b
    None = None
    Callers <- TwoCallers
    Keys <- TwoKeys
    Texts <- TwoTexts
    Values <- Envelopes
    MaxKeys = 2
    MaxWrites = 3
    MaxEntries = 1
SPECIFICATION Spec
SYMMETRY Symmetry
INVARIANTS KeysIntact PlaintextAccounted
PROPERTIES OneKeyAtATime ImplementsSecretStore
