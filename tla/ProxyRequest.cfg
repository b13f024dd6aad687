CONSTANTS
    k1 = k1
    target = target
    other = other
    Conns <- OneConn
    Methods <- OneMethod
    Paths <- TwoPaths
    Root = "/"
    Target = target
    OtherHosts <- OneOther
    Configs <- SixConfigs
    MaxReloads = 2
    MaxRequests = 3
SPECIFICATION FairSpec
INVARIANTS SentWasAllowed NeverJudgedLate CredentialsOrNothing
PROPERTIES RequestsAnswered TunnelsEnd HalfCloseHonoured
\* Connections and reloads of the instance come to an end.
CHECK_DEADLOCK FALSE
