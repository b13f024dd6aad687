CONSTANTS
    r1 = r1
    r2 = r2
    Nobody = Nobody
    Requests <- TwoRequests
    Flows <- AllFlows
    MaxGrants = 2
    MaxGen = 1
    MaxManual = 1
SPECIFICATION FairSpec
INVARIANTS OneRefreshAtATime RefreshOnlyWithoutToken StoreIsCurrent RefusedOnlyAfterLoss CacheNotAheadOfStore
PROPERTIES PresentsCurrentToken RequestsEnd
