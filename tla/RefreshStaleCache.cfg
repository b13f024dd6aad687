CONSTANTS
    r1 = r1
    r2 = r2
    Nobody = Nobody
    Requests <- TwoRequests
    Flows <- OnlySlack
    MaxGrants = 1
    MaxGen = 1
    MaxManual = 2
SPECIFICATION FairSpec
PROPERTIES StoredAccessTokenUsed
