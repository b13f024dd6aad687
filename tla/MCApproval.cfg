CONSTANTS
    r1 = r1
    c1 = c1
    c2 = c2
    c3 = c3
    Requests <- OneRequest
    Calls <- ThreeCalls
SPECIFICATION FairSpec
INVARIANTS ForwardedWasApproved PendingIsInWait VerdictsConserved
PROPERTIES WaitEnds ResolveReturnsUnlessSlotLost GateLive
\* Every request and every call of the instance comes to its end.
CHECK_DEADLOCK FALSE
