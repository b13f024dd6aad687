------------------------- MODULE TokenRefreshProofs -------------------------
(***************************************************************************)
(* Proofs about TokenRefresh, for any number of requests, authorizations   *)
(* and rotations.  RotationInv is the heart of it: while a rotated refresh *)
(* token is only in the memory of the request that got it, nobody else     *)
(* holds a token as new as that one, so there is one such request per      *)
(* grant and its store cannot overwrite a newer token; an answer that      *)
(* repeats the old token can, but only one that was under way when the     *)
(* token was rotated.  It needs no mutex, hence holds for every flow;      *)
(* MutexInv says that the mutex leaves no room for such an answer.         *)
(***************************************************************************)
EXTENDS TokenRefresh, TLAPS

\* A real refresh token of an authorization that has taken place.
Issued(t) == t \in Token /\ t.grant \in 1..grants /\ t.gen <= current[t.grant]

\* Requests that have presented a refresh token and not ended.
Presented(r) == pc[r] \in {"exchange", "reply", "returned", "store"}

\* Refresh tokens held by the store and by requests are issued ones.
IssuedInv ==
    /\ refresh # NoToken => Issued(refresh)
    /\ \A r \in Requests : Presented(r) => Issued(using[r])
    /\ \A r \in Requests : pc[r] = "reply" => got[r] = using[r]
    /\ \A g \in 1..MaxGrants : g > grants => current[g] = 0

\* A carried token is the newest of its grant, and nobody else has it.
CarriedInv ==
    \A r \in Requests : Carries(r) =>
        LET g == using[r].grant
        IN  /\ got[r] = [grant |-> g, gen |-> current[g]]
            /\ current[g] > 0
            /\ refresh.grant = g => refresh.gen < current[g]
            /\ \A q \in Requests \ {r} :
                    (pc[q] = "exchange" \/ Returning(q)) /\ using[q].grant = g
                        => using[q].gen < current[g] /\ ~Carries(q)

\* A token repeated by an answer is the newest, unless it has been overtaken.
EchoInv ==
    \A r \in Requests : Echoes(r) =>
        \/ using[r].gen = current[using[r].grant]
        \/ using[r].grant \in overtaken

\* StoreIsCurrent, whether there is a mutex or not.
StoreInv ==
    LET g == refresh.grant
    IN  \/ refresh = NoToken
        \/ refresh.gen = current[g]
        \/ g \in lost
        \/ \E r \in Requests : Carries(r) /\ using[r].grant = g
        \/ g \in overtaken

RotationInv == TypeOK /\ IssuedInv /\ CarriedInv /\ EchoInv /\ StoreInv

\* The mutex: whoever holds it is at work and found no live token before, only
\* the holder changes the cache (expiry and restart only empty it), and no answer
\* is under way while another request rotates.
MutexInv ==
    /\ TypeOK
    /\ OneRefreshAtATime
    /\ RefreshOnlyWithoutToken
    /\ flow.locked => overtaken = {}

\* Both together give the property of TokenRefresh.
LEMMA CurrentFollows == RotationInv /\ MutexInv => StoreIsCurrent
  BY DEF RotationInv, MutexInv, StoreInv, StoreIsCurrent
-----------------------------------------------------------------------------
\* The initial states satisfy both inductive invariants.
LEMMA InitRefresh == Init => RotationInv /\ MutexInv
  <1> SUFFICES ASSUME Init PROVE RotationInv /\ MutexInv
    OBVIOUS
  <1>1. TypeOK
    <2>1. params \in BOOLEAN
      BY DEF Init
    <2>2. NoToken \in Token /\ FirstToken \in Token /\ NoEntry \in CacheEntry
      BY ConstantsOK DEF Token, NoToken, FirstToken, NoEntry, CacheEntry, ConstantsOK
    <2>3. refresh \in Token /\ flow \in FlowType
      BY <2>2, ConstantsOK DEF Init, ConstantsOK
    <2> QED
      <3>1. /\ current \in [1..MaxGrants -> Nat] /\ grants \in 1..MaxGrants
            /\ pc \in [Requests -> {"idle"}]
        BY ConstantsOK DEF Init, ConstantsOK
      <3>2. access \in Token /\ using \in [Requests -> Token] /\ got \in [Requests -> Token]
        BY <2>2 DEF Init
      <3> QED
        BY <2>1, <2>2, <2>3, <3>1, <3>2 DEF Init, TypeOK
  <1>2. IssuedInv
    BY ConstantsOK DEF Init, IssuedInv, Presented, Issued, Token, NoToken, FirstToken, ConstantsOK
  <1>3. CarriedInv /\ EchoInv
    BY DEF Init, CarriedInv, EchoInv, Carries, Echoes, Returning
  <1>4. StoreInv
    BY ConstantsOK DEF Init, StoreInv, NoToken, FirstToken, ConstantsOK
  <1>5. OneRefreshAtATime /\ RefreshOnlyWithoutToken /\ overtaken = {}
    BY ConstantsOK DEF Init, OneRefreshAtATime, RefreshOnlyWithoutToken, Working, ConstantsOK
  <1> QED
    BY <1>1, <1>2, <1>3, <1>4, <1>5 DEF RotationInv, MutexInv

\* Facts about tokens and cache entries that the steps move around.
LEMMA TokenFacts ==
    /\ NoToken \in Token /\ FirstToken \in Token
    /\ \A t \in Token : t.grant \in 0..MaxGrants /\ t.gen \in Nat
    /\ \A t \in Token : [t EXCEPT !.gen = @ + 1] \in Token
    /\ \A g \in 0..MaxGrants, n \in Nat : [grant |-> g, gen |-> n] \in Token
    /\ \A t \in Token : Live(t) \in CacheEntry /\ Permanent(t) \in CacheEntry
    /\ \A e \in CacheEntry : e.token \in Token
    /\ NoEntry \in CacheEntry
  BY ConstantsOK DEF ConstantsOK, Token, NoToken, FirstToken, CacheEntry, NoEntry, Live, Permanent

\* What the injector reads as refresh token is a token.
LEMMA RefreshTokenType == TypeOK => RefreshToken \in Token
  BY TokenFacts
     DEF TypeOK, FlowType, RefreshToken, SecretValue, RotatingSecretValue

\* Every variable keeps its type.
LEMMA TypeStep == TypeOK /\ [Next]_vars => TypeOK'
  <1> SUFFICES ASSUME TypeOK, [Next]_vars PROVE TypeOK'
    OBVIOUS
  <1> USE TokenFacts, ConstantsOK DEF TypeOK, Working, Ended, FirstRead, credential, storeVars, reqVars,
          provider, history
  <1>1. ASSUME NEW r \in Requests, LookUpCache(r) PROVE TypeOK'
    <2>1. CASE Hit /\ Serve(r, cache.token)
      BY <1>1, <2>1 DEF LookUpCache, Serve, Release
    <2>2. CASE ~(Hit /\ Serve(r, cache.token))
      <3>1. /\ using' = [using EXCEPT ![r] = NoToken] /\ got' = [got EXCEPT ![r] = NoToken]
            /\ \E s \in {"lock", "refresh", "access"} : pc' = [pc EXCEPT ![r] = s]
            /\ UNCHANGED <<credential, storeVars, provider, cache, owner, history>>
        BY <1>1, <2>2 DEF LookUpCache
      <3> HIDE DEF FirstRead
      <3> QED
        BY <3>1
    <2> QED
      BY <2>1, <2>2
  <1>2. ASSUME NEW r \in Requests, Acquire(r) PROVE TypeOK'
    <2>1. CASE Hit
      <3>1. cache.token \in Token /\ Serve(r, cache.token) /\ cache' = cache
            /\ UNCHANGED <<credential, storeVars, provider, history>>
        BY <1>2, <2>1 DEF Acquire
      <3> QED
        BY <3>1 DEF Serve, Release
    <2>2. CASE ~Hit
      BY <1>2, <2>2 DEF Acquire
    <2> QED
      BY <2>1, <2>2
  <1>3. ASSUME NEW r \in Requests, ReadAccess(r) PROVE TypeOK'
    <2>1. CASE flow.stored = "first" /\ access # NoToken
      <3>1. cache' \in CacheEntry /\ Serve(r, access)
            /\ UNCHANGED <<credential, storeVars, provider, history>>
        BY <1>3, <2>1 DEF ReadAccess
      <3> QED
        BY <3>1 DEF Serve, Release
    <2>2. CASE ~(flow.stored = "first" /\ access # NoToken)
      BY <1>3, <2>2 DEF ReadAccess
    <2> QED
      BY <2>1, <2>2
  <1>4. ASSUME NEW r \in Requests, ReadRefresh(r) PROVE TypeOK'
    <2>1. RefreshToken \in Token
      BY RefreshTokenType
    <2> QED
      BY <1>4, <2>1 DEF ReadRefresh
  <1>5. ASSUME NEW r \in Requests, UseStoredAccess(r) PROVE TypeOK'
    BY <1>5 DEF UseStoredAccess, Serve, Release
  <1>6. ASSUME NEW r \in Requests, NothingStored(r) PROVE TypeOK'
    BY <1>6 DEF NothingStored, Fail, Release
  <1>7. ASSUME NEW r \in Requests, Refuse(r) PROVE TypeOK'
    BY <1>7 DEF Refuse, Fail, Release
  <1>8. ASSUME NEW r \in Requests, Keep(r) PROVE TypeOK'
    BY <1>8 DEF Keep, Answer
  <1>8a. ASSUME NEW r \in Requests, Echo(r) PROVE TypeOK'
    BY <1>8a DEF Echo, Answer
  <1>9. ASSUME NEW r \in Requests, Rotate(r) PROVE TypeOK'
    <2>1. /\ [using[r] EXCEPT !.gen = @ + 1] \in Token /\ using[r].gen + 1 \in Nat
          /\ using[r].grant \in 0..MaxGrants
      OBVIOUS
    <2> QED
      BY <1>9, <2>1 DEF Rotate, Answer
  <1>10. ASSUME NEW r \in Requests, Receive(r) PROVE TypeOK'
    <2>1. Live(got[r]) \in CacheEntry
      OBVIOUS
    <2>2. CASE pc[r] = "returned"
      BY <1>10, <2>1, <2>2 DEF Receive
    <2>3. CASE pc[r] = "reply"
      <3>1. cache' \in CacheEntry /\ Serve(r, got[r])
            /\ UNCHANGED <<credential, storeVars, provider, history>>
        BY <1>10, <2>1, <2>3 DEF Receive
      <3> QED
        BY <3>1 DEF Serve, Release
    <2> QED
      BY <1>10, <2>2, <2>3 DEF Receive
  <1>11. ASSUME NEW r \in Requests, StoreRotated(r) PROVE TypeOK'
    BY <1>11 DEF StoreRotated, Serve, Release
  <1>12. ASSUME NEW r \in Requests, Abort(r) PROVE TypeOK'
    BY <1>12 DEF Abort, Fail, Release
  <1>13. CASE Expire
    BY <1>13 DEF Expire
  <1>14. CASE Reauthorize
    <2>1. grants' \in 1..MaxGrants /\ grants' \in 0..MaxGrants
      BY <1>14 DEF Reauthorize, ConstantsOK
    <2>2. refresh' \in Token
      BY <1>14, <2>1 DEF Reauthorize
    <2> QED
      BY <1>14, <2>1, <2>2 DEF Reauthorize
  <1>15. CASE StoreAccess
    <2>1. PICK n \in 1..MaxManual : ChangeAccess([grant |-> 0, gen |-> n])
      BY <1>15 DEF StoreAccess
    <2>2. [grant |-> 0, gen |-> n] \in Token
      BY DEF ConstantsOK, Token
    <2> QED
      BY <2>1, <2>2 DEF ChangeAccess
  <1>16. CASE DeleteAccess
    BY <1>16 DEF DeleteAccess, ChangeAccess
  <1>16a. CASE DeleteRefresh
    BY <1>16a DEF DeleteRefresh
  <1>16b. ASSUME NEW g \in 1..grants, RevokeAtProvider(g) PROVE TypeOK'
    BY <1>16b DEF RevokeAtProvider, ConstantsOK
  <1>17. CASE Restart
    BY <1>17 DEF Restart, ConstantsOK
  <1>18. CASE UNCHANGED vars
    BY <1>18 DEF vars, credential, storeVars, reqVars
  <1> QED
    BY <1>1, <1>2, <1>3, <1>4, <1>5, <1>6, <1>7, <1>8, <1>8a, <1>9, <1>10, <1>11, <1>12, <1>13, <1>14, <1>15, <1>16, <1>16a, <1>16b, <1>17, <1>18
       DEF Next, Work, Environment

\* The credential and the function for it stay what they are.
LEMMA CredentialStays == [Next]_vars => flow' = flow /\ params' = params
  BY DEF Next, Work, Environment, vars, credential, LookUpCache, Acquire, ReadAccess, ReadRefresh,
     UseStoredAccess, NothingStored, Refuse, Keep, Echo, Rotate, Answer, Receive, StoreRotated, Abort,
     Expire, Reauthorize, StoreAccess, DeleteAccess, DeleteRefresh, RevokeAtProvider, ChangeAccess,
     Restart

\* The mutex excludes: one request at a time between its reads and its store,
\* and it found no live token.
LEMMA MutexStep == MutexInv /\ [Next]_vars => MutexInv'
  <1> DEFINE Goal == /\ \A r \in Requests : (pc'[r] \in Working) <=> (owner' = r)
                     /\ \A r \in Requests :
                            pc'[r] \in {"access", "refresh", "exchange"} => ~Hit'
                     /\ overtaken' = {}
  <1> SUFFICES ASSUME MutexInv, [Next]_vars, flow.locked PROVE Goal
    BY TypeStep, CredentialStays DEF MutexInv, OneRefreshAtATime, RefreshOnlyWithoutToken
  <1> USE ConstantsOK DEF MutexInv, TypeOK, OneRefreshAtATime, RefreshOnlyWithoutToken,
          Working, Ended, FirstRead, Hit, credential, storeVars, reqVars, provider,
          history, NoEntry, ConstantsOK
  <1>1. ASSUME NEW r \in Requests, LookUpCache(r) PROVE Goal
    BY <1>1 DEF LookUpCache, Serve, Release
  <1>2. ASSUME NEW r \in Requests, Acquire(r) PROVE Goal
    BY <1>2 DEF Acquire, Serve, Release
  <1>3. ASSUME NEW r \in Requests, ReadAccess(r) PROVE Goal
    <2>1. CASE flow.stored = "first" /\ access # NoToken
      BY <1>3, <2>1 DEF ReadAccess, Serve, Release
    <2>2. CASE ~(flow.stored = "first" /\ access # NoToken)
      BY <1>3, <2>2 DEF ReadAccess
    <2> QED
      BY <2>1, <2>2
  <1>4. ASSUME NEW r \in Requests, ReadRefresh(r) PROVE Goal
    BY <1>4 DEF ReadRefresh
  <1>5. ASSUME NEW r \in Requests, UseStoredAccess(r) PROVE Goal
    BY <1>5 DEF UseStoredAccess, Serve, Release
  <1>6. ASSUME NEW r \in Requests, NothingStored(r) PROVE Goal
    BY <1>6 DEF NothingStored, Fail, Release
  <1>7. ASSUME NEW r \in Requests, Refuse(r) PROVE Goal
    BY <1>7 DEF Refuse, Fail, Release
  <1>8. ASSUME NEW r \in Requests, Keep(r) PROVE Goal
    BY <1>8 DEF Keep, Answer
  <1>8a. ASSUME NEW r \in Requests, Echo(r) PROVE Goal
    BY <1>8a DEF Echo, Answer
  <1>9. ASSUME NEW r \in Requests, Rotate(r) PROVE Goal
    <2>1. \A q \in Requests : Returning(q) => FALSE
      BY <1>9 DEF Rotate, Answer, Returning
    <2> QED
      BY <1>9, <2>1 DEF Rotate, Answer, Echoes
  <1>10. ASSUME NEW r \in Requests, Receive(r) PROVE Goal
    <2>1. CASE pc[r] = "returned"
      BY <1>10, <2>1 DEF Receive, Live
    <2>2. CASE pc[r] = "reply"
      BY <1>10, <2>2 DEF Receive, Serve, Release
    <2> QED
      BY <1>10, <2>1, <2>2 DEF Receive
  <1>11. ASSUME NEW r \in Requests, StoreRotated(r) PROVE Goal
    BY <1>11 DEF StoreRotated, Serve, Release, Live
  <1>12. ASSUME NEW r \in Requests, Abort(r) PROVE Goal
    BY <1>12 DEF Abort, Fail, Release
  <1>13. CASE Expire
    BY <1>13 DEF Expire
  <1>14. CASE Reauthorize
    BY <1>14 DEF Reauthorize
  <1>15. CASE StoreAccess
    BY <1>15 DEF StoreAccess, ChangeAccess
  <1>16. CASE DeleteAccess
    BY <1>16 DEF DeleteAccess, ChangeAccess
  <1>16a. CASE DeleteRefresh
    BY <1>16a DEF DeleteRefresh
  <1>16b. ASSUME NEW g \in 1..grants, RevokeAtProvider(g) PROVE Goal
    BY <1>16b DEF RevokeAtProvider
  <1>17. CASE Restart
    BY <1>17 DEF Restart, Waiting
  <1>18. CASE UNCHANGED vars
    BY <1>18 DEF vars
  <1> QED
    BY <1>1, <1>2, <1>3, <1>4, <1>5, <1>6, <1>7, <1>8, <1>8a, <1>9, <1>10, <1>11, <1>12, <1>13, <1>14, <1>15, <1>16, <1>16a, <1>16b, <1>17, <1>18 DEF Next, Work, Environment

\* The grant of an issued token is one of the model's, with a count of rotations.
LEMMA IssuedFacts ==
    ASSUME TypeOK, NEW t, Issued(t)
    PROVE  /\ t \in Token /\ t.gen \in Nat /\ t.gen <= current[t.grant]
           /\ t.grant \in 1..grants /\ t.grant \in 1..MaxGrants /\ t.grant \in 0..MaxGrants
           /\ current[t.grant] \in Nat
  <1>1. t.grant \in 1..MaxGrants /\ t.grant \in 0..MaxGrants
    BY ConstantsOK DEF TypeOK, Issued, ConstantsOK
  <1> QED
    BY <1>1, TokenFacts DEF TypeOK, Issued

\* A step of request r after which it has no refresh token in hand, and which drops
\* a carried one only by losing it, keeps the parts of RotationInv.
LEMMA QuietStep ==
    ASSUME RotationInv, NEW r \in Requests,
           UNCHANGED <<refresh, current, grants, overtaken>>,
           lost \subseteq lost', Carries(r) => using[r].grant \in lost',
           ~Presented(r)',
           \A q \in Requests \ {r} :
                pc'[q] = pc[q] /\ using'[q] = using[q] /\ got'[q] = got[q]
    PROVE  IssuedInv' /\ CarriedInv' /\ EchoInv' /\ StoreInv'
  <1>1. \A q \in Requests : /\ Carries(q)' <=> Carries(q) /\ q # r
                            /\ Echoes(q)' <=> Echoes(q) /\ q # r
                            /\ Returning(q)' <=> Returning(q) /\ q # r
    BY DEF Carries, Echoes, Returning, Presented
  <1>2. IssuedInv'
    BY DEF RotationInv, IssuedInv, Issued, Presented
  <1>3. CarriedInv'
    BY <1>1 DEF RotationInv, CarriedInv, Presented
  <1>4. EchoInv'
    BY <1>1 DEF RotationInv, EchoInv
  <1>5. StoreInv'
    BY <1>1 DEF RotationInv, StoreInv
  <1> QED
    BY <1>2, <1>3, <1>4, <1>5

\* A step that touches neither the refresh tokens nor the requests keeps them.
LEMMA AsideStep ==
    ASSUME RotationInv, UNCHANGED <<refresh, current, grants, lost, overtaken, reqVars>>
    PROVE  IssuedInv' /\ CarriedInv' /\ EchoInv' /\ StoreInv'
  BY DEF RotationInv, IssuedInv, CarriedInv, EchoInv, StoreInv, Issued, Presented, Carries,
     Echoes, Returning, reqVars

\* What the injector reads as refresh token is an issued one, and if a request
\* carries the grant's rotated token, it is an old one.
LEMMA RefreshTokenIssued ==
    ASSUME RotationInv, RefreshToken # NoToken
    PROVE  /\ Issued(RefreshToken)
           /\ \A r \in Requests : Carries(r) /\ using[r].grant = RefreshToken.grant
                => RefreshToken.gen < current[using[r].grant]
  <1>1. RefreshToken \in {refresh, FirstToken}
    BY DEF RotationInv, TypeOK, FlowType, RefreshToken, SecretValue, RotatingSecretValue
  <1>2. CASE RefreshToken = refresh
    BY <1>2 DEF RotationInv, IssuedInv, CarriedInv
  <1>3. CASE RefreshToken = FirstToken
    <2>1. Issued(FirstToken)
      BY TokenFacts, ConstantsOK DEF RotationInv, TypeOK, Issued, FirstToken, ConstantsOK
    <2>2. ASSUME NEW r \in Requests, Carries(r)
          PROVE  current[using[r].grant] > 0
      BY <2>2 DEF RotationInv, CarriedInv
    <2> QED
      BY <1>3, <2>1, <2>2 DEF FirstToken
  <1> QED
    BY <1>1, <1>2, <1>3

\* An answer that leaves the refresh token as it is keeps the parts of RotationInv.
LEMMA AnswerStep ==
    ASSUME RotationInv, NEW r \in Requests, NEW next \in {"reply", "returned"},
           Answer(r, next, using[r]), UNCHANGED <<current, overtaken>>
    PROVE  IssuedInv' /\ CarriedInv' /\ EchoInv' /\ StoreInv'
  <1>0. TypeOK /\ IssuedInv /\ CarriedInv /\ EchoInv /\ StoreInv
    BY DEF RotationInv
  <1>1. /\ pc[r] = "exchange" /\ pc' = [pc EXCEPT ![r] = next]
        /\ got' = [got EXCEPT ![r] = using[r]]
        /\ using[r].gen = current[using[r].grant]
        /\ UNCHANGED <<refresh, current, grants, using, lost, overtaken>>
    BY DEF Answer, Accepted, storeVars
  <1>2. \A q \in Requests : /\ Carries(q)' <=> Carries(q)
                            /\ Echoes(q)' => Echoes(q) \/ q = r
                            /\ Returning(q)' => Returning(q) \/ pc[q] = "exchange"
                            /\ Presented(q)' <=> Presented(q)
    BY <1>0, <1>1 DEF Carries, Echoes, Returning, Presented, TypeOK
  <1>3. IssuedInv'
    BY <1>0, <1>1, <1>2 DEF IssuedInv, Issued, TypeOK
  <1>4. CarriedInv'
    <2> SUFFICES ASSUME NEW q \in Requests, Carries(q)
                 PROVE  LET g == using[q].grant
                        IN  /\ got'[q] = [grant |-> g, gen |-> current[g]]
                            /\ current[g] > 0
                            /\ refresh.grant = g => refresh.gen < current[g]
                            /\ \A p \in Requests \ {q} :
                                (pc'[p] = "exchange" \/ Returning(p)') /\ using[p].grant = g
                                    => using[p].gen < current[g] /\ ~Carries(p)
      BY <1>1, <1>2 DEF CarriedInv
    <2>1. q # r
      BY <1>1 DEF Carries, Returning
    <2>2. \A p \in Requests : pc'[p] = "exchange" => pc[p] = "exchange"
      BY <1>0, <1>1 DEF TypeOK
    <2> QED
      BY <1>0, <1>1, <1>2, <2>1, <2>2 DEF CarriedInv, TypeOK
  <1>5. EchoInv'
    BY <1>0, <1>1, <1>2 DEF EchoInv
  <1>6. StoreInv'
    BY <1>0, <1>1, <1>2 DEF StoreInv
  <1> QED
    BY <1>3, <1>4, <1>5, <1>6

\* Rotations: the parts of RotationInv beyond types are inductive.
LEMMA RotationStep == RotationInv /\ [Next]_vars => RotationInv'
  <1> DEFINE Goal == IssuedInv' /\ CarriedInv' /\ EchoInv' /\ StoreInv'
  <1> SUFFICES ASSUME RotationInv, [Next]_vars PROVE Goal
    BY TypeStep DEF RotationInv
  <1>0. TypeOK /\ IssuedInv /\ CarriedInv /\ EchoInv /\ StoreInv
    BY DEF RotationInv
  <1>1. ASSUME NEW r \in Requests, LookUpCache(r) PROVE Goal
    <2>1. ~Carries(r)
      BY <1>1 DEF LookUpCache, Carries, Returning, Ended
    <2> QED
      BY <1>1, <2>1, <1>0, QuietStep
         DEF LookUpCache, Serve, storeVars, provider, history, TypeOK, FirstRead, Presented
  <1>2. ASSUME NEW r \in Requests, Acquire(r) PROVE Goal
    <2>1. ~Carries(r)
      BY <1>2 DEF Acquire, Carries, Returning
    <2> QED
      BY <1>2, <2>1, <1>0, QuietStep
         DEF Acquire, Serve, storeVars, provider, history, TypeOK, FirstRead, Presented
  <1>3. ASSUME NEW r \in Requests, ReadAccess(r) PROVE Goal
    <2>1. ~Carries(r)
      BY <1>3 DEF ReadAccess, Carries, Returning
    <2> QED
      BY <1>3, <2>1, <1>0, QuietStep
         DEF ReadAccess, Serve, storeVars, provider, history, TypeOK, Presented
  <1>4. ASSUME NEW r \in Requests, ReadRefresh(r) PROVE Goal
    <2>1. Issued(RefreshToken)
      BY <1>4, RefreshTokenIssued DEF ReadRefresh
    <2>2. /\ pc[r] = "refresh" /\ pc' = [pc EXCEPT ![r] = "exchange"]
          /\ using' = [using EXCEPT ![r] = RefreshToken]
          /\ UNCHANGED <<refresh, current, grants, got, lost, overtaken>>
      BY <1>4 DEF ReadRefresh, storeVars, provider, history
    <2>3. \A q \in Requests : /\ Carries(q)' <=> Carries(q)
                              /\ Echoes(q)' <=> Echoes(q)
                              /\ Returning(q)' <=> Returning(q)
                              /\ Returning(q) => q # r
      BY <2>2, <1>0 DEF Carries, Echoes, Returning, TypeOK
    <2>4. IssuedInv'
      BY <1>0, <2>1, <2>2 DEF IssuedInv, Issued, Presented, TypeOK
    <2>5. CarriedInv'
      <3>1. \A q \in Requests : Carries(q) => Returning(q)
        BY DEF Carries
      <3> QED
        BY <1>4, <1>0, <2>2, <2>3, <3>1, RefreshTokenIssued DEF ReadRefresh, CarriedInv, TypeOK
    <2>6. EchoInv'
      <3>1. \A q \in Requests : Echoes(q) => Returning(q)
        BY DEF Echoes
      <3> QED
        BY <1>0, <2>2, <2>3, <3>1 DEF EchoInv, TypeOK
    <2>7. StoreInv'
      <3>1. \A q \in Requests : Carries(q) => using'[q] = using[q]
        BY <1>0, <2>2, <2>3 DEF Carries, TypeOK
      <3> QED
        BY <1>0, <2>2, <2>3, <3>1 DEF StoreInv
    <2> QED
      BY <2>4, <2>5, <2>6, <2>7
  <1>5. ASSUME NEW r \in Requests, UseStoredAccess(r) PROVE Goal
    <2>1. ~Carries(r)
      BY <1>5 DEF UseStoredAccess, Carries, Returning
    <2> QED
      BY <1>5, <2>1, <1>0, QuietStep
         DEF UseStoredAccess, Serve, storeVars, provider, history, TypeOK, Presented
  <1>6. ASSUME NEW r \in Requests, NothingStored(r) PROVE Goal
    <2>1. ~Carries(r)
      BY <1>6 DEF NothingStored, Carries, Returning
    <2> QED
      BY <1>6, <2>1, <1>0, QuietStep
         DEF NothingStored, Fail, storeVars, provider, history, TypeOK, Presented
  <1>7. ASSUME NEW r \in Requests, Refuse(r) PROVE Goal
    <2>1. ~Carries(r)
      BY <1>7 DEF Refuse, Carries, Returning
    <2> QED
      BY <1>7, <2>1, <1>0, QuietStep
         DEF Refuse, Fail, storeVars, provider, history, TypeOK, Presented
  <1>8. ASSUME NEW r \in Requests, Keep(r) PROVE Goal
    BY <1>8, AnswerStep DEF Keep
  <1>8a. ASSUME NEW r \in Requests, Echo(r) PROVE Goal
    BY <1>8a, AnswerStep DEF Echo
  <1>9. ASSUME NEW r \in Requests, Rotate(r) PROVE Goal
    <2> DEFINE t == using[r]
               g == t.grant
    <2>0. /\ pc[r] = "exchange"
          /\ t.gen = current[g]
          /\ pc' = [pc EXCEPT ![r] = "returned"]
          /\ got' = [got EXCEPT ![r] = [t EXCEPT !.gen = t.gen + 1]]
          /\ current' = [current EXCEPT ![g] = t.gen + 1]
          /\ \A h : h \in overtaken' <=>
                h \in overtaken \/ (h = g /\ \E q \in Requests : Echoes(q) /\ using[q].grant = g)
          /\ UNCHANGED <<refresh, grants, using, lost>>
      BY <1>9 DEF Rotate, Answer, Accepted, storeVars
    <2>1. t \in Token /\ g \in 1..grants /\ g \in 1..MaxGrants /\ current[g] \in Nat
      BY <1>0, <2>0, IssuedFacts DEF IssuedInv, Presented
    <2>2. [t EXCEPT !.gen = t.gen + 1] = [grant |-> g, gen |-> current[g] + 1]
      BY <2>0, <2>1 DEF Token
    <2>2a. /\ got'[r] = [grant |-> g, gen |-> current[g] + 1]
           /\ \A q \in Requests \ {r} : got'[q] = got[q] /\ pc'[q] = pc[q]
           /\ pc'[r] = "returned"
           /\ current'[g] = current[g] + 1
           /\ \A h \in 1..MaxGrants \ {g} : current'[h] = current[h]
      BY <2>0, <2>1, <2>2, <1>0 DEF TypeOK
    <2>3. \A q \in Requests : Carries(q) => using[q].grant # g
      <3> SUFFICES ASSUME NEW q \in Requests, Carries(q), using[q].grant = g PROVE FALSE
        OBVIOUS
      <3>1. r \in Requests \ {q}
        BY <2>0 DEF Carries, Returning
      <3>2. t.gen < current[g]
        BY <1>0, <2>0, <3>1 DEF CarriedInv
      <3> QED
        BY <2>0, <2>1, <3>2
    <2>4. \A q \in Requests : /\ Carries(q)' <=> Carries(q) \/ q = r
                              /\ Echoes(q)' => Echoes(q) /\ q # r
                              /\ Returning(q)' <=> Returning(q) \/ q = r
                              /\ Presented(q)' <=> Presented(q)
      <3>1. got'[r] # t
        BY <2>0, <2>1, <2>2a
      <3> QED
        BY <2>0, <2>2a, <3>1 DEF Carries, Echoes, Returning, Presented
    <2>5. IssuedInv'
      <3>1. \A s : Issued(s) => Issued(s)'
        BY <1>0, <2>0, <2>1, <2>2a, IssuedFacts DEF Issued
      <3>2. \A q \in Requests : Presented(q)' => Issued(using[q])
        BY <1>0, <2>4 DEF IssuedInv
      <3>3. \A q \in Requests : pc'[q] = "reply" => got'[q] = using[q]
        BY <1>0, <2>0, <2>2a DEF IssuedInv
      <3>4. \A h \in 1..MaxGrants : h > grants => current'[h] = 0
        BY <1>0, <2>1, <2>2a DEF IssuedInv, TypeOK
      <3> QED
        BY <1>0, <2>0, <3>1, <3>2, <3>3, <3>4 DEF IssuedInv
    <2>6. CarriedInv'
      <3> SUFFICES ASSUME NEW q \in Requests, Carries(q)'
                   PROVE  LET h == using[q].grant
                          IN  /\ got'[q] = [grant |-> h, gen |-> current'[h]]
                              /\ current'[h] > 0
                              /\ refresh.grant = h => refresh.gen < current'[h]
                              /\ \A p \in Requests \ {q} :
                                    (pc'[p] = "exchange" \/ Returning(p)') /\ using[p].grant = h
                                        => using[p].gen < current'[h] /\ ~Carries(p)'
        BY <2>0 DEF CarriedInv
      <3>1. CASE q = r
        <4>1. \A p \in Requests \ {r} :
                (pc'[p] = "exchange" \/ Returning(p)') /\ using[p].grant = g
                    => using[p].gen <= current[g] /\ using[p].gen \in Nat
          <5> SUFFICES ASSUME NEW p \in Requests \ {r}, pc'[p] = "exchange" \/ Returning(p)',
                              using[p].grant = g
                       PROVE  using[p].gen <= current[g] /\ using[p].gen \in Nat
            OBVIOUS
          <5>1. Presented(p)
            BY <2>2a, <2>4 DEF Presented, Returning
          <5>2. Issued(using[p])
            BY <1>0, <5>1 DEF IssuedInv
          <5>3. using[p] \in Token
            BY <1>0 DEF TypeOK
          <5> QED
            BY <5>2, <5>3 DEF Issued, Token
        <4>2. refresh.grant = g => refresh.gen <= current[g] /\ refresh.gen \in Nat
          BY <1>0, <2>1 DEF IssuedInv, Issued, TypeOK, Token, NoToken
        <4> QED
          BY <3>1, <4>1, <4>2, <2>1, <2>2a, <2>3, <2>4
      <3>2. CASE q # r
        <4>1. Carries(q) /\ using[q].grant # g /\ using[q].grant \in 1..MaxGrants
          BY <3>2, <2>3, <2>4, <1>0, IssuedFacts DEF Carries, Returning, Presented, IssuedInv
        <4> QED
          BY <3>2, <4>1, <1>0, <2>2a, <2>4 DEF CarriedInv
      <3> QED
        BY <3>1, <3>2
    <2>7. EchoInv'
      <3> SUFFICES ASSUME NEW q \in Requests, Echoes(q)
                   PROVE  \/ using[q].gen = current'[using[q].grant]
                          \/ using[q].grant \in overtaken'
        BY <2>0, <2>4 DEF EchoInv
      <3>1. CASE using[q].grant = g
        BY <2>0, <3>1
      <3>2. CASE using[q].grant # g
        <4>1. using[q].grant \in 1..MaxGrants
          BY <1>0, IssuedFacts DEF Echoes, Returning, Presented, IssuedInv
        <4> QED
          BY <1>0, <2>0, <2>2a, <3>2, <4>1 DEF EchoInv
      <3> QED
        BY <3>1, <3>2
    <2>8. StoreInv'
      <3>1. refresh # NoToken => refresh.grant \in 1..MaxGrants
        BY <1>0, IssuedFacts DEF IssuedInv
      <3> QED
        BY <1>0, <2>0, <2>1, <2>2a, <2>4, <3>1 DEF StoreInv
    <2> QED
      BY <2>5, <2>6, <2>7, <2>8
  <1>10. ASSUME NEW r \in Requests, Receive(r) PROVE Goal
    <2>1. CASE pc[r] = "reply"
      <3>1. ~Carries(r)
        BY <2>1 DEF Carries, Returning
      <3> QED
        BY <1>10, <1>0, <2>1, <3>1, QuietStep
           DEF Receive, Serve, storeVars, provider, history, TypeOK, Presented
    <2>2. CASE pc[r] = "returned"
      <3>1. /\ pc' = [pc EXCEPT ![r] = "store"]
            /\ UNCHANGED <<refresh, current, grants, lost, overtaken, using, got>>
        BY <1>10, <2>2 DEF Receive, storeVars, provider, history
      <3>2. \A q \in Requests : /\ Carries(q)' <=> Carries(q)
                                /\ Echoes(q)' <=> Echoes(q)
                                /\ Returning(q)' <=> Returning(q)
                                /\ Presented(q)' <=> Presented(q)
                                /\ pc'[q] \in {"exchange", "reply"} => pc'[q] = pc[q]
        BY <1>0, <2>2, <3>1 DEF Carries, Echoes, Returning, Presented, TypeOK
      <3>3. IssuedInv'
        BY <1>0, <3>1, <3>2 DEF IssuedInv, Issued
      <3>4. CarriedInv'
        BY <1>0, <3>1, <3>2 DEF CarriedInv
      <3>5. EchoInv' /\ StoreInv'
        BY <1>0, <3>1, <3>2 DEF EchoInv, StoreInv
      <3> QED
        BY <3>3, <3>4, <3>5
    <2> QED
      BY <1>10, <2>1, <2>2 DEF Receive
  <1>11. ASSUME NEW r \in Requests, StoreRotated(r) PROVE Goal
    <2> DEFINE g == using[r].grant
    <2>0. /\ Returning(r) /\ Presented(r) /\ Issued(using[r])
          /\ Carries(r) \/ Echoes(r)
      BY <1>11, <1>0 DEF StoreRotated, Carries, Echoes, Returning, Presented, IssuedInv
    <2>1. /\ g \in 1..grants /\ g \in 0..MaxGrants /\ current[g] \in Nat
          /\ using[r] \in Token /\ using[r].gen <= current[g]
      BY <1>0, <2>0, IssuedFacts
    <2>2. /\ refresh' = got[r]
          /\ pc' = [pc EXCEPT ![r] = "served"]
          /\ UNCHANGED <<current, grants, lost, overtaken>>
          /\ \A q \in Requests \ {r} : got'[q] = got[q] /\ using'[q] = using[q]
      BY <1>11, <1>0 DEF StoreRotated, Serve, TypeOK, provider, history
    <2>3. \A q \in Requests : /\ Carries(q)' <=> Carries(q) /\ q # r
                              /\ Echoes(q)' <=> Echoes(q) /\ q # r
                              /\ Returning(q)' <=> Returning(q) /\ q # r
                              /\ Presented(q)' <=> Presented(q) /\ q # r
                              /\ pc'[q] \in {"exchange", "reply"} => pc'[q] = pc[q] /\ q # r
      BY <1>0, <2>2 DEF Carries, Echoes, Returning, Presented, TypeOK
    <2>4. /\ got[r] \in Token /\ got[r].grant = g /\ got[r].gen \in Nat
          /\ got[r].gen <= current[g]
          /\ Carries(r) => got[r].gen = current[g]
          /\ Echoes(r) => got[r] = using[r]
      <3>1. CASE Carries(r)
        <4>1. got[r] = [grant |-> g, gen |-> current[g]]
          BY <1>0, <3>1 DEF CarriedInv
        <4> QED
          BY <3>1, <4>1, <2>1, TokenFacts DEF Carries, Echoes
      <3>2. CASE Echoes(r)
        BY <3>2, <2>1, TokenFacts DEF Carries, Echoes
      <3> QED
        BY <2>0, <3>1, <3>2
    <2>5. IssuedInv'
      <3>1. Issued(refresh)'
        BY <2>1, <2>2, <2>4 DEF Issued
      <3>2. \A q \in Requests : Presented(q)' => Issued(using'[q])
        BY <1>0, <2>2, <2>3 DEF IssuedInv
      <3> QED
        BY <1>0, <2>2, <2>3, <3>1, <3>2 DEF IssuedInv, Issued
    <2>6. CarriedInv'
      <3> SUFFICES ASSUME NEW q \in Requests, Carries(q), q # r
                   PROVE  LET h == using[q].grant
                          IN  /\ got[q] = [grant |-> h, gen |-> current[h]]
                              /\ current[h] > 0
                              /\ got[r].grant = h => got[r].gen < current[h]
                              /\ \A p \in Requests \ {q} :
                                    (pc'[p] = "exchange" \/ Returning(p)') /\ using'[p].grant = h
                                        => using'[p].gen < current[h] /\ ~Carries(p)'
        BY <2>2, <2>3 DEF CarriedInv
      <3>1. got[r].grant = using[q].grant => got[r].gen < current[g]
        BY <1>0, <2>0, <2>4 DEF CarriedInv
      <3> QED
        BY <1>0, <2>2, <2>3, <2>4, <3>1 DEF CarriedInv
    <2>7. EchoInv'
      BY <1>0, <2>2, <2>3 DEF EchoInv
    <2>8. StoreInv'
      <3>1. got[r].gen = current[g] \/ g \in overtaken
        BY <1>0, <2>0, <2>4 DEF EchoInv
      <3> QED
        BY <2>2, <2>4, <3>1 DEF StoreInv
    <2> QED
      BY <2>5, <2>6, <2>7, <2>8
  <1>12. ASSUME NEW r \in Requests, Abort(r) PROVE Goal
    BY <1>12, <1>0, QuietStep DEF Abort, Fail, storeVars, provider, TypeOK, Presented
  <1>13. CASE Expire
    BY <1>13, AsideStep DEF Expire, storeVars, provider, history
  <1>14. CASE Reauthorize
    <2>1. /\ grants' = grants + 1 /\ grants' \in 1..MaxGrants
          /\ refresh' = [grant |-> grants', gen |-> 0]
          /\ current[grants'] = 0
          /\ UNCHANGED <<current, pc, using, got, lost, overtaken>>
      BY <1>14, <1>0, ConstantsOK
         DEF Reauthorize, IssuedInv, TypeOK, reqVars, provider, history, ConstantsOK
    <2>2. \A q \in Requests : /\ Carries(q)' <=> Carries(q)
                              /\ Echoes(q)' <=> Echoes(q)
                              /\ Returning(q)' <=> Returning(q)
                              /\ Presented(q)' <=> Presented(q)
      BY <2>1 DEF Carries, Echoes, Returning, Presented
    <2>3. \A t : Issued(t) => Issued(t)'
      BY <2>1, <1>0 DEF Issued, TypeOK
    <2>4. IssuedInv'
      <3>1. Issued(refresh)'
        <4>1. 0 \in Nat /\ grants' \in 0..MaxGrants /\ grants' \in 1..grants'
          BY <2>1, <1>0 DEF TypeOK
        <4>2. refresh' \in Token /\ refresh'.grant = grants' /\ refresh'.gen = 0
          BY <2>1, <4>1, TokenFacts
        <4> QED
          BY <2>1, <4>1, <4>2 DEF Issued
      <3> QED
        BY <1>0, <2>1, <2>2, <2>3, <3>1 DEF IssuedInv, TypeOK
    <2>5. \A q \in Requests : Carries(q) => using[q].grant # grants'
      BY <1>0, <2>1 DEF IssuedInv, Issued, Carries, Returning, Presented, TypeOK
    <2>6. CarriedInv'
      BY <1>0, <2>1, <2>2, <2>5 DEF CarriedInv
    <2>7. EchoInv' /\ StoreInv'
      BY <1>0, <2>1, <2>2 DEF EchoInv, StoreInv
    <2> QED
      BY <2>4, <2>6, <2>7
  <1>15. CASE StoreAccess
    BY <1>15, AsideStep DEF StoreAccess, ChangeAccess, provider, history
  <1>16. CASE DeleteAccess
    BY <1>16, AsideStep DEF DeleteAccess, ChangeAccess, provider, history
  <1>16a. CASE DeleteRefresh
    <2>1. /\ refresh' = NoToken
          /\ UNCHANGED <<current, grants, pc, using, got, lost, overtaken>>
      BY <1>16a DEF DeleteRefresh, provider, reqVars
    <2>2. \A q \in Requests : /\ Carries(q)' <=> Carries(q)
                              /\ Echoes(q)' <=> Echoes(q)
                              /\ Returning(q)' <=> Returning(q)
                              /\ Presented(q)' <=> Presented(q)
      BY <2>1 DEF Carries, Echoes, Returning, Presented
    <2>3. \A q \in Requests : Carries(q) => using[q].grant # 0
      BY <1>0, IssuedFacts DEF IssuedInv, Carries, Returning, Presented
    <2>4. IssuedInv'
      BY <1>0, <2>1, <2>2 DEF IssuedInv, Issued
    <2>5. CarriedInv'
      BY <1>0, <2>1, <2>2, <2>3 DEF CarriedInv, NoToken
    <2>6. EchoInv' /\ StoreInv'
      BY <1>0, <2>1, <2>2 DEF EchoInv, StoreInv
    <2> QED
      BY <2>4, <2>5, <2>6
  <1>16b. ASSUME NEW g \in 1..grants, RevokeAtProvider(g) PROVE Goal
    BY <1>16b, AsideStep DEF RevokeAtProvider, storeVars, history
  <1>17. CASE Restart
    <2>1. /\ \A q \in Requests : ~Presented(q)'
          /\ lost' = lost \cup {using[r].grant : r \in {q \in Requests : Carries(q)}}
          /\ UNCHANGED <<refresh, current, grants, overtaken>>
      BY <1>17 DEF Restart, Waiting, Presented, storeVars, provider, Working
    <2>2. \A q \in Requests : ~Carries(q)' /\ ~Echoes(q)' /\ pc'[q] # "reply"
      BY <2>1 DEF Carries, Echoes, Returning, Presented
    <2>3. IssuedInv'
      BY <1>0, <2>1, <2>2 DEF IssuedInv, Issued
    <2>4. CarriedInv' /\ EchoInv'
      BY <2>2 DEF CarriedInv, EchoInv
    <2>5. StoreInv'
      BY <1>0, <2>1, <2>2 DEF StoreInv
    <2> QED
      BY <2>3, <2>4, <2>5
  <1>18. CASE UNCHANGED vars
    BY <1>18, AsideStep DEF vars, storeVars, provider, history
  <1> QED
    BY <1>1, <1>2, <1>3, <1>4, <1>5, <1>6, <1>7, <1>8, <1>8a, <1>9, <1>10, <1>11, <1>12, <1>13, <1>14, <1>15, <1>16, <1>16a, <1>16b, <1>17, <1>18
       DEF Next, Work, Environment

\* Under the mutex, and with no token in the config, what a request presents is
\* still the token the provider accepts, or its successor was lost.
SerialInv ==
    flow.locked /\ ~params =>
        \A r \in Requests :
            /\ pc[r] = "exchange" =>
                using[r].gen = current[using[r].grant] \/ using[r].grant \in lost
            /\ pc[r] = "refused" => using[r].grant \in lost \cup ended

\* SerialInv is inductive relative to the mutex and the rotation invariant.
LEMMA SerialStep ==
    ASSUME RotationInv, MutexInv, SerialInv, [Next]_vars
    PROVE  SerialInv'
  <1> SUFFICES ASSUME flow.locked, ~params PROVE SerialInv'
    BY CredentialStays DEF SerialInv
  <1>0. TypeOK /\ IssuedInv /\ StoreIsCurrent /\ OneRefreshAtATime
    BY CurrentFollows DEF RotationInv, MutexInv
  <1>a. \A r, q \in Requests : pc[r] \in Working /\ pc[q] \in Working => r = q
    BY <1>0 DEF OneRefreshAtATime
  <1> DEFINE Goal == SerialInv'
  <1> USE DEF SerialInv, TypeOK, credential, storeVars, reqVars, provider, history,
          FirstRead, Accepted
  <1>1. ASSUME NEW r \in Requests, LookUpCache(r) PROVE Goal
    BY <1>1, <1>0 DEF LookUpCache, Serve, Ended
  <1>2. ASSUME NEW r \in Requests, Acquire(r) PROVE Goal
    BY <1>2, <1>0 DEF Acquire, Serve
  <1>3. ASSUME NEW r \in Requests, ReadAccess(r) PROVE Goal
    BY <1>3, <1>0 DEF ReadAccess, Serve
  <1>4. ASSUME NEW r \in Requests, ReadRefresh(r) PROVE Goal
    <2>1. RefreshToken = refresh
      BY <1>0 DEF FlowType, RefreshToken, SecretValue, RotatingSecretValue
    <2>2. ~ \E q \in Requests : Carries(q)
      BY <1>4, <1>a DEF ReadRefresh, Carries, Returning, Working
    <2>3. refresh.gen = current[refresh.grant] \/ refresh.grant \in lost
      BY <1>4, <1>0, <2>1, <2>2 DEF ReadRefresh, StoreIsCurrent
    <2> QED
      BY <1>4, <1>0, <2>1, <2>3 DEF ReadRefresh
  <1>5. ASSUME NEW r \in Requests, UseStoredAccess(r) PROVE Goal
    BY <1>5, <1>0 DEF UseStoredAccess, Serve
  <1>6. ASSUME NEW r \in Requests, NothingStored(r) PROVE Goal
    BY <1>6, <1>0 DEF NothingStored, Fail
  <1>7. ASSUME NEW r \in Requests, Refuse(r) PROVE Goal
    BY <1>7, <1>0 DEF Refuse, Fail
  <1>8. ASSUME NEW r \in Requests, Keep(r) PROVE Goal
    BY <1>8, <1>0 DEF Keep, Answer
  <1>8a. ASSUME NEW r \in Requests, Echo(r) PROVE Goal
    BY <1>8a, <1>0 DEF Echo, Answer
  <1>9. ASSUME NEW r \in Requests, Rotate(r) PROVE Goal
    <2>1. \A q \in Requests : pc'[q] # "exchange"
      BY <1>9, <1>0, <1>a DEF Rotate, Answer, Working
    <2> QED
      BY <1>9, <1>0, <2>1 DEF Rotate, Answer
  <1>10. ASSUME NEW r \in Requests, Receive(r) PROVE Goal
    BY <1>10, <1>0 DEF Receive, Serve
  <1>11. ASSUME NEW r \in Requests, StoreRotated(r) PROVE Goal
    BY <1>11, <1>0 DEF StoreRotated, Serve
  <1>12. ASSUME NEW r \in Requests, Abort(r) PROVE Goal
    BY <1>12, <1>0 DEF Abort, Fail
  <1>13. CASE Expire
    BY <1>13, <1>0 DEF Expire
  <1>14. CASE Reauthorize
    BY <1>14, <1>0 DEF Reauthorize
  <1>15. CASE StoreAccess
    BY <1>15, <1>0 DEF StoreAccess, ChangeAccess
  <1>16. CASE DeleteAccess
    BY <1>16, <1>0 DEF DeleteAccess, ChangeAccess
  <1>16a. CASE DeleteRefresh
    BY <1>16a, <1>0 DEF DeleteRefresh
  <1>16b. ASSUME NEW g \in 1..grants, RevokeAtProvider(g) PROVE Goal
    BY <1>16b, <1>0 DEF RevokeAtProvider
  <1>17. CASE Restart
    BY <1>17, <1>0 DEF Restart, Waiting, Working
  <1>18. CASE UNCHANGED vars
    BY <1>18, <1>0 DEF vars
  <1> QED
    BY <1>1, <1>2, <1>3, <1>4, <1>5, <1>6, <1>7, <1>8, <1>8a, <1>9, <1>10, <1>11, <1>12, <1>13, <1>14, <1>15, <1>16, <1>16a, <1>16b, <1>17, <1>18
       DEF Next, Work, Environment

\* Where the rotated token is stored first: no live token in the cache, and no
\* token a request has presented, is newer than the stored one of its grant.
CacheInv ==
    flow.locked /\ flow.putFirst =>
        /\ CacheNotAheadOfStore
        /\ cache.state = "live" => Issued(cache.token)
        /\ \A r \in Requests :
                pc[r] \in {"exchange", "reply"} /\ using[r].grant = refresh.grant =>
                    using[r].gen <= refresh.gen

\* A step that changes neither the stored refresh token nor what is presented,
\* and puts no live token into the cache, keeps it.
LEMMA CacheQuietStep ==
    ASSUME CacheInv, flow.locked, flow.putFirst, UNCHANGED <<flow, refresh, current, grants>>,
           cache' = cache \/ cache'.state # "live",
           \A q \in Requests : pc'[q] \in {"exchange", "reply"} =>
                pc[q] \in {"exchange", "reply"} /\ using'[q] = using[q]
    PROVE  CacheInv'
  BY DEF CacheInv, CacheNotAheadOfStore, Issued

\* CacheInv is inductive relative to the rotation invariant and the mutex.
LEMMA CacheStep ==
    ASSUME RotationInv, MutexInv, CacheInv, [Next]_vars
    PROVE  CacheInv'
  <1> SUFFICES ASSUME flow.locked, flow.putFirst PROVE CacheInv'
    BY CredentialStays DEF CacheInv
  <1>0. TypeOK /\ IssuedInv /\ CarriedInv
    BY DEF RotationInv
  <1>a. \A r, q \in Requests : pc[r] \in Working /\ pc[q] \in Working => r = q
    BY DEF MutexInv, OneRefreshAtATime
  <1> DEFINE Goal == CacheInv'
  <1> USE DEF TypeOK, credential, storeVars, reqVars, provider, history, FirstRead
  <1>1. ASSUME NEW r \in Requests, LookUpCache(r) PROVE Goal
    BY <1>1, <1>0, CacheQuietStep DEF LookUpCache, Serve
  <1>2. ASSUME NEW r \in Requests, Acquire(r) PROVE Goal
    BY <1>2, <1>0, CacheQuietStep DEF Acquire, Serve
  <1>3. ASSUME NEW r \in Requests, ReadAccess(r) PROVE Goal
    BY <1>3, <1>0, CacheQuietStep DEF ReadAccess, Serve, Permanent
  <1>4. ASSUME NEW r \in Requests, ReadRefresh(r) PROVE Goal
    <2>1. RefreshToken \in {refresh, FirstToken}
      BY <1>0 DEF FlowType, RefreshToken, SecretValue, RotatingSecretValue
    <2>2. RefreshToken.grant = refresh.grant => RefreshToken.gen <= refresh.gen
      BY <1>0, <2>1, TokenFacts DEF FirstToken
    <2> QED
      BY <1>4, <1>0, <2>2 DEF ReadRefresh, CacheInv, CacheNotAheadOfStore, Issued
  <1>5. ASSUME NEW r \in Requests, UseStoredAccess(r) PROVE Goal
    BY <1>5, <1>0, CacheQuietStep DEF UseStoredAccess, Serve, Permanent
  <1>6. ASSUME NEW r \in Requests, NothingStored(r) PROVE Goal
    BY <1>6, <1>0, CacheQuietStep DEF NothingStored, Fail
  <1>7. ASSUME NEW r \in Requests, Refuse(r) PROVE Goal
    BY <1>7, <1>0, CacheQuietStep DEF Refuse, Fail
  <1>8. ASSUME NEW r \in Requests, Keep(r) PROVE Goal
    BY <1>8, <1>0, CacheQuietStep DEF Keep, Answer
  <1>8a. ASSUME NEW r \in Requests, Echo(r) PROVE Goal
    BY <1>8a, <1>0, CacheQuietStep DEF Echo, Answer
  <1>9. ASSUME NEW r \in Requests, Rotate(r) PROVE Goal
    <2>1. /\ UNCHANGED <<flow, refresh, grants, cache, using>>
          /\ \A q \in Requests : pc'[q] \in {"exchange", "reply"} =>
                pc[q] \in {"exchange", "reply"}
          /\ current' = [current EXCEPT ![using[r].grant] = using[r].gen + 1]
          /\ using[r].gen = current[using[r].grant]
      BY <1>9, <1>0 DEF Rotate, Answer, Accepted
    <2>2. \A s : Issued(s) => Issued(s)'
      BY <1>0, <2>1, IssuedFacts DEF Issued
    <2> QED
      BY <2>1, <2>2 DEF CacheInv, CacheNotAheadOfStore
  <1>10. ASSUME NEW r \in Requests, Receive(r) PROVE Goal
    <2>1. CASE pc[r] = "returned"
      BY <1>10, <1>0, <2>1, CacheQuietStep DEF Receive
    <2>2. CASE pc[r] = "reply"
      <3>1. /\ cache' = Live(using[r]) /\ Issued(using[r])
            /\ UNCHANGED <<flow, refresh, current, grants>>
            /\ \A q \in Requests : pc'[q] \in {"exchange", "reply"} =>
                    pc[q] \in {"exchange", "reply"} /\ using'[q] = using[q]
        BY <1>10, <1>0, <2>2 DEF Receive, Serve, IssuedInv, Presented
      <3>2. using[r].grant = refresh.grant => using[r].gen <= refresh.gen
        BY <2>2 DEF CacheInv
      <3> QED
        BY <3>1, <3>2 DEF CacheInv, CacheNotAheadOfStore, Live, Issued
    <2> QED
      BY <1>10, <2>1, <2>2 DEF Receive
  <1>11. ASSUME NEW r \in Requests, StoreRotated(r) PROVE Goal
    <2> DEFINE g == using[r].grant
    <2>1. /\ refresh' = got[r] /\ cache' = Live(got[r]) /\ pc[r] = "store"
          /\ UNCHANGED <<flow, current, grants>>
          /\ \A q \in Requests : pc'[q] \in {"exchange", "reply"} =>
                pc[q] \in {"exchange", "reply"}
      BY <1>11, <1>0 DEF StoreRotated, Serve
    <2>2. \A q \in Requests : pc'[q] \notin {"exchange", "reply"}
      BY <2>1, <1>a DEF Working
    <2>3. Issued(using[r])
      BY <1>0, <2>1 DEF IssuedInv, Presented
    <2>4. Issued(got[r])
      <3>1. CASE Carries(r)
        <4>1. /\ got[r] = [grant |-> g, gen |-> current[g]]
              /\ g \in 1..grants /\ g \in 0..MaxGrants /\ current[g] \in Nat
          BY <1>0, <2>3, <3>1, IssuedFacts DEF CarriedInv
        <4> QED
          BY <4>1, TokenFacts DEF Issued
      <3>2. CASE ~Carries(r)
        BY <2>1, <2>3, <3>2 DEF Carries, Returning
      <3> QED
        BY <3>1, <3>2
    <2>5. got[r].gen \in Nat
      BY <1>0, TokenFacts
    <2>6. cache'.token = got[r]
      BY <2>1 DEF Live
    <2> QED
      BY <2>1, <2>2, <2>4, <2>5, <2>6 DEF CacheInv, CacheNotAheadOfStore, Issued
  <1>12. ASSUME NEW r \in Requests, Abort(r) PROVE Goal
    BY <1>12, <1>0, CacheQuietStep DEF Abort, Fail
  <1>13. CASE Expire
    BY <1>13, <1>0, CacheQuietStep DEF Expire, NoEntry
  <1>14. CASE Reauthorize
    <2>1. /\ grants' = grants + 1
          /\ refresh' = [grant |-> grants + 1, gen |-> 0]
          /\ UNCHANGED <<flow, current, cache, pc, using>>
      BY <1>14 DEF Reauthorize
    <2>2. \A t : Issued(t) => Issued(t)' /\ t.grant # refresh'.grant
      BY <2>1, <1>0 DEF Issued
    <2> QED
      BY <2>1, <2>2, <1>0 DEF CacheInv, CacheNotAheadOfStore, IssuedInv, Presented
  <1>15. CASE StoreAccess
    BY <1>15, <1>0, CacheQuietStep DEF StoreAccess, ChangeAccess
  <1>16. CASE DeleteAccess
    BY <1>16, <1>0, CacheQuietStep DEF DeleteAccess, ChangeAccess
  <1>16a. CASE DeleteRefresh
    <2>1. /\ refresh' = NoToken
          /\ UNCHANGED <<flow, current, grants, cache, pc, using>>
      BY <1>16a DEF DeleteRefresh
    <2>2. \A t : Issued(t) => Issued(t)' /\ t.grant # 0
      BY <2>1, <1>0 DEF Issued
    <2> QED
      BY <2>1, <2>2, <1>0 DEF CacheInv, CacheNotAheadOfStore, IssuedInv, Presented, NoToken
  <1>16b. ASSUME NEW g \in 1..grants, RevokeAtProvider(g) PROVE Goal
    BY <1>16b, <1>0, CacheQuietStep DEF RevokeAtProvider
  <1>17. CASE Restart
    BY <1>17, <1>0, CacheQuietStep DEF Restart, Waiting, Working, NoEntry
  <1>18. CASE UNCHANGED vars
    BY <1>18, <1>0, CacheQuietStep DEF vars
  <1> QED
    BY <1>1, <1>2, <1>3, <1>4, <1>5, <1>6, <1>7, <1>8, <1>8a, <1>9, <1>10, <1>11, <1>12, <1>13, <1>14, <1>15, <1>16, <1>16a, <1>16b, <1>17, <1>18
       DEF Next, Work, Environment

\* As long as the store has had no refresh token, the one in the config is the
\* newest, unless its successor is under way or was lost.
ConfigInv ==
    refresh = NoToken =>
        \/ current[1] = 0
        \/ 1 \in lost \/ dropped \/ ~params
        \/ \E r \in Requests : Carries(r) /\ using[r].grant = 1

\* A step that stores nothing and rotates nothing, and lets go of a carried token
\* only by losing it, keeps it.
LEMMA ConfigQuietStep ==
    ASSUME ConfigInv, UNCHANGED <<params, refresh, current, dropped>>, lost \subseteq lost',
           \A r \in Requests : Carries(r) =>
                (Carries(r)' /\ using'[r] = using[r]) \/ using[r].grant \in lost'
    PROVE  ConfigInv'
  BY DEF ConfigInv

\* ConfigInv is inductive relative to the rotation invariant.
LEMMA ConfigStep ==
    ASSUME RotationInv, ConfigInv, [Next]_vars
    PROVE  ConfigInv'
  <1>0. TypeOK /\ IssuedInv /\ CarriedInv
    BY DEF RotationInv
  <1> DEFINE Goal == ConfigInv'
  <1> USE DEF TypeOK, credential, storeVars, reqVars, provider, history, FirstRead,
          Carries, Returning
  <1>1. ASSUME NEW r \in Requests, LookUpCache(r) PROVE Goal
    BY <1>1, <1>0, ConfigQuietStep DEF LookUpCache, Serve, Ended
  <1>2. ASSUME NEW r \in Requests, Acquire(r) PROVE Goal
    BY <1>2, <1>0, ConfigQuietStep DEF Acquire, Serve
  <1>3. ASSUME NEW r \in Requests, ReadAccess(r) PROVE Goal
    BY <1>3, <1>0, ConfigQuietStep DEF ReadAccess, Serve
  <1>4. ASSUME NEW r \in Requests, ReadRefresh(r) PROVE Goal
    BY <1>4, <1>0, ConfigQuietStep DEF ReadRefresh
  <1>5. ASSUME NEW r \in Requests, UseStoredAccess(r) PROVE Goal
    BY <1>5, <1>0, ConfigQuietStep DEF UseStoredAccess, Serve
  <1>6. ASSUME NEW r \in Requests, NothingStored(r) PROVE Goal
    BY <1>6, <1>0, ConfigQuietStep DEF NothingStored, Fail
  <1>7. ASSUME NEW r \in Requests, Refuse(r) PROVE Goal
    BY <1>7, <1>0, ConfigQuietStep DEF Refuse, Fail
  <1>8. ASSUME NEW r \in Requests, Keep(r) PROVE Goal
    BY <1>8, <1>0, ConfigQuietStep DEF Keep, Answer
  <1>8a. ASSUME NEW r \in Requests, Echo(r) PROVE Goal
    BY <1>8a, <1>0, ConfigQuietStep DEF Echo, Answer
  <1>9. ASSUME NEW r \in Requests, Rotate(r) PROVE Goal
    <2> DEFINE g == using[r].grant
    <2>1. /\ pc[r] = "exchange" /\ pc' = [pc EXCEPT ![r] = "returned"]
          /\ got' = [got EXCEPT ![r] = [using[r] EXCEPT !.gen = @ + 1]]
          /\ current' = [current EXCEPT ![g] = using[r].gen + 1]
          /\ UNCHANGED <<params, refresh, using, lost, dropped>>
      BY <1>9 DEF Rotate, Answer
    <2>2. using[r] \in Token /\ using[r].gen \in Nat
      BY <1>0, TokenFacts
    <2>3. got'[r] # using[r]
      BY <2>1, <2>2, <1>0 DEF Token
    <2>4. Carries(r)'
      BY <2>1, <2>3, <1>0
    <2>5. \A q \in Requests : Carries(q) => Carries(q)'
      BY <2>1, <1>0
    <2>6. CASE g = 1
      BY <2>1, <2>4, <2>6 DEF ConfigInv
    <2>7. CASE g # 1
      <3>1. current'[1] = current[1]
        BY <2>1, <2>7, <1>0, ConstantsOK DEF ConstantsOK
      <3> QED
        BY <2>1, <2>5, <3>1 DEF ConfigInv
    <2> QED
      BY <2>6, <2>7
  <1>10. ASSUME NEW r \in Requests, Receive(r) PROVE Goal
    BY <1>10, <1>0, ConfigQuietStep DEF Receive, Serve
  <1>11. ASSUME NEW r \in Requests, StoreRotated(r) PROVE Goal
    <2>1. /\ Carries(r) \/ got[r] = using[r]
          /\ Issued(using[r]) /\ refresh' = got[r]
      BY <1>11, <1>0 DEF StoreRotated, IssuedInv, Presented
    <2>2. got[r].grant # 0
      <3>1. using[r].grant # 0
        BY <1>0, <2>1, IssuedFacts
      <3> QED
        BY <1>0, <2>1, <3>1 DEF CarriedInv
    <2> QED
      BY <2>1, <2>2 DEF ConfigInv, NoToken
  <1>12. ASSUME NEW r \in Requests, Abort(r) PROVE Goal
    BY <1>12, <1>0, ConfigQuietStep DEF Abort, Fail
  <1>13. CASE Expire
    BY <1>13, ConfigQuietStep DEF Expire
  <1>14. CASE Reauthorize
    BY <1>14, <1>0 DEF Reauthorize, ConfigInv, NoToken
  <1>15. CASE StoreAccess
    BY <1>15, ConfigQuietStep DEF StoreAccess, ChangeAccess
  <1>16. CASE DeleteAccess
    BY <1>16, ConfigQuietStep DEF DeleteAccess, ChangeAccess
  <1>16a. CASE DeleteRefresh
    BY <1>16a, <1>0 DEF DeleteRefresh, ConfigInv
  <1>16b. ASSUME NEW g \in 1..grants, RevokeAtProvider(g) PROVE Goal
    BY <1>16b, ConfigQuietStep DEF RevokeAtProvider
  <1>17. CASE Restart
    BY <1>17, <1>0, ConfigQuietStep DEF Restart
  <1>18. CASE UNCHANGED vars
    BY <1>18, ConfigQuietStep DEF vars
  <1> QED
    BY <1>1, <1>2, <1>3, <1>4, <1>5, <1>6, <1>7, <1>8, <1>8a, <1>9, <1>10, <1>11, <1>12, <1>13, <1>14, <1>15, <1>16, <1>16a, <1>16b, <1>17, <1>18
       DEF Next, Work, Environment

\* What is presented is the stored token, or the config's while nothing is stored:
\* with what both invariants say of these, it is accepted when it is read.
LEMMA PresentsStep ==
    ASSUME RotationInv, MutexInv, ConfigInv, [Next]_vars,
           NEW r \in Requests, pc[r] = "refresh", pc'[r] = "exchange"
    PROVE  NewestOrExcused(using'[r])
  <1>0. TypeOK
    BY DEF RotationInv
  <1>1. ReadRefresh(r)
    <2> USE DEF TypeOK, Ended, Working
    <2>1. ASSUME NEW q \in Requests, LookUpCache(q) PROVE FALSE
      BY <2>1, <1>0 DEF LookUpCache, Serve, FirstRead
    <2>2. ASSUME NEW q \in Requests, Acquire(q) PROVE FALSE
      BY <2>2, <1>0 DEF Acquire, Serve, FirstRead
    <2>3. ASSUME NEW q \in Requests, Work(q), ~ReadRefresh(q) PROVE FALSE
      BY <2>3, <1>0 DEF Work, ReadAccess, UseStoredAccess, NothingStored, Refuse, Keep, Echo, Rotate,
         Answer, Receive, StoreRotated, Abort, Serve, Fail
    <2>4. Environment \/ UNCHANGED vars => FALSE
      BY <1>0 DEF Environment, Expire, Reauthorize, StoreAccess, DeleteAccess, ChangeAccess,
         DeleteRefresh, RevokeAtProvider, Restart, Waiting, vars, reqVars
    <2>5. PICK q \in Requests : ReadRefresh(q)
      BY <2>1, <2>2, <2>3, <2>4 DEF Next
    <2> QED
      BY <2>5, <1>0 DEF ReadRefresh
  <1>2. using'[r] = RefreshToken /\ RefreshToken # NoToken
    BY <1>0, <1>1 DEF ReadRefresh, TypeOK
  <1>3. \/ RefreshToken = refresh
        \/ RefreshToken = FirstToken /\ params /\ (flow.source = "params" \/ refresh = NoToken)
    BY <1>0 DEF TypeOK, FlowType, RefreshToken, SecretValue, RotatingSecretValue
  <1>4. CASE RefreshToken = refresh
    BY <1>2, <1>4, CurrentFollows DEF StoreIsCurrent, NewestOrExcused
  <1>5. CASE RefreshToken = FirstToken /\ params /\ flow.source = "params"
    BY <1>2, <1>5 DEF NewestOrExcused
  <1>6. CASE RefreshToken = FirstToken /\ params /\ refresh = NoToken
    BY <1>2, <1>6 DEF ConfigInv, NewestOrExcused, FirstToken
  <1> QED
    BY <1>3, <1>4, <1>5, <1>6
-----------------------------------------------------------------------------
\* Both inductive invariants hold in every reachable state.
THEOREM RefreshInvariant == Spec => [](RotationInv /\ MutexInv)
  <1>1. RotationInv /\ MutexInv /\ [Next]_vars => RotationInv' /\ MutexInv'
    BY RotationStep, MutexStep
  <1> QED
    BY InitRefresh, <1>1, PTL DEF Spec

\* For any numbers of requests, re-authorizations and rotations and any of the
\* injector's functions: every variable keeps its type.
THEOREM RefreshTyped == Spec => []TypeOK
  <1>1. RotationInv => TypeOK
    BY DEF RotationInv
  <1> QED
    BY RefreshInvariant, <1>1, PTL

\* The mutex per credential lets one request at a time read, exchange and store.
THEOREM RefreshExclusive == Spec => []OneRefreshAtATime
  <1>1. MutexInv => OneRefreshAtATime
    BY DEF MutexInv
  <1> QED
    BY RefreshInvariant, <1>1, PTL

\* The second look at the cache keeps a waiting request from refreshing again.
THEOREM NoNeedlessRefresh == Spec => []RefreshOnlyWithoutToken
  <1>1. MutexInv => RefreshOnlyWithoutToken
    BY DEF MutexInv
  <1> QED
    BY RefreshInvariant, <1>1, PTL

\* The stored refresh token is the newest of its authorization, or its successor
\* is on its way to the store, or was lost; answers that repeat the old token and
\* deletions by the administrator included.  Without the mutex a repeated token
\* that was overtaken on its way is the only other way.
THEOREM StoreStaysCurrent == Spec => []StoreIsCurrent
  <1> QED
    BY RefreshInvariant, CurrentFollows, PTL

\* A flow with the mutex whose token is in the store only is refused by the
\* provider only after the successor of a token was lost or the grant revoked: never
\* because of concurrent requests, re-authorizations or expiry.
THEOREM NoRefusalWithoutLoss == Spec => []RefusedOnlyAfterLoss
  <1>1. Init => SerialInv
    BY DEF Init, SerialInv
  <1>2. RotationInv /\ MutexInv /\ SerialInv /\ [Next]_vars => SerialInv'
    BY SerialStep
  <1>3. SerialInv => RefusedOnlyAfterLoss
    BY DEF SerialInv, RefusedOnlyAfterLoss
  <1> QED
    BY RefreshInvariant, <1>1, <1>2, <1>3, PTL DEF Spec

\* A function with the mutex that stores the returned token first never lets the cache run ahead
\* of the store: a failed store cannot hide behind a cached access token.
THEOREM CacheFollowsStore == Spec => []CacheNotAheadOfStore
  <1>1. Init => CacheInv
    BY DEF Init, CacheInv, CacheNotAheadOfStore, NoEntry
  <1>2. RotationInv /\ MutexInv /\ CacheInv /\ [Next]_vars => CacheInv'
    BY CacheStep
  <1>3. CacheInv => CacheNotAheadOfStore
    BY DEF CacheInv, CacheNotAheadOfStore
  <1> QED
    BY RefreshInvariant, <1>1, <1>2, <1>3, PTL DEF Spec

\* With or without the mutex, a request sets out with the newest token of its
\* authorization, or its successor is on its way or was lost, or overtaken where
\* there is no mutex; the token of the config, which no rotation changes, is the
\* exception, where it is read first or the stored one has been deleted.
THEOREM PresentsCurrent == Spec => PresentsCurrentToken
  <1>1. Init => ConfigInv
    BY ConstantsOK DEF Init, ConfigInv, ConstantsOK
  <1>2. RotationInv /\ MutexInv /\ ConfigInv /\ [Next]_vars => ConfigInv'
    BY ConfigStep
  <1>3. RotationInv /\ MutexInv /\ ConfigInv /\ [Next]_vars =>
            [\A r \in Requests :
                (pc[r] = "refresh" /\ pc'[r] = "exchange") => NewestOrExcused(using'[r])]_vars
    BY PresentsStep
  <1> QED
    BY RefreshInvariant, <1>1, <1>2, <1>3, PTL DEF Spec, PresentsCurrentToken
=============================================================================
