---------------------------- MODULE TokenRefresh ----------------------------
(***************************************************************************)
(* How auth.Injector (src/internal/auth/credential.go) obtains the access  *)
(* token it injects for ONE credential: the in-memory cache, the mutex per *)
(* credential, the secret store, and the exchange with a provider that     *)
(* rotates refresh tokens.  Credentials do not interact: cache and locks   *)
(* are keyed by the credential, so one suffices.                           *)
(*                                                                         *)
(* A request is one goroutine inside Injector.Apply or ApplyServices; each *)
(* step below ends where it calls the store, the provider or the mutex.    *)
(* When it has ended, the same goroutine stands for a later request, so    *)
(* there are any number of them, as many at a time as there are Requests.  *)
(* The functions for the providers differ only in a few decisions, which   *)
(* the variable flow records: it is chosen at the start and stays.         *)
(*                                                                         *)
(* A token is identified by the authorization it belongs to and how often  *)
(* that has been refreshed: [grant, gen].  Access tokens stored by hand    *)
(* have grant 0 and gen > 0; NoToken stands for an absent value.           *)
(***************************************************************************)
EXTENDS Naturals

CONSTANTS
    Requests,     \* proxied requests that need the credential
    Nobody,       \* the owner of a free mutex
    Flows,        \* which of the injector's functions there are: records, see below
    MaxGrants,    \* bound: authorizations of the credential
    MaxGen,       \* bound: refreshes of one authorization
    MaxManual     \* bound: different access tokens stored by hand

\* What distinguishes the injector's functions.
FlowType ==
    [locked : BOOLEAN,      \* takes the credential's mutex, checks the cache again
     stored : {"first", "alone", "never"},  \* when a stored access_token is used:
                            \* before refreshing; only without a refresh_token; never
     source : {"params", "store", "storeOnly"},  \* where the refresh_token is
                            \* looked for first
     rotates : BOOLEAN,     \* the provider may return a refresh_token: it is stored
     putFirst : BOOLEAN]    \* ... before the access token is cached

TodoistFlow == [locked |-> TRUE, stored |-> "first", source |-> "params",
                rotates |-> TRUE, putFirst |-> FALSE]
SlackFlow == [locked |-> TRUE, stored |-> "first", source |-> "params",
              rotates |-> TRUE, putFirst |-> FALSE]
GitHubFlow == [locked |-> TRUE, stored |-> "first", source |-> "params",
               rotates |-> TRUE, putFirst |-> FALSE]
NotionFlow == [locked |-> FALSE, stored |-> "never", source |-> "store",
               rotates |-> TRUE, putFirst |-> FALSE]
GoogleFlow == [locked |-> FALSE, stored |-> "never", source |-> "params",
               rotates |-> FALSE, putFirst |-> FALSE]
GenericFlow == [locked |-> TRUE, stored |-> "alone", source |-> "storeOnly",
                rotates |-> TRUE, putFirst |-> TRUE]

ASSUME ConstantsOK ==
    /\ Nobody \notin Requests
    /\ Flows \subseteq FlowType
    /\ MaxGrants \in Nat \ {0}
    /\ MaxGen \in Nat /\ MaxManual \in Nat

VARIABLES
    flow,      \* the function the credential's kind selects
    params,    \* does the config carry params.refresh_token?
    refresh,   \* the credential's refresh_token in the secret store
    access,    \* its access_token in the secret store
    current,   \* current[g]: the newest refresh gen of grant g, the provider accepts it
    ended,     \* grants the provider has ended: it accepts none of their tokens
    grants,    \* how many authorizations there have been
    cache,     \* the injector's cache entry: [token, state]
    owner,     \* who holds the credential's mutex
    pc,        \* pc[r]: where request r is
    using,     \* using[r]: the refresh token r has read
    got,       \* got[r]: what r has obtained: from the provider, or an access token
    lost,      \* history: grants with a rotation whose new token was never stored
    overtaken, \* history: grants with a rotation that another request's answer, with
               \* the old token in it, did not know of
    dropped    \* history: has the stored refresh_token been deleted, with one in the config?

credential == <<flow, params>>
storeVars == <<refresh, access, grants>>
reqVars == <<pc, using, got>>
provider == <<current, ended>>
history == <<lost, overtaken, dropped>>
vars == <<credential, storeVars, provider, cache, owner, reqVars, history>>

Token == [grant : 0..MaxGrants, gen : Nat]
NoToken == [grant |-> 0, gen |-> 0]
FirstToken == [grant |-> 1, gen |-> 0]
CacheEntry == [token : Token, state : {"none", "live", "permanent"}]
NoEntry == [token |-> NoToken, state |-> "none"]

\* Ended requests were served with a token, failed (the caller answers 502),
\* or failed because the provider refused the refresh token.
Ended == {"served", "failed", "refused"}
Working == {"access", "refresh", "exchange", "reply", "returned", "store"}

TypeOK ==
    /\ flow \in FlowType /\ params \in BOOLEAN
    /\ refresh \in Token /\ access \in Token
    /\ current \in [1..MaxGrants -> Nat]
    /\ grants \in 1..MaxGrants
    /\ cache \in CacheEntry
    /\ owner \in Requests \cup {Nobody}
    /\ pc \in [Requests -> {"idle", "lock"} \cup Working \cup Ended]
    /\ using \in [Requests -> Token]
    /\ got \in [Requests -> Token]
    /\ ended \in SUBSET (1..MaxGrants)
    /\ lost \in SUBSET (0..MaxGrants) /\ overtaken \in SUBSET (0..MaxGrants)
    /\ dropped \in BOOLEAN

\* The first authorization put its refresh token in the config or in the store,
\* or there has been none that left one.
Init ==
    /\ flow \in Flows
    /\ params \in IF flow.source = "storeOnly" THEN {FALSE} ELSE BOOLEAN
    /\ refresh \in IF params THEN {NoToken} ELSE {NoToken, FirstToken}
    /\ access = NoToken
    /\ current = [g \in 1..MaxGrants |-> 0] /\ ended = {}
    /\ grants = 1
    /\ cache = NoEntry
    /\ owner = Nobody
    /\ pc = [r \in Requests |-> "idle"]
    /\ using = [r \in Requests |-> NoToken]
    /\ got = [r \in Requests |-> NoToken]
    /\ lost = {} /\ overtaken = {} /\ dropped = FALSE
-----------------------------------------------------------------------------
(* Helpers.                                                                *)

\* The deferred Unlock of a request that held the mutex.
Release(r) == owner' = IF owner = r THEN Nobody ELSE owner

\* The request ends, with t to inject, with nothing, or refused what it presented.
Serve(r, t) ==
    /\ pc' = [pc EXCEPT ![r] = "served"]
    /\ got' = [got EXCEPT ![r] = t]
    /\ using' = [using EXCEPT ![r] = NoToken]
    /\ Release(r)

Fail(r, how) ==
    /\ pc' = [pc EXCEPT ![r] = how]
    /\ got' = [got EXCEPT ![r] = NoToken]
    /\ using' = IF how = "refused" THEN using ELSE [using EXCEPT ![r] = NoToken]
    /\ Release(r)

\* Entries from an exchange expire within the hour or so, entries made from a
\* stored access_token after ten years: in effect never.
Live(t) == [token |-> t, state |-> "live"]
Permanent(t) == [token |-> t, state |-> "permanent"]
Hit == cache.state # "none"

FirstRead == IF flow.stored = "never" THEN "refresh" ELSE "access"

\* secretValue looks into the config first, ...
SecretValue == IF params THEN FirstToken ELSE refresh

\* The config goes first here too.
RotatingSecretValue_Params == SecretValue

\* ... rotatingSecretValue into the store.
RotatingSecretValue == IF refresh # NoToken \/ ~params THEN refresh ELSE FirstToken

RefreshToken ==
    CASE flow.source = "params" -> SecretValue
      [] flow.source = "store" -> RotatingSecretValue
      [] flow.source = "storeOnly" -> refresh

\* Does the provider accept the refresh token?
Accepted(t) == t.gen = current[t.grant] /\ t.grant \notin ended

\* Requests that have begun and not ended.
Waiting(r) == pc[r] \in {"lock"} \cup Working

\* Requests whose answer has a refresh token in it that is yet to be stored.
Returning(r) == pc[r] \in {"returned", "store"}

\* The new token of a rotation is only in the memory of the request's goroutine;
Carries(r) == Returning(r) /\ got[r] # using[r]

\* or the answer repeats the token that was presented.
Echoes(r) == Returning(r) /\ got[r] = using[r]
-----------------------------------------------------------------------------
(* One request.                                                            *)

\* A request comes in.
LookUpCache(r) ==
    /\ pc[r] \in {"idle"} \cup Ended
    /\ \/ Hit /\ Serve(r, cache.token)
       \/ /\ ~Hit
          /\ pc' = [pc EXCEPT ![r] = IF flow.locked THEN "lock" ELSE FirstRead]
          /\ got' = [got EXCEPT ![r] = NoToken]
          /\ using' = [using EXCEPT ![r] = NoToken]
          /\ UNCHANGED owner
    /\ UNCHANGED <<credential, storeVars, provider, cache, history>>

\* The second look at the cache is left out.
Acquire_NoRecheck(r) ==
    /\ pc[r] = "lock"
    /\ owner = Nobody
    /\ owner' = r
    /\ pc' = [pc EXCEPT ![r] = FirstRead]
    /\ UNCHANGED <<credential, storeVars, provider, cache, using, got, history>>

\* lock.Lock() and the second look at the cache; a hit unlocks at once.
Acquire(r) ==
    /\ pc[r] = "lock"
    /\ owner = Nobody
    /\ \/ Hit /\ Serve(r, cache.token)
       \/ /\ ~Hit
          /\ owner' = r
          /\ pc' = [pc EXCEPT ![r] = FirstRead]
          /\ UNCHANGED <<using, got>>
    /\ UNCHANGED <<credential, storeVars, provider, cache, history>>

\* A stored access_token is injected as it is; the generic flow keeps it until
\* it knows whether there is a refresh_token.
ReadAccess(r) ==
    /\ pc[r] = "access"
    /\ IF flow.stored = "first" /\ access # NoToken
       THEN Serve(r, access) /\ cache' = Permanent(access)
       ELSE /\ pc' = [pc EXCEPT ![r] = "refresh"]
            /\ got' = [got EXCEPT ![r] = access]
            /\ UNCHANGED <<cache, owner, using>>
    /\ UNCHANGED <<credential, storeVars, provider, history>>

\* The refresh token is read and will be presented to the provider.
ReadRefresh(r) ==
    /\ pc[r] = "refresh"
    /\ RefreshToken # NoToken
    /\ using' = [using EXCEPT ![r] = RefreshToken]
    /\ pc' = [pc EXCEPT ![r] = "exchange"]
    /\ UNCHANGED <<credential, storeVars, provider, cache, got, owner, history>>

\* The generic flow found an access_token and no refresh_token.
UseStoredAccess(r) ==
    /\ pc[r] = "refresh"
    /\ RefreshToken = NoToken /\ got[r] # NoToken
    /\ Serve(r, got[r])
    /\ cache' = Permanent(got[r])
    /\ UNCHANGED <<credential, storeVars, provider, history>>

\* "requires refresh_token or access_token"
NothingStored(r) ==
    /\ pc[r] = "refresh"
    /\ RefreshToken = NoToken /\ got[r] = NoToken
    /\ Fail(r, "failed")
    /\ UNCHANGED <<credential, storeVars, provider, cache, history>>

\* A refused request reads the token again and tries once more, without end.
Refuse_Retries(r) ==
    /\ pc[r] = "exchange"
    /\ ~Accepted(using[r])
    /\ pc' = [pc EXCEPT ![r] = "refresh"]
    /\ UNCHANGED <<credential, storeVars, provider, cache, owner, using, got, history>>

\* The provider does not know the refresh token: it was used up, or its grant ended.
Refuse(r) ==
    /\ pc[r] = "exchange"
    /\ ~Accepted(using[r])
    /\ Fail(r, "refused")
    /\ UNCHANGED <<credential, storeVars, provider, cache, history>>

\* The provider answers with an access token ...
Answer(r, next, t) ==
    /\ pc[r] = "exchange"
    /\ Accepted(using[r])
    /\ pc' = [pc EXCEPT ![r] = next]
    /\ got' = [got EXCEPT ![r] = t]
    /\ UNCHANGED <<credential, storeVars, ended, cache, owner, using, lost, dropped>>

\* ... and no refresh token: the one presented stands; ...
Keep(r) == Answer(r, "reply", using[r]) /\ UNCHANGED <<current, overtaken>>

\* ... or with the refresh token that was presented; ...
Echo(r) ==
    /\ flow.rotates
    /\ Answer(r, "returned", using[r])
    /\ UNCHANGED <<current, overtaken>>

\* ... or with a new one, which uses up the one presented.
Rotate(r) ==
    LET t == using[r]
    IN  /\ flow.rotates /\ t.gen < MaxGen
        /\ Answer(r, "returned", [t EXCEPT !.gen = @ + 1])
        /\ current' = [current EXCEPT ![t.grant] = t.gen + 1]
        /\ overtaken' = overtaken \cup
               {g \in {t.grant} : \E q \in Requests : Echoes(q) /\ using[q].grant = g}

\* The mutex covers the exchange but not the store of its result.
Receive_UnlocksEarly(r) ==
    /\ \/ /\ pc[r] = "returned"
          /\ pc' = [pc EXCEPT ![r] = "store"]
          /\ cache' = IF flow.putFirst THEN cache ELSE Live(got[r])
          /\ Release(r)
          /\ UNCHANGED <<using, got>>
       \/ pc[r] = "reply" /\ cache' = Live(got[r]) /\ Serve(r, got[r])
    /\ UNCHANGED <<credential, storeVars, provider, history>>

\* The access token is cached before the returned refresh token is stored.
Receive_CachesFirst(r) ==
    /\ \/ /\ pc[r] = "returned"
          /\ pc' = [pc EXCEPT ![r] = "store"]
          /\ UNCHANGED <<using, got, owner>>
       \/ pc[r] = "reply" /\ Serve(r, got[r])
    /\ cache' = Live(got[r])
    /\ UNCHANGED <<credential, storeVars, provider, history>>

\* The answer arrives: formTokenWithRefresh and notionJSONToken cache the access
\* token at once; a refresh token in it still has to be stored, new or not.
Receive(r) ==
    /\ \/ /\ pc[r] = "returned"
          /\ pc' = [pc EXCEPT ![r] = "store"]
          /\ cache' = IF flow.putFirst THEN cache ELSE Live(got[r])
          /\ UNCHANGED <<using, got, owner>>
       \/ pc[r] = "reply" /\ cache' = Live(got[r]) /\ Serve(r, got[r])
    /\ UNCHANGED <<credential, storeVars, provider, history>>

\* The old token is written back.
StoreRotated_Old(r) ==
    /\ pc[r] = "store"
    /\ refresh' = using[r]
    /\ cache' = IF flow.putFirst THEN Live(got[r]) ELSE cache
    /\ Serve(r, got[r])
    /\ UNCHANGED <<credential, access, grants, provider, history>>

\* putCredentialSecret succeeds.
StoreRotated(r) ==
    /\ pc[r] = "store"
    /\ refresh' = got[r]
    /\ cache' = IF flow.putFirst THEN Live(got[r]) ELSE cache
    /\ Serve(r, got[r])
    /\ UNCHANGED <<credential, access, grants, provider, history>>

\* Every error return: the client has left (its context is that of the store and
\* token calls), a store call fails, the provider fails or answers too late.
Abort(r) ==
    /\ pc[r] \in Working
    /\ Fail(r, "failed")
    /\ lost' = lost \cup IF Carries(r) THEN {using[r].grant} ELSE {}
    /\ UNCHANGED <<credential, storeVars, provider, cache, overtaken, dropped>>
-----------------------------------------------------------------------------
(* What happens around the requests.                                       *)

\* Fewer than thirty seconds are left of an entry made by an exchange.
Expire ==
    /\ cache.state = "live"
    /\ cache' = NoEntry
    /\ UNCHANGED <<credential, storeVars, provider, owner, reqVars, history>>

\* The OAuth helper's callback stores the refresh token of a new authorization.
Reauthorize ==
    /\ grants < MaxGrants
    /\ grants' = grants + 1
    /\ refresh' = [grant |-> grants', gen |-> 0]
    /\ UNCHANGED <<credential, access, provider, cache, owner, reqVars, history>>

\* POST /_scia/tokens, or the callback of a provider without refresh tokens,
\* stores an access token; POST /_scia/tokens/revoke deletes it, ...
ChangeAccess(t) ==
    /\ access' = t
    /\ UNCHANGED <<credential, refresh, grants, provider, cache, owner, reqVars, history>>

StoreAccess == \E n \in 1..MaxManual : ChangeAccess([grant |-> 0, gen |-> n])

DeleteAccess == access # NoToken /\ ChangeAccess(NoToken)

\* ... or, when the store has one, the refresh token.
DeleteRefresh ==
    /\ refresh # NoToken
    /\ refresh' = NoToken
    /\ dropped' = params
    /\ UNCHANGED <<credential, access, grants, provider, cache, owner, reqVars,
                   lost, overtaken>>

\* Before that the broker is asked to revoke what the store held: whether a success
\* ends the grant at the provider is the provider's affair.
RevokeAtProvider(g) ==
    /\ ended' = ended \cup {g}
    /\ UNCHANGED <<credential, storeVars, current, cache, owner, reqVars, history>>

\* The proxy stops and starts again: cache, locks and requests are gone.
Restart ==
    /\ cache' = NoEntry
    /\ owner' = Nobody
    /\ pc' = [r \in Requests |-> IF Waiting(r) THEN "failed" ELSE pc[r]]
    /\ got' = [r \in Requests |-> IF Waiting(r) THEN NoToken ELSE got[r]]
    /\ using' = [r \in Requests |-> IF Waiting(r) THEN NoToken ELSE using[r]]
    /\ lost' = lost \cup {using[r].grant : r \in {q \in Requests : Carries(q)}}
    /\ UNCHANGED <<credential, storeVars, provider, overtaken, dropped>>
-----------------------------------------------------------------------------
Work(r) ==
    \/ ReadAccess(r) \/ ReadRefresh(r) \/ UseStoredAccess(r) \/ NothingStored(r)
    \/ Refuse(r) \/ Keep(r) \/ Echo(r) \/ Rotate(r)
    \/ Receive(r) \/ StoreRotated(r) \/ Abort(r)

Environment ==
    \/ Expire \/ Reauthorize \/ StoreAccess \/ DeleteAccess \/ DeleteRefresh
    \/ \E g \in 1..grants : RevokeAtProvider(g)
    \/ Restart

Next ==
    \/ \E r \in Requests : LookUpCache(r) \/ Acquire(r) \/ Work(r)
    \/ Environment

Spec == Init /\ [][Next]_vars

\* Goroutines run, and the 10 s timeout of the token client ends an exchange;
\* sync.Mutex hands the lock to a waiter that has waited for 1 ms, so no
\* waiter starves.
Fairness == \A r \in Requests : WF_vars(Work(r)) /\ SF_vars(Acquire(r))

FairSpec == Spec /\ Fairness
-----------------------------------------------------------------------------
(* Properties.                                                             *)

\* Under the mutex no two requests of the credential are between reading the
\* refresh token and storing its successor: nobody presents a token that a
\* concurrent request is using up.
OneRefreshAtATime ==
    flow.locked => \A r \in Requests : (pc[r] \in Working) <=> (owner = r)

\* A request that waited for the mutex does not refresh again what the request
\* before it has just refreshed: who refreshes found no live token.
RefreshOnlyWithoutToken ==
    flow.locked =>
        \A r \in Requests : pc[r] \in {"access", "refresh", "exchange"} => ~Hit

\* The store holds the newest refresh token of its authorization, unless that one
\* is in the hands of a running request, or was lost with one.  Without the mutex
\* there is a third way: a request whose answer repeats the old token stores it
\* after another one has rotated it.
StoreIsCurrent ==
    LET g == refresh.grant
    IN  \/ refresh = NoToken
        \/ refresh.gen = current[g]
        \/ g \in lost
        \/ \E r \in Requests : Carries(r) /\ using[r].grant = g
        \/ ~flow.locked /\ g \in overtaken

\* The provider refuses a refresh token only after a rotation was lost or the
\* grant was revoked: requests that run at the same time, re-authorizations and
\* expiry do not cause it.
RefusedOnlyAfterLoss ==
    flow.locked /\ ~params =>
        \A r \in Requests : pc[r] = "refused" => using[r].grant \in lost \cup ended

\* Is t the newest token of its authorization, or is there a reason why not?
NewestOrExcused(t) ==
    \/ t.gen = current[t.grant]
    \/ t.grant \in lost
    \/ \E q \in Requests : Carries(q) /\ using[q].grant = t.grant
    \/ ~flow.locked /\ t.grant \in overtaken
    \/ t = FirstToken /\ params /\ (flow.source = "params" \/ dropped)

\* Where refreshes are not serialised, a request may lose a race to another one;
\* but it does not set out with a token that was used up before: the successor of
\* what it is about to present is on its way or was lost, if there is one.  The
\* token of the config is different: it stays what it was, and is read by the
\* functions that look there first, and once the stored one has been deleted.
PresentsCurrentToken ==
    [][\A r \in Requests :
            (pc[r] = "refresh" /\ pc'[r] = "exchange") => NewestOrExcused(using'[r])]_vars

\* An access token is injected from the cache only when the refresh token that
\* came with it has been stored: a failed store cannot hide behind the cache.
CacheNotAheadOfStore ==
    flow.locked /\ flow.putFirst /\ cache.state = "live" /\ cache.token.grant = refresh.grant =>
        cache.token.gen <= refresh.gen

\* Every request that waits for the mutex ends, whatever fails before it.
RequestsEnd == \A r \in Requests : (pc[r] = "lock") ~> (pc[r] \in Ended)

\* README.md: "request-time injection uses a stored `access_token` when
\* present": a request that is served at its first step, when the store holds
\* an access token, is served with that one.
StoredAccessTokenUsed ==
    [][\A r \in Requests :
            (pc[r] \in {"idle", "failed", "refused"} /\ pc'[r] = "served") =>
                access \in {NoToken, got'[r]}]_vars
=============================================================================
