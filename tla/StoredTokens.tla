---------------------------- MODULE StoredTokens ----------------------------
(***************************************************************************)
(* What the secret store holds for ONE OAuth credential, and the three     *)
(* parties that change it without a common lock: the callbacks of the      *)
(* OAuth helper (src/internal/oauth/server.go) and POST /_scia/tokens      *)
(* (src/internal/proxy/server.go) store the tokens of an authorization,    *)
(* the injector (src/internal/auth/credential.go) stores rotated refresh   *)
(* tokens, POST /_scia/tokens/revoke has a broker revoke a token and       *)
(* deletes it.  Each handler is a process that makes one step per call to  *)
(* the store, the broker or the provider.  TokenRefresh looks into the     *)
(* injector, which is here the refresh of one request.                     *)
(*                                                                         *)
(* A token is the refresh or access token of an authorization (its grant), *)
(* and a refresh token may be a later one of its grant (gen).              *)
(***************************************************************************)
EXTENDS Naturals, Sequences

CONSTANTS
    Admins,     \* revoke requests
    Refreshes,  \* refreshes by the injector, in this proxy or in replicas of it
    Callbacks,  \* callbacks of the OAuth helper
    Layout,     \* names of the keys: "plain", "scoped" or "google"
    FieldSets,  \* which tokens the provider may answer a code with
    MaxPuts,    \* bound: tokens stored by hand
    MaxGen      \* bound: rotations of a grant

Processes == Admins \cup Refreshes \cup Callbacks

ASSUME ConstantsOK ==
    /\ Admins \cap (Refreshes \cup Callbacks) = {} /\ Refreshes \cap Callbacks = {}
    /\ "admin" \notin Admins \cup Refreshes \cup Callbacks
    /\ Layout \in {"plain", "scoped", "google"}
    /\ FieldSets \subseteq (SUBSET {"refresh", "access"}) \ {{}}
    /\ MaxPuts \in Nat /\ MaxGen \in Nat

VARIABLES
    store,     \* the credential's tokens, by slot
    grants,    \* how many authorizations there have been
    puts,      \* how many of them were stored by hand
    current,   \* current[g]: the refresh gen the provider accepts for grant g
    ended,     \* grants the provider accepts no token of any more
    revoked,   \* tokens the broker has had revoked
    pc,        \* pc[p]: where process p is
    todo,      \* todo[p]: slots still to be looked into (admins, refreshes)
    fields,    \* fields[p]: kinds of token still to be stored (callbacks)
    got,       \* got[p]: the token p has found, or has been given
    since,     \* history: since[p]: tokens stored by others since p got its own
    raced      \* history: raced[a]: tokens that refreshes had in hand when a deleted
               \* its own, with an answer already there or yet to be had

provider == <<current, ended, revoked>>
history == <<since, raced>>
vars == <<store, grants, puts, provider, pc, todo, fields, got, history>>

\* storageTokenKey: in kubernetes mode the keys begin with the credential's id,
\* else they are the kinds themselves.  With ids that end in ".google" an older
\* layout, the bare refresh_token of the user's Secret, is still read: "legacy".
Slots == {"refresh", "access", "legacy"}
Kind(s) == IF s = "access" THEN "access" ELSE "refresh"

Token == [kind : {"refresh", "access"}, grant : Nat, gen : Nat]
NoToken == [kind |-> "refresh", grant |-> 0, gen |-> 0]
First(k, g) == [kind |-> k, grant |-> g, gen |-> 0]

\* Where the value of a key is looked for, in order.
Lookups(k) == IF k = "refresh" /\ Layout = "google" THEN <<"refresh", "legacy">> ELSE <<k>>

Ended == {"done", "failed"}
Active == {"look", "broker", "delete", "exchange", "put", "fields"}

TypeOK ==
    /\ store \in [Slots -> Token]
    /\ \A s \in Slots : store[s] # NoToken => store[s].kind = Kind(s)
    /\ grants \in Nat /\ puts \in 0..MaxPuts
    /\ current \in [1..grants -> 0..MaxGen]
    /\ ended \in SUBSET (1..grants) /\ revoked \in SUBSET Token
    /\ pc \in [Processes -> {"idle"} \cup Active \cup Ended]
    /\ todo \in [Processes -> Seq(Slots)]
    /\ fields \in [Processes -> SUBSET {"refresh", "access"}]
    /\ got \in [Processes -> Token]
    /\ since \in [Processes -> SUBSET Token]
    /\ raced \in [Admins -> SUBSET Token]

\* A first authorization has been stored, perhaps by an older version.
Init ==
    /\ store = [s \in Slots |-> IF s = (IF Layout = "google" THEN "legacy" ELSE "refresh")
                                THEN First("refresh", 1) ELSE NoToken]
    /\ grants = 1 /\ puts = 0
    /\ current = [g \in {1} |-> 0]
    /\ ended = {} /\ revoked = {}
    /\ pc = [p \in Processes |-> "idle"]
    /\ todo = [p \in Processes |-> <<>>]
    /\ fields = [p \in Processes |-> {}]
    /\ got = [p \in Processes |-> NoToken]
    /\ since = [p \in Processes |-> {}]
    /\ raced = [a \in Admins |-> {}]
-----------------------------------------------------------------------------
(* Helpers.                                                                *)

Goto(p, where) == pc' = [pc EXCEPT ![p] = where]

\* A handler returns, and what it has known is gone.
Return(p, where) ==
    /\ Goto(p, where)
    /\ todo' = [todo EXCEPT ![p] = <<>>]
    /\ fields' = [fields EXCEPT ![p] = {}]
    /\ got' = [got EXCEPT ![p] = NoToken]
    /\ since' = [since EXCEPT ![p] = {}]

\* secrets.Put of t by p (by nobody among the processes, where p is not one).
Put(p, s, t) ==
    /\ store' = [store EXCEPT ![s] = t]
    /\ since' = [q \in Processes |->
                    IF pc'[q] \notin Active \ {"look"} THEN {}
                    ELSE IF q = p THEN since[q] ELSE since[q] \cup {t}]

\* The provider has a new authorization.
Authorize ==
    /\ grants' = grants + 1
    /\ current' = [g \in 1..grants' |-> IF g \in DOMAIN current THEN current[g] ELSE 0]

\* The refresh tokens a provider takes: the latest of grants it has not ended.
Accepted(t) == t.kind = "refresh" /\ t.grant \notin ended /\ t.gen = current[t.grant]
-----------------------------------------------------------------------------
(* adminTokenToRevoke and secretValue look into one slot after the other.  *)

Look(p, found) ==
    /\ pc[p] = "look"
    /\ LET s == Head(todo[p])
       IN  IF store[s] # NoToken
           THEN /\ got' = [got EXCEPT ![p] = store[s]]
                /\ Goto(p, found)
                /\ todo' = [todo EXCEPT ![p] = <<>>]
           ELSE /\ todo' = [todo EXCEPT ![p] = Tail(@)]
                /\ Goto(p, IF Len(todo[p]) = 1 THEN "failed" ELSE "look")
                /\ UNCHANGED got
    /\ UNCHANGED <<store, grants, puts, provider, fields, history>>

Begin(p, slots) ==
    /\ pc[p] = "idle"
    /\ Goto(p, "look")
    /\ todo' = [todo EXCEPT ![p] = slots]
    /\ UNCHANGED <<store, grants, puts, provider, fields, got, history>>

\* Every error return.
Fail(p) ==
    /\ pc[p] \in Active
    /\ Return(p, "failed")
    /\ UNCHANGED <<store, grants, puts, provider, raced>>
-----------------------------------------------------------------------------
(* POST /_scia/tokens/revoke.                                              *)

\* The request may name a key, else the refresh token comes first.
RevokeRequest(a) ==
    \E slots \in {Lookups("refresh") \o Lookups("access"), Lookups("refresh"), Lookups("access")} :
        Begin(a, slots)

RevokeLook(a) == Look(a, "broker")

\* revokeOAuth, where the OAuth helper is the broker: it answers "ok" only when the
\* provider has answered with success.  Of a token the provider accepts, that ends
\* the grant.  Of one it no longer knows, a used-up refresh token say, a provider
\* may answer the same and do nothing; so may it when an access token is revoked.
\* Any other answer, of the provider or of a configuration that names no revoke
\* URL, or a lost one, leaves open what has been done.
RevokeOAuth(t, ok) ==
    /\ revoked' \in {revoked, revoked \cup {t}}
    /\ ended' \in {ended, ended \cup {t.grant}}
    /\ ok => t \in revoked'
    /\ Accepted(t) /\ t \in revoked' => t.grant \in ended'

\* What the answer of the broker says is not looked at.
BrokerRevokes_Unheeded(a) ==
    /\ pc[a] = "broker"
    /\ \E ok \in BOOLEAN : RevokeOAuth(got[a], ok)
    /\ Goto(a, "delete")
    /\ UNCHANGED <<store, grants, puts, current, todo, fields, got, history>>

\* revokeTokenWithBroker: without a broker's "ok" the token is kept.
BrokerRevokes(a) ==
    /\ pc[a] = "broker"
    /\ \E ok \in BOOLEAN :
        /\ RevokeOAuth(got[a], ok)
        /\ Goto(a, IF ok THEN "delete" ELSE "failed")
    /\ UNCHANGED <<store, grants, puts, current, todo, fields, got, history>>

\* Refreshes that have a token of the provider still to store, or may yet get one.
Returning(i) == pc[i] = "put" \/ (pc[i] = "exchange" /\ Accepted(got[i]))

Delete(a, s) ==
    /\ pc[a] = "delete"
    /\ store' = [store EXCEPT ![s] = NoToken]
    /\ raced' = [raced EXCEPT ![a] = {got[i] : i \in {j \in Refreshes : Returning(j)}}]
    /\ since' = [since EXCEPT ![a] = {}]
    /\ Goto(a, "done")
    /\ UNCHANGED <<grants, puts, provider, todo, fields, got>>

\* The key that was asked for first is deleted, not the one that was found.
DeleteRevoked_Asked(a) == Delete(a, "refresh")

\* The secret is deleted only if it still is the revoked one.
DeleteRevoked_IfSame(a) ==
    IF store[got[a].kind] = got[a] THEN Delete(a, got[a].kind)
    ELSE /\ pc[a] = "delete"
         /\ Goto(a, "done")
         /\ UNCHANGED <<store, grants, puts, provider, todo, fields, got, history>>

\* The key is deleted under its present name, whatever it holds by now.
DeleteRevoked(a) == Delete(a, got[a].kind)
-----------------------------------------------------------------------------
(* A refresh by the injector.                                              *)

RefreshRequest(i) == Begin(i, Lookups("refresh"))

RefreshLook(i) == Look(i, "exchange")

\* formTokenWithRefresh and its callers: an answer without a refresh token changes
\* nothing.  One that repeats the token, or brings the next one, is stored in any
\* case, but not of Google, the only ones with a legacy key.
Refresh(i) ==
    /\ pc[i] = "exchange"
    /\ Accepted(got[i])
    /\ \/ Return(i, "done") /\ UNCHANGED current
       \/ /\ Layout # "google"
          /\ \/ UNCHANGED <<current, got>>
             \/ /\ got[i].gen < MaxGen
                /\ current' = [current EXCEPT ![got[i].grant] = @ + 1]
                /\ got' = [got EXCEPT ![i].gen = @ + 1]
          /\ Goto(i, "put")
          /\ UNCHANGED <<todo, fields, since>>
    /\ UNCHANGED <<store, grants, puts, ended, revoked, raced>>

\* putCredentialSecret
PutReturned(i) ==
    /\ pc[i] = "put"
    /\ Goto(i, "done")
    /\ Put(i, "refresh", got[i])
    /\ got' = [got EXCEPT ![i] = NoToken]
    /\ UNCHANGED <<grants, puts, provider, todo, fields, raced>>
-----------------------------------------------------------------------------
(* New authorizations.                                                     *)

\* A callback exchanges its code for the tokens of a new grant.  Google and
\* Notion store the refresh token, Todoist, Slack and GitHub the access token
\* where there is no refresh token, the generic callback every field.
Exchange(c) ==
    /\ pc[c] = "idle"
    /\ Authorize
    /\ \E fs \in FieldSets : fields' = [fields EXCEPT ![c] = fs]
    /\ got' = [got EXCEPT ![c] = First("refresh", grants')]
    /\ Goto(c, "fields")
    /\ UNCHANGED <<store, puts, ended, revoked, todo, history>>

\* One field is stored; the order is that of a Go map.
PutField(c) ==
    /\ pc[c] = "fields"
    /\ \E k \in fields[c] :
        /\ fields' = [fields EXCEPT ![c] = @ \ {k}]
        /\ Goto(c, IF fields[c] = {k} THEN "done" ELSE "fields")
        /\ Put(c, k, First(k, got[c].grant))
    /\ UNCHANGED <<grants, puts, provider, todo, got, raced>>

\* POST /_scia/tokens writes to the credential's id, under the key it is given:
\* where keys are scoped that is no place tokens are read from.
AdminPut ==
    /\ Layout = "plain" /\ puts < MaxPuts
    /\ puts' = puts + 1
    /\ Authorize
    /\ UNCHANGED <<ended, revoked, pc, todo, fields, got, raced>>
    /\ \E k \in {"refresh", "access"} : Put("admin", k, First(k, grants'))
-----------------------------------------------------------------------------
Next ==
    \/ \E a \in Admins : RevokeRequest(a) \/ RevokeLook(a) \/ BrokerRevokes(a) \/ DeleteRevoked(a)
    \/ \E i \in Refreshes : RefreshRequest(i) \/ RefreshLook(i) \/ Refresh(i) \/ PutReturned(i)
    \/ \E c \in Callbacks : Exchange(c) \/ PutField(c)
    \/ \E p \in Processes : Fail(p)
    \/ AdminPut

Spec == Init /\ [][Next]_vars
-----------------------------------------------------------------------------
(* Properties.                                                             *)

\* README.md: revoke "deletes the local secret only after the broker succeeds":
\* once a revoke request has been answered with success, the token the broker was
\* given is stored no more, unless a refresh that had it in hand when it was
\* deleted, and whose answer repeats it, stores it again.
RevokedIsGone ==
    \A a \in Admins : pc[a] = "done" =>
        \A s \in Slots : store[s] = got[a] => got[a] \in raced[a]

\* Once the revocation of a refresh token has succeeded, its grant does not come
\* back into the store, unless a refresh of the grant had its answer still to
\* store, or yet to get, when the token was deleted.
RevocationSticks ==
    \A a \in Admins :
        pc[a] = "done" /\ got[a].kind = "refresh" /\ store["refresh"].grant = got[a].grant =>
            \E t \in raced[a] : t.grant = got[a].grant

\* A stored token goes only when the broker has revoked it, when a later
\* authorization or a rotation of its own grant replaces it, or by the hand of a
\* process that began before the token was stored.
ChangesExplained ==
    [][\A s \in Slots :
        LET t == store[s]
            u == store'[s]
        IN  t # NoToken /\ u # t =>
                \/ u = NoToken /\ t \in revoked
                \/ u.grant > t.grant
                \/ u.grant = t.grant /\ u.gen > t.gen
                \/ \E p \in Processes : pc[p] # pc'[p] /\ t \in since[p]
                \/ \E c \in Callbacks : fields[c] # fields'[c] /\ t \in since[c]]_vars
=============================================================================
