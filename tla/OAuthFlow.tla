------------------------------ MODULE OAuthFlow ------------------------------
(***************************************************************************)
(* The authorization code flow of the OAuth helper                         *)
(* (src/internal/oauth/server.go) in kubernetes mode, for one credential:  *)
(* a start request names a user, is authorized with the user's token where *)
(* users are dynamic, and redirects the browser to the provider with a     *)
(* signed state; the provider sends the browser back with a code, once or, *)
(* when pages are reloaded, more often; the callback checks the state,     *)
(* exchanges the code and stores the token in the user's Secret.           *)
(*                                                                         *)
(* All that is known of a flow between the two requests is in the state:   *)
(* meanwhile the configuration may be reloaded and the helper restarted.   *)
(* The requests are processes that make one step per call to the secret    *)
(* store or the provider and per look at the configuration.                *)
(***************************************************************************)
EXTENDS Naturals

CONSTANTS
    Flows,        \* start requests, with the flows they begin
    Callbacks,    \* callback requests
    Users,
    UserTokens,   \* what clients send as X-Scia-User-Token or user_token
    None,         \* neither a user, a user token nor a flow
    Configs,      \* the configurations there may be
    MaxReloads,   \* bound
    MaxRestarts   \* bound

\* What matters of a configuration: server.users, dynamicUsers, whether the
\* credential is defined, and the version of its client secret.
ConfigType == [users : SUBSET Users, dynamic : BOOLEAN, defined : BOOLEAN, secret : Nat]

ASSUME ConstantsOK ==
    /\ None \notin Flows \cup Users \cup UserTokens
    /\ Flows \cap Callbacks = {}
    \* Validate: server.users is required.
    /\ Configs \subseteq {c \in ConfigType : c.dynamic \/ c.users # {}}
    /\ MaxReloads \in Nat /\ MaxRestarts \in Nat

VARIABLES
    cfg,         \* the configuration in force
    boot,        \* the one the secret store was made from, at the last start
    reloads,
    restarts,
    registered,  \* registered[<<u, s>>]: the token in u's Secret s under _scia_user_token
    stored,      \* stored[<<u, s, key>>]: the flow whose token that Secret holds
    pc,          \* pc[p]: where request p is
    user,        \* user[f]: the user f was started for
    token,       \* token[f]: the user token f was started with
    snap,        \* snap[p]: the configuration p took at its beginning
    signed,      \* signed[f]: the secret version f's state was signed with
    fresh,       \* flows whose state is at most ten minutes old
    code,        \* code[f]: at the provider: "none", "issued" or "used"
    flow,        \* flow[k]: the flow whose state and code callback k brings
    overlapped,  \* history: users for whom two registrations ran at once
    settled,     \* history: flows since whose state was made cfg has not changed
    absent       \* history: flows whose user was unknown to cfg at some time

flowVars == <<user, token, signed, fresh, code, settled, absent>>
storeVars == <<registered, stored, overlapped>>
cfgVars == <<cfg, boot, reloads, restarts>>
vars == <<cfgVars, storeVars, flowVars, pc, snap, flow>>

Processes == Flows \cup Callbacks

\* A user's Secret has the name the configuration gives it, or, for a dynamic
\* user, one made from the user's id.
Secrets == {"named", "made"}
\* The token's key has the credential's id in it, or it has not.
Keys == {"scoped", "plain"}

\* start ...
Starting == {"authorize", "register", "create"}
\* ... and callback.
CallingBack == {"verify", "resolve", "exchange", "put"}
Ended == {"consent", "refused", "stored", "rejected", "expired", "failed"}

TypeOK ==
    /\ cfg \in Configs /\ boot \in Configs
    /\ reloads \in 0..MaxReloads /\ restarts \in 0..MaxRestarts
    /\ registered \in [Users \X Secrets -> UserTokens \cup {None}]
    /\ stored \in [Users \X Secrets \X Keys -> Flows \cup {None}]
    /\ pc \in [Processes -> {"idle"} \cup Starting \cup CallingBack \cup Ended]
    /\ user \in [Flows -> Users \cup {None}]
    /\ token \in [Flows -> UserTokens \cup {None}]
    /\ snap \in [Processes -> Configs]
    /\ signed \in [Flows -> Nat]
    /\ fresh \in SUBSET Flows
    /\ code \in [Flows -> {"none", "issued", "used"}]
    /\ flow \in [Callbacks -> Flows \cup {None}]
    /\ overlapped \in SUBSET Users
    /\ settled \in SUBSET Flows /\ absent \in SUBSET Flows

Init ==
    /\ cfg \in Configs /\ boot = cfg
    /\ reloads = 0 /\ restarts = 0
    /\ registered = [x \in Users \X Secrets |-> None]
    /\ stored = [x \in Users \X Secrets \X Keys |-> None]
    /\ pc = [p \in Processes |-> "idle"]
    /\ user = [f \in Flows |-> None]
    /\ token = [f \in Flows |-> None]
    /\ snap = [p \in Processes |-> cfg]
    /\ signed = [f \in Flows |-> 0]
    /\ fresh = {}
    /\ code = [f \in Flows |-> "none"]
    /\ flow = [k \in Callbacks |-> None]
    /\ overlapped = {} /\ settled = {} /\ absent = {}
-----------------------------------------------------------------------------
(* Helpers.                                                                *)

Goto(p, where) == pc' = [pc EXCEPT ![p] = where]

HasUser(c, u) == u \in c.users \/ c.dynamic
HasDynamicUser(c, u) == u \notin c.users /\ c.dynamic

\* KubernetesStore.secretName: the store keeps the users it was made with.
Known(u) == HasUser(boot, u)
SecretName(u) == IF u \in boot.users THEN "named" ELSE "made"

\* storageTokenKey forgets the user check.
StorageTokenKey_Plain(c, u) == "plain"

\* storageTokenKey: "<credential>.refresh_token", or the bare "refresh_token"
\* that all credentials of a user share.
StorageTokenKey(c, u) == IF HasUser(c, u) THEN "scoped" ELSE "plain"
-----------------------------------------------------------------------------
(* The start request.                                                      *)

\* The start handlers up to the check of the user.  startGeneric refuses an unknown
\* service before it, the handlers of the other providers an unknown credential
\* later, when the user has been authorized.
Start(f, u, t) ==
    /\ pc[f] = "idle"
    /\ user' = [user EXCEPT ![f] = u]
    /\ token' = [token EXCEPT ![f] = t]
    /\ snap' = [snap EXCEPT ![f] = cfg]
    /\ absent' = IF HasUser(cfg, u) THEN absent ELSE absent \cup {f}
    /\ \/ ~cfg.defined /\ Goto(f, "refused")
       \/ Goto(f, IF ~HasUser(cfg, u) THEN "refused"
                  ELSE IF HasDynamicUser(cfg, u) THEN "authorize" ELSE "create")
    /\ UNCHANGED <<cfgVars, storeVars, signed, fresh, code, settled, flow>>

\* A token that differs from the registered one replaces it.
Authorize_Replaces(f) ==
    /\ pc[f] = "authorize"
    /\ Known(user[f])
    /\ Goto(f, IF registered[<<user[f], SecretName(user[f])>>] = token[f]
               THEN "create" ELSE "register")
    /\ UNCHANGED <<cfgVars, storeVars, flowVars, snap, flow>>

\* authorizeDynamicUserRequest: the user's token is read from the store ...
Authorize(f) ==
    /\ pc[f] = "authorize"
    /\ LET u == user[f]
           now == registered[<<u, SecretName(u)>>]
           first == Known(u) /\ token[f] # None /\ now = None
       IN  /\ Goto(f, IF ~Known(u) \/ token[f] = None THEN "refused"
                      ELSE IF first THEN "register"
                      ELSE IF now = token[f] THEN "create" ELSE "refused")
           /\ overlapped' = IF first /\ (\E g \in Flows \ {f} : pc[g] = "register" /\ user[g] = u)
                            THEN overlapped \cup {u} ELSE overlapped
    /\ UNCHANGED <<cfgVars, registered, stored, flowVars, snap, flow>>

\* ... and where there was none, the request's becomes the user's.
Register(f) ==
    /\ pc[f] = "register"
    /\ registered' = [registered EXCEPT ![<<user[f], SecretName(user[f])>>] = token[f]]
    /\ Goto(f, "create")
    /\ UNCHANGED <<cfgVars, stored, overlapped, flowVars, snap, flow>>

Redirect(f, secret) ==
    /\ Goto(f, "consent")
    /\ signed' = [signed EXCEPT ![f] = secret]
    /\ fresh' = fresh \cup {f}
    /\ settled' = settled \cup {f}
    /\ UNCHANGED <<cfgVars, storeVars, user, token, snap, code, flow, absent>>

\* The state is signed with the secret of the configuration the request began with.
CreateState_Old(f) == pc[f] = "create" /\ snap[f].defined /\ Redirect(f, snap[f].secret)

\* createState looks at the configuration again; the browser goes to the provider.
CreateState(f) ==
    /\ pc[f] = "create"
    /\ snap[f].defined /\ cfg.defined
    /\ Redirect(f, cfg.secret)
-----------------------------------------------------------------------------
(* Provider and callback request.                                          *)

\* The user consents.
Consent(f) ==
    /\ pc[f] = "consent" /\ code[f] = "none"
    /\ code' = [code EXCEPT ![f] = "issued"]
    /\ UNCHANGED <<cfgVars, storeVars, user, token, signed, fresh, settled, absent, pc, snap, flow>>

\* The browser brings state and code, not always for the first time.
Callback(k, f) ==
    /\ pc[k] = "idle" /\ code[f] # "none"
    /\ flow' = [flow EXCEPT ![k] = f]
    /\ Goto(k, "verify")
    /\ UNCHANGED <<cfgVars, storeVars, flowVars, snap>>

\* consumeState checks the signature, with the secret of the configuration in
\* force, and the callback the age of the state.
Verify(k) ==
    /\ pc[k] = "verify"
    /\ LET f == flow[k]
       IN  Goto(k, IF ~cfg.defined \/ signed[f] # cfg.secret THEN "rejected"
                   ELSE IF f \notin fresh THEN "expired" ELSE "resolve")
    /\ UNCHANGED <<cfgVars, storeVars, flowVars, snap, flow>>

\* The callback takes its configuration: has the credential disappeared?
Resolve(k) ==
    /\ pc[k] = "resolve"
    /\ snap' = [snap EXCEPT ![k] = cfg]
    /\ Goto(k, IF cfg.defined THEN "exchange" ELSE "rejected")
    /\ UNCHANGED <<cfgVars, storeVars, flowVars, flow>>

\* The provider takes a code once.
Exchange(k) ==
    /\ pc[k] = "exchange"
    /\ LET f == flow[k]
       IN  /\ Goto(k, IF code[f] = "issued" THEN "put" ELSE "failed")
           /\ code' = [code EXCEPT ![f] = "used"]
    /\ UNCHANGED <<cfgVars, storeVars, user, token, signed, fresh, settled, absent, snap, flow>>

\* The error of Put is ignored.
PutToken_Unheeded(k) ==
    /\ pc[k] = "put"
    /\ LET f == flow[k]
           u == user[f]
       IN  stored' = [stored EXCEPT ![<<u, SecretName(u), StorageTokenKey(snap[k], u)>>] = f] \/ UNCHANGED stored
    /\ Goto(k, "stored")
    /\ UNCHANGED <<cfgVars, registered, overlapped, flowVars, snap, flow>>

\* The token goes to the Secret of the user the state names.
PutToken(k) ==
    /\ pc[k] = "put"
    /\ LET f == flow[k]
           u == user[f]
       IN  /\ Known(u)
           /\ stored' = [stored EXCEPT ![<<u, SecretName(u), StorageTokenKey(snap[k], u)>>] = f]
    /\ Goto(k, "stored")
    /\ UNCHANGED <<cfgVars, registered, overlapped, flowVars, snap, flow>>

\* Every error return: the store, the provider, a client that has left.
Fail(p) ==
    /\ pc[p] \in Starting \cup CallingBack
    /\ Goto(p, IF p \in Flows THEN "refused" ELSE "failed")
    /\ UNCHANGED <<cfgVars, storeVars, flowVars, snap, flow>>
-----------------------------------------------------------------------------
(* What happens meanwhile.                                                 *)

Age(f) ==
    /\ f \in fresh
    /\ fresh' = fresh \ {f}
    /\ UNCHANGED <<cfgVars, storeVars, user, token, signed, code, settled, absent, pc, snap, flow>>

Reload(c) ==
    /\ reloads < MaxReloads /\ c # cfg
    /\ reloads' = reloads + 1
    /\ cfg' = c
    /\ settled' = {}
    /\ absent' = absent \cup {f \in Flows : user[f] # None /\ ~HasUser(c, user[f])}
    /\ UNCHANGED <<boot, restarts, storeVars, user, token, signed, fresh, code, pc, snap, flow>>

\* Requests die; the flows live on in the states that browsers carry.
Restart ==
    /\ restarts < MaxRestarts
    /\ restarts' = restarts + 1
    /\ boot' = cfg
    /\ pc' = [p \in Processes |->
                IF pc[p] \notin Starting \cup CallingBack THEN pc[p]
                ELSE IF p \in Flows THEN "refused" ELSE "failed"]
    /\ UNCHANGED <<cfg, reloads, storeVars, flowVars, snap, flow>>
-----------------------------------------------------------------------------
Next ==
    \/ \E f \in Flows :
        \/ \E u \in Users, t \in UserTokens \cup {None} : Start(f, u, t)
        \/ Authorize(f) \/ Register(f) \/ CreateState(f) \/ Consent(f) \/ Age(f)
    \/ \E k \in Callbacks :
        \/ \E f \in Flows : Callback(k, f)
        \/ Verify(k) \/ Resolve(k) \/ Exchange(k) \/ PutToken(k)
    \/ \E p \in Processes : Fail(p)
    \/ \E c \in Configs : Reload(c)
    \/ Restart

Spec == Init /\ [][Next]_vars
-----------------------------------------------------------------------------
(* Properties.                                                             *)

\* docs/google-oauth-kubernetes.md: the first request for a dynamic user stores
\* its token, and "Later requests for the same user must send the same token".
\* Whatever has been started for a dynamic user since was started with a
\* registered token, unless two first requests ran at the same time.  (A user
\* whose Secret gets another name registers again.)
OneTokenPerUser ==
    \A f \in Flows :
        LET u == user[f]
        IN  pc[f] \in {"create", "consent"} /\ HasDynamicUser(snap[f], u) =>
                u \in overlapped \/ \E s \in Secrets : registered[<<u, s>>] = token[f]

\* A callback is turned away for its state, other than for its age, only if the
\* configuration has changed since the state was made: a restart does not matter.
RejectedOnlyAfterReload ==
    \A k \in Callbacks : pc[k] = "rejected" => flow[k] \notin settled

\* The key all credentials of a user share is written only if the user was taken
\* out of the configuration between start and callback.
PlainOnlyAfterRemoval ==
    \A u \in Users, s \in Secrets :
        stored[<<u, s, "plain">>] # None => stored[<<u, s, "plain">>] \in absent

\* What a callback reported as stored is in a Secret of the user, or was replaced
\* by the token of another flow of the user that ended well.
StoredIsThere ==
    \A k \in Callbacks : pc[k] = "stored" =>
        \E s \in Secrets, l \in Keys :
            LET f == stored[<<user[flow[k]], s, l>>]
            IN  f = flow[k] \/ \E j \in Callbacks \ {k} : pc[j] = "stored" /\ f = flow[j]
=============================================================================
