-------------------------- MODULE OAuthFlowProofs --------------------------
(***************************************************************************)
(* Proofs about OAuthFlow, for any users, flows, callbacks, configurations *)
(* and any number of reloads and restarts.  What a callback does rests on  *)
(* what was true when the start request made its state, two requests and   *)
(* perhaps a restart earlier: FlowInv carries that from one to the other.  *)
(***************************************************************************)
EXTENDS OAuthFlow, TLAPS

\* A flow has a user once it is started.  A code exists only for one whose state
\* is made, and a callback brings the state of such a flow.
OriginInv ==
    /\ \A f \in Flows :
        /\ pc[f] # "idle" => user[f] \in Users
        /\ pc[f] \in {"idle"} \cup Starting \cup {"consent", "refused"}
        /\ code[f] # "none" => pc[f] = "consent"
    /\ \A k \in Callbacks :
        /\ pc[k] \in {"idle"} \cup CallingBack \cup Ended
        /\ pc[k] # "idle" => flow[k] \in Flows /\ code[flow[k]] # "none"

\* As long as the configuration has not changed, it can verify the state.
SettledInv == \A f \in settled : signed[f] = cfg.secret /\ cfg.defined

\* Users that were unknown to the configuration are remembered, and so are those
\* unknown to the one a callback holds.
AbsentInv ==
    /\ \A f \in Flows : (user[f] # None /\ ~HasUser(cfg, user[f])) => f \in absent
    /\ \A k \in Callbacks :
        (pc[k] \in {"exchange", "put"} /\ ~HasUser(snap[k], user[flow[k]])) => flow[k] \in absent

\* Whoever is about to register a token for a user is alone and the first, or the
\* user is known to have had two at once.
RegisterInv ==
    \A f \in Flows :
        /\ pc[f] \in {"register", "create", "consent"} /\ HasDynamicUser(snap[f], user[f]) =>
                token[f] # None
        /\ pc[f] = "register" =>
            \/ user[f] \in overlapped
            \/ /\ registered[<<user[f], SecretName(user[f])>>] = None
               /\ \A g \in Flows \ {f} : pc[g] = "register" => user[g] # user[f]

FlowInv ==
    /\ TypeOK
    /\ OriginInv /\ SettledInv /\ AbsentInv /\ RegisterInv
    /\ OneTokenPerUser /\ RejectedOnlyAfterReload /\ PlainOnlyAfterRemoval /\ StoredIsThere

\* A code gets one callback past the provider; what is stored belongs to the user
\* of the flow it comes from.
Exchanged == {"put", "stored"}
ConsentInv ==
    /\ \A f \in Flows : pc[f] = "idle" => user[f] = None
    /\ \A k \in Callbacks : pc[k] \in Exchanged => code[flow[k]] = "used"
    /\ \A j, k \in Callbacks :
        pc[j] \in Exchanged /\ pc[k] \in Exchanged /\ flow[j] = flow[k] => j = k
    /\ \A u \in Users, s \in Secrets, l \in Keys :
        stored[<<u, s, l>>] # None => user[stored[<<u, s, l>>]] = u

\* How far the consent of a flow has come: it ends kept when a callback says so.
Progress(f) ==
    IF \E k \in Callbacks : pc[k] = "stored" /\ flow[k] = f THEN "kept"
    ELSE IF code[f] = "none" THEN "none"
    ELSE IF code[f] = "issued" THEN "given" ELSE "spent"

Grants == INSTANCE Consents
            WITH owner <- user, consent <- [f \in Flows |-> Progress(f)], kept <- stored

\* Each consent is stored at most once, and for the user it was given for.
OneGrantPerConsent == Grants!Spec
-----------------------------------------------------------------------------
\* The invariant holds before any flow has started.
LEMMA InitFlowInv == Init => FlowInv
  <1> SUFFICES ASSUME Init PROVE FlowInv
    OBVIOUS
  <1>1. TypeOK
    BY ConstantsOK DEF Init, TypeOK, Processes
  <1>2. OriginInv
    BY DEF Init, OriginInv, Processes
  <1>3. SettledInv /\ AbsentInv /\ RegisterInv
    BY DEF Init, SettledInv, AbsentInv, RegisterInv, Processes
  <1>4. OneTokenPerUser /\ RejectedOnlyAfterReload /\ PlainOnlyAfterRemoval /\ StoredIsThere
    BY DEF Init, OneTokenPerUser, RejectedOnlyAfterReload, PlainOnlyAfterRemoval, StoredIsThere,
           Processes, Secrets, Keys
  <1> QED
    BY <1>1, <1>2, <1>3, <1>4 DEF FlowInv

\* Where the Secret of a user is.
LEMMA SecretNameType == \A u : SecretName(u) \in Secrets
  BY DEF SecretName, Secrets

\* A token is stored under one of the keys of the model.
LEMMA StorageKeyType == \A c, u : StorageTokenKey(c, u) \in Keys
  BY DEF StorageTokenKey, Keys

\* Every variable keeps its type.
LEMMA TypeStep == TypeOK /\ OriginInv /\ [Next]_vars => TypeOK'
  <1> SUFFICES ASSUME TypeOK, OriginInv, [Next]_vars PROVE TypeOK'
    OBVIOUS
  <1> USE ConstantsOK DEF TypeOK, Goto, Processes, Starting, CallingBack, Ended, cfgVars,
          storeVars, flowVars
  <1>1. ASSUME NEW f \in Flows, NEW u \in Users, NEW t \in UserTokens \cup {None}, Start(f, u, t)
        PROVE  TypeOK'
    BY <1>1 DEF Start
  <1>2. ASSUME NEW f \in Flows, Authorize(f) PROVE TypeOK'
    <2>1. user[f] \in Users
      BY <1>2 DEF Authorize, OriginInv
    <2>2. overlapped' \in SUBSET Users
      BY <1>2, <2>1 DEF Authorize
    <2>3. pc' \in [Processes -> {"idle"} \cup Starting \cup CallingBack \cup Ended]
      BY <1>2 DEF Authorize
    <2> QED
      BY <1>2, <2>2, <2>3 DEF Authorize
  <1>3. ASSUME NEW f \in Flows, Register(f) PROVE TypeOK'
    <2>1. token[f] \in UserTokens \cup {None}
      OBVIOUS
    <2>2. registered' \in [Users \X Secrets -> UserTokens \cup {None}]
      BY <1>3, <2>1 DEF Register
    <2> QED
      BY <1>3, <2>2 DEF Register
  <1>4. ASSUME NEW f \in Flows, CreateState(f) PROVE TypeOK'
    <2>1. cfg.secret \in Nat
      BY DEF ConfigType
    <2>2. signed' \in [Flows -> Nat]
      BY <1>4, <2>1 DEF CreateState, Redirect
    <2> QED
      BY <1>4, <2>2 DEF CreateState, Redirect
  <1>5. ASSUME NEW f \in Flows, Consent(f) \/ Age(f) PROVE TypeOK'
    BY <1>5 DEF Consent, Age
  <1>6. ASSUME NEW k \in Callbacks, NEW f \in Flows, Callback(k, f) PROVE TypeOK'
    BY <1>6 DEF Callback
  <1>7. ASSUME NEW k \in Callbacks, Verify(k) \/ Resolve(k) PROVE TypeOK'
    <2>1. CASE Verify(k)
      BY <2>1 DEF Verify
    <2>2. CASE Resolve(k)
      BY <2>2 DEF Resolve
    <2> QED
      BY <1>7, <2>1, <2>2
  <1>8. ASSUME NEW k \in Callbacks, Exchange(k) PROVE TypeOK'
    BY <1>8 DEF Exchange, OriginInv
  <1>9. ASSUME NEW k \in Callbacks, PutToken(k) PROVE TypeOK'
    <2>1. flow[k] \in Flows
      BY <1>9 DEF PutToken, OriginInv
    <2>2. stored' \in [Users \X Secrets \X Keys -> Flows \cup {None}]
      BY <1>9, <2>1 DEF PutToken
    <2> QED
      BY <1>9, <2>2 DEF PutToken
  <1>10. ASSUME NEW p \in Processes, Fail(p) PROVE TypeOK'
    BY <1>10 DEF Fail
  <1>11. ASSUME NEW c \in Configs, Reload(c) PROVE TypeOK'
    BY <1>11 DEF Reload
  <1>12. CASE Restart
    BY <1>12 DEF Restart
  <1>13. CASE UNCHANGED vars
    BY <1>13 DEF vars
  <1> QED
    BY <1>1, <1>2, <1>3, <1>4, <1>5, <1>6, <1>7, <1>8, <1>9, <1>10, <1>11, <1>12, <1>13
       DEF Next

\* No step makes a code without a state, or a callback without a flow.
LEMMA OriginStep == FlowInv /\ [Next]_vars => OriginInv'
  <1> SUFFICES ASSUME FlowInv, [Next]_vars PROVE OriginInv'
    OBVIOUS
  <1> USE ConstantsOK DEF FlowInv, TypeOK, OriginInv, Goto, Processes, Starting, CallingBack, Ended,
          cfgVars, storeVars, flowVars
  <1>1. ASSUME NEW f \in Flows, NEW u \in Users, NEW t \in UserTokens \cup {None}, Start(f, u, t)
        PROVE  OriginInv'
    BY <1>1 DEF Start
  <1>2. ASSUME NEW f \in Flows, Authorize(f) PROVE OriginInv'
    BY <1>2 DEF Authorize
  <1>3. ASSUME NEW f \in Flows, Register(f) PROVE OriginInv'
    BY <1>3 DEF Register
  <1>4. ASSUME NEW f \in Flows, CreateState(f) PROVE OriginInv'
    BY <1>4 DEF CreateState, Redirect
  <1>5. ASSUME NEW f \in Flows, Consent(f) \/ Age(f) PROVE OriginInv'
    BY <1>5 DEF Consent, Age
  <1>6. ASSUME NEW k \in Callbacks, NEW f \in Flows, Callback(k, f) PROVE OriginInv'
    BY <1>6 DEF Callback
  <1>7. ASSUME NEW k \in Callbacks, Verify(k) \/ Resolve(k) PROVE OriginInv'
    BY <1>7 DEF Verify, Resolve
  <1>8. ASSUME NEW k \in Callbacks, Exchange(k) PROVE OriginInv'
    BY <1>8 DEF Exchange
  <1>9. ASSUME NEW k \in Callbacks, PutToken(k) PROVE OriginInv'
    BY <1>9 DEF PutToken
  <1>10. ASSUME NEW p \in Processes, Fail(p) PROVE OriginInv'
    BY <1>10 DEF Fail
  <1>11. ASSUME NEW c \in Configs, Reload(c) PROVE OriginInv'
    BY <1>11 DEF Reload
  <1>12. CASE Restart
    BY <1>12 DEF Restart
  <1>13. CASE UNCHANGED vars
    BY <1>13 DEF vars
  <1> QED
    BY <1>1, <1>2, <1>3, <1>4, <1>5, <1>6, <1>7, <1>8, <1>9, <1>10, <1>11, <1>12, <1>13
       DEF Next

\* A state is signed with the secret in force, and a reload unsettles all.
LEMMA SettledStep == FlowInv /\ [Next]_vars => SettledInv'
  <1> SUFFICES ASSUME FlowInv, [Next]_vars PROVE SettledInv'
    OBVIOUS
  <1> USE ConstantsOK DEF FlowInv, TypeOK, OriginInv, Goto, Processes, Starting, CallingBack, Ended,
          cfgVars, storeVars, flowVars, SettledInv
  <1>1. ASSUME NEW f \in Flows, NEW u \in Users, NEW t \in UserTokens \cup {None}, Start(f, u, t)
        PROVE  SettledInv'
    BY <1>1 DEF Start
  <1>2. ASSUME NEW f \in Flows, Authorize(f) PROVE SettledInv'
    BY <1>2 DEF Authorize
  <1>3. ASSUME NEW f \in Flows, Register(f) PROVE SettledInv'
    BY <1>3 DEF Register
  <1>4. ASSUME NEW f \in Flows, CreateState(f) PROVE SettledInv'
    BY <1>4 DEF CreateState, Redirect
  <1>5. ASSUME NEW f \in Flows, Consent(f) \/ Age(f) PROVE SettledInv'
    BY <1>5 DEF Consent, Age
  <1>6. ASSUME NEW k \in Callbacks, NEW f \in Flows, Callback(k, f) PROVE SettledInv'
    BY <1>6 DEF Callback
  <1>7. ASSUME NEW k \in Callbacks, Verify(k) \/ Resolve(k) PROVE SettledInv'
    BY <1>7 DEF Verify, Resolve
  <1>8. ASSUME NEW k \in Callbacks, Exchange(k) PROVE SettledInv'
    BY <1>8 DEF Exchange
  <1>9. ASSUME NEW k \in Callbacks, PutToken(k) PROVE SettledInv'
    BY <1>9 DEF PutToken
  <1>10. ASSUME NEW p \in Processes, Fail(p) PROVE SettledInv'
    BY <1>10 DEF Fail
  <1>11. ASSUME NEW c \in Configs, Reload(c) PROVE SettledInv'
    BY <1>11 DEF Reload
  <1>12. CASE Restart
    BY <1>12 DEF Restart
  <1>13. CASE UNCHANGED vars
    BY <1>13 DEF vars
  <1> QED
    BY <1>1, <1>2, <1>3, <1>4, <1>5, <1>6, <1>7, <1>8, <1>9, <1>10, <1>11, <1>12, <1>13
       DEF Next

\* A user who becomes unknown is remembered at once.
LEMMA AbsentStep == FlowInv /\ [Next]_vars => AbsentInv'
  <1> SUFFICES ASSUME FlowInv, [Next]_vars PROVE AbsentInv'
    OBVIOUS
  <1> USE ConstantsOK DEF FlowInv, TypeOK, OriginInv, Goto, Processes, Starting, CallingBack, Ended,
          cfgVars, storeVars, flowVars, AbsentInv
  <1>1. ASSUME NEW f \in Flows, NEW u \in Users, NEW t \in UserTokens \cup {None}, Start(f, u, t)
        PROVE  AbsentInv'
    BY <1>1 DEF Start
  <1>2. ASSUME NEW f \in Flows, Authorize(f) PROVE AbsentInv'
    BY <1>2 DEF Authorize
  <1>3. ASSUME NEW f \in Flows, Register(f) PROVE AbsentInv'
    BY <1>3 DEF Register
  <1>4. ASSUME NEW f \in Flows, CreateState(f) PROVE AbsentInv'
    BY <1>4 DEF CreateState, Redirect
  <1>5. ASSUME NEW f \in Flows, Consent(f) \/ Age(f) PROVE AbsentInv'
    BY <1>5 DEF Consent, Age
  <1>6. ASSUME NEW k \in Callbacks, NEW f \in Flows, Callback(k, f) PROVE AbsentInv'
    BY <1>6 DEF Callback
  <1>7. ASSUME NEW k \in Callbacks, Verify(k) \/ Resolve(k) PROVE AbsentInv'
    BY <1>7 DEF Verify, Resolve
  <1>8. ASSUME NEW k \in Callbacks, Exchange(k) PROVE AbsentInv'
    BY <1>8 DEF Exchange
  <1>9. ASSUME NEW k \in Callbacks, PutToken(k) PROVE AbsentInv'
    BY <1>9 DEF PutToken
  <1>10. ASSUME NEW p \in Processes, Fail(p) PROVE AbsentInv'
    BY <1>10 DEF Fail
  <1>11. ASSUME NEW c \in Configs, Reload(c) PROVE AbsentInv'
    BY <1>11 DEF Reload
  <1>12. CASE Restart
    BY <1>12 DEF Restart
  <1>13. CASE UNCHANGED vars
    BY <1>13 DEF vars
  <1> QED
    BY <1>1, <1>2, <1>3, <1>4, <1>5, <1>6, <1>7, <1>8, <1>9, <1>10, <1>11, <1>12, <1>13
       DEF Next

\* A step that leaves the users' tokens alone, and lets flows go no other way than
\* on from "create" or to an end, keeps what is known of registrations.
LEMMA RegisteredQuiet ==
    ASSUME RegisterInv, OneTokenPerUser,
           user' = user, token' = token, registered' = registered, overlapped' = overlapped,
           boot' = boot,
           \A f \in Flows :
              /\ snap'[f] = snap[f]
              /\ \/ pc'[f] \in {pc[f], "refused"}
                 \/ pc[f] = "create" /\ pc'[f] = "consent"
    PROVE  RegisterInv' /\ OneTokenPerUser'
  BY DEF RegisterInv, OneTokenPerUser, HasDynamicUser, SecretName

\* Who finds no token registered is the first, or meets the other one; whose
\* token is registered replaces none.
LEMMA RegisterStep == FlowInv /\ [Next]_vars => RegisterInv' /\ OneTokenPerUser'
  <1> SUFFICES ASSUME FlowInv, [Next]_vars PROVE RegisterInv' /\ OneTokenPerUser'
    OBVIOUS
  <1>0. /\ RegisterInv /\ OneTokenPerUser
        /\ pc \in [Processes -> {"idle"} \cup Starting \cup CallingBack \cup Ended]
        /\ snap \in [Processes -> Configs]
        /\ user \in [Flows -> Users \cup {None}]
        /\ token \in [Flows -> UserTokens \cup {None}]
        /\ registered \in [Users \X Secrets -> UserTokens \cup {None}]
        /\ Flows \subseteq Processes /\ Callbacks \subseteq Processes
        /\ Flows \cap Callbacks = {}
    BY ConstantsOK DEF FlowInv, TypeOK, Processes
  <1>1. ASSUME NEW f \in Flows, NEW u \in Users, NEW t \in UserTokens \cup {None}, Start(f, u, t)
        PROVE  RegisterInv' /\ OneTokenPerUser'
    <2>1. /\ user' = [user EXCEPT ![f] = u] /\ token' = [token EXCEPT ![f] = t]
          /\ snap' = [snap EXCEPT ![f] = cfg]
          /\ registered' = registered /\ overlapped' = overlapped /\ boot' = boot
      BY <1>1 DEF Start, storeVars, cfgVars
    <2>2. /\ pc' = [pc EXCEPT ![f] = pc'[f]]
          /\ pc'[f] \in {"refused", "authorize"} \/ (pc'[f] = "create" /\ ~HasDynamicUser(cfg, u))
      BY <1>0, <1>1 DEF Start, Goto
    <2>3. RegisterInv'
      BY <1>0, <2>1, <2>2 DEF RegisterInv, HasDynamicUser, SecretName
    <2>4. OneTokenPerUser'
      BY <1>0, <2>1, <2>2 DEF OneTokenPerUser, HasDynamicUser
    <2> QED
      BY <2>3, <2>4
  <1>2. ASSUME NEW f \in Flows, Authorize(f) PROVE RegisterInv' /\ OneTokenPerUser'
    <2> DEFINE u == user[f]
               meets == \E g \in Flows \ {f} : pc[g] = "register" /\ user[g] = u
    <2>1. /\ user' = user /\ token' = token /\ snap' = snap /\ registered' = registered
          /\ boot' = boot /\ pc' = [pc EXCEPT ![f] = pc'[f]] /\ pc[f] = "authorize"
      BY <1>0, <1>2 DEF Authorize, flowVars, cfgVars, Goto
    <2>2. \/ pc'[f] = "refused" /\ overlapped' = overlapped
          \/ /\ pc'[f] = "create" /\ overlapped' = overlapped
             /\ token[f] # None /\ registered[<<u, SecretName(u)>>] = token[f]
          \/ /\ pc'[f] = "register"
             /\ token[f] # None /\ registered[<<u, SecretName(u)>>] = None
             /\ overlapped' = IF meets THEN overlapped \cup {u} ELSE overlapped
      BY <1>0, <1>2 DEF Authorize, Goto
    <2>3. RegisterInv'
      BY <1>0, <2>1, <2>2 DEF RegisterInv, HasDynamicUser, SecretName
    <2>4. OneTokenPerUser'
      BY <1>0, <2>1, <2>2, SecretNameType DEF OneTokenPerUser, HasDynamicUser
    <2> QED
      BY <2>3, <2>4
  <1>3. ASSUME NEW f \in Flows, Register(f) PROVE RegisterInv' /\ OneTokenPerUser'
    <2> DEFINE place == <<user[f], SecretName(user[f])>>
    <2>1. /\ user' = user /\ token' = token /\ snap' = snap /\ overlapped' = overlapped
          /\ boot' = boot /\ pc[f] = "register" /\ pc' = [pc EXCEPT ![f] = "create"]
          /\ registered' = [registered EXCEPT ![place] = token[f]]
      BY <1>3 DEF Register, flowVars, cfgVars, Goto
    <2>2. place \in Users \X Secrets
      BY <1>3, SecretNameType DEF FlowInv, OriginInv, Register, Starting
    <2>3. RegisterInv'
      BY <1>0, <2>1, <2>2 DEF RegisterInv, HasDynamicUser, SecretName
    <2>4. ASSUME NEW g \in Flows, pc'[g] \in {"create", "consent"},
                 HasDynamicUser(snap[g], user[g]), user[g] \notin overlapped
          PROVE  \E s \in Secrets : registered'[<<user[g], s>>] = token[g]
      <3>1. CASE g = f
        BY <1>0, <2>1, <2>2, <3>1, SecretNameType
      <3>2. CASE g # f
        <4>1. pc[g] \in {"create", "consent"} /\ user[g] \in Users
          BY <1>0, <2>1, <2>4, <3>2 DEF FlowInv, OriginInv
        <4>2. PICK s \in Secrets : registered[<<user[g], s>>] = token[g]
          BY <1>0, <2>4, <4>1 DEF OneTokenPerUser
        <4>3. token[g] # None
          BY <1>0, <2>4, <4>1 DEF RegisterInv
        <4>4. user[g] = user[f] => registered[place] = None
          BY <1>0, <2>1, <2>4 DEF RegisterInv
        <4>5. <<user[g], s>> # place
          BY <4>2, <4>3, <4>4
        <4> HIDE DEF place
        <4> QED
          BY <1>0, <2>1, <2>2, <4>1, <4>2, <4>5
      <3> QED
        BY <3>1, <3>2
    <2>5. OneTokenPerUser'
      BY <2>1, <2>4 DEF OneTokenPerUser, HasDynamicUser
    <2> QED
      BY <2>3, <2>5
  <1>4. ASSUME NEW f \in Flows, CreateState(f) \/ Consent(f) \/ Age(f)
        PROVE  RegisterInv' /\ OneTokenPerUser'
    BY <1>0, <1>4, RegisteredQuiet
       DEF CreateState, Redirect, Consent, Age, Goto, cfgVars, storeVars
  <1>5. ASSUME NEW k \in Callbacks, NEW f \in Flows, Callback(k, f)
        PROVE  RegisterInv' /\ OneTokenPerUser'
    BY <1>0, <1>5, RegisteredQuiet DEF Callback, Goto, cfgVars, storeVars, flowVars
  <1>6. ASSUME NEW k \in Callbacks, Verify(k) \/ Resolve(k) \/ Exchange(k) \/ PutToken(k)
        PROVE  RegisterInv' /\ OneTokenPerUser'
    <2>1. \A f \in Flows : pc'[f] = pc[f] /\ snap'[f] = snap[f]
      BY <1>0, <1>6 DEF Verify, Resolve, Exchange, PutToken, Goto
    <2>2. /\ user' = user /\ token' = token /\ registered' = registered
          /\ overlapped' = overlapped /\ boot' = boot
      BY <1>6 DEF Verify, Resolve, Exchange, PutToken, cfgVars, storeVars, flowVars
    <2> QED
      BY <1>0, <2>1, <2>2, RegisteredQuiet
  <1>7. ASSUME NEW p \in Processes, Fail(p) PROVE RegisterInv' /\ OneTokenPerUser'
    BY <1>0, <1>7, RegisteredQuiet DEF Fail, Goto, cfgVars, storeVars, flowVars
  <1>8. ASSUME NEW c \in Configs, Reload(c) PROVE RegisterInv' /\ OneTokenPerUser'
    BY <1>0, <1>8, RegisteredQuiet DEF Reload, storeVars
  <1>9. CASE Restart
    <2>1. /\ user' = user /\ token' = token /\ snap' = snap /\ registered' = registered
          /\ overlapped' = overlapped
          /\ \A f \in Flows : pc'[f] = "consent" => pc[f] = "consent"
          /\ \A f \in Flows : pc'[f] \notin {"register", "create"}
      BY <1>0, <1>9 DEF Restart, storeVars, flowVars, Starting
    <2>2. RegisterInv'
      BY <1>0, <2>1 DEF RegisterInv, HasDynamicUser
    <2>3. OneTokenPerUser'
      BY <1>0, <2>1 DEF OneTokenPerUser, HasDynamicUser
    <2> QED
      BY <2>2, <2>3
  <1>10. CASE UNCHANGED vars
    BY <1>0, <1>10, RegisteredQuiet DEF vars, cfgVars, storeVars, flowVars
  <1> QED
    BY <1>1, <1>2, <1>3, <1>4, <1>5, <1>6, <1>7, <1>8, <1>9, <1>10 DEF Next

\* While a state is settled the configuration verifies it.
LEMMA RejectedStep == FlowInv /\ [Next]_vars => RejectedOnlyAfterReload'
  <1> SUFFICES ASSUME FlowInv, [Next]_vars PROVE RejectedOnlyAfterReload'
    OBVIOUS
  <1> USE ConstantsOK DEF FlowInv, TypeOK, OriginInv, Goto, Processes, Starting, CallingBack, Ended,
          cfgVars, storeVars, flowVars, SettledInv, RejectedOnlyAfterReload
  <1>1. ASSUME NEW f \in Flows, NEW u \in Users, NEW t \in UserTokens \cup {None}, Start(f, u, t)
        PROVE  RejectedOnlyAfterReload'
    BY <1>1 DEF Start
  <1>2. ASSUME NEW f \in Flows, Authorize(f) PROVE RejectedOnlyAfterReload'
    BY <1>2 DEF Authorize
  <1>3. ASSUME NEW f \in Flows, Register(f) PROVE RejectedOnlyAfterReload'
    BY <1>3 DEF Register
  <1>4. ASSUME NEW f \in Flows, CreateState(f) PROVE RejectedOnlyAfterReload'
    BY <1>4 DEF CreateState, Redirect
  <1>5. ASSUME NEW f \in Flows, Consent(f) \/ Age(f) PROVE RejectedOnlyAfterReload'
    BY <1>5 DEF Consent, Age
  <1>6. ASSUME NEW k \in Callbacks, NEW f \in Flows, Callback(k, f)
        PROVE  RejectedOnlyAfterReload'
    BY <1>6 DEF Callback
  <1>7. ASSUME NEW k \in Callbacks, Verify(k) \/ Resolve(k) PROVE RejectedOnlyAfterReload'
    BY <1>7 DEF Verify, Resolve
  <1>8. ASSUME NEW k \in Callbacks, Exchange(k) PROVE RejectedOnlyAfterReload'
    BY <1>8 DEF Exchange
  <1>9. ASSUME NEW k \in Callbacks, PutToken(k) PROVE RejectedOnlyAfterReload'
    BY <1>9 DEF PutToken
  <1>10. ASSUME NEW p \in Processes, Fail(p) PROVE RejectedOnlyAfterReload'
    BY <1>10 DEF Fail
  <1>11. ASSUME NEW c \in Configs, Reload(c) PROVE RejectedOnlyAfterReload'
    BY <1>11 DEF Reload
  <1>12. CASE Restart
    BY <1>12 DEF Restart
  <1>13. CASE UNCHANGED vars
    BY <1>13 DEF vars
  <1> QED
    BY <1>1, <1>2, <1>3, <1>4, <1>5, <1>6, <1>7, <1>8, <1>9, <1>10, <1>11, <1>12, <1>13
       DEF Next

\* The bare key is written for a user whom the callback's configuration lacks.
LEMMA PlainStep == FlowInv /\ [Next]_vars => PlainOnlyAfterRemoval'
  <1> SUFFICES ASSUME FlowInv, [Next]_vars PROVE PlainOnlyAfterRemoval'
    OBVIOUS
  <1> USE ConstantsOK DEF FlowInv, TypeOK, OriginInv, Goto, Processes, Starting, CallingBack, Ended,
          cfgVars, storeVars, flowVars, AbsentInv, PlainOnlyAfterRemoval
  <1>1. ASSUME NEW f \in Flows, NEW u \in Users, NEW t \in UserTokens \cup {None}, Start(f, u, t)
        PROVE  PlainOnlyAfterRemoval'
    BY <1>1 DEF Start
  <1>2. ASSUME NEW f \in Flows, Authorize(f) PROVE PlainOnlyAfterRemoval'
    BY <1>2 DEF Authorize
  <1>3. ASSUME NEW f \in Flows, Register(f) PROVE PlainOnlyAfterRemoval'
    BY <1>3 DEF Register
  <1>4. ASSUME NEW f \in Flows, CreateState(f) PROVE PlainOnlyAfterRemoval'
    BY <1>4 DEF CreateState, Redirect
  <1>5. ASSUME NEW f \in Flows, Consent(f) \/ Age(f) PROVE PlainOnlyAfterRemoval'
    BY <1>5 DEF Consent, Age
  <1>6. ASSUME NEW k \in Callbacks, NEW f \in Flows, Callback(k, f)
        PROVE  PlainOnlyAfterRemoval'
    BY <1>6 DEF Callback
  <1>7. ASSUME NEW k \in Callbacks, Verify(k) \/ Resolve(k) PROVE PlainOnlyAfterRemoval'
    BY <1>7 DEF Verify, Resolve
  <1>8. ASSUME NEW k \in Callbacks, Exchange(k) PROVE PlainOnlyAfterRemoval'
    BY <1>8 DEF Exchange
  <1>9. ASSUME NEW k \in Callbacks, PutToken(k) PROVE PlainOnlyAfterRemoval'
    <2> DEFINE f == flow[k]
               key == StorageTokenKey(snap[k], user[f])
               place == <<user[f], SecretName(user[f]), key>>
    <2>1. /\ stored' = [stored EXCEPT ![place] = f] /\ absent' = absent
          /\ f \in Flows /\ pc[k] = "put"
      BY <1>9 DEF PutToken
    <2>2. key = "plain" => f \in absent
      BY <2>1 DEF StorageTokenKey
    <2>3. stored \in [Users \X Secrets \X Keys -> Flows \cup {None}]
      OBVIOUS
    <2> HIDE DEF f, key
    <2> QED
      BY <2>1, <2>2, <2>3
  <1>10. ASSUME NEW p \in Processes, Fail(p) PROVE PlainOnlyAfterRemoval'
    BY <1>10 DEF Fail
  <1>11. ASSUME NEW c \in Configs, Reload(c) PROVE PlainOnlyAfterRemoval'
    BY <1>11 DEF Reload
  <1>12. CASE Restart
    BY <1>12 DEF Restart
  <1>13. CASE UNCHANGED vars
    BY <1>13 DEF vars
  <1> QED
    BY <1>1, <1>2, <1>3, <1>4, <1>5, <1>6, <1>7, <1>8, <1>9, <1>10, <1>11, <1>12, <1>13
       DEF Next

\* A step that stores nothing keeps what is stored.
LEMMA StoredQuiet ==
    ASSUME StoredIsThere, stored' = stored,
           \A k \in Callbacks :
              /\ (pc'[k] = "stored") <=> (pc[k] = "stored")
              /\ pc[k] = "stored" => flow'[k] = flow[k] /\ user'[flow[k]] = user[flow[k]]
    PROVE  StoredIsThere'
  BY DEF StoredIsThere

\* A stored token is overwritten by another one of the same user only.
LEMMA StoredStep == FlowInv /\ [Next]_vars => StoredIsThere'
  <1> SUFFICES ASSUME FlowInv, [Next]_vars PROVE StoredIsThere'
    OBVIOUS
  <1>0. /\ StoredIsThere /\ OriginInv
        /\ pc \in [Processes -> {"idle"} \cup Starting \cup CallingBack \cup Ended]
        /\ user \in [Flows -> Users \cup {None}]
        /\ flow \in [Callbacks -> Flows \cup {None}]
        /\ stored \in [Users \X Secrets \X Keys -> Flows \cup {None}]
        /\ Flows \subseteq Processes /\ Callbacks \subseteq Processes
        /\ Flows \cap Callbacks = {}
    BY ConstantsOK DEF FlowInv, TypeOK, Processes
  <1>1. ASSUME NEW f \in Flows, NEW u \in Users, NEW t \in UserTokens \cup {None}, Start(f, u, t)
        PROVE  StoredIsThere'
    <2>1. /\ user' = [user EXCEPT ![f] = u] /\ flow' = flow /\ stored' = stored
          /\ \A k \in Callbacks : pc'[k] = pc[k]
          /\ pc[f] = "idle"
      BY <1>0, <1>1 DEF Start, Goto, storeVars
    <2>2. \A k \in Callbacks : pc[k] = "stored" => flow[k] \in Flows \ {f}
      BY <1>0, <2>1 DEF OriginInv
    <2> QED
      BY <1>0, <2>1, <2>2, StoredQuiet
  <1>2. ASSUME NEW f \in Flows,
               Authorize(f) \/ Register(f) \/ CreateState(f) \/ Consent(f) \/ Age(f)
        PROVE  StoredIsThere'
    <2>1. /\ user' = user /\ flow' = flow /\ stored' = stored
          /\ \A k \in Callbacks : pc'[k] = pc[k]
      BY <1>0, <1>2 DEF Authorize, Register, CreateState, Redirect, Consent, Age, Goto,
                        storeVars, flowVars
    <2> QED
      BY <1>0, <2>1, StoredQuiet
  <1>3. ASSUME NEW k \in Callbacks, NEW f \in Flows, Callback(k, f) PROVE StoredIsThere'
    BY <1>0, <1>3, StoredQuiet DEF Callback, Goto, storeVars, flowVars
  <1>4. ASSUME NEW k \in Callbacks, Verify(k) \/ Resolve(k) \/ Exchange(k)
        PROVE  StoredIsThere'
    <2>1. /\ user' = user /\ flow' = flow /\ stored' = stored
          /\ pc' = [pc EXCEPT ![k] = pc'[k]] /\ pc[k] # "stored" /\ pc'[k] # "stored"
      BY <1>0, <1>4 DEF Verify, Resolve, Exchange, Goto, storeVars, flowVars
    <2> QED
      BY <1>0, <2>1, StoredQuiet
  <1>5. ASSUME NEW k \in Callbacks, PutToken(k) PROVE StoredIsThere'
    <2> DEFINE u == user[flow[k]]
               s == SecretName(u)
               l == StorageTokenKey(snap[k], u)
    <2>1. /\ user' = user /\ flow' = flow /\ pc' = [pc EXCEPT ![k] = "stored"]
          /\ stored' = [stored EXCEPT ![<<u, s, l>>] = flow[k]]
      BY <1>5 DEF PutToken, Goto, flowVars
    <2>2. u \in Users /\ s \in Secrets /\ l \in Keys
      <3>1. flow[k] \in Flows /\ code[flow[k]] # "none"
        BY <1>0, <1>5 DEF PutToken, OriginInv
      <3> QED
        BY <1>0, <3>1, SecretNameType, StorageKeyType DEF OriginInv
    <2>3. stored'[<<u, s, l>>] = flow[k] /\ pc'[k] = "stored"
      BY <1>0, <2>1, <2>2
    <2> HIDE DEF s, l
    <2> SUFFICES ASSUME NEW j \in Callbacks, pc'[j] = "stored"
                 PROVE  \E z \in Secrets, m \in Keys :
                            LET f == stored'[<<user[flow[j]], z, m>>]
                            IN  \/ f = flow[j]
                                \/ \E i \in Callbacks \ {j} : pc'[i] = "stored" /\ f = flow[i]
      BY <2>1 DEF StoredIsThere
    <2>4. CASE j = k
      BY <2>2, <2>3, <2>4
    <2>5. CASE j # k
      <3>1. PICK z \in Secrets, m \in Keys :
                LET f == stored[<<user[flow[j]], z, m>>]
                IN  f = flow[j] \/ \E i \in Callbacks \ {j} : pc[i] = "stored" /\ f = flow[i]
        BY <1>0, <2>1, <2>5 DEF StoredIsThere
      <3>2. CASE <<user[flow[j]], z, m>> = <<u, s, l>>
        BY <2>3, <2>5, <3>2
      <3>3. CASE <<user[flow[j]], z, m>> # <<u, s, l>>
        <4>1. stored'[<<user[flow[j]], z, m>>] = stored[<<user[flow[j]], z, m>>]
          <5>1. user[flow[j]] \in Users
            BY <1>0, <2>1, <2>5 DEF OriginInv
          <5> QED
            BY <1>0, <2>1, <3>3, <5>1
        <4>2. \A i \in Callbacks : pc[i] = "stored" => pc'[i] = "stored"
          BY <1>0, <2>1
        <4> QED
          BY <3>1, <4>1, <4>2
      <3> QED
        BY <3>2, <3>3
    <2> QED
      BY <2>4, <2>5
  <1>6. ASSUME NEW p \in Processes, Fail(p) PROVE StoredIsThere'
    BY <1>0, <1>6, StoredQuiet DEF Fail, Goto, storeVars, flowVars, Starting, CallingBack
  <1>7. ASSUME NEW c \in Configs, Reload(c) PROVE StoredIsThere'
    BY <1>0, <1>7, StoredQuiet DEF Reload, storeVars
  <1>8. CASE Restart
    <2>1. /\ user' = user /\ flow' = flow /\ stored' = stored
          /\ \A k \in Callbacks : (pc'[k] = "stored") <=> (pc[k] = "stored")
      BY <1>0, <1>8 DEF Restart, storeVars, flowVars, Starting, CallingBack
    <2> QED
      BY <1>0, <2>1, StoredQuiet
  <1>9. CASE UNCHANGED vars
    BY <1>0, <1>9, StoredQuiet DEF vars, storeVars, flowVars
  <1> QED
    BY <1>1, <1>2, <1>3, <1>4, <1>5, <1>6, <1>7, <1>8, <1>9 DEF Next

\* What the lemmas about consents use of the invariant, action by action.
LEMMA ConsentFacts ==
    ASSUME FlowInv
    PROVE  /\ pc \in [Processes -> {"idle"} \cup Starting \cup CallingBack \cup Ended]
           /\ user \in [Flows -> Users \cup {None}]
           /\ code \in [Flows -> {"none", "issued", "used"}]
           /\ flow \in [Callbacks -> Flows \cup {None}]
           /\ stored \in [Users \X Secrets \X Keys -> Flows \cup {None}]
           /\ OriginInv
           /\ Flows \subseteq Processes /\ Callbacks \subseteq Processes
           /\ Flows \cap Callbacks = {} /\ None \notin Flows \cup Users
  BY ConstantsOK DEF FlowInv, TypeOK, Processes

\* A step that neither stores nor exchanges, starts no flow and lets no callback get
\* past the provider.
LEMMA ConsentQuiet ==
    ASSUME ConsentInv, user' = user, code' = code, stored' = stored,
           \A f \in Flows : pc'[f] = "idle" => pc[f] = "idle",
           \A k \in Callbacks :
              pc'[k] \in Exchanged => pc[k] \in Exchanged /\ flow'[k] = flow[k]
    PROVE  ConsentInv'
  BY DEF ConsentInv

\* The provider takes a code once, and a flow keeps its user.
LEMMA ConsentStep == FlowInv /\ ConsentInv /\ [Next]_vars => ConsentInv'
  <1> SUFFICES ASSUME FlowInv, ConsentInv, [Next]_vars PROVE ConsentInv'
    OBVIOUS
  <1>0. /\ pc \in [Processes -> {"idle"} \cup Starting \cup CallingBack \cup Ended]
        /\ user \in [Flows -> Users \cup {None}]
        /\ code \in [Flows -> {"none", "issued", "used"}]
        /\ flow \in [Callbacks -> Flows \cup {None}]
        /\ stored \in [Users \X Secrets \X Keys -> Flows \cup {None}]
        /\ OriginInv
        /\ Flows \subseteq Processes /\ Callbacks \subseteq Processes
        /\ Flows \cap Callbacks = {} /\ None \notin Flows \cup Users
    BY ConsentFacts
  <1>1. ASSUME NEW f \in Flows, NEW u \in Users, NEW t \in UserTokens \cup {None}, Start(f, u, t)
        PROVE  ConsentInv'
    <2>1. /\ user' = [user EXCEPT ![f] = u] /\ code' = code /\ flow' = flow /\ stored' = stored
          /\ \A k \in Callbacks : pc'[k] = pc[k]
          /\ pc[f] = "idle" /\ pc'[f] # "idle" /\ \A g \in Flows \ {f} : pc'[g] = pc[g]
      BY <1>0, <1>1 DEF Start, Goto, storeVars
    <2>2. user[f] = None
      BY <2>1 DEF ConsentInv
    <2>3. \A x \in Users, s \in Secrets, l \in Keys :
              stored[<<x, s, l>>] # None => stored[<<x, s, l>>] \in Flows \ {f}
      BY <1>0, <2>2 DEF ConsentInv
    <2>4. \A x \in Users, s \in Secrets, l \in Keys :
              stored'[<<x, s, l>>] # None => user'[stored'[<<x, s, l>>]] = x
      BY <1>0, <2>1, <2>3 DEF ConsentInv
    <2>5. \A g \in Flows : pc'[g] = "idle" => user'[g] = None
      BY <1>0, <2>1 DEF ConsentInv
    <2> QED
      BY <2>1, <2>4, <2>5 DEF ConsentInv
  <1>2. ASSUME NEW f \in Flows, Authorize(f) \/ Register(f) \/ CreateState(f) \/ Age(f)
        PROVE  ConsentInv'
    <2>1. /\ user' = user /\ code' = code /\ flow' = flow /\ stored' = stored
          /\ \A k \in Callbacks : pc'[k] = pc[k]
          /\ \A g \in Flows : pc'[g] = "idle" => pc[g] = "idle"
      BY <1>0, <1>2 DEF Authorize, Register, CreateState, Redirect, Age, Goto, storeVars, flowVars
    <2> QED
      BY <2>1, ConsentQuiet
  <1>3. ASSUME NEW f \in Flows, Consent(f) PROVE ConsentInv'
    <2>1. /\ user' = user /\ flow' = flow /\ stored' = stored /\ pc' = pc
          /\ code[f] = "none" /\ code' = [code EXCEPT ![f] = "issued"]
      BY <1>3 DEF Consent, storeVars
    <2>2. \A k \in Callbacks : pc[k] \in Exchanged => flow[k] \in Flows \ {f}
      BY <1>0, <2>1 DEF OriginInv, Exchanged
    <2>3. \A k \in Callbacks : pc[k] \in Exchanged => code'[flow[k]] = "used"
      BY <1>0, <2>1, <2>2 DEF ConsentInv
    <2> QED
      BY <2>1, <2>3 DEF ConsentInv
  <1>4. ASSUME NEW k \in Callbacks, NEW f \in Flows, Callback(k, f) PROVE ConsentInv'
    <2>1. /\ user' = user /\ code' = code /\ stored' = stored
          /\ pc' = [pc EXCEPT ![k] = "verify"] /\ flow' = [flow EXCEPT ![k] = f]
      BY <1>4 DEF Callback, Goto, storeVars, flowVars
    <2> QED
      BY <1>0, <2>1, ConsentQuiet DEF Exchanged
  <1>5. ASSUME NEW k \in Callbacks, Verify(k) \/ Resolve(k) PROVE ConsentInv'
    <2>1. /\ user' = user /\ code' = code /\ flow' = flow /\ stored' = stored
          /\ pc' = [pc EXCEPT ![k] = pc'[k]] /\ pc'[k] \notin Exchanged
      BY <1>0, <1>5 DEF Verify, Resolve, Goto, storeVars, flowVars, Exchanged
    <2> QED
      BY <1>0, <2>1, ConsentQuiet
  <1>6. ASSUME NEW k \in Callbacks, Exchange(k) PROVE ConsentInv'
    <2> DEFINE f == flow[k]
    <2>1. /\ user' = user /\ flow' = flow /\ stored' = stored
          /\ pc' = [pc EXCEPT ![k] = IF code[f] = "issued" THEN "put" ELSE "failed"]
          /\ code' = [code EXCEPT ![f] = "used"]
      BY <1>6 DEF Exchange, Goto, storeVars
    <2>2. pc[k] = "exchange" /\ f \in Flows
      BY <1>0, <1>6 DEF Exchange, OriginInv
    <2>3. \A j \in Callbacks : pc'[j] \in Exchanged => code'[flow[j]] = "used"
      <3> SUFFICES ASSUME NEW j \in Callbacks, pc'[j] \in Exchanged PROVE code'[flow[j]] = "used"
        OBVIOUS
      <3>1. CASE j = k
        BY <1>0, <2>1, <2>2, <3>1
      <3>2. CASE j # k
        BY <1>0, <2>1, <2>2, <3>2 DEF ConsentInv
      <3> QED
        BY <3>1, <3>2
    <2>4. \A j \in Callbacks \ {k} :
              pc'[j] \in Exchanged /\ pc'[k] \in Exchanged => flow[j] # flow[k]
      <3> SUFFICES ASSUME NEW j \in Callbacks \ {k}, pc'[j] \in Exchanged, pc'[k] \in Exchanged
                   PROVE  flow[j] # flow[k]
        OBVIOUS
      <3>1. code[f] = "issued"
        BY <1>0, <2>1 DEF Exchanged
      <3>2. code[flow[j]] = "used"
        BY <1>0, <2>1 DEF ConsentInv
      <3> QED
        BY <3>1, <3>2
    <2>5. \A i, j \in Callbacks :
              pc'[i] \in Exchanged /\ pc'[j] \in Exchanged /\ flow[i] = flow[j] => i = j
      <3>1. \A j \in Callbacks \ {k} : pc'[j] = pc[j]
        BY <1>0, <2>1
      <3> QED
        BY <2>4, <3>1 DEF ConsentInv
    <2>6. \A g \in Flows : pc'[g] = pc[g]
      BY <1>0, <2>1
    <2> QED
      BY <2>1, <2>3, <2>5, <2>6 DEF ConsentInv
  <1>7. ASSUME NEW k \in Callbacks, PutToken(k) PROVE ConsentInv'
    <2> DEFINE u == user[flow[k]]
               s == SecretName(u)
               l == StorageTokenKey(snap[k], u)
    <2>1. /\ user' = user /\ flow' = flow /\ code' = code /\ pc[k] = "put"
          /\ pc' = [pc EXCEPT ![k] = "stored"]
          /\ stored' = [stored EXCEPT ![<<u, s, l>>] = flow[k]]
      BY <1>7 DEF PutToken, Goto, flowVars
    <2>2. \A j \in Callbacks : pc'[j] \in Exchanged <=> pc[j] \in Exchanged
      BY <1>0, <2>1 DEF Exchanged
    <2>3. \A g \in Flows : pc'[g] = pc[g]
      BY <1>0, <2>1
    <2> HIDE DEF s, l
    <2>4. \A x \in Users, z \in Secrets, m \in Keys :
              stored'[<<x, z, m>>] # None => user[stored'[<<x, z, m>>]] = x
      <3> SUFFICES ASSUME NEW x \in Users, NEW z \in Secrets, NEW m \in Keys,
                          stored'[<<x, z, m>>] # None
                   PROVE  user[stored'[<<x, z, m>>]] = x
        OBVIOUS
      <3>1. CASE <<x, z, m>> = <<u, s, l>>
        BY <1>0, <2>1, <3>1
      <3>2. CASE <<x, z, m>> # <<u, s, l>>
        BY <1>0, <2>1, <3>2 DEF ConsentInv
      <3> QED
        BY <3>1, <3>2
    <2> QED
      BY <2>1, <2>2, <2>3, <2>4 DEF ConsentInv
  <1>8. ASSUME NEW p \in Processes, Fail(p) PROVE ConsentInv'
    <2>1. /\ user' = user /\ code' = code /\ flow' = flow /\ stored' = stored
          /\ pc' = [pc EXCEPT ![p] = pc'[p]] /\ pc'[p] \in {"refused", "failed"}
      BY <1>0, <1>8 DEF Fail, Goto, storeVars, flowVars, Processes
    <2> QED
      BY <1>0, <2>1, ConsentQuiet DEF Exchanged
  <1>9. ASSUME NEW c \in Configs, Reload(c) PROVE ConsentInv'
    BY <1>9, ConsentQuiet DEF Reload, storeVars
  <1>10. CASE Restart
    <2>1. /\ user' = user /\ code' = code /\ flow' = flow /\ stored' = stored
          /\ \A k \in Callbacks : pc'[k] \in Exchanged => pc[k] \in Exchanged
          /\ \A f \in Flows : pc'[f] = "idle" => pc[f] = "idle"
      BY <1>0, <1>10 DEF Restart, storeVars, flowVars, Exchanged
    <2> QED
      BY <2>1, ConsentQuiet
  <1>11. CASE UNCHANGED vars
    BY <1>11, ConsentQuiet DEF vars, storeVars, flowVars
  <1> QED
    BY <1>1, <1>2, <1>3, <1>4, <1>5, <1>6, <1>7, <1>8, <1>9, <1>10, <1>11 DEF Next

\* A step that leaves users, codes and places alone, and the callbacks that have
\* stored, changes nothing of the consents.
LEMMA GrantQuiet ==
    ASSUME user' = user, code' = code, stored' = stored,
           \A k \in Callbacks :
              /\ (pc'[k] = "stored") <=> (pc[k] = "stored")
              /\ pc[k] = "stored" => flow'[k] = flow[k]
    PROVE  UNCHANGED Grants!consentVars
  <1>1. ASSUME NEW f \in Flows PROVE Progress(f)' = Progress(f)
    BY DEF Progress
  <1> QED
    BY <1>1 DEF Grants!consentVars

\* No flow has a consent in the beginning.
LEMMA ConsentInit == Init => Grants!Init
  <1> SUFFICES ASSUME Init PROVE Grants!Init
    OBVIOUS
  <1>1. ASSUME NEW f \in Flows PROVE Progress(f) = "none"
    BY DEF Init, Progress, Processes
  <1> QED
    BY <1>1 DEF Init, Grants!Init

\* Every step is one of Consents, or changes nothing of it.
LEMMA GrantStep ==
    FlowInv /\ ConsentInv /\ [Next]_vars => [Grants!Next]_(Grants!consentVars)
  <1> SUFFICES ASSUME FlowInv, ConsentInv, [Next]_vars
               PROVE  Grants!Next \/ UNCHANGED Grants!consentVars
    OBVIOUS
  <1> DEFINE Good == Grants!Next \/ UNCHANGED Grants!consentVars
  <1>0. /\ pc \in [Processes -> {"idle"} \cup Starting \cup CallingBack \cup Ended]
        /\ user \in [Flows -> Users \cup {None}]
        /\ code \in [Flows -> {"none", "issued", "used"}]
        /\ flow \in [Callbacks -> Flows \cup {None}]
        /\ stored \in [Users \X Secrets \X Keys -> Flows \cup {None}]
        /\ OriginInv
        /\ Flows \subseteq Processes /\ Callbacks \subseteq Processes
        /\ Flows \cap Callbacks = {} /\ None \notin Flows \cup Users
    BY ConsentFacts
  <1>1. ASSUME NEW f \in Flows, NEW u \in Users, NEW t \in UserTokens \cup {None}, Start(f, u, t)
        PROVE  Good
    <2>1. /\ user' = [user EXCEPT ![f] = u] /\ code' = code /\ flow' = flow /\ stored' = stored
          /\ \A k \in Callbacks : pc'[k] = pc[k]
          /\ pc[f] = "idle"
      BY <1>0, <1>1 DEF Start, Goto, storeVars
    <2>2. user[f] = None
      BY <2>1 DEF ConsentInv
    <2>3. ASSUME NEW g \in Flows PROVE Progress(g)' = Progress(g)
      BY <2>1 DEF Progress
    <2>4. Grants!Begin(f)
      BY <2>1, <2>2, <2>3 DEF Grants!Begin
    <2> QED
      BY <2>4 DEF Grants!Next
  <1>2. ASSUME NEW f \in Flows, Authorize(f) \/ Register(f) \/ CreateState(f) \/ Age(f)
        PROVE  Good
    <2>1. /\ user' = user /\ code' = code /\ flow' = flow /\ stored' = stored
          /\ \A k \in Callbacks : pc'[k] = pc[k]
      BY <1>0, <1>2 DEF Authorize, Register, CreateState, Redirect, Age, Goto, storeVars, flowVars
    <2> QED
      BY <2>1, GrantQuiet
  <1>3. ASSUME NEW f \in Flows, Consent(f) PROVE Good
    <2>1. /\ user' = user /\ flow' = flow /\ stored' = stored /\ pc' = pc
          /\ pc[f] = "consent" /\ code[f] = "none" /\ code' = [code EXCEPT ![f] = "issued"]
      BY <1>3 DEF Consent, storeVars
    <2>2. \A k \in Callbacks : pc[k] = "stored" => flow[k] # f
      BY <2>1, <1>0 DEF OriginInv
    <2>3. Progress(f) = "none" /\ Progress(f)' = "given"
      BY <1>0, <2>1, <2>2 DEF Progress
    <2>4. ASSUME NEW g \in Flows \ {f} PROVE Progress(g)' = Progress(g)
      BY <1>0, <2>1 DEF Progress
    <2>5. user[f] # None
      BY <1>0, <2>1 DEF OriginInv
    <2>6. Grants!Give(f)
      BY <2>1, <2>3, <2>4, <2>5 DEF Grants!Give
    <2> QED
      BY <2>6 DEF Grants!Next
  <1>4. ASSUME NEW k \in Callbacks, NEW f \in Flows, Callback(k, f) PROVE Good
    <2>1. /\ user' = user /\ code' = code /\ stored' = stored /\ pc[k] = "idle"
          /\ pc' = [pc EXCEPT ![k] = "verify"] /\ flow' = [flow EXCEPT ![k] = f]
      BY <1>4 DEF Callback, Goto, storeVars, flowVars
    <2> QED
      BY <1>0, <2>1, GrantQuiet
  <1>5. ASSUME NEW k \in Callbacks, Verify(k) \/ Resolve(k) PROVE Good
    <2>1. /\ user' = user /\ code' = code /\ flow' = flow /\ stored' = stored
          /\ pc' = [pc EXCEPT ![k] = pc'[k]] /\ pc[k] # "stored" /\ pc'[k] # "stored"
      BY <1>0, <1>5 DEF Verify, Resolve, Goto, storeVars, flowVars
    <2> QED
      BY <1>0, <2>1, GrantQuiet
  <1>6. ASSUME NEW k \in Callbacks, Exchange(k) PROVE Good
    <2> DEFINE f == flow[k]
    <2>1. /\ user' = user /\ flow' = flow /\ stored' = stored /\ pc[k] = "exchange"
          /\ pc' = [pc EXCEPT ![k] = IF code[f] = "issued" THEN "put" ELSE "failed"]
          /\ code' = [code EXCEPT ![f] = "used"]
      BY <1>6 DEF Exchange, Goto, storeVars
    <2>2. f \in Flows /\ code[f] # "none"
      BY <1>0, <2>1 DEF OriginInv
    <2>3. \A j \in Callbacks : (pc'[j] = "stored") <=> (pc[j] = "stored")
      BY <1>0, <2>1
    <2>4. CASE code[f] = "issued"
      <3>1. \A j \in Callbacks : pc[j] = "stored" => flow[j] # f
        BY <2>4 DEF ConsentInv, Exchanged
      <3>2. Progress(f) = "given" /\ Progress(f)' = "spent"
        BY <1>0, <2>1, <2>2, <2>3, <2>4, <3>1 DEF Progress
      <3>3. ASSUME NEW g \in Flows \ {f} PROVE Progress(g)' = Progress(g)
        BY <1>0, <2>1, <2>3 DEF Progress
      <3>4. Grants!Spend(f)
        BY <2>1, <2>2, <3>2, <3>3 DEF Grants!Spend
      <3> QED
        BY <2>2, <3>4 DEF Grants!Next
    <2>5. CASE code[f] # "issued"
      <3>1. code' = code
        BY <1>0, <2>1, <2>2, <2>5
      <3> QED
        BY <2>1, <2>3, <3>1, GrantQuiet
    <2> QED
      BY <2>4, <2>5
  <1>7. ASSUME NEW k \in Callbacks, PutToken(k) PROVE Good
    <2> DEFINE f == flow[k]
               s == SecretName(user[f])
               l == StorageTokenKey(snap[k], user[f])
    <2>1. /\ user' = user /\ flow' = flow /\ code' = code /\ pc[k] = "put"
          /\ pc' = [pc EXCEPT ![k] = "stored"]
          /\ stored' = [stored EXCEPT ![<<user[f], s, l>>] = f]
      BY <1>7 DEF PutToken, Goto, flowVars
    <2>2. f \in Flows /\ code[f] = "used" /\ s \in Secrets /\ l \in Keys
      BY <1>0, <2>1, SecretNameType, StorageKeyType DEF OriginInv, ConsentInv, Exchanged
    <2>3. \A j \in Callbacks : pc[j] = "stored" => flow[j] # f
      BY <2>1 DEF ConsentInv, Exchanged
    <2>4. pc'[k] = "stored" /\ \A j \in Callbacks \ {k} : pc'[j] = pc[j]
      BY <1>0, <2>1
    <2>5. Progress(f) = "spent" /\ Progress(f)' = "kept"
      BY <2>1, <2>2, <2>3, <2>4 DEF Progress
    <2>6. ASSUME NEW g \in Flows \ {f} PROVE Progress(g)' = Progress(g)
      BY <2>1, <2>4 DEF Progress
    <2> HIDE DEF s, l
    <2>7. Grants!Keep(f)
      BY <2>1, <2>2, <2>5, <2>6 DEF Grants!Keep
    <2> QED
      BY <2>2, <2>7 DEF Grants!Next
  <1>8. ASSUME NEW p \in Processes, Fail(p) PROVE Good
    <2>1. /\ user' = user /\ code' = code /\ flow' = flow /\ stored' = stored
          /\ pc' = [pc EXCEPT ![p] = pc'[p]] /\ pc[p] # "stored" /\ pc'[p] # "stored"
      BY <1>0, <1>8 DEF Fail, Goto, storeVars, flowVars, Processes, Starting, CallingBack
    <2> QED
      BY <1>0, <2>1, GrantQuiet
  <1>9. ASSUME NEW c \in Configs, Reload(c) PROVE Good
    BY <1>9, GrantQuiet DEF Reload, storeVars
  <1>10. CASE Restart
    <2>1. /\ user' = user /\ code' = code /\ flow' = flow /\ stored' = stored
          /\ \A k \in Callbacks : (pc'[k] = "stored") <=> (pc[k] = "stored")
      BY <1>0, <1>10 DEF Restart, storeVars, flowVars, Starting, CallingBack
    <2> QED
      BY <2>1, GrantQuiet
  <1>11. CASE UNCHANGED vars
    BY <1>11, GrantQuiet DEF vars, storeVars, flowVars
  <1> QED
    BY <1>1, <1>2, <1>3, <1>4, <1>5, <1>6, <1>7, <1>8, <1>9, <1>10, <1>11 DEF Next
-----------------------------------------------------------------------------
\* The inductive invariant holds in every reachable state.
THEOREM FlowInvariant == Spec => []FlowInv
  <1>1. FlowInv /\ [Next]_vars => FlowInv'
    BY TypeStep, OriginStep, SettledStep, AbsentStep, RegisterStep, RejectedStep,
       PlainStep, StoredStep DEF FlowInv
  <1> QED
    BY InitFlowInv, <1>1, PTL DEF Spec

\* Every variable keeps its type.
THEOREM FlowTyped == Spec => []TypeOK
  BY FlowInvariant, PTL DEF FlowInv

\* For any flows, callbacks, reloads and restarts: a dynamic user has one token,
\* unless two first requests of the user ran at once.
THEOREM UserTokenUnique == Spec => []OneTokenPerUser
  BY FlowInvariant, PTL DEF FlowInv

\* A browser that brings its state in time is turned away only after a reload
\* changed what the state was made with: restarts reject none.
THEOREM StatesSurvive == Spec => []RejectedOnlyAfterReload
  BY FlowInvariant, PTL DEF FlowInv

\* A refresh token is stored under the key that all credentials share only for a
\* user who was removed while the flow was under way.
THEOREM SharedKeyExplained == Spec => []PlainOnlyAfterRemoval
  BY FlowInvariant, PTL DEF FlowInv

\* What was reported as stored is there, or the token of another flow of the user.
THEOREM ReportedIsStored == Spec => []StoredIsThere
  BY FlowInvariant, PTL DEF FlowInv

\* For any flows, callbacks, reloads and restarts: a code gets at most one callback
\* past the provider, and what a Secret holds belongs to the Secret's user.
THEOREM ConsentInvariant == Spec => []ConsentInv
  <1>1. Init => ConsentInv
    BY ConstantsOK DEF Init, ConsentInv, Exchanged, Processes
  <1> QED
    BY <1>1, FlowInvariant, ConsentStep, PTL DEF Spec

\* The flow of requests, reloads and restarts implements Consents: each consent is
\* turned into a token and stored at most once, in one of the places of the user it
\* was given for, and a callback says "stored" exactly when that happens.
THEOREM FlowImplementsConsents == Spec => OneGrantPerConsent
  <1>1. Init => Grants!Init
    BY ConsentInit
  <1> QED
    BY <1>1, FlowInvariant, ConsentInvariant, GrantStep, PTL DEF Spec, OneGrantPerConsent, Grants!Spec
=============================================================================
