------------------------- MODULE StoredTokensProofs -------------------------
(***************************************************************************)
(* Proofs about StoredTokens, for any number of revoke requests, refreshes *)
(* and callbacks.  Types first, for every layout of the keys.  Then, where *)
(* no older key is read (Layout # "google"), what a revocation achieves:   *)
(* whoever may still store a token of a revoked grant is a refresh that    *)
(* was under way when the token was deleted, for what callbacks have still *)
(* to store is in nobody's hands but theirs.  Where the older key is read, *)
(* at last, that much holds too, though not the rest.                      *)
(***************************************************************************)
EXTENDS StoredTokens, SequenceTheorems, TLAPS

USE DEF provider, history

\* A token of an authorization that has taken place, as old as it can be.
Known(t) == t \in Token /\ t.grant \in 1..grants /\ t.gen <= current[t.grant]

\* Processes that have a token in hand which they found in the store.
Holds(p) ==
    \/ p \in Admins /\ pc[p] \in {"broker", "delete", "done"}
    \/ p \in Refreshes /\ pc[p] \in {"exchange", "put"}

\* Tokens, stored and in hand, are known ones, and who looks has where to look.
KnownInv ==
    /\ \A s \in Slots : store[s] # NoToken => Known(store[s])
    /\ \A p \in Processes : Holds(p) => Known(got[p])
    /\ \A c \in Callbacks : pc[c] = "fields" => got[c].grant \in 1..grants
    /\ \A p \in Processes : pc[p] = "look" => todo[p] # <<>>

\* Refreshes look for refresh tokens only.
KindInv ==
    \A i \in Refreshes : /\ todo[i] \in Seq({"refresh", "legacy"})
                         /\ Holds(i) => got[i].kind = "refresh"

BaseInv == TypeOK /\ KnownInv /\ KindInv

\* Without an older layout, a key holds the kind of token it is named for.
KeysInv ==
    /\ store["legacy"] = NoToken
    /\ \A p \in Processes : todo[p] \in Seq({"refresh", "access"})

\* What a callback has still to store is in nobody else's hands.
PendingInv ==
    \A c \in Callbacks : pc[c] = "fields" =>
        /\ \A d \in Callbacks \ {c} : pc[d] = "fields" => got[d].grant # got[c].grant
        /\ \A k \in fields[c] :
            /\ store[k].grant # got[c].grant
            /\ \A p \in Processes : Holds(p) /\ got[p].kind = k => got[p].grant # got[c].grant

\* What a successful revocation leaves behind.
RevokedInv ==
    \A a \in Admins :
        /\ pc[a] \in {"delete", "done"} => got[a] \in revoked
        /\ pc[a] = "done" /\ got[a].kind = "refresh" =>
            \A i \in Refreshes : Returning(i) /\ got[i].grant = got[a].grant =>
                /\ \E t \in raced[a] : t.grant = got[a].grant
                /\ got[i] = got[a] => got[a] \in raced[a]

\* What is stored where a process is about to write it has seen, or it has been
\* stored since, or the process has a later one.
SinceInv ==
    /\ \A a \in Admins : pc[a] \in {"broker", "delete"} =>
        store[got[a].kind] \in {NoToken, got[a]} \cup since[a]
    /\ \A i \in Refreshes : pc[i] \in {"exchange", "put"} =>
        \/ store["refresh"] \in {NoToken} \cup since[i]
        \/ store["refresh"].grant = got[i].grant /\ store["refresh"].gen <= got[i].gen
    /\ \A c \in Callbacks : pc[c] = "fields" => \A k \in fields[c] :
        \/ store[k] \in {NoToken} \cup since[c]
        \/ store[k].grant < got[c].grant

TokensInv ==
    /\ BaseInv /\ KeysInv /\ PendingInv
    /\ RevokedInv /\ RevokedIsGone /\ RevocationSticks /\ SinceInv
-----------------------------------------------------------------------------
\* The first authorization is a known one.
LEMMA InitTokens == Init => BaseInv /\ (Layout # "google" => TokensInv)
  <1> SUFFICES ASSUME Init PROVE BaseInv /\ (Layout # "google" => TokensInv)
    OBVIOUS
  <1> USE ConstantsOK DEF ConstantsOK
  <1>1. First("refresh", 1) \in Token /\ NoToken \in Token
    BY DEF First, NoToken, Token
  <1>2. TypeOK
    BY <1>1 DEF Init, TypeOK, Slots, Kind, First, NoToken
  <1>3. \A p \in Processes : pc[p] = "idle" /\ ~Holds(p) /\ p \in Admins \cup Refreshes \cup Callbacks
    BY DEF Init, Holds, Processes
  <1>4. Known(First("refresh", 1))
    <2>1. First("refresh", 1).grant = 1 /\ First("refresh", 1).gen = 0
      BY DEF First
    <2>2. grants = 1 /\ current[1] = 0
      BY DEF Init
    <2> QED
      BY <1>1, <2>1, <2>2 DEF Known
  <1>5. KnownInv
    BY <1>3, <1>4 DEF Init, KnownInv, Processes
  <1>5a. KindInv
    BY <1>3 DEF Init, KindInv, Processes
  <1>6. ASSUME Layout # "google" PROVE TokensInv
    <2>1. KeysInv
      BY <1>3, <1>6 DEF Init, KeysInv, Slots, Processes
    <2>2. PendingInv /\ RevokedInv /\ RevokedIsGone /\ RevocationSticks /\ SinceInv
      BY <1>3 DEF PendingInv, RevokedInv, RevokedIsGone, RevocationSticks, SinceInv, Processes
    <2> QED
      BY <1>2, <1>5, <1>5a, <2>1, <2>2 DEF TokensInv, BaseInv
  <1> QED
    BY <1>2, <1>5, <1>5a, <1>6 DEF BaseInv

\* Tokens that the steps make are tokens.
LEMMA TokenFacts ==
    /\ NoToken \in Token
    /\ \A k \in {"refresh", "access"}, g \in Nat :
        /\ First(k, g) \in Token
        /\ First(k, g).kind = k /\ First(k, g).grant = g /\ First(k, g).gen = 0
    /\ \A t \in Token : /\ t.kind \in {"refresh", "access"} /\ t.grant \in Nat /\ t.gen \in Nat
                        /\ [t EXCEPT !.gen = @ + 1] \in Token
                        /\ [t EXCEPT !.gen = @ + 1].grant = t.grant
                        /\ [t EXCEPT !.gen = @ + 1].kind = t.kind
                        /\ [t EXCEPT !.gen = @ + 1].gen = t.gen + 1
  BY DEF NoToken, First, Token

\* Tokens are what they are by kind, grant and gen.
LEMMA SameToken ==
    ASSUME NEW t \in Token, NEW u \in Token, t.kind = u.kind, t.grant = u.grant, t.gen = u.gen
    PROVE  t = u
  BY DEF Token

\* Who looks for a token has somewhere to look, and where there is no older
\* layout, looks under the names of the kinds.
LEMMA LookupFacts ==
    /\ \A k \in {"refresh", "access"} : Lookups(k) \in Seq(Slots) \ {<<>>}
    /\ Lookups("refresh") \o Lookups("access") \in Seq(Slots) \ {<<>>}
    /\ Layout # "google" =>
        /\ Lookups("refresh") \in Seq({"refresh"}) /\ Lookups("access") \in Seq({"access"})
        /\ \A k \in {"refresh", "access"} : Lookups(k) \in Seq({"refresh", "access"})
        /\ Lookups("refresh") \o Lookups("access") \in Seq({"refresh", "access"})
  <1>1. \A k \in {"refresh", "access"} : Lookups(k) \in Seq(Slots) /\ Len(Lookups(k)) \in 1..2
    <2>1. /\ <<"refresh", "legacy">> \in Seq(Slots) /\ <<"refresh">> \in Seq(Slots)
          /\ <<"access">> \in Seq(Slots)
      BY DEF Slots
    <2>2. /\ Len(<<"refresh", "legacy">>) = 2 /\ Len(<<"refresh">>) = 1 /\ Len(<<"access">>) = 1
      OBVIOUS
    <2> QED
      BY <2>1, <2>2 DEF Lookups
  <1>2. /\ Lookups("refresh") \o Lookups("access") \in Seq(Slots)
        /\ Len(Lookups("refresh") \o Lookups("access")) = Len(Lookups("refresh")) + Len(Lookups("access"))
    BY <1>1
  <1>3. Len(<<>>) = 0
    OBVIOUS
  <1>4. /\ \A k \in {"refresh", "access"} : Lookups(k) # <<>>
        /\ Lookups("refresh") \o Lookups("access") # <<>>
    BY <1>1, <1>2, <1>3
  <1>5. ASSUME Layout # "google"
        PROVE  /\ Lookups("refresh") \in Seq({"refresh"}) /\ Lookups("access") \in Seq({"access"})
               /\ \A k \in {"refresh", "access"} : Lookups(k) \in Seq({"refresh", "access"})
    BY <1>5 DEF Lookups
  <1> QED
    BY <1>1, <1>2, <1>4, <1>5

\* A new authorization leaves the others as they are.
LEMMA AuthorizeFacts ==
    ASSUME BaseInv, Authorize
    PROVE  /\ grants' = grants + 1 /\ grants' \in Nat
           /\ current' \in [1..grants' -> 0..MaxGen]
           /\ \A g \in 1..grants : current'[g] = current[g] /\ g \in 1..grants' /\ g < grants'
           /\ current'[grants'] = 0 /\ grants' \in 1..grants'
           /\ \A t : Known(t) => Known(t)'
           /\ \A t \in Token : t.grant = grants + 1 /\ t.gen = 0 => Known(t)'
  <1>1. grants \in Nat /\ DOMAIN current = 1..grants /\ current \in [1..grants -> 0..MaxGen]
    BY DEF BaseInv, TypeOK
  <1>2. grants' = grants + 1 /\ grants' \in Nat /\ grants' \in 1..grants'
    BY <1>1 DEF Authorize
  <1>3. current' = [g \in 1..grants' |-> IF g \in 1..grants THEN current[g] ELSE 0]
    BY <1>1 DEF Authorize
  <1>4. 0 \in 0..MaxGen
    BY ConstantsOK DEF ConstantsOK
  <1>5. /\ current' \in [1..grants' -> 0..MaxGen]
        /\ \A g \in 1..grants : current'[g] = current[g] /\ g \in 1..grants' /\ g < grants'
        /\ current'[grants'] = 0
    BY <1>1, <1>2, <1>3, <1>4
  <1>6. \A t : Known(t) => Known(t)'
    BY <1>5 DEF Known
  <1>7. \A t \in Token : t.grant = grants + 1 /\ t.gen = 0 => Known(t)'
    BY <1>2, <1>5 DEF Known
  <1> QED
    BY <1>2, <1>5, <1>6, <1>7

\* Put adds what is stored to the histories, and only that.
LEMMA SinceType ==
    ASSUME TypeOK, NEW p, NEW s, NEW t \in Token, Put(p, s, t)
    PROVE  since' \in [Processes -> SUBSET Token]
  BY DEF TypeOK, Put

\* A step of p that neither stores a token nor makes one, after which p has none
\* in hand that it had not before.
LEMMA BaseQuietStep ==
    ASSUME BaseInv, NEW p \in Processes,
           UNCHANGED <<store, grants, current>>,
           \A q \in Processes \ {p} : pc'[q] = pc[q] /\ got'[q] = got[q] /\ todo'[q] = todo[q],
           Holds(p)' => Known(got'[p]),
           p \in Callbacks /\ pc'[p] = "fields" => pc[p] = "fields" /\ got'[p] = got[p],
           pc'[p] = "look" => todo'[p] # <<>>
    PROVE  KnownInv'
  <1>1. \A t : Known(t)' <=> Known(t)
    BY DEF Known
  <1>2. \A q \in Processes \ {p} : Holds(q)' <=> Holds(q)
    BY DEF Holds
  <1> QED
    BY <1>1, <1>2 DEF BaseInv, KnownInv, Processes

\* Refreshes go on to look for refresh tokens only.
LEMMA KindStep == BaseInv /\ [Next]_vars => KindInv'
  <1> SUFFICES ASSUME BaseInv, [Next]_vars, NEW i \in Refreshes
               PROVE  /\ todo'[i] \in Seq({"refresh", "legacy"})
                      /\ Holds(i)' => got'[i].kind = "refresh"
    BY DEF KindInv
  <1> DEFINE Goal == /\ todo'[i] \in Seq({"refresh", "legacy"})
                     /\ Holds(i)' => got'[i].kind = "refresh"
  <1>0. /\ TypeOK /\ KnownInv /\ i \in Processes /\ i \notin Admins \cup Callbacks
        /\ todo[i] \in Seq({"refresh", "legacy"}) /\ (Holds(i) => got[i].kind = "refresh")
    BY ConstantsOK DEF BaseInv, KindInv, ConstantsOK, Processes
  <1>a. pc'[i] = pc[i] /\ todo'[i] = todo[i] /\ got'[i] = got[i] => Goal
    BY <1>0 DEF Holds
  <1>1. ASSUME NEW p \in Processes, p # i,
               \/ RevokeRequest(p) \/ RevokeLook(p) \/ BrokerRevokes(p) \/ DeleteRevoked(p)
               \/ RefreshRequest(p) \/ RefreshLook(p) \/ Refresh(p) \/ PutReturned(p)
               \/ Exchange(p) \/ PutField(p) \/ Fail(p)
        PROVE  Goal
    BY <1>0, <1>1, <1>a DEF RevokeRequest, Begin, RevokeLook, Look, BrokerRevokes, RevokeOAuth,
       DeleteRevoked, Delete, RefreshRequest, RefreshLook, Refresh, PutReturned, Exchange, PutField, Fail, Return, Goto, TypeOK
  <1>2. CASE RefreshRequest(i)
    <2>1. Lookups("refresh") \in Seq({"refresh", "legacy"})
      <3>1. <<"refresh", "legacy">> \in Seq({"refresh", "legacy"}) /\ <<"refresh">> \in Seq({"refresh", "legacy"})
        OBVIOUS
      <3> QED
        BY <3>1 DEF Lookups
    <2> QED
      BY <1>0, <1>2, <2>1 DEF RefreshRequest, Begin, Goto, Holds, TypeOK
  <1>3. CASE RefreshLook(i)
    <2>1. todo[i] # <<>>
      BY <1>0, <1>3 DEF RefreshLook, Look, KnownInv
    <2>2. Head(todo[i]) \in {"refresh", "legacy"} /\ Tail(todo[i]) \in Seq({"refresh", "legacy"})
      BY <1>0, <2>1
    <2>3. store[Head(todo[i])] # NoToken => store[Head(todo[i])].kind = "refresh"
      BY <1>0, <2>2 DEF TypeOK, Slots, Kind
    <2>4. todo'[i] \in {<<>>, Tail(todo[i])} /\ <<>> \in Seq({"refresh", "legacy"})
      BY <1>0, <1>3 DEF RefreshLook, Look, TypeOK
    <2>5. Holds(i)' => got'[i] = store[Head(todo[i])] /\ store[Head(todo[i])] # NoToken
      BY <1>0, <1>3 DEF RefreshLook, Look, Goto, Holds, TypeOK
    <2> QED
      BY <2>2, <2>3, <2>4, <2>5
  <1>4. CASE Refresh(i)
    <2>1. Holds(i) /\ got[i] \in Token /\ pc[i] = "exchange"
      BY <1>0, <1>4 DEF Refresh, Holds, TypeOK
    <2>2. CASE Return(i, "done")
      <3>1. todo'[i] = <<>> /\ pc'[i] = "done"
        BY <1>0, <2>2 DEF Return, Goto, TypeOK
      <3> QED
        BY <1>0, <3>1 DEF Holds
    <2>3. CASE ~Return(i, "done")
      <3>1. todo' = todo /\ (got'[i] = got[i] \/ got'[i] = [got[i] EXCEPT !.gen = @ + 1])
        BY <1>0, <1>4, <2>3 DEF Refresh, TypeOK
      <3> QED
        BY <1>0, <2>1, <3>1, TokenFacts
    <2> QED
      BY <2>2, <2>3
  <1>5. CASE PutReturned(i) \/ Fail(i)
    <2>1. todo'[i] \in {<<>>, todo[i]} /\ pc'[i] \in {"done", "failed"}
      BY <1>0, <1>5 DEF PutReturned, Fail, Return, Goto, TypeOK
    <2>2. <<>> \in Seq({"refresh", "legacy"})
      OBVIOUS
    <2> QED
      BY <1>0, <2>1, <2>2 DEF Holds
  <1>6. CASE AdminPut \/ UNCHANGED vars
    BY <1>6, <1>a DEF AdminPut, vars
  <1> QED
    BY <1>0, <1>1, <1>2, <1>3, <1>4, <1>5, <1>6 DEF Next, Processes

\* Every variable keeps its type, and every token is a known one.
LEMMA BaseStep == BaseInv /\ [Next]_vars => BaseInv'
  <1> SUFFICES ASSUME BaseInv, [Next]_vars PROVE TypeOK' /\ KnownInv'
    BY KindStep DEF BaseInv
  <1> DEFINE Goal == TypeOK' /\ KnownInv'
  <1>0. TypeOK /\ KnownInv
    BY DEF BaseInv
  <1>a. ASSUME NEW p \in Processes, NEW slots \in Seq(Slots), slots # <<>>, Begin(p, slots)
        PROVE  Goal
    <2>1. TypeOK'
      BY <1>0, <1>a DEF Begin, Goto, TypeOK, Active
    <2>2. KnownInv'
      <3>1. /\ UNCHANGED <<store, grants, current, got>>
            /\ pc' = [pc EXCEPT ![p] = "look"] /\ todo' = [todo EXCEPT ![p] = slots]
        BY <1>a DEF Begin, Goto
      <3>2. pc'[p] = "look" /\ todo'[p] = slots
        BY <1>0, <3>1 DEF TypeOK
      <3>3. \A q \in Processes \ {p} : pc'[q] = pc[q] /\ got'[q] = got[q] /\ todo'[q] = todo[q]
        BY <1>0, <3>1 DEF TypeOK
      <3>4. ~Holds(p)'
        BY <3>2 DEF Holds
      <3> QED
        BY <1>a, <3>1, <3>2, <3>3, <3>4, BaseQuietStep
    <2> QED
      BY <2>1, <2>2
  <1>b. ASSUME NEW p \in Processes, NEW found \in {"broker", "exchange"}, Look(p, found)
        PROVE  Goal
    <2> DEFINE s == Head(todo[p])
    <2>0. pc[p] = "look" /\ todo[p] # <<>> /\ todo[p] \in Seq(Slots)
      BY <1>0, <1>b DEF Look, KnownInv, TypeOK
    <2>1. s \in Slots /\ Tail(todo[p]) \in Seq(Slots) /\ Len(todo[p]) \in Nat
          /\ Len(Tail(todo[p])) = Len(todo[p]) - 1
      BY <2>0
    <2>2. CASE store[s] # NoToken
      <3>1. /\ UNCHANGED <<store, grants, puts, provider, fields, history>>
            /\ todo' = [todo EXCEPT ![p] = <<>>]
            /\ pc' = [pc EXCEPT ![p] = found] /\ got' = [got EXCEPT ![p] = store[s]]
        BY <1>b, <2>2 DEF Look, Goto
      <3>2. TypeOK'
        BY <1>0, <2>1, <3>1 DEF TypeOK, Active
      <3>3. Known(store[s])
        BY <1>0, <2>1, <2>2 DEF KnownInv
      <3>4. got'[p] = store[s] /\ pc'[p] = found
        BY <1>0, <3>1 DEF TypeOK
      <3>5. \A q \in Processes \ {p} : pc'[q] = pc[q] /\ got'[q] = got[q] /\ todo'[q] = todo[q]
        BY <1>0, <3>1 DEF TypeOK
      <3> QED
        BY <3>1, <3>2, <3>3, <3>4, <3>5, BaseQuietStep
    <2>3. CASE store[s] = NoToken
      <3>1. /\ UNCHANGED <<store, grants, puts, provider, fields, history, got>>
            /\ pc' = [pc EXCEPT ![p] = IF Len(todo[p]) = 1 THEN "failed" ELSE "look"]
            /\ todo' = [todo EXCEPT ![p] = Tail(todo[p])]
        BY <1>b, <2>3 DEF Look, Goto
      <3>2. TypeOK'
        BY <1>0, <2>1, <3>1 DEF TypeOK, Active, Ended
      <3>3. /\ pc'[p] = (IF Len(todo[p]) = 1 THEN "failed" ELSE "look")
            /\ todo'[p] = Tail(todo[p])
        BY <1>0, <3>1 DEF TypeOK
      <3>4. \A q \in Processes \ {p} : pc'[q] = pc[q] /\ got'[q] = got[q] /\ todo'[q] = todo[q]
        BY <1>0, <3>1 DEF TypeOK
      <3>5. pc'[p] = "look" => todo'[p] # <<>>
        <4> SUFFICES ASSUME Tail(todo[p]) = <<>> PROVE Len(todo[p]) = 1
          BY <3>3
        <4>1. Len(Tail(todo[p])) = 0
          BY EmptySeq
        <4> QED
          BY <2>1, <4>1
      <3> QED
        BY <3>1, <3>2, <3>3, <3>4, <3>5, BaseQuietStep DEF Holds
    <2> QED
      BY <2>2, <2>3
  <1>1. ASSUME NEW a \in Admins, RevokeRequest(a) PROVE Goal
    BY <1>1, <1>a, LookupFacts DEF RevokeRequest, Processes
  <1>2. ASSUME NEW a \in Admins, RevokeLook(a) PROVE Goal
    BY <1>2, <1>b DEF RevokeLook, Processes
  <1>3. ASSUME NEW a \in Admins, BrokerRevokes(a) PROVE Goal
    <2>1. a \in Processes /\ Holds(a) /\ got[a].grant \in 1..grants
      BY <1>0, <1>3 DEF BrokerRevokes, Processes, Holds, KnownInv, Known
    <2>2. TypeOK'
      BY <1>0, <1>3, <2>1 DEF BrokerRevokes, RevokeOAuth, Goto, TypeOK, Active, Ended
    <2>3. KnownInv'
      BY <1>0, <1>3, <2>1, BaseQuietStep DEF BrokerRevokes, RevokeOAuth, Goto, TypeOK, KnownInv, Known
    <2> QED
      BY <2>2, <2>3
  <1>4. ASSUME NEW a \in Admins, DeleteRevoked(a) PROVE Goal
    <2>1. a \in Processes /\ Holds(a)
      BY <1>4 DEF DeleteRevoked, Delete, Processes, Holds
    <2> DEFINE s == got[a].kind
    <2>2. s \in Slots /\ got[a] \in Token
      BY <1>0, <2>1, TokenFacts DEF TypeOK, Slots
    <2>3. /\ store' = [store EXCEPT ![s] = NoToken]
          /\ pc' = [pc EXCEPT ![a] = "done"]
          /\ raced' = [raced EXCEPT ![a] = {got[i] : i \in {j \in Refreshes : Returning(j)}}]
          /\ since' = [since EXCEPT ![a] = {}]
          /\ UNCHANGED <<grants, puts, provider, todo, fields, got>>
      BY <1>4 DEF DeleteRevoked, Delete, Goto
    <2>4. {got[i] : i \in {j \in Refreshes : Returning(j)}} \in SUBSET Token
      BY <1>0 DEF TypeOK, Processes
    <2>5. TypeOK'
      BY <1>0, <2>1, <2>2, <2>3, <2>4, TokenFacts DEF TypeOK, Ended
    <2>6. \A q \in Processes : Holds(q)' => Holds(q)
      BY <1>0, <2>1, <2>3 DEF Holds, TypeOK
    <2>7. KnownInv'
      BY <1>0, <2>1, <2>2, <2>3, <2>6 DEF KnownInv, Known, TypeOK, Processes
    <2> QED
      BY <2>5, <2>7
  <1>5. ASSUME NEW i \in Refreshes, RefreshRequest(i) PROVE Goal
    BY <1>5, <1>a, LookupFacts DEF RefreshRequest, Processes
  <1>6. ASSUME NEW i \in Refreshes, RefreshLook(i) PROVE Goal
    BY <1>6, <1>b DEF RefreshLook, Processes
  <1>7. ASSUME NEW i \in Refreshes, Refresh(i) PROVE Goal
    <2> DEFINE t == got[i]
               g == got[i].grant
    <2>0. i \in Processes /\ Holds(i) /\ pc[i] = "exchange" /\ i \notin Callbacks \cup Admins
      BY <1>7, ConstantsOK DEF Refresh, Processes, Holds, ConstantsOK
    <2>1. Known(t) /\ t \in Token /\ g \in 1..grants
      BY <1>0, <2>0 DEF KnownInv, Known
    <2>1a. UNCHANGED <<store, grants, puts, ended, revoked, raced>>
      BY <1>7 DEF Refresh
    <2>2. CASE Return(i, "done") /\ UNCHANGED current
      <3>1. TypeOK'
        BY <1>0, <2>0, <2>1a, <2>2, TokenFacts DEF Return, Goto, TypeOK, Ended
      <3>2. /\ pc'[i] = "done"
            /\ \A q \in Processes \ {i} : pc'[q] = pc[q] /\ got'[q] = got[q] /\ todo'[q] = todo[q]
        BY <1>0, <2>0, <2>2 DEF Return, Goto, TypeOK
      <3>3. KnownInv'
        BY <2>0, <2>1a, <2>2, <3>2, BaseQuietStep DEF Holds
      <3> QED
        BY <3>1, <3>3
    <2>3. CASE Goto(i, "put") /\ UNCHANGED <<current, got, todo, fields, since>>
      <3>1. TypeOK'
        BY <1>0, <2>0, <2>1a, <2>3 DEF Goto, TypeOK, Active
      <3>2. pc'[i] = "put" /\ \A q \in Processes \ {i} : pc'[q] = pc[q]
        BY <1>0, <2>0, <2>3 DEF Goto, TypeOK
      <3>3. KnownInv'
        BY <2>0, <2>1, <2>1a, <2>3, <3>2, BaseQuietStep
      <3> QED
        BY <3>1, <3>3
    <2>4. CASE ~(Return(i, "done") /\ UNCHANGED current)
               /\ ~(Goto(i, "put") /\ UNCHANGED <<current, got, todo, fields, since>>)
      <3>1. /\ t.gen < MaxGen /\ t.gen = current[g]
            /\ current' = [current EXCEPT ![g] = current[g] + 1]
            /\ got' = [got EXCEPT ![i] = [t EXCEPT !.gen = @ + 1]]
            /\ pc' = [pc EXCEPT ![i] = "put"]
            /\ UNCHANGED <<store, grants, puts, ended, revoked, todo, fields, since, raced>>
        BY <1>7, <2>4 DEF Refresh, Goto, Accepted
      <3>2. current[g] \in 0..MaxGen /\ current[g] + 1 \in 0..MaxGen
        BY <1>0, <2>1, <3>1, ConstantsOK DEF TypeOK, ConstantsOK
      <3>3. TypeOK'
        BY <1>0, <2>0, <2>1, <3>1, <3>2, TokenFacts DEF TypeOK, Active
      <3>4. /\ \A h \in 1..grants : current'[h] \in Nat /\ current[h] \in Nat /\ current[h] <= current'[h]
            /\ current'[g] = current[g] + 1
        BY <1>0, <2>1, <3>1, <3>2 DEF TypeOK
      <3>5. \A u : Known(u) => Known(u)'
        <4> SUFFICES ASSUME NEW u, Known(u) PROVE u.gen <= current'[u.grant]
          BY <3>1 DEF Known
        <4>1. u.gen \in Nat /\ u.grant \in 1..grants /\ u.gen <= current[u.grant]
          BY TokenFacts DEF Known
        <4> QED
          BY <3>4, <4>1
      <3>6. Known(got[i])'
        <4>1. got'[i] = [t EXCEPT !.gen = @ + 1]
          BY <1>0, <2>0, <3>1 DEF TypeOK
        <4>2. got'[i] \in Token /\ got'[i].grant = g /\ got'[i].gen = current'[g]
          <5>1. LET u == [t EXCEPT !.gen = @ + 1]
                IN  u \in Token /\ u.grant = t.grant /\ u.gen = t.gen + 1
            BY <2>1, TokenFacts
          <5> QED
            BY <3>1, <3>4, <4>1, <5>1
        <4> QED
          BY <2>1, <3>1, <3>4, <4>2 DEF Known
      <3>7. \A q \in Processes \ {i} : pc'[q] = pc[q] /\ got'[q] = got[q] /\ (Holds(q)' <=> Holds(q))
        BY <1>0, <3>1 DEF TypeOK, Holds
      <3>8. KnownInv'
        <4>1. \A s \in Slots : store'[s] # NoToken => Known(store[s])'
          BY <1>0, <3>1, <3>5 DEF KnownInv
        <4>2. \A p \in Processes : Holds(p)' => Known(got[p])'
          BY <1>0, <3>5, <3>6, <3>7 DEF KnownInv
        <4>3. \A c \in Callbacks : pc'[c] = "fields" => got'[c].grant \in 1..grants'
          BY <1>0, <2>0, <3>1, <3>7 DEF KnownInv, Processes
        <4>4. \A p \in Processes : pc'[p] = "look" => todo'[p] # <<>>
          BY <1>0, <2>0, <3>1, <3>7 DEF KnownInv, TypeOK
        <4> QED
          BY <4>1, <4>2, <4>3, <4>4 DEF KnownInv
      <3> QED
        BY <3>3, <3>8
    <2> QED
      BY <2>2, <2>3, <2>4
  <1>8. ASSUME NEW i \in Refreshes, PutReturned(i) PROVE Goal
    <2>0. i \in Processes /\ Holds(i) /\ Known(got[i]) /\ got[i] \in Token /\ i \notin Callbacks \cup Admins
      BY <1>8, <1>0, ConstantsOK DEF PutReturned, Processes, Holds, KnownInv, Known, ConstantsOK
    <2>1. /\ store' = [store EXCEPT !["refresh"] = got[i]]
          /\ pc' = [pc EXCEPT ![i] = "done"] /\ got' = [got EXCEPT ![i] = NoToken]
          /\ UNCHANGED <<grants, puts, provider, todo, fields, raced>>
      BY <1>8, <1>0, <2>0 DEF PutReturned, Put, Goto, TypeOK
    <2>2. since' \in [Processes -> SUBSET Token]
      BY <1>8, <1>0, <2>0, SinceType DEF PutReturned
    <2>3. got[i].kind = "refresh"
      BY <2>0 DEF BaseInv, KindInv
    <2>3a. TypeOK'
      BY <1>0, <2>0, <2>1, <2>2, <2>3, TokenFacts DEF TypeOK, Slots, Kind, Ended
    <2>4. pc'[i] = "done" /\ \A q \in Processes \ {i} : pc'[q] = pc[q] /\ got'[q] = got[q]
      BY <1>0, <2>0, <2>1 DEF TypeOK
    <2>5. \A q \in Processes : Holds(q)' => Holds(q) /\ q # i
      BY <2>0, <2>4 DEF Holds
    <2>6. \A t : Known(t) => Known(t)'
      BY <2>1 DEF Known
    <2>7. KnownInv'
      BY <1>0, <2>0, <2>1, <2>4, <2>5, <2>6 DEF KnownInv, TypeOK, Processes
    <2> QED
      BY <2>3a, <2>7
  <1>9. ASSUME NEW c \in Callbacks, Exchange(c) PROVE Goal
    <2>0. c \in Processes /\ c \notin Admins \cup Refreshes
      BY ConstantsOK DEF Processes, ConstantsOK
    <2>1. Authorize
      BY <1>9 DEF Exchange
    <2> DEFINE t == First("refresh", grants + 1)
    <2>2. t \in Token /\ t.grant = grants + 1 /\ grants + 1 \in Nat
      BY <1>0, TokenFacts DEF TypeOK
    <2>3. PICK fs \in FieldSets : fields' = [fields EXCEPT ![c] = fs]
      BY <1>9 DEF Exchange
    <2>4. fs \in SUBSET {"refresh", "access"}
      BY ConstantsOK DEF ConstantsOK
    <2>5. /\ got' = [got EXCEPT ![c] = t] /\ pc' = [pc EXCEPT ![c] = "fields"]
          /\ UNCHANGED <<store, puts, ended, revoked, todo, history>>
      BY <1>9, <2>1, AuthorizeFacts DEF Exchange, Goto
    <2>6. TypeOK'
      BY <1>0, <2>0, <2>1, <2>2, <2>3, <2>4, <2>5, AuthorizeFacts DEF TypeOK, Active
    <2>7. /\ got'[c] = t /\ pc'[c] = "fields"
          /\ \A q \in Processes \ {c} : pc'[q] = pc[q] /\ got'[q] = got[q]
      BY <1>0, <2>0, <2>5 DEF TypeOK
    <2>8. \A q \in Processes : Holds(q)' => Holds(q) /\ q # c
      BY <2>0, <2>7 DEF Holds
    <2>9. KnownInv'
      BY <1>0, <2>0, <2>1, <2>2, <2>5, <2>7, <2>8, AuthorizeFacts DEF KnownInv, Processes
    <2> QED
      BY <2>6, <2>9
  <1>10. ASSUME NEW c \in Callbacks, PutField(c) PROVE Goal
    <2>0. c \in Processes /\ c \notin Admins \cup Refreshes
      BY ConstantsOK DEF Processes, ConstantsOK
    <2>1. PICK k \in fields[c] :
            /\ Put(c, k, First(k, got[c].grant))
            /\ fields' = [fields EXCEPT ![c] = @ \ {k}]
            /\ Goto(c, IF fields[c] = {k} THEN "done" ELSE "fields")
      BY <1>10 DEF PutField
    <2> DEFINE t == First(k, got[c].grant)
    <2>2. k \in {"refresh", "access"} /\ got[c].grant \in 1..grants /\ grants \in Nat
      BY <1>0, <1>10, <2>0 DEF PutField, TypeOK, KnownInv
    <2>3. /\ t \in Token /\ t.kind = k /\ t.grant = got[c].grant /\ t.gen = 0
          /\ k \in Slots /\ Kind(k) = k
      BY <2>2, TokenFacts DEF Slots, Kind
    <2>4. Known(t)
      BY <1>0, <2>2, <2>3, ConstantsOK DEF Known, TypeOK, ConstantsOK
    <2>5. since' \in [Processes -> SUBSET Token]
      BY <1>0, <2>1, <2>3, SinceType
    <2>6. /\ store' = [store EXCEPT ![k] = t]
          /\ pc' = [pc EXCEPT ![c] = IF fields[c] = {k} THEN "done" ELSE "fields"]
          /\ UNCHANGED <<grants, puts, provider, todo, got, raced>>
      BY <1>10, <2>1 DEF PutField, Put, Goto
    <2>7. TypeOK'
      BY <1>0, <2>0, <2>1, <2>3, <2>5, <2>6 DEF TypeOK, Active, Ended
    <2>8. pc[c] = "fields" /\ \A q \in Processes \ {c} : pc'[q] = pc[q]
      BY <1>0, <1>10, <2>6 DEF TypeOK, PutField
    <2>9. \A q \in Processes : Holds(q)' => Holds(q)
      BY <2>0, <2>8 DEF Holds
    <2>10. \A u : Known(u) => Known(u)'
      BY <2>6 DEF Known
    <2>11. pc'[c] # "look"
      BY <1>0, <2>0, <2>6 DEF TypeOK
    <2>12. KnownInv'
      <3>1. \A s \in Slots : store'[s] # NoToken => Known(store[s])'
        BY <1>0, <2>3, <2>4, <2>6, <2>10 DEF KnownInv, TypeOK
      <3> QED
        BY <1>0, <2>0, <2>6, <2>8, <2>9, <2>10, <2>11, <3>1 DEF KnownInv, Processes
    <2> QED
      BY <2>7, <2>12
  <1>11. ASSUME NEW p \in Processes, Fail(p) PROVE Goal
    <2>1. TypeOK'
      BY <1>0, <1>11, TokenFacts DEF Fail, Return, Goto, TypeOK, Ended
    <2>2. KnownInv'
      BY <1>0, <1>11, BaseQuietStep DEF Fail, Return, Goto, TypeOK, Holds
    <2> QED
      BY <2>1, <2>2
  <1>12. CASE AdminPut
    <2>1. Authorize /\ UNCHANGED <<ended, revoked, pc, todo, fields, got, raced>>
      BY <1>12 DEF AdminPut
    <2>2. PICK k \in {"refresh", "access"} : Put("admin", k, First(k, grants + 1))
      BY <1>12, <2>1, AuthorizeFacts DEF AdminPut
    <2> DEFINE t == First(k, grants + 1)
    <2>3. /\ t \in Token /\ t.kind = k /\ t.grant = grants + 1 /\ t.gen = 0
          /\ k \in Slots /\ Kind(k) = k
      <3>1. grants + 1 \in Nat
        BY <1>0 DEF TypeOK
      <3> QED
        BY <3>1, TokenFacts DEF Slots, Kind
    <2>4. \A u : u = t => Known(u)'
      BY <2>1, <2>3, AuthorizeFacts
    <2>5. since' \in [Processes -> SUBSET Token]
      BY <1>0, <2>2, <2>3, SinceType
    <2>6. store' = [store EXCEPT ![k] = t]
      BY <2>2 DEF Put
    <2>7. puts' \in 0..MaxPuts
      BY <1>0, <1>12, ConstantsOK DEF AdminPut, TypeOK, ConstantsOK
    <2>8. TypeOK'
      BY <1>0, <2>1, <2>3, <2>5, <2>6, <2>7, AuthorizeFacts DEF TypeOK
    <2>9. \A s \in Slots : store'[s] # NoToken => Known(store[s])'
      BY <1>0, <2>1, <2>3, <2>4, <2>6, AuthorizeFacts DEF KnownInv, TypeOK
    <2>10. \A q \in Processes : Holds(q)' => Holds(q)
      BY <2>1 DEF Holds
    <2>11. KnownInv'
      BY <1>0, <2>1, <2>9, <2>10, AuthorizeFacts DEF KnownInv
    <2> QED
      BY <2>8, <2>11
  <1>13. CASE UNCHANGED vars
    BY <1>0, <1>13 DEF vars, TypeOK, KnownInv, Known, Holds
  <1> QED
    BY <1>1, <1>2, <1>3, <1>4, <1>5, <1>6, <1>7, <1>8, <1>9, <1>10, <1>11, <1>12, <1>13 DEF Next

\* Where no older key is read, a stored token is under the name of its kind.
LEMMA StoredKinds ==
    ASSUME BaseInv, KeysInv
    PROVE  /\ \A s \in Slots : store[s] # NoToken =>
                /\ s \in {"refresh", "access"} /\ store[s].kind = s
                /\ store[s] \in Token /\ store[s].grant \in 1..grants
           /\ NoToken.grant = 0 /\ grants \in Nat
  BY DEF BaseInv, TypeOK, KnownInv, Known, KeysInv, Slots, Kind, NoToken

\* The tokens in hand.
LEMMA HeldKinds ==
    ASSUME BaseInv
    PROVE  \A p \in Processes : Holds(p) =>
                /\ got[p] \in Token /\ got[p].kind \in {"refresh", "access"}
                /\ got[p].grant \in 1..grants /\ got[p].gen \in Nat
                /\ got[p].gen <= current[got[p].grant] /\ current[got[p].grant] \in Nat
                /\ got[p] # NoToken
  <1> SUFFICES ASSUME NEW p \in Processes, Holds(p)
               PROVE  /\ got[p] \in Token /\ got[p].kind \in {"refresh", "access"}
                      /\ got[p].grant \in 1..grants /\ got[p].gen \in Nat
                      /\ got[p].gen <= current[got[p].grant] /\ current[got[p].grant] \in Nat
                      /\ got[p] # NoToken
    OBVIOUS
  <1>1. Known(got[p])
    BY DEF BaseInv, KnownInv
  <1>2. current[got[p].grant] \in Nat
    BY <1>1, ConstantsOK DEF BaseInv, TypeOK, Known, ConstantsOK
  <1>3. got[p].grant \in 1..grants /\ got[p].gen <= current[got[p].grant]
    BY <1>1 DEF Known
  <1>4. got[p] # NoToken
    BY <1>3 DEF NoToken, BaseInv, TypeOK
  <1>5. got[p] \in Token /\ got[p].kind \in {"refresh", "access"} /\ got[p].gen \in Nat
    BY <1>1, TokenFacts DEF Known
  <1> QED
    BY <1>2, <1>3, <1>4, <1>5

\* The parts of TokensInv beyond types.
Revocations == KeysInv /\ PendingInv /\ RevokedInv /\ RevokedIsGone /\ RevocationSticks

\* A refresh that has nothing to store and gets nothing more never will have.
LEMMA ReturningStep ==
    ASSUME BaseInv, NEW i \in Refreshes, pc'[i] = pc[i], got'[i] = got[i], ended \subseteq ended',
           \A g \in 1..grants : current'[g] = current[g] \/ current'[g] = current[g] + 1
    PROVE  Returning(i)' => Returning(i)
  <1>1. CASE pc[i] = "exchange"
    <2>1. Holds(i) /\ i \in Processes
      BY <1>1 DEF Holds, Processes
    <2> QED
      BY <1>1, <2>1, HeldKinds DEF Returning, Accepted
  <1> QED
    BY <1>1 DEF Returning

\* A step of p that changes no token, after which p has none in hand.
LEMMA TokensQuietStep ==
    ASSUME TokensInv, NEW p \in Processes,
           UNCHANGED <<store, grants, current, ended, revoked, raced>>,
           \A q \in Processes \ {p} :
                /\ pc'[q] = pc[q] /\ got'[q] = got[q] /\ todo'[q] = todo[q]
                /\ since'[q] = since[q] /\ fields'[q] = fields[q],
           todo'[p] \in Seq({"refresh", "access"}),
           ~Holds(p)', pc'[p] # "fields"
    PROVE  Revocations' /\ SinceInv'
  <1>0. /\ p \in Admins => p \notin Refreshes /\ p \notin Callbacks
        /\ p \in Refreshes => p \notin Admins /\ p \notin Callbacks
        /\ Processes = Admins \cup Refreshes \cup Callbacks
    BY ConstantsOK DEF ConstantsOK, Processes
  <1>1. \A q \in Processes : Holds(q)' => Holds(q) /\ q # p
    BY DEF Holds
  <1>2. KeysInv'
    BY DEF TokensInv, KeysInv
  <1>3. PendingInv'
    BY <1>0, <1>1 DEF TokensInv, PendingInv
  <1>4. \A i \in Refreshes : Returning(i)' => Returning(i) /\ got'[i] = got[i]
    BY <1>0 DEF Returning, Accepted, Holds
  <1>4a. \A a \in Admins : pc'[a] \in {"delete", "done"} => a # p
    BY <1>0 DEF Holds
  <1>5. RevokedInv'
    BY <1>0, <1>4, <1>4a DEF TokensInv, RevokedInv
  <1>6. RevokedIsGone' /\ RevocationSticks'
    BY <1>0, <1>4a DEF TokensInv, RevokedIsGone, RevocationSticks
  <1>7. SinceInv'
    BY <1>0 DEF TokensInv, SinceInv, Holds
  <1> QED
    BY <1>2, <1>3, <1>5, <1>6, <1>7 DEF Revocations

\* What is put has been stored since, for all whose work is under way.
LEMMA PutSinceStep ==
    ASSUME TokensInv, NEW p, NEW k \in {"refresh", "access"}, NEW t \in Token, Put(p, k, t),
           \A q \in Processes : q # p => pc'[q] = pc[q] /\ got'[q] = got[q] /\ fields'[q] = fields[q],
           p \in Processes =>
                /\ pc'[p] \in {"done", "fields"}
                /\ p \notin Admins
                /\ pc'[p] = "fields" /\ p \in Callbacks =>
                        pc[p] = "fields" /\ got'[p] = got[p] /\ fields'[p] = fields[p] \ {k}
    PROVE  SinceInv'
  <1>1. /\ store' = [store EXCEPT ![k] = t]
        /\ store'[k] = t /\ \A s \in {"refresh", "access"} \ {k} : store'[s] = store[s]
    BY DEF Put, TokensInv, BaseInv, TypeOK, Slots
  <1>2. \A q \in Processes : q # p /\ pc[q] \in {"broker", "delete", "exchange", "put", "fields"} =>
            since'[q] = since[q] \cup {t}
    BY DEF Put, Active
  <1>3. ASSUME NEW a \in Admins, pc'[a] \in {"broker", "delete"}
        PROVE  store'[got'[a].kind] \in {NoToken, got'[a]} \cup since'[a]
    <2>1. a \in Processes /\ a # p /\ pc'[a] = pc[a] /\ got'[a] = got[a] /\ Holds(a)
      BY <1>3 DEF Processes, Holds
    <2>2. got[a].kind \in {"refresh", "access"}
      BY <2>1, HeldKinds DEF TokensInv
    <2> QED
      BY <1>1, <1>2, <1>3, <2>1, <2>2 DEF TokensInv, SinceInv
  <1>4. ASSUME NEW i \in Refreshes, pc'[i] \in {"exchange", "put"}
        PROVE  \/ store'["refresh"] \in {NoToken} \cup since'[i]
               \/ /\ store'["refresh"].grant = got'[i].grant
                  /\ store'["refresh"].gen <= got'[i].gen
    <2>1. i \in Processes /\ i # p /\ pc'[i] = pc[i] /\ got'[i] = got[i]
      BY <1>4 DEF Processes
    <2> QED
      BY <1>1, <1>2, <1>4, <2>1 DEF TokensInv, SinceInv
  <1>5. ASSUME NEW c \in Callbacks, pc'[c] = "fields", NEW j \in fields'[c]
        PROVE  \/ store'[j] \in {NoToken} \cup since'[c]
               \/ store'[j].grant < got'[c].grant
    <2>1. c \in Processes /\ pc[c] = "fields" /\ got'[c] = got[c] /\ j \in fields[c]
          /\ (c = p => j # k)
      BY <1>5 DEF Processes
    <2>2. j \in {"refresh", "access"} /\ since[c] \subseteq since'[c]
      <3>1. fields[c] \subseteq {"refresh", "access"}
        BY <2>1 DEF TokensInv, BaseInv, TypeOK
      <3> QED
        BY <1>5, <2>1, <3>1 DEF Put, Active
    <2> QED
      BY <1>1, <1>2, <2>1, <2>2 DEF TokensInv, SinceInv
  <1> QED
    BY <1>3, <1>4, <1>5 DEF SinceInv

\* A token is found: nothing pending or rotated is, for it is not stored yet.
LEMMA LookStep ==
    ASSUME TokensInv, NEW p \in Processes, NEW found, Look(p, found),
           \/ p \in Admins /\ found = "broker"
           \/ p \in Refreshes /\ found = "exchange"
    PROVE  Revocations' /\ SinceInv'
  <1> DEFINE s == Head(todo[p])
  <1>0. /\ p \in Admins => p \notin Refreshes /\ p \notin Callbacks
        /\ p \in Refreshes => p \notin Admins /\ p \notin Callbacks
        /\ Processes = Admins \cup Refreshes \cup Callbacks
    BY ConstantsOK DEF ConstantsOK, Processes
  <1>1. pc[p] = "look" /\ todo[p] # <<>> /\ todo[p] \in Seq({"refresh", "access"})
    BY DEF Look, TokensInv, BaseInv, KnownInv, KeysInv
  <1>2. s \in {"refresh", "access"} /\ Tail(todo[p]) \in Seq({"refresh", "access"})
    BY <1>1
  <1>3. p \in Refreshes => s = "refresh"
    <2>1. p \in Refreshes => s \in {"refresh", "legacy"}
      BY <1>1 DEF TokensInv, BaseInv, KindInv
    <2> QED
      BY <1>2, <2>1
  <1>4. CASE store[s] = NoToken
    <2>1. /\ UNCHANGED <<store, grants, provider, fields, history, got>>
          /\ pc' = [pc EXCEPT ![p] = IF Len(todo[p]) = 1 THEN "failed" ELSE "look"]
          /\ todo' = [todo EXCEPT ![p] = Tail(todo[p])]
      BY <1>4 DEF Look, Goto
    <2>2. pc'[p] \in {"failed", "look"} /\ todo'[p] = Tail(todo[p])
      BY <2>1 DEF TokensInv, BaseInv, TypeOK
    <2>3. \A q \in Processes \ {p} : pc'[q] = pc[q] /\ got'[q] = got[q] /\ todo'[q] = todo[q]
      BY <2>1 DEF TokensInv, BaseInv, TypeOK
    <2>4. ~Holds(p)'
      BY <2>2 DEF Holds
    <2> QED
      BY <1>2, <2>1, <2>2, <2>3, <2>4, TokensQuietStep
  <1>5. CASE store[s] # NoToken
    <2>1. /\ UNCHANGED <<store, grants, provider, fields, history>>
          /\ todo'[p] = <<>> /\ \A q \in Processes \ {p} : todo'[q] = todo[q]
          /\ pc'[p] = found /\ got'[p] = store[s]
          /\ \A q \in Processes \ {p} : pc'[q] = pc[q] /\ got'[q] = got[q]
      BY <1>5 DEF Look, Goto, TokensInv, BaseInv, TypeOK
    <2>1a. <<>> \in Seq({"refresh", "access"})
      OBVIOUS
    <2>2. store[s].kind = s
      BY <1>2, <1>5, StoredKinds DEF TokensInv, Slots
    <2>3. \A q \in Processes \ {p} : Holds(q)' <=> Holds(q)
      BY <2>1 DEF Holds
    <2>4. KeysInv'
      BY <2>1, <2>1a DEF TokensInv, KeysInv
    <2>5. PendingInv'
      BY <1>0, <1>2, <2>1, <2>2, <2>3 DEF TokensInv, PendingInv
    <2>6. \A i \in Refreshes \ {p} : Returning(i)' => Returning(i)
      BY <1>0, <2>1 DEF Returning, Accepted
    <2>7. RevokedInv'
      BY <1>0, <1>2, <1>3, <2>1, <2>6 DEF TokensInv, RevokedInv, RevokedIsGone, RevocationSticks, Slots
    <2>8. RevokedIsGone' /\ RevocationSticks'
      BY <1>0, <2>1 DEF TokensInv, RevokedIsGone, RevocationSticks
    <2>8a. store[s].gen \in Nat
      BY <1>2, <1>5, StoredKinds, TokenFacts DEF TokensInv, Slots
    <2>9. SinceInv'
      BY <1>0, <1>3, <2>1, <2>2, <2>8a DEF TokensInv, SinceInv
    <2> QED
      BY <2>4, <2>5, <2>7, <2>8, <2>9 DEF Revocations
  <1> QED
    BY <1>4, <1>5

\* What a revocation has achieved is not undone, nor by another one.
LEMMA TokensStep ==
    ASSUME Layout # "google", TokensInv, [Next]_vars
    PROVE  Revocations' /\ SinceInv'
  <1> DEFINE Goal == Revocations' /\ SinceInv'
  <1>0. /\ BaseInv /\ KeysInv /\ TypeOK /\ grants \in Nat
        /\ Processes = Admins \cup Refreshes \cup Callbacks
        /\ \A a \in Admins : a \notin Refreshes /\ a \notin Callbacks
        /\ \A i \in Refreshes : i \notin Admins /\ i \notin Callbacks
        /\ \A c \in Callbacks : c \notin Admins /\ c \notin Refreshes
    BY ConstantsOK DEF TokensInv, BaseInv, TypeOK, ConstantsOK, Processes
  <1>a. ASSUME NEW p \in Processes, NEW slots \in Seq({"refresh", "access"}), Begin(p, slots)
        PROVE  Goal
    <2>1. /\ UNCHANGED <<store, grants, provider, history, fields, got>>
          /\ pc'[p] = "look" /\ todo'[p] = slots
          /\ \A q \in Processes \ {p} : pc'[q] = pc[q] /\ got'[q] = got[q] /\ todo'[q] = todo[q]
      BY <1>0, <1>a DEF Begin, Goto, TypeOK
    <2> QED
      BY <2>1, TokensQuietStep DEF Holds
  <1>1. ASSUME NEW a \in Admins, RevokeRequest(a) PROVE Goal
    BY <1>0, <1>1, <1>a, LookupFacts DEF RevokeRequest
  <1>2. ASSUME NEW a \in Admins, RevokeLook(a) PROVE Goal
    BY <1>0, <1>2, LookStep DEF RevokeLook
  <1>3. ASSUME NEW a \in Admins, BrokerRevokes(a) PROVE Goal
    <2>1. /\ pc[a] = "broker" /\ pc'[a] \in {"delete", "failed"}
          /\ revoked \subseteq revoked' /\ (pc'[a] = "delete" => got[a] \in revoked')
          /\ ended \subseteq ended'
          /\ \A q \in Processes \ {a} : pc'[q] = pc[q]
          /\ UNCHANGED <<store, grants, puts, current, todo, fields, got, since, raced>>
      BY <1>0, <1>3 DEF BrokerRevokes, RevokeOAuth, Goto, TypeOK, Processes
    <2>2. \A q \in Processes : Holds(q)' => Holds(q)
      BY <1>0, <2>1 DEF Holds
    <2>3. KeysInv'
      BY <2>1 DEF TokensInv, KeysInv
    <2>4. PendingInv'
      BY <1>0, <2>1, <2>2 DEF TokensInv, PendingInv
    <2>5. \A i \in Refreshes : Returning(i)' => Returning(i)
      BY <1>0, <2>1, ReturningStep
    <2>6. RevokedInv'
      BY <1>0, <2>1, <2>5 DEF TokensInv, RevokedInv
    <2>7. RevokedIsGone' /\ RevocationSticks'
      BY <1>0, <2>1 DEF TokensInv, RevokedIsGone, RevocationSticks
    <2>8. SinceInv'
      BY <1>0, <2>1 DEF TokensInv, SinceInv
    <2> QED
      BY <2>3, <2>4, <2>6, <2>7, <2>8 DEF Revocations
  <1>4. ASSUME NEW a \in Admins, DeleteRevoked(a) PROVE Goal
    <2> DEFINE k == got[a].kind
    <2>0. Holds(a) /\ k \in {"refresh", "access"} /\ got[a] # NoToken /\ NoToken.grant = 0
      BY <1>0, <1>4, HeldKinds, StoredKinds DEF DeleteRevoked, Delete, Holds
    <2>1. /\ pc[a] = "delete" /\ pc'[a] = "done"
          /\ store'[k] = NoToken /\ \A s \in Slots \ {k} : store'[s] = store[s]
          /\ \A q \in Processes \ {a} : pc'[q] = pc[q]
          /\ raced'[a] = {got[i] : i \in {j \in Refreshes : Returning(j)}}
          /\ \A b \in Admins \ {a} : raced'[b] = raced[b]
          /\ \A q \in Processes \ {a} : since'[q] = since[q]
          /\ UNCHANGED <<grants, puts, provider, todo, fields, got>>
      BY <1>0, <1>4, <2>0 DEF DeleteRevoked, Delete, Goto, TypeOK, Slots
    <2>2. \A q \in Processes : Holds(q)' => Holds(q)
      BY <1>0, <2>0, <2>1 DEF Holds
    <2>3. KeysInv'
      BY <2>0, <2>1 DEF TokensInv, KeysInv, Slots
    <2>4. PendingInv'
      <3>1. \A c \in Callbacks : pc[c] = "fields" =>
                got[c].grant \in 1..grants /\ fields[c] \subseteq {"refresh", "access"}
        BY <1>0 DEF BaseInv, KnownInv, TypeOK
      <3> QED
        BY <1>0, <2>0, <2>1, <2>2, <3>1 DEF TokensInv, PendingInv, Slots
    <2>5. \A i \in Refreshes : Returning(i)' => Returning(i)
      BY <1>0, <2>1 DEF Returning, Accepted
    <2>6. RevokedInv'
      BY <1>0, <2>1, <2>5 DEF TokensInv, RevokedInv
    <2>7. \A b \in Admins : pc'[b] = "done" => Holds(b) \/ b = a
      BY <1>0, <2>1 DEF Holds
    <2>8. \A b \in Admins : pc'[b] = "done" => got[b] # NoToken /\ got[b].grant \in 1..grants
      BY <1>0, <2>0, <2>7, HeldKinds
    <2>9. RevokedIsGone'
      <3>1. \A s \in Slots \ {k} : store[s] # got[a]
        BY <1>0, <2>0, StoredKinds
      <3> QED
        BY <1>0, <2>1, <2>8, <3>1 DEF TokensInv, RevokedIsGone
    <2>10. RevocationSticks'
      BY <1>0, <2>0, <2>1, <2>8 DEF TokensInv, RevocationSticks, Slots
    <2>11. SinceInv'
      <3>1. \A q \in Admins : pc'[q] \in {"broker", "delete"} => Holds(q) /\ pc[q] = pc'[q]
        BY <1>0, <2>1 DEF Holds
      <3>2. \A q \in Admins : Holds(q) => got[q].kind \in Slots
        BY <1>0, HeldKinds DEF Slots
      <3>3. \A c \in Callbacks : fields[c] \subseteq Slots
        BY <1>0 DEF TypeOK, Slots
      <3> QED
        BY <1>0, <2>0, <2>1, <3>1, <3>2, <3>3 DEF TokensInv, SinceInv, Slots
    <2> QED
      BY <2>3, <2>4, <2>6, <2>9, <2>10, <2>11 DEF Revocations
  <1>5. ASSUME NEW i \in Refreshes, RefreshRequest(i) PROVE Goal
    BY <1>0, <1>5, <1>a, LookupFacts DEF RefreshRequest
  <1>6. ASSUME NEW i \in Refreshes, RefreshLook(i) PROVE Goal
    BY <1>0, <1>6, LookStep DEF RefreshLook
  <1>7. ASSUME NEW i \in Refreshes, Refresh(i) PROVE Goal
    <2> DEFINE t == got[i]
               g == got[i].grant
    <2>0. /\ pc[i] = "exchange" /\ Holds(i) /\ t \in Token /\ t.kind = "refresh" /\ g \in 1..grants
          /\ t.gen = current[g] /\ Returning(i) /\ current[g] \in Nat
          /\ UNCHANGED <<store, grants, puts, ended, revoked, raced>>
      BY <1>0, <1>7, HeldKinds DEF Refresh, Holds, BaseInv, KindInv, Accepted, Returning
    <2>1. CASE Return(i, "done") /\ UNCHANGED current
      <3>1. /\ pc'[i] = "done" /\ todo'[i] = <<>>
            /\ \A q \in Processes \ {i} :
                    /\ pc'[q] = pc[q] /\ got'[q] = got[q] /\ todo'[q] = todo[q]
                    /\ since'[q] = since[q] /\ fields'[q] = fields[q]
        BY <1>0, <2>1 DEF Return, Goto, TypeOK
      <3>2. todo'[i] \in Seq({"refresh", "access"}) /\ ~Holds(i)'
        BY <1>0, <3>1 DEF Holds
      <3> QED
        BY <1>0, <2>0, <2>1, <3>1, <3>2, TokensQuietStep
    <2>2. CASE ~(Return(i, "done") /\ UNCHANGED current)
      <3>1. /\ pc' = [pc EXCEPT ![i] = "put"] /\ UNCHANGED <<todo, fields, since>>
            /\ \/ UNCHANGED <<current, got>>
               \/ /\ got' = [got EXCEPT ![i] = [t EXCEPT !.gen = @ + 1]]
                  /\ current' = [current EXCEPT ![g] = current[g] + 1]
        BY <1>7, <2>2 DEF Refresh, Goto
      <3>2. /\ got'[i].kind = "refresh" /\ got'[i].grant = g
            /\ got'[i] = t \/ got'[i].gen = current[g] + 1
            /\ got[i].gen <= got'[i].gen /\ got[i].gen \in Nat /\ got'[i].gen \in Nat
            /\ \A q \in Processes \ {i} : got'[q] = got[q] /\ pc'[q] = pc[q]
            /\ pc'[i] = "put"
            /\ \A h \in 1..grants : current'[h] = current[h] \/ current'[h] = current[h] + 1
        <4>1. t.gen \in Nat /\ LET u == [t EXCEPT !.gen = @ + 1]
                               IN  u.grant = g /\ u.kind = t.kind /\ u.gen = t.gen + 1
          BY <2>0, TokenFacts
        <4>2. \A q \in Processes \ {i} : got'[q] = got[q] /\ pc'[q] = pc[q]
          BY <1>0, <3>1 DEF TypeOK
        <4>3. /\ pc'[i] = "put"
              /\ got'[i] = t \/ got'[i] = [t EXCEPT !.gen = @ + 1]
          BY <1>0, <3>1 DEF TypeOK
        <4>4. \A h \in 1..grants : current'[h] = current[h] \/ current'[h] = current[h] + 1
          BY <1>0, <3>1 DEF TypeOK
        <4>5. CASE got'[i] = t
          BY <2>0, <4>1, <4>2, <4>3, <4>4, <4>5
        <4>6. CASE got'[i] = [t EXCEPT !.gen = @ + 1]
          <5>1. got'[i].grant = g /\ got'[i].kind = "refresh" /\ got'[i].gen = t.gen + 1
            BY <2>0, <4>1, <4>6
          <5> QED
            BY <2>0, <4>1, <4>2, <4>3, <4>4, <5>1
        <4> QED
          BY <4>3, <4>5, <4>6
      <3>3. \A q \in Processes : Holds(q)' <=> Holds(q)
        BY <1>0, <2>0, <3>2 DEF Holds
      <3>4. KeysInv'
        BY <2>0, <3>1 DEF TokensInv, KeysInv
      <3>5. PendingInv'
        BY <1>0, <2>0, <3>1, <3>2, <3>3 DEF TokensInv, PendingInv
      <3>6. \A j \in Refreshes : Returning(j)' => Returning(j)
        BY <1>0, <2>0, <3>2, ReturningStep
      <3>7. RevokedInv'
        <4>1. \A a \in Admins : pc[a] = "done" /\ got[a] = got'[i] => got[a] = t
          <5> SUFFICES ASSUME NEW a \in Admins, pc[a] = "done", got[a] = got'[i], got[a] # t PROVE FALSE
            OBVIOUS
          <5>1. got[a].gen <= current[g] /\ got[a].gen = current[g] + 1
            BY <1>0, <3>2, HeldKinds DEF Holds
          <5> QED
            BY <2>0, <5>1
        <4>2. \A a \in Admins : pc'[a] = pc[a] /\ got'[a] = got[a]
          BY <1>0, <3>2
        <4> QED
          BY <1>0, <2>0, <3>2, <3>6, <4>1, <4>2 DEF TokensInv, RevokedInv
      <3>8. RevokedIsGone' /\ RevocationSticks'
        BY <1>0, <2>0, <3>2 DEF TokensInv, RevokedIsGone, RevocationSticks
      <3>9. SinceInv'
        <4>1. store["refresh"].gen \in Nat
          <5>1. store["refresh"] \in Token
            BY <1>0 DEF TypeOK, Slots
          <5> QED
            BY <5>1, TokenFacts
        <4> QED
          BY <1>0, <2>0, <3>1, <3>2, <4>1 DEF TokensInv, SinceInv
      <3> QED
        BY <3>4, <3>5, <3>7, <3>8, <3>9 DEF Revocations
    <2> QED
      BY <2>1, <2>2
  <1>8. ASSUME NEW i \in Refreshes, PutReturned(i) PROVE Goal
    <2> DEFINE t == got[i]
               g == got[i].grant
    <2>0. /\ Holds(i) /\ t \in Token /\ t.kind = "refresh" /\ g \in 1..grants
          /\ t # NoToken /\ Returning(i)
      BY <1>0, <1>8, HeldKinds DEF PutReturned, Holds, BaseInv, KindInv, Returning
    <2>1. /\ pc[i] = "put" /\ pc'[i] = "done" /\ Put(i, "refresh", t)
          /\ store'["refresh"] = t /\ \A s \in Slots \ {"refresh"} : store'[s] = store[s]
          /\ \A q \in Processes \ {i} : pc'[q] = pc[q] /\ got'[q] = got[q]
          /\ UNCHANGED <<grants, puts, provider, todo, fields, raced>>
      BY <1>0, <1>8 DEF PutReturned, Put, Goto, TypeOK, Slots
    <2>2. \A q \in Processes : Holds(q)' => Holds(q) /\ q # i
      BY <1>0, <2>1 DEF Holds
    <2>4. KeysInv'
      BY <1>0, <2>1 DEF TokensInv, KeysInv, Slots
    <2>5. PendingInv'
      <3>1. \A c \in Callbacks : pc[c] = "fields" /\ "refresh" \in fields[c] => g # got[c].grant
        BY <1>0, <2>0 DEF TokensInv, PendingInv
      <3>2. \A c \in Callbacks : fields[c] \subseteq {"refresh", "access"}
        BY <1>0 DEF TypeOK
      <3> QED
        BY <1>0, <2>1, <2>2, <3>1, <3>2 DEF TokensInv, PendingInv, Slots
    <2>6. \A j \in Refreshes : Returning(j)' => Returning(j) /\ j # i
      BY <1>0, <2>1 DEF Returning, Accepted
    <2>7. RevokedInv'
      BY <1>0, <2>1, <2>6 DEF TokensInv, RevokedInv
    <2>8. RevokedIsGone'
      BY <1>0, <2>0, <2>1 DEF TokensInv, RevokedIsGone, RevokedInv
    <2>9. RevocationSticks'
      BY <1>0, <2>0, <2>1 DEF TokensInv, RevocationSticks, RevokedInv
    <2>10. SinceInv'
      BY <1>0, <2>0, <2>1, PutSinceStep
    <2> QED
      BY <2>4, <2>5, <2>7, <2>8, <2>9, <2>10 DEF Revocations
  <1>9. ASSUME NEW c \in Callbacks, Exchange(c) PROVE Goal
    <2>0. Authorize /\ DOMAIN current = 1..grants
      BY <1>0, <1>9 DEF Exchange, TypeOK
    <2>1. /\ grants' = grants + 1 /\ grants' \in Nat
          /\ \A g \in 1..grants : current'[g] = current[g] /\ g \in 1..grants' /\ g < grants'
      BY <1>0, <2>0, AuthorizeFacts
    <2>2. /\ pc[c] = "idle" /\ pc'[c] = "fields"
          /\ got'[c] = First("refresh", grants') /\ got'[c].grant = grants'
          /\ \A q \in Processes \ {c} : pc'[q] = pc[q] /\ got'[q] = got[q]
          /\ \A d \in Callbacks \ {c} : fields'[d] = fields[d]
          /\ UNCHANGED <<store, puts, ended, revoked, todo, history>>
      BY <1>0, <1>9, <2>1, TokenFacts DEF Exchange, Goto, TypeOK
    <2>3. \A q \in Processes : Holds(q)' => Holds(q) /\ q # c
      BY <1>0, <2>2 DEF Holds
    <2>4. fields'[c] \subseteq {"refresh", "access"}
      BY <1>0, <1>9, ConstantsOK DEF Exchange, TypeOK, ConstantsOK
    <2>5. \A k \in {"refresh", "access"} : store[k].grant # grants' /\ store[k].grant \in Nat
            /\ (store[k] = NoToken \/ store[k].grant < grants')
      BY <1>0, <2>1, StoredKinds DEF Slots
    <2>6. \A d \in Callbacks : pc[d] = "fields" => got[d].grant # grants'
      BY <1>0, <2>1 DEF BaseInv, KnownInv
    <2>7. \A q \in Processes : Holds(q) => got[q].grant \in 1..grants /\ got[q].grant # grants'
      BY <1>0, <2>1, HeldKinds
    <2>8. KeysInv'
      BY <2>2 DEF TokensInv, KeysInv
    <2>9. PendingInv'
      BY <1>0, <2>2, <2>3, <2>4, <2>5, <2>6, <2>7 DEF TokensInv, PendingInv
    <2>10. \A i \in Refreshes : Returning(i)' => Returning(i)
      BY <1>0, <2>1, <2>2, ReturningStep
    <2>11. RevokedInv'
      BY <1>0, <2>2, <2>10 DEF TokensInv, RevokedInv
    <2>12. RevokedIsGone' /\ RevocationSticks'
      BY <1>0, <2>2 DEF TokensInv, RevokedIsGone, RevocationSticks
    <2>13. SinceInv'
      BY <1>0, <2>2, <2>4, <2>5 DEF TokensInv, SinceInv
    <2> QED
      BY <2>8, <2>9, <2>11, <2>12, <2>13 DEF Revocations
  <1>b. ASSUME NEW p, NEW k \in {"refresh", "access"}, NEW t \in Token, Put(p, k, t), t # NoToken,
               UNCHANGED <<ended, revoked, todo, raced>>, grants' >= grants, grants' \in Nat,
               \A g \in 1..grants : current'[g] = current[g],
               \A q \in Admins \cup Refreshes : pc'[q] = pc[q] /\ got'[q] = got[q],
               \A c \in Callbacks : pc'[c] = "fields" =>
                    /\ pc[c] = "fields" /\ got'[c] = got[c] /\ fields'[c] \subseteq fields[c]
                    /\ k \in fields'[c] => t.grant # got[c].grant,
               \A q \in Processes : Holds(q) /\ got[q].kind = k => got[q].grant # t.grant,
               t.kind = k
        PROVE  Revocations'
    <2>1. /\ store'[k] = t /\ \A s \in Slots \ {k} : store'[s] = store[s]
          /\ k \in Slots
      BY <1>0, <1>b DEF Put, TypeOK, Slots
    <2>2. \A q \in Processes : Holds(q)' <=> Holds(q)
      BY <1>0, <1>b DEF Holds
    <2>3. \A q \in Processes : Holds(q) => q \in Admins \cup Refreshes /\ got'[q] = got[q]
      BY <1>b DEF Holds
    <2>4. KeysInv'
      BY <1>b, <2>1 DEF TokensInv, KeysInv, Slots
    <2>5. PendingInv'
      <3>1. \A c \in Callbacks : fields[c] \subseteq Slots
        BY <1>0 DEF TypeOK, Slots
      <3> QED
        <4> SUFFICES ASSUME NEW c \in Callbacks, pc'[c] = "fields"
                     PROVE  /\ \A d \in Callbacks \ {c} :
                                    pc'[d] = "fields" => got'[d].grant # got'[c].grant
                            /\ \A j \in fields'[c] :
                                /\ store'[j].grant # got'[c].grant
                                /\ \A q \in Processes :
                                    Holds(q) /\ got'[q].kind = j => got'[q].grant # got'[c].grant
          BY <2>2 DEF PendingInv
        <4>1. /\ pc[c] = "fields" /\ got'[c] = got[c] /\ fields'[c] \subseteq fields[c]
              /\ k \in fields'[c] => t.grant # got[c].grant
          BY <1>b
        <4>2. \A d \in Callbacks \ {c} : pc'[d] = "fields" => got'[d].grant # got'[c].grant
          BY <1>b, <4>1 DEF TokensInv, PendingInv
        <4>3. ASSUME NEW j \in fields'[c]
              PROVE  /\ store'[j].grant # got'[c].grant
                     /\ \A q \in Processes :
                            Holds(q) /\ got'[q].kind = j => got'[q].grant # got'[c].grant
          <5>1. j \in fields[c] /\ j \in Slots
            BY <3>1, <4>1, <4>3
          <5>2. /\ store[j].grant # got[c].grant
                /\ \A q \in Processes : Holds(q) /\ got[q].kind = j => got[q].grant # got[c].grant
            BY <4>1, <5>1 DEF TokensInv, PendingInv
          <5> QED
            BY <2>1, <2>3, <4>1, <4>3, <5>1, <5>2
        <4> QED
          BY <4>2, <4>3
    <2>6. \A i \in Refreshes : Returning(i)' => Returning(i)
      BY <1>0, <1>b, ReturningStep
    <2>7. RevokedInv'
      BY <1>b, <2>6 DEF TokensInv, RevokedInv
    <2>8. \A a \in Admins : pc[a] = "done" => Holds(a)
      BY DEF Holds
    <2>9. RevokedIsGone'
      BY <1>0, <1>b, <2>1, <2>8 DEF TokensInv, RevokedIsGone
    <2>10. RevocationSticks'
      BY <1>0, <1>b, <2>1, <2>8 DEF TokensInv, RevocationSticks, Slots
    <2> QED
      BY <2>4, <2>5, <2>7, <2>9, <2>10 DEF Revocations
  <1>10. ASSUME NEW c \in Callbacks, PutField(c) PROVE Goal
    <2>1. PICK k \in fields[c] :
            /\ Put(c, k, First(k, got[c].grant))
            /\ fields' = [fields EXCEPT ![c] = @ \ {k}]
            /\ Goto(c, IF fields[c] = {k} THEN "done" ELSE "fields")
      BY <1>10 DEF PutField
    <2>2. /\ pc[c] = "fields" /\ pc'[c] \in {"done", "fields"}
          /\ fields'[c] = fields[c] \ {k}
          /\ \A q \in Processes \ {c} : pc'[q] = pc[q] /\ fields'[q] = fields[q]
          /\ UNCHANGED <<grants, puts, provider, todo, got, raced>>
      BY <1>0, <1>10, <2>1 DEF PutField, Goto, TypeOK
    <2>3. k \in {"refresh", "access"} /\ got[c].grant \in 1..grants
      BY <1>0, <2>2 DEF TypeOK, BaseInv, KnownInv
    <2> DEFINE t == First(k, got[c].grant)
    <2>4. t \in Token /\ t.kind = k /\ t.grant = got[c].grant /\ t # NoToken
      BY <1>0, <2>3, TokenFacts, StoredKinds
    <2>5. \A q \in Processes : Holds(q) /\ got[q].kind = k => got[q].grant # t.grant
      BY <2>2, <2>4 DEF TokensInv, PendingInv
    <2>6. \A d \in Callbacks : pc'[d] = "fields" =>
            /\ pc[d] = "fields" /\ got'[d] = got[d] /\ fields'[d] \subseteq fields[d]
            /\ k \in fields'[d] => t.grant # got[d].grant
      BY <1>0, <2>2, <2>4 DEF TokensInv, PendingInv
    <2>7. Revocations'
      BY <1>0, <1>b, <2>1, <2>2, <2>3, <2>4, <2>5, <2>6
    <2>8. SinceInv'
      BY <1>0, <2>1, <2>2, <2>3, <2>4, PutSinceStep
    <2> QED
      BY <2>7, <2>8
  <1>11. ASSUME NEW p \in Processes, Fail(p) PROVE Goal
    <2>1. /\ UNCHANGED <<store, grants, provider, raced>> /\ pc'[p] = "failed" /\ todo'[p] = <<>>
          /\ \A q \in Processes \ {p} :
                /\ pc'[q] = pc[q] /\ got'[q] = got[q] /\ todo'[q] = todo[q]
                /\ since'[q] = since[q] /\ fields'[q] = fields[q]
      BY <1>0, <1>11 DEF Fail, Return, Goto, TypeOK
    <2>2. ~Holds(p)' /\ todo'[p] \in Seq({"refresh", "access"})
      BY <1>0, <2>1 DEF Holds
    <2> QED
      BY <2>1, <2>2, TokensQuietStep
  <1>12. CASE AdminPut
    <2>1. Authorize /\ UNCHANGED <<ended, revoked, pc, todo, fields, got, raced>>
      BY <1>12 DEF AdminPut
    <2>2. /\ grants' = grants + 1 /\ grants' \in Nat
          /\ \A g \in 1..grants : current'[g] = current[g] /\ g < grants'
      BY <1>0, <2>1, AuthorizeFacts
    <2>3. PICK k \in {"refresh", "access"} : Put("admin", k, First(k, grants'))
      BY <1>12 DEF AdminPut
    <2>4. PICK t \in Token : t = First(k, grants') /\ t.kind = k /\ t.grant = grants' /\ t # NoToken
      BY <1>0, <2>2, TokenFacts, StoredKinds
    <2>5. \A q \in Processes : Holds(q) => got[q].grant # t.grant
      BY <1>0, <2>2, <2>4, HeldKinds
    <2>6. \A c \in Callbacks : pc[c] = "fields" => got[c].grant # t.grant
      BY <1>0, <2>2, <2>4 DEF BaseInv, KnownInv
    <2>7. Revocations'
      BY <1>0, <1>b, <2>1, <2>2, <2>3, <2>4, <2>5, <2>6
    <2>8. SinceInv'
      <3>1. "admin" \notin Processes
        BY ConstantsOK DEF ConstantsOK, Processes
      <3> QED
        BY <1>0, <2>1, <2>3, <2>4, <3>1, PutSinceStep
    <2> QED
      BY <2>7, <2>8
  <1>13. CASE UNCHANGED vars
    BY <1>13 DEF vars, TokensInv, Revocations, KeysInv, PendingInv, RevokedInv,
       RevokedIsGone, RevocationSticks, SinceInv, Holds, Returning, Accepted
  <1> QED
    BY <1>1, <1>2, <1>3, <1>4, <1>5, <1>6, <1>7, <1>8, <1>9, <1>10, <1>11, <1>12, <1>13 DEF Next

\* What a step may do to a stored token.
Explained ==
    \A s \in Slots :
        LET t == store[s]
            u == store'[s]
        IN  t # NoToken /\ u # t =>
                \/ u = NoToken /\ t \in revoked
                \/ u.grant > t.grant
                \/ u.grant = t.grant /\ u.gen > t.gen
                \/ \E p \in Processes : pc[p] # pc'[p] /\ t \in since[p]
                \/ \E c \in Callbacks : fields[c] # fields'[c] /\ t \in since[c]

\* Whoever changes the store has seen what it replaces, or knows better.
LEMMA ChangesStep ==
    ASSUME TokensInv, [Next]_vars
    PROVE  Explained
  <1>0. /\ BaseInv /\ KeysInv /\ TypeOK /\ grants \in Nat
        /\ Processes = Admins \cup Refreshes \cup Callbacks
    BY DEF TokensInv, BaseInv, TypeOK, Processes
  <1>1. store' = store => Explained
    BY DEF Explained
  <1>2. ASSUME NEW a \in Admins, DeleteRevoked(a) PROVE Explained
    <2> DEFINE k == got[a].kind
    <2>1. k \in Slots
      BY <1>0, <1>2, HeldKinds DEF DeleteRevoked, Delete, Holds, Slots
    <2>2. /\ pc[a] = "delete" /\ pc'[a] # pc[a]
          /\ store'[k] = NoToken /\ \A s \in Slots \ {k} : store'[s] = store[s]
      BY <1>0, <1>2, <2>1 DEF DeleteRevoked, Delete, Goto, TypeOK
    <2>3. got[a] \in revoked /\ store[k] \in {NoToken, got[a]} \cup since[a]
      BY <2>2 DEF TokensInv, RevokedInv, SinceInv
    <2> QED
      BY <1>0, <2>1, <2>2, <2>3 DEF Explained
  <1>3. ASSUME NEW i \in Refreshes, PutReturned(i) PROVE Explained
    <2>1. /\ pc[i] = "put" /\ pc'[i] # pc[i] /\ store'["refresh"] = got[i]
          /\ \A s \in Slots \ {"refresh"} : store'[s] = store[s]
      BY <1>0, <1>3 DEF PutReturned, Put, Goto, TypeOK, Slots
    <2>2. \/ store["refresh"] \in {NoToken} \cup since[i]
          \/ /\ store["refresh"].grant = got[i].grant
             /\ store["refresh"].gen <= got[i].gen
      BY <2>1 DEF TokensInv, SinceInv
    <2>3. store["refresh"].gen \in Nat /\ got[i].gen \in Nat
      <3>1. store["refresh"] \in Token /\ got[i] \in Token
        BY <1>0 DEF TypeOK, Slots
      <3> QED
        BY <3>1, TokenFacts
    <2>4. i \in Processes
      BY <1>0
    <2>5. (/\ store["refresh"] # NoToken /\ store["refresh"].grant = got[i].grant
           /\ store["refresh"].gen = got[i].gen) => store["refresh"] = got[i]
      <3>1. got[i].kind = "refresh" /\ got[i] \in Token
        BY <1>0, <2>1, <2>4, HeldKinds DEF Holds, BaseInv, KindInv
      <3>2. store["refresh"] # NoToken => store["refresh"].kind = "refresh" /\ store["refresh"] \in Token
        BY <1>0, StoredKinds DEF Slots
      <3> QED
        BY <3>1, <3>2, SameToken
    <2> QED
      BY <2>1, <2>2, <2>3, <2>4, <2>5 DEF Explained
  <1>4. ASSUME NEW c \in Callbacks, PutField(c) PROVE Explained
    <2>1. PICK k \in fields[c] : /\ Put(c, k, First(k, got[c].grant))
                                 /\ fields' = [fields EXCEPT ![c] = @ \ {k}]
      BY <1>4 DEF PutField
    <2>2. k \in {"refresh", "access"} /\ k \in Slots /\ got[c].grant \in Nat
      <3>1. got[c] \in Token /\ fields[c] \subseteq {"refresh", "access"}
        BY <1>0 DEF TypeOK
      <3> QED
        BY <2>1, <3>1, TokenFacts DEF Slots
    <2>3. /\ pc[c] = "fields" /\ fields'[c] # fields[c]
          /\ store'[k].grant = got[c].grant /\ \A s \in Slots \ {k} : store'[s] = store[s]
      BY <1>0, <1>4, <2>1, <2>2, TokenFacts DEF PutField, Put, TypeOK
    <2>4. store[k] \in {NoToken} \cup since[c] \/ store[k].grant < got[c].grant
      BY <2>3 DEF TokensInv, SinceInv
    <2>5. store[k] \in Token
      BY <1>0, <2>2 DEF TypeOK
    <2>6. store[k].grant \in Nat
      BY <2>5, TokenFacts
    <2> QED
      BY <2>2, <2>3, <2>4, <2>6 DEF Explained
  <1>5. CASE AdminPut
    <2>1. grants' = grants + 1
      BY <1>5 DEF AdminPut, Authorize
    <2>2. PICK k \in {"refresh", "access"} : Put("admin", k, First(k, grants'))
      BY <1>5 DEF AdminPut
    <2>3. /\ store'[k].grant = grants + 1 /\ \A s \in Slots \ {k} : store'[s] = store[s]
          /\ k \in Slots
      BY <1>0, <2>1, <2>2 DEF Put, TypeOK, Slots, First
    <2>4. store[k] # NoToken => store[k].grant \in 1..grants
      BY <1>0, <2>3, StoredKinds
    <2>5. store[k] # NoToken => store'[k].grant > store[k].grant
      BY <1>0, <2>3, <2>4
    <2> HIDE DEF Slots, NoToken
    <2> QED
      BY <2>3, <2>5 DEF Explained
  <1> QED
    BY <1>1, <1>2, <1>3, <1>4, <1>5
       DEF Next, vars, RevokeRequest, RefreshRequest, Begin, RevokeLook, RefreshLook, Look, BrokerRevokes,
           Refresh, Exchange, Fail
-----------------------------------------------------------------------------
(* Where an older key is read, tokens are not rotated; that a revoked      *)
(* grant stays away then takes only that what is pending is in nobody's    *)
(* hands.                                                                  *)

\* The older key holds the first authorization, if any, and no callback has
\* that one to store; nobody stores a rotated token.
OldKeyInv ==
    /\ grants >= 1
    /\ \A i \in Refreshes : pc[i] # "put"
    /\ store["legacy"].grant <= 1
    /\ \A c \in Callbacks : pc[c] = "fields" => got[c].grant > 1

OldLayoutInv == BaseInv /\ OldKeyInv /\ PendingInv /\ RevocationSticks

\* A step of p that changes no token, after which p has in hand what it had
\* before or a stored one.
LEMMA OldQuietStep ==
    ASSUME OldLayoutInv, NEW p \in Processes,
           UNCHANGED <<store, grants, raced>>,
           \A q \in Processes \ {p} : pc'[q] = pc[q] /\ got'[q] = got[q] /\ fields'[q] = fields[q],
           Holds(p)' => \/ Holds(p) /\ got'[p] = got[p]
                        \/ \E s \in Slots : store[s] # NoToken /\ got'[p] = store[s],
           pc'[p] \notin {"fields", "put"}, p \in Admins => pc'[p] # "done"
    PROVE  OldKeyInv' /\ PendingInv' /\ RevocationSticks'
  <1>0. /\ BaseInv /\ TypeOK /\ grants \in Nat
        /\ Refreshes \subseteq Processes /\ Callbacks \subseteq Processes /\ Admins \subseteq Processes
    BY DEF OldLayoutInv, BaseInv, TypeOK, Processes
  <1>1. OldKeyInv'
    BY <1>0 DEF OldLayoutInv, OldKeyInv
  <1>2. PendingInv'
    <2> SUFFICES ASSUME NEW c \in Callbacks, pc'[c] = "fields"
                 PROVE  /\ \A d \in Callbacks \ {c} : pc'[d] = "fields" => got'[d].grant # got'[c].grant
                        /\ \A k \in fields'[c] :
                            /\ store[k].grant # got'[c].grant
                            /\ \A q \in Processes :
                                Holds(q)' /\ got'[q].kind = k => got'[q].grant # got'[c].grant
      BY DEF PendingInv
    <2>1. c # p /\ pc[c] = "fields" /\ got'[c] = got[c] /\ fields'[c] = fields[c]
      BY <1>0
    <2>2. \A d \in Callbacks \ {c} : pc'[d] = "fields" => got'[d].grant # got'[c].grant
      BY <1>0, <2>1 DEF OldLayoutInv, PendingInv
    <2>3. ASSUME NEW k \in fields[c], NEW q \in Processes, Holds(q)', got'[q].kind = k
          PROVE  got'[q].grant # got[c].grant
      <3>1. CASE Holds(q) /\ got'[q] = got[q]
        BY <2>1, <2>3, <3>1 DEF OldLayoutInv, PendingInv
      <3>2. CASE ~(Holds(q) /\ got'[q] = got[q])
        <4>1. q = p
          BY <2>3, <3>2 DEF Holds
        <4>2. PICK s \in Slots : store[s] # NoToken /\ got'[q] = store[s]
          BY <2>3, <3>2, <4>1
        <4>3. store[s].kind = Kind(s) /\ store[s].grant \in Nat /\ got[c].grant \in Nat
          <5>1. store[s] \in Token /\ got[c] \in Token /\ store[s].kind = Kind(s)
            BY <1>0, <4>2 DEF TypeOK
          <5> QED
            BY <5>1, TokenFacts
        <4>4. CASE s = "legacy"
          BY <2>1, <4>2, <4>3, <4>4 DEF OldLayoutInv, OldKeyInv
        <4>5. CASE s # "legacy"
          <5>1. s = k
            BY <2>3, <4>2, <4>3, <4>5 DEF Slots, Kind
          <5> QED
            BY <2>1, <4>2, <5>1 DEF OldLayoutInv, PendingInv
        <4> QED
          BY <4>4, <4>5
      <3> QED
        BY <3>1, <3>2
    <2> QED
      BY <2>1, <2>2, <2>3 DEF OldLayoutInv, PendingInv
  <1>3. RevocationSticks'
    BY <1>0 DEF OldLayoutInv, RevocationSticks
  <1> QED
    BY <1>1, <1>2, <1>3

\* Without rotations, a revoked grant comes back by no step.
LEMMA OldLayoutStep ==
    ASSUME Layout = "google", OldLayoutInv, [Next]_vars
    PROVE  OldKeyInv' /\ PendingInv' /\ RevocationSticks'
  <1> DEFINE Goal == OldKeyInv' /\ PendingInv' /\ RevocationSticks'
  <1>0. /\ BaseInv /\ TypeOK /\ grants \in Nat
        /\ Processes = Admins \cup Refreshes \cup Callbacks
        /\ \A a \in Admins : a \notin Refreshes /\ a \notin Callbacks
        /\ \A i \in Refreshes : i \notin Admins /\ i \notin Callbacks
        /\ \A c \in Callbacks : c \notin Admins /\ c \notin Refreshes
    BY ConstantsOK DEF OldLayoutInv, BaseInv, TypeOK, ConstantsOK, Processes
  <1>a. ASSUME NEW p \in Processes, NEW slots, Begin(p, slots) PROVE Goal
    <2>1. /\ UNCHANGED <<store, grants, fields, raced, got>> /\ pc'[p] = "look"
          /\ \A q \in Processes \ {p} : pc'[q] = pc[q]
      BY <1>0, <1>a DEF Begin, Goto, TypeOK
    <2> QED
      BY <2>1, OldQuietStep DEF Holds
  <1>b. ASSUME NEW p \in Processes, NEW found, Look(p, found),
               \/ p \in Admins /\ found = "broker"
               \/ p \in Refreshes /\ found = "exchange"
        PROVE  Goal
    <2>1. pc[p] = "look" /\ todo[p] # <<>> /\ todo[p] \in Seq(Slots)
      BY <1>0, <1>b DEF Look, BaseInv, KnownInv, TypeOK
    <2>2. Head(todo[p]) \in Slots
      BY <2>1
    <2>3. /\ UNCHANGED <<store, grants, fields, raced>>
          /\ \A q \in Processes \ {p} : pc'[q] = pc[q] /\ got'[q] = got[q]
          /\ \/ pc'[p] = found /\ \E s \in Slots : store[s] # NoToken /\ got'[p] = store[s]
             \/ pc'[p] \in {"failed", "look"}
      BY <1>0, <1>b, <2>2 DEF Look, Goto, TypeOK
    <2> QED
      BY <1>0, <1>b, <2>3, OldQuietStep DEF Holds
  <1>1. ASSUME NEW a \in Admins, RevokeRequest(a) PROVE Goal
    BY <1>0, <1>1, <1>a DEF RevokeRequest
  <1>2. ASSUME NEW a \in Admins, RevokeLook(a) PROVE Goal
    BY <1>0, <1>2, <1>b DEF RevokeLook
  <1>3. ASSUME NEW a \in Admins, BrokerRevokes(a) PROVE Goal
    <2>1. /\ pc[a] = "broker" /\ pc'[a] \in {"delete", "failed"}
          /\ \A q \in Processes \ {a} : pc'[q] = pc[q]
          /\ UNCHANGED <<store, grants, fields, got, raced>>
      BY <1>0, <1>3 DEF BrokerRevokes, Goto, TypeOK
    <2> QED
      BY <1>0, <2>1, OldQuietStep DEF Holds
  <1>4. ASSUME NEW a \in Admins, DeleteRevoked(a) PROVE Goal
    <2> DEFINE k == got[a].kind
    <2>1. Holds(a) /\ k \in {"refresh", "access"} /\ k \in Slots
      BY <1>0, <1>4, HeldKinds DEF DeleteRevoked, Delete, Holds, Slots
    <2>2. /\ pc[a] = "delete" /\ pc'[a] = "done"
          /\ store'[k] = NoToken /\ \A s \in Slots \ {k} : store'[s] = store[s]
          /\ \A q \in Processes \ {a} : pc'[q] = pc[q]
          /\ \A b \in Admins \ {a} : raced'[b] = raced[b]
          /\ UNCHANGED <<grants, fields, got>>
      BY <1>0, <1>4, <2>1 DEF DeleteRevoked, Delete, Goto, TypeOK
    <2>3. \A q \in Processes : Holds(q)' => Holds(q)
      BY <1>0, <2>1, <2>2 DEF Holds
    <2>4. \A b \in Admins : pc'[b] = "done" => got[b].grant \in 1..grants
      BY <1>0, <2>1, <2>2, HeldKinds DEF Holds
    <2>5. NoToken.grant = 0
      BY DEF NoToken
    <2>6. OldKeyInv'
      BY <1>0, <2>1, <2>2 DEF OldLayoutInv, OldKeyInv, Slots
    <2>7. PendingInv'
      <3>1. \A c \in Callbacks : pc[c] = "fields" =>
                got[c].grant \in 1..grants /\ fields[c] \subseteq {"refresh", "access"}
        BY <1>0 DEF BaseInv, KnownInv, TypeOK
      <3> QED
        BY <1>0, <2>1, <2>2, <2>3, <2>5, <3>1 DEF OldLayoutInv, PendingInv, Slots
    <2>8. RevocationSticks'
      BY <1>0, <2>1, <2>2, <2>4, <2>5 DEF OldLayoutInv, RevocationSticks, Slots
    <2> QED
      BY <2>6, <2>7, <2>8
  <1>5. ASSUME NEW i \in Refreshes, RefreshRequest(i) PROVE Goal
    BY <1>0, <1>5, <1>a DEF RefreshRequest
  <1>6. ASSUME NEW i \in Refreshes, RefreshLook(i) PROVE Goal
    BY <1>0, <1>6, <1>b DEF RefreshLook
  <1>7. ASSUME NEW i \in Refreshes, Refresh(i) PROVE Goal
    <2>1. /\ pc'[i] = "done" /\ UNCHANGED <<store, grants, raced>>
          /\ \A q \in Processes \ {i} : pc'[q] = pc[q] /\ got'[q] = got[q] /\ fields'[q] = fields[q]
      BY <1>0, <1>7 DEF Refresh, Return, Goto, TypeOK
    <2> QED
      BY <1>0, <2>1, OldQuietStep DEF Holds
  <1>8. ASSUME NEW i \in Refreshes, PutReturned(i) PROVE Goal
    BY <1>8 DEF PutReturned, OldLayoutInv, OldKeyInv
  <1>9. ASSUME NEW c \in Callbacks, Exchange(c) PROVE Goal
    <2>0. Authorize /\ UNCHANGED <<store, raced>>
      BY <1>9 DEF Exchange
    <2>1. grants' = grants + 1 /\ grants' \in Nat
      BY <1>0, <2>0 DEF Authorize
    <2>2. /\ pc'[c] = "fields" /\ got'[c].grant = grants'
          /\ \A q \in Processes \ {c} : pc'[q] = pc[q] /\ got'[q] = got[q]
          /\ \A d \in Callbacks \ {c} : fields'[d] = fields[d]
      BY <1>0, <1>9, <2>1, TokenFacts DEF Exchange, Goto, TypeOK
    <2>3. \A q \in Processes : Holds(q)' => Holds(q) /\ q # c
      BY <1>0, <2>2 DEF Holds
    <2>4. fields'[c] \subseteq {"refresh", "access"}
      BY <1>0, <1>9, ConstantsOK DEF Exchange, TypeOK, ConstantsOK
    <2>5. \A k \in Slots : store[k].grant <= grants /\ store[k].grant \in Nat
      BY <1>0, TokenFacts DEF BaseInv, KnownInv, Known, TypeOK, NoToken
    <2>6. \A d \in Callbacks : pc[d] = "fields" => got[d].grant # grants'
      BY <1>0, <2>1 DEF BaseInv, KnownInv
    <2>7. \A q \in Processes : Holds(q) => got[q].grant # grants'
      BY <1>0, <2>1, HeldKinds
    <2>8. OldKeyInv'
      BY <1>0, <2>0, <2>1, <2>2 DEF OldLayoutInv, OldKeyInv
    <2>9. PendingInv'
      BY <1>0, <2>0, <2>1, <2>2, <2>3, <2>4, <2>5, <2>6, <2>7 DEF OldLayoutInv, PendingInv, Slots
    <2>10. RevocationSticks'
      BY <1>0, <2>0, <2>2 DEF OldLayoutInv, RevocationSticks
    <2> QED
      BY <2>8, <2>9, <2>10
  <1>10. ASSUME NEW c \in Callbacks, PutField(c) PROVE Goal
    <2>1. PICK k \in fields[c] :
            /\ Put(c, k, First(k, got[c].grant))
            /\ fields' = [fields EXCEPT ![c] = @ \ {k}]
            /\ Goto(c, IF fields[c] = {k} THEN "done" ELSE "fields")
      BY <1>10 DEF PutField
    <2>2. /\ pc[c] = "fields" /\ pc'[c] \in {"done", "fields"}
          /\ fields'[c] = fields[c] \ {k}
          /\ \A q \in Processes \ {c} : pc'[q] = pc[q] /\ fields'[q] = fields[q]
          /\ UNCHANGED <<grants, got, raced>>
      BY <1>0, <1>10, <2>1 DEF PutField, Goto, TypeOK
    <2>3. k \in {"refresh", "access"} /\ k \in Slots /\ got[c].grant \in 1..grants
      BY <1>0, <2>2 DEF TypeOK, BaseInv, KnownInv, Slots
    <2>4. store'[k].grant = got[c].grant /\ \A s \in Slots \ {k} : store'[s] = store[s]
      BY <1>0, <2>1, <2>3, TokenFacts DEF Put, TypeOK
    <2>5. \A q \in Processes : Holds(q)' <=> Holds(q)
      BY <1>0, <2>2 DEF Holds
    <2>6. \A q \in Processes : Holds(q) /\ got[q].kind = k => got[q].grant # got[c].grant
      BY <2>2 DEF OldLayoutInv, PendingInv
    <2>7. OldKeyInv'
      BY <1>0, <2>2, <2>3, <2>4 DEF OldLayoutInv, OldKeyInv, Slots
    <2>8. PendingInv'
      <3>1. \A d \in Callbacks : fields[d] \subseteq Slots
        BY <1>0 DEF TypeOK, Slots
      <3> SUFFICES ASSUME NEW d \in Callbacks, pc'[d] = "fields"
                   PROVE  /\ \A e \in Callbacks \ {d} : pc'[e] = "fields" => got'[e].grant # got'[d].grant
                          /\ \A j \in fields'[d] :
                              /\ store'[j].grant # got'[d].grant
                              /\ \A q \in Processes :
                                    Holds(q)' /\ got'[q].kind = j => got'[q].grant # got'[d].grant
        BY DEF PendingInv
      <3>2. pc[d] = "fields" /\ \A e \in Callbacks \ {d} : pc'[e] = "fields" => pc[e] = "fields"
        BY <1>0, <2>2
      <3>3. \A e \in Callbacks \ {d} : pc'[e] = "fields" => got'[e].grant # got'[d].grant
        BY <2>2, <3>2 DEF OldLayoutInv, PendingInv
      <3>4. ASSUME NEW j \in fields'[d] PROVE store'[j].grant # got[d].grant
        <4>1. j \in fields[d] /\ j \in Slots /\ (d = c => j # k)
          BY <1>0, <2>2, <3>1, <3>4
        <4>2. CASE j = k
          BY <2>2, <2>4, <3>2, <4>1, <4>2 DEF OldLayoutInv, PendingInv
        <4>3. CASE j # k
          BY <2>4, <3>2, <4>1, <4>3 DEF OldLayoutInv, PendingInv
        <4> QED
          BY <4>2, <4>3
      <3>5. ASSUME NEW j \in fields'[d], NEW q \in Processes, Holds(q), got[q].kind = j
            PROVE  got[q].grant # got[d].grant
        <4>1. j \in fields[d]
          BY <1>0, <2>2, <3>5
        <4> QED
          BY <3>2, <3>5, <4>1 DEF OldLayoutInv, PendingInv
      <3> QED
        BY <2>2, <2>5, <3>3, <3>4, <3>5
    <2>9. RevocationSticks'
      <3>1. \A a \in Admins : pc[a] = "done" => Holds(a)
        BY DEF Holds
      <3> QED
        BY <1>0, <2>2, <2>3, <2>4, <2>6, <3>1 DEF OldLayoutInv, RevocationSticks, Slots
    <2> QED
      BY <2>7, <2>8, <2>9
  <1>11. ASSUME NEW p \in Processes, Fail(p) PROVE Goal
    <2>1. /\ UNCHANGED <<store, grants, raced>> /\ pc'[p] = "failed"
          /\ \A q \in Processes \ {p} : pc'[q] = pc[q] /\ got'[q] = got[q] /\ fields'[q] = fields[q]
      BY <1>0, <1>11 DEF Fail, Return, Goto, TypeOK
    <2> QED
      BY <2>1, OldQuietStep DEF Holds
  <1>12. CASE AdminPut
    BY <1>12 DEF AdminPut
  <1>13. CASE UNCHANGED vars
    BY <1>13 DEF vars, OldLayoutInv, OldKeyInv, PendingInv, RevocationSticks, Holds
  <1> QED
    BY <1>1, <1>2, <1>3, <1>4, <1>5, <1>6, <1>7, <1>8, <1>9, <1>10, <1>11, <1>12, <1>13 DEF Next
-----------------------------------------------------------------------------
\* Type correctness, for every layout of the keys.
THEOREM TokensTyped == Spec => []TypeOK
  <1>1. BaseInv => TypeOK
    BY DEF BaseInv
  <1> QED
    BY <1>1, InitTokens, BaseStep, PTL DEF Spec

\* The invariant, where no older key is read: with one, it does not hold.
THEOREM TokensInvariant ==
  ASSUME Layout # "google"
  PROVE  Spec => []TokensInv
  <1>1. TokensInv /\ [Next]_vars => TokensInv'
    <2> SUFFICES ASSUME TokensInv, [Next]_vars PROVE TokensInv'
      OBVIOUS
    <2>1. BaseInv'
      BY BaseStep DEF TokensInv
    <2>2. Revocations' /\ SinceInv'
      BY TokensStep
    <2> QED
      BY <2>1, <2>2 DEF TokensInv, Revocations
  <1>2. Init => TokensInv
    BY InitTokens
  <1> QED
    BY <1>1, <1>2, PTL DEF Spec

\* Once a revoke request is answered with success, the token that the broker was
\* given is stored no more, whatever callbacks, refreshes and other revoke
\* requests do meanwhile and later: unless a refresh under way when it was deleted
\* has it as its answer.
THEOREM RevokedStaysGone ==
  ASSUME Layout # "google"
  PROVE  Spec => []RevokedIsGone
  <1>1. TokensInv => RevokedIsGone
    BY DEF TokensInv
  <1> QED
    BY <1>1, TokensInvariant, PTL

\* The grant of a revoked refresh token does not come back either, whatever the
\* layout of the keys, but by a refresh that was under way when its token was
\* deleted, with an answer of the provider to come or still to be stored.
THEOREM GrantStaysGone == Spec => []RevocationSticks
  <1>1. ASSUME Layout # "google" PROVE Spec => []RevocationSticks
    <2>1. TokensInv => RevocationSticks
      BY DEF TokensInv
    <2>2. Spec => []TokensInv
      BY <1>1, TokensInvariant
    <2> QED
      BY <2>1, <2>2, PTL
  <1>2. ASSUME Layout = "google" PROVE Spec => []RevocationSticks
    <2>1. Init => OldLayoutInv
      <3> SUFFICES ASSUME Init PROVE OldKeyInv /\ PendingInv /\ RevocationSticks
        BY InitTokens DEF OldLayoutInv
      <3>1. \A p \in Admins \cup Refreshes \cup Callbacks : pc[p] = "idle"
        BY DEF Init, Processes
      <3>2. store["legacy"].grant = 1 /\ grants = 1
        BY <1>2 DEF Init, First, Slots
      <3> QED
        BY <3>1, <3>2 DEF OldKeyInv, PendingInv, RevocationSticks
    <2>2. OldLayoutInv /\ [Next]_vars => OldLayoutInv'
      BY <1>2, BaseStep, OldLayoutStep DEF OldLayoutInv
    <2>3. OldLayoutInv => RevocationSticks
      BY DEF OldLayoutInv
    <2> QED
      BY <2>1, <2>2, <2>3, PTL DEF Spec
  <1> QED
    BY <1>1, <1>2

\* No stored token is lost without a reason.
THEOREM NothingLostUnexplained ==
  ASSUME Layout # "google"
  PROVE  Spec => ChangesExplained
  <1>1. TokensInv /\ [Next]_vars => Explained
    BY ChangesStep
  <1>2. Explained => Explained \/ UNCHANGED vars
    OBVIOUS
  <1> QED
    BY <1>1, <1>2, TokensInvariant, PTL DEF Spec, ChangesExplained, Explained
=============================================================================
