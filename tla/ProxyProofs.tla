---------------------------- MODULE ProxyProofs ----------------------------
(***************************************************************************)
(* Proofs about the proxy: about what ProxyRequest lets pass, for any      *)
(* connections, requests, configurations and numbers of reloads, and about *)
(* CertAuthority, for any processes, paths, reloads and crashes.           *)
(*                                                                         *)
(* What goes upstream is decided several steps before: ProxyInv says what  *)
(* is known of a connection in between, namely that its request has been   *)
(* cleared by the configuration the handler holds, and what an injection   *)
(* has added.                                                              *)
(*                                                                         *)
(* The files of a CA are read and written one by one: CAInv says what they *)
(* hold at each point of a creation, and that nobody else is at work there *)
(* unless the pair of paths counts as disturbed.                           *)
(***************************************************************************)
EXTENDS ProxyRequest, CertAuthority, WellFoundedInduction, FiniteSetTheorems, TLAPS

(* Requests.                                                               *)

\* What Evaluate decides lets a request pass.
Cleared(c, q, wasApproved) ==
    \/ Evaluate(c, q).action = "allow"
    \/ Evaluate(c, q).action = "approval" /\ wasApproved

\* Past the policy a request or CONNECT is cleared; in a wait it needs no more
\* than an approval.
ClearedAt(k) ==
    /\ pc[k] \in {"choose", "handshake", "dial", "inject", "send"} =>
            Cleared(snap[k], asked[k], approved[k])
    /\ pc[k] \in {"connectHeld", "held"} => Decision(k).action = "approval"

ClearedInv == \A k \in Conns : ClearedAt(k)

\* The handler's configuration is the one of its request's arrival, and past the
\* injection the request has what its rule asks for.
HandlerInv ==
    \A k \in Conns :
        /\ judged[k] = born[k]
        /\ pc[k] = "send" =>
            /\ (injected[k] = "token") <=> Decision(k).credentials
            /\ Decision(k).credentials => Target \in Decision(k).hosts

\* A direction is over because its sender has ended or nobody reads it.
PipeInv ==
    \A k \in Conns, s \in Sides :
        (pc[k] \in Piped /\ s \in copied[k]) =>
            peer[k][s] # "sending" \/ peer[k][Other(s)] = "gone"

ProxyInv == TypeOK /\ ClearedInv /\ HandlerInv /\ PipeInv
-----------------------------------------------------------------------------
(* The policy.                                                             *)

\* A set of numbers that is not empty has a least element, which Min chooses.
LEMMA MinIsLeast ==
    ASSUME NEW S \in SUBSET Nat, S # {}
    PROVE  Min(S) \in S /\ \A y \in S : Min(S) <= y
  <1> DEFINE R == {ss \in Nat \X Nat : ss[1] < ss[2]}
  <1>1. IsWellFoundedOn(R, Nat)
    BY NatLessThanWellFounded, Zenon DEF OpToRel
  <1>2. PICK x \in S : \A y \in S : <<y, x>> \notin R
    <2> HIDE DEF R
    <2> QED
      BY <1>1, WFMin
  <1>3. ASSUME NEW y \in S PROVE x <= y
    <2>1. x \in Nat /\ y \in Nat
      OBVIOUS
    <2>2. CASE y < x
      <3>1. <<y, x>> \in Nat \X Nat /\ <<y, x>>[1] = y /\ <<y, x>>[2] = x
        BY <2>1
      <3>2. <<y, x>> \in R
        BY <3>1, <2>2
      <3> QED
        BY <1>2, <3>2
    <2> QED
      BY <2>1, <2>2
  <1> QED
    BY <1>3 DEF Min

\* Evaluate returns the first rule that matches, if there is one.
LEMMA FirstMatch ==
    ASSUME NEW c \in Configs, NEW q, NEW i \in DOMAIN c.rules, RuleMatches(c.rules[i], q)
    PROVE  \E m \in DOMAIN c.rules :
            /\ m <= i /\ RuleMatches(c.rules[m], q)
            /\ \A j \in DOMAIN c.rules : RuleMatches(c.rules[j], q) => m <= j
            /\ Evaluate(c, q) = c.rules[m]
  <1> DEFINE hits == {n \in DOMAIN c.rules : RuleMatches(c.rules[n], q)}
  <1>1. DOMAIN c.rules \subseteq Nat
    BY ConstantsOK DEF ConfigType
  <1>2. hits \in SUBSET Nat /\ hits # {} /\ i \in hits
    BY <1>1
  <1>3. Min(hits) \in hits /\ \A y \in hits : Min(hits) <= y
    BY <1>2, MinIsLeast
  <1>4. Evaluate(c, q) = c.rules[Min(hits)]
    BY <1>2 DEF Evaluate
  <1> QED
    BY <1>2, <1>3, <1>4

\* ... and NoRule otherwise.
LEMMA NoMatch ==
    ASSUME NEW c \in Configs, NEW q, \A i \in DOMAIN c.rules : ~RuleMatches(c.rules[i], q)
    PROVE  Evaluate(c, q) = NoRule
  BY DEF Evaluate

\* What is decided is an action, and whether there are credentials.
LEMMA DecisionType ==
    ASSUME NEW c \in Configs, NEW q
    PROVE  /\ Evaluate(c, q).action \in Actions
           /\ Evaluate(c, q).credentials \in BOOLEAN
  <1>1. CASE \E i \in DOMAIN c.rules : RuleMatches(c.rules[i], q)
    <2>1. PICK m \in DOMAIN c.rules : Evaluate(c, q) = c.rules[m]
      BY <1>1, FirstMatch
    <2>2. c.rules[m] \in Rule
      BY ConstantsOK DEF ConfigType
    <2> QED
      BY <2>1, <2>2 DEF Rule
  <1>2. CASE ~\E i \in DOMAIN c.rules : RuleMatches(c.rules[i], q)
    <2>1. Evaluate(c, q) = NoRule
      BY <1>2, NoMatch
    <2> QED
      BY <2>1 DEF NoRule, Actions
  <1> QED
    BY <1>1, <1>2

\* What is cleared passes the rules in their order.
LEMMA ClearedPasses ==
    ASSUME NEW c \in Configs, NEW q, NEW a \in BOOLEAN, Cleared(c, q, a)
    PROVE  Passes(c.rules, q, a)
  <1> SUFFICES ASSUME NEW i \in DOMAIN c.rules, RuleMatches(c.rules[i], q),
                      \A j \in 1..(i - 1) : ~RuleMatches(c.rules[j], q)
               PROVE  c.rules[i].action = "allow" \/ (c.rules[i].action = "approval" /\ a)
    BY DEF Passes
  <1>1. PICK m \in DOMAIN c.rules :
            m <= i /\ RuleMatches(c.rules[m], q) /\ Evaluate(c, q) = c.rules[m]
    BY FirstMatch
  <1>2. m \in Nat \ {0} /\ i \in Nat
    BY ConstantsOK DEF ConfigType
  <1>3. m = i
    BY <1>1, <1>2
  <1> QED
    BY <1>1, <1>3 DEF Cleared

\* A rule with credentials is one of the rules, and its hosts are its own.
LEMMA CredentialRule ==
    ASSUME NEW c \in Configs, NEW q, Evaluate(c, q).credentials,
           Target \in Evaluate(c, q).hosts
    PROVE  \E i \in DOMAIN c.rules : c.rules[i].credentials /\ Target \in c.rules[i].hosts
  <1>1. PICK i \in DOMAIN c.rules : RuleMatches(c.rules[i], q)
    BY NoMatch DEF NoRule
  <1> QED
    BY <1>1, FirstMatch

-----------------------------------------------------------------------------
\* The initial states satisfy the invariant.
LEMMA InitProxyInv == Init => ProxyInv
  <1> SUFFICES ASSUME Init PROVE ProxyInv
    OBVIOUS
  <1>1. TypeOK
    BY ConstantsOK DEF Init, TypeOK, Between, Asked, ConnectRequest, Upstream
  <1> QED
    BY <1>1 DEF Init, ProxyInv, ClearedInv, ClearedAt, HandlerInv, PipeInv, Piped

\* What goes upstream has the form of a record of it.
LEMMA SendType ==
    ASSUME TypeOK, NEW k \in Conns, NEW what \in {"request", "tunnel", "websocket"},
           Send(k, what)
    PROVE  sent' \subseteq Upstream
  <1> DEFINE u == [what |-> what, config |-> snap[k], asked |-> asked[k],
                   approved |-> approved[k], injected |-> injected[k],
                   late |-> judged[k] < born[k]]
  <1>1. (judged[k] < born[k]) \in BOOLEAN
    OBVIOUS
  <1>2. u \in Upstream
    BY <1>1 DEF TypeOK, Upstream
  <1> QED
    BY <1>2 DEF TypeOK, Send

\* A tunnel begins with both peers sending.
LEMMA PipeType ==
    ASSUME TypeOK, NEW k \in Conns, Pipe(k) \/ UNCHANGED pipeVars
    PROVE  /\ peer' \in [Conns -> [Sides -> {"sending", "finished", "gone"}]]
           /\ copied' \in [Conns -> SUBSET Sides]
  <1>1. CASE Pipe(k)
    <2>1. [s \in Sides |-> "sending"] \in [Sides -> {"sending", "finished", "gone"}]
      OBVIOUS
    <2>2. {} \in SUBSET Sides
      OBVIOUS
    <2> QED
      BY <1>1, <2>1, <2>2 DEF TypeOK, Pipe
  <1>2. CASE UNCHANGED pipeVars
    BY <1>2 DEF TypeOK, pipeVars
  <1> QED
    BY <1>1, <1>2

\* Where the policy lets a CONNECT or a request go.
LEMMA ConnectMoves ==
    ASSUME config \in Configs, NEW k \in Conns, Connect(k)
    PROVE  \E where \in {"connectHeld", "choose", "closed"} : pc' = [pc EXCEPT ![k] = where]
  <1>1. Evaluate(config, ConnectRequest).action \in Actions
    BY DecisionType
  <1> QED
    BY <1>1 DEF Connect, Authorize, Actions, Goto

\* A new request is held, gets its credentials, or is answered.
LEMMA RequestMoves ==
    ASSUME config \in Configs, NEW k \in Conns, NEW q, Request(k, q)
    PROVE  \E where \in {"held", "inject", Answered(k)} : pc' = [pc EXCEPT ![k] = where]
  <1>1. Evaluate(config, q).action \in Actions
    BY DecisionType
  <1> QED
    BY <1>1 DEF Request, Authorize, Actions, Goto

\* Every variable keeps its type.
LEMMA TypeStep == TypeOK /\ [Next]_vars => TypeOK'
  <1> SUFFICES ASSUME TypeOK, [Next]_vars PROVE TypeOK'
    OBVIOUS
  <1> USE ConstantsOK DEF TypeOK, configVars, requestVars, pipeVars, Goto, Answered,
          Between, Connecting, Working, Piped, Sides
  <1>1. ASSUME NEW k \in Conns, Connect(k) PROVE TypeOK'
    <2>1. ConnectRequest \in Asked
      BY DEF ConnectRequest, Asked
    <2>2. Evaluate(config, ConnectRequest).action \in Actions
      BY DecisionType
    <2> QED
      BY <1>1, <2>1, <2>2 DEF Connect, Snapshot, Authorize, Actions
  <1>2. ASSUME NEW k \in Conns, Choose(k) \/ Handshake(k) PROVE TypeOK'
    BY <1>2 DEF Choose, Handshake
  <1>2d. ASSUME NEW k \in Conns, Dial(k) PROVE TypeOK'
    <2>1. sent' \subseteq Upstream
      BY <1>2d, SendType DEF Dial
    <2>2. /\ peer' \in [Conns -> [Sides -> {"sending", "finished", "gone"}]]
          /\ copied' \in [Conns -> SUBSET Sides]
      BY <1>2d, PipeType DEF Dial
    <2> QED
      BY <1>2d, <2>1, <2>2 DEF Dial
  <1>3. ASSUME NEW k \in Conns, NEW m \in Methods, NEW p \in Paths,
               Request(k, [method |-> m, path |-> p])
        PROVE  TypeOK'
    <2> DEFINE q == [method |-> m, path |-> p]
    <2>1. q \in Asked
      BY DEF Asked
    <2>2. Evaluate(config, q).action \in Actions
      BY DecisionType
    <2>3. count' \in [Conns -> 0..MaxRequests]
      BY <1>3 DEF Request, Arrives
    <2> HIDE DEF q
    <2> QED
      BY <1>3, <2>1, <2>2, <2>3 DEF Request, Snapshot, Authorize, Actions, q
  <1>4. ASSUME NEW k \in Conns, Approve(k) PROVE TypeOK'
    BY <1>4 DEF Approve
  <1>5. ASSUME NEW k \in Conns, Refuse(k) PROVE TypeOK'
    BY <1>5 DEF Refuse
  <1>6. ASSUME NEW k \in Conns, Inject(k) PROVE TypeOK'
    BY <1>6 DEF Inject
  <1>7. ASSUME NEW k \in Conns, Forward(k) PROVE TypeOK'
    <2>1. sent' \subseteq Upstream
      BY <1>7, SendType DEF Forward
    <2> QED
      BY <1>7, <2>1 DEF Forward
  <1>8. ASSUME NEW k \in Conns, Upgrade(k) PROVE TypeOK'
    <2>1. sent' \subseteq Upstream
      BY <1>8, SendType DEF Upgrade
    <2>2. /\ peer' \in [Conns -> [Sides -> {"sending", "finished", "gone"}]]
          /\ copied' \in [Conns -> SUBSET Sides]
      BY <1>8, PipeType DEF Upgrade
    <2>3. pc' \in [Conns -> Between \cup Connecting \cup Working \cup Piped \cup {"closed"}]
      BY <1>8 DEF Upgrade
    <2> QED
      BY <1>8, <2>1, <2>2, <2>3 DEF Upgrade
  <1>9. ASSUME NEW k \in Conns, Close(k) PROVE TypeOK'
    BY <1>9 DEF Close
  <1>10. ASSUME NEW k \in Conns, NEW s \in Sides, PeerEnds(k, s) PROVE TypeOK'
    <2>1. PICK to \in {"finished", "gone"} : peer' = [peer EXCEPT ![k][s] = to]
      BY <1>10 DEF PeerEnds
    <2>2. peer' \in [Conns -> [Sides -> {"sending", "finished", "gone"}]]
      BY <2>1
    <2> QED
      BY <1>10, <2>2 DEF PeerEnds
  <1>11. ASSUME NEW k \in Conns, NEW s \in Sides, CopyEnds(k, s) \/ CopyFails(k, s)
         PROVE  TypeOK'
    BY <1>11 DEF CopyEnds, CopyFails
  <1>12. ASSUME NEW k \in Conns, PipeOver(k) PROVE TypeOK'
    BY <1>12 DEF PipeOver
  <1>13. CASE Reload
    BY <1>13 DEF Reload
  <1>14. CASE UNCHANGED vars
    BY <1>14 DEF vars
  <1> HIDE DEF TypeOK
  <1>15. ASSUME NEW k \in Conns, Handle(k) \/ Await(k) PROVE TypeOK'
    BY <1>15, <1>2, <1>2d, <1>5, <1>6, <1>7, <1>8, <1>11, <1>12 DEF Handle, Await
  <1> QED
    BY <1>1, <1>3, <1>4, <1>9, <1>10, <1>11, <1>13, <1>14, <1>15 DEF Next
-----------------------------------------------------------------------------
(* What is known of a connection between two steps.                        *)

\* The policy lets a request or CONNECT on only if it is cleared, and holds it
\* only if the rule says so; what was cleared stays so until the next one.
LEMMA ClearedStep == ProxyInv /\ [Next]_vars => ClearedInv'
  <1> SUFFICES ASSUME ProxyInv, [Next]_vars PROVE ClearedInv'
    OBVIOUS
  <1> USE DEF ProxyInv, TypeOK, ClearedInv, ClearedAt, Decision, Cleared, configVars, requestVars,
          pipeVars, Goto, Answered
  <1>1. ASSUME NEW k \in Conns, Connect(k) PROVE ClearedInv'
    <2>1. Evaluate(config, ConnectRequest).action \in Actions
      BY DecisionType
    <2>2. /\ snap'[k] = config /\ asked'[k] = ConnectRequest /\ approved'[k] = FALSE
          /\ \A j \in Conns \ {k} : /\ pc'[j] = pc[j] /\ snap'[j] = snap[j]
                                    /\ asked'[j] = asked[j] /\ approved'[j] = approved[j]
      <3>1. PICK where : pc' = [pc EXCEPT ![k] = where]
        BY <1>1, ConnectMoves
      <3> QED
        BY <1>1, <3>1 DEF Connect, Snapshot
    <2>3. \/ pc'[k] = "closed"
          \/ pc'[k] = "connectHeld" /\ Evaluate(config, ConnectRequest).action = "approval"
          \/ pc'[k] = "choose" /\ Evaluate(config, ConnectRequest).action = "allow"
      BY <1>1, <2>1 DEF Connect, Authorize, Actions
    <2>4. \A j \in Conns \ {k} : ClearedAt(j)'
      BY <2>2
    <2>5. ClearedAt(k)'
      BY <2>2, <2>3
    <2> QED
      BY <2>4, <2>5
  <1>2. ASSUME NEW k \in Conns, Choose(k) \/ Handshake(k) \/ Dial(k) PROVE ClearedInv'
    BY <1>2 DEF Choose, Handshake, Dial
  <1>3. ASSUME NEW k \in Conns, NEW q, Request(k, q) PROVE ClearedInv'
    <2>1. Evaluate(config, q).action \in Actions
      BY DecisionType
    <2>2. /\ snap'[k] = config /\ asked'[k] = q /\ approved'[k] = FALSE
          /\ \A j \in Conns \ {k} : /\ pc'[j] = pc[j] /\ snap'[j] = snap[j]
                                    /\ asked'[j] = asked[j] /\ approved'[j] = approved[j]
      <3>1. PICK where : pc' = [pc EXCEPT ![k] = where]
        BY <1>3, RequestMoves
      <3> QED
        BY <1>3, <3>1 DEF Request, Snapshot
    <2>3. \/ pc'[k] \in {"ready", "closed"}
          \/ pc'[k] = "held" /\ Evaluate(config, q).action = "approval"
          \/ pc'[k] = "inject" /\ Evaluate(config, q).action = "allow"
      BY <1>3, <2>1 DEF Request, Authorize, Actions
    <2>4. \A j \in Conns \ {k} : ClearedAt(j)'
      BY <2>2
    <2>5. ClearedAt(k)'
      BY <2>2, <2>3
    <2> QED
      BY <2>4, <2>5
  <1>4. ASSUME NEW k \in Conns, Approve(k) PROVE ClearedInv'
    BY <1>4 DEF Approve
  <1>5. ASSUME NEW k \in Conns, Refuse(k) PROVE ClearedInv'
    BY <1>5 DEF Refuse
  <1>6. ASSUME NEW k \in Conns, Inject(k) PROVE ClearedInv'
    BY <1>6 DEF Inject
  <1>7. ASSUME NEW k \in Conns, Forward(k) PROVE ClearedInv'
    BY <1>7 DEF Forward
  <1>8. ASSUME NEW k \in Conns, Upgrade(k) PROVE ClearedInv'
    BY <1>8 DEF Upgrade
  <1>9. ASSUME NEW k \in Conns, Close(k) \/ PipeOver(k) PROVE ClearedInv'
    BY <1>9 DEF Close, PipeOver
  <1>10. ASSUME NEW k \in Conns, NEW s \in Sides,
                PeerEnds(k, s) \/ CopyEnds(k, s) \/ CopyFails(k, s)
         PROVE  ClearedInv'
    BY <1>10 DEF PeerEnds, CopyEnds, CopyFails
  <1>11. CASE Reload
    BY <1>11 DEF Reload
  <1>12. CASE UNCHANGED vars
    BY <1>12 DEF vars
  <1> QED
    BY <1>1, <1>2, <1>3, <1>4, <1>5, <1>6, <1>7, <1>8, <1>9, <1>10, <1>11, <1>12
       DEF Next, Handle, Await

\* The handler takes the configuration when the request arrives, and Inject
\* leaves the request with what its rule asks for, or not at all.
LEMMA HandlerStep == ProxyInv /\ [Next]_vars => HandlerInv'
  <1> SUFFICES ASSUME ProxyInv, [Next]_vars PROVE HandlerInv'
    OBVIOUS
  <1> USE DEF ProxyInv, TypeOK, HandlerInv, Decision, configVars, requestVars,
          pipeVars, Goto, Answered
  <1>1. ASSUME NEW k \in Conns, Connect(k) PROVE HandlerInv'
    <2>1. \E where \in {"connectHeld", "choose", "closed"} : pc' = [pc EXCEPT ![k] = where]
      BY <1>1, ConnectMoves
    <2> QED
      BY <1>1, <2>1 DEF Connect, Snapshot
  <1>2. ASSUME NEW k \in Conns, Choose(k) \/ Handshake(k) \/ Dial(k) PROVE HandlerInv'
    BY <1>2 DEF Choose, Handshake, Dial
  <1>3. ASSUME NEW k \in Conns, NEW q, Request(k, q) PROVE HandlerInv'
    <2>1. \E where \in {"held", "inject", Answered(k)} : pc' = [pc EXCEPT ![k] = where]
      BY <1>3, RequestMoves
    <2> QED
      BY <1>3, <2>1 DEF Request, Snapshot
  <1>4. ASSUME NEW k \in Conns, Approve(k) PROVE HandlerInv'
    BY <1>4 DEF Approve
  <1>5. ASSUME NEW k \in Conns, Refuse(k) PROVE HandlerInv'
    BY <1>5 DEF Refuse
  <1>6. ASSUME NEW k \in Conns, Inject(k) PROVE HandlerInv'
    BY <1>6 DEF Inject
  <1>7. ASSUME NEW k \in Conns, Forward(k) PROVE HandlerInv'
    BY <1>7 DEF Forward
  <1>8. ASSUME NEW k \in Conns, Upgrade(k) PROVE HandlerInv'
    BY <1>8 DEF Upgrade
  <1>9. ASSUME NEW k \in Conns, Close(k) \/ PipeOver(k) PROVE HandlerInv'
    BY <1>9 DEF Close, PipeOver
  <1>10. ASSUME NEW k \in Conns, NEW s \in Sides,
                PeerEnds(k, s) \/ CopyEnds(k, s) \/ CopyFails(k, s)
         PROVE  HandlerInv'
    BY <1>10 DEF PeerEnds, CopyEnds, CopyFails
  <1>11. CASE Reload
    BY <1>11 DEF Reload
  <1>12. CASE UNCHANGED vars
    BY <1>12 DEF vars
  <1> QED
    BY <1>1, <1>2, <1>3, <1>4, <1>5, <1>6, <1>7, <1>8, <1>9, <1>10, <1>11, <1>12
       DEF Next, Handle, Await

\* Peers do not begin again, so that the reason why a direction is over stays.
LEMMA PipeStep == ProxyInv /\ [Next]_vars => PipeInv'
  <1> SUFFICES ASSUME ProxyInv, [Next]_vars PROVE PipeInv'
    OBVIOUS
  <1> USE DEF ProxyInv, TypeOK, PipeInv, Piped, configVars, requestVars, pipeVars, Goto,
          Answered
  <1>1. ASSUME NEW k \in Conns, Connect(k) PROVE PipeInv'
    <2>1. \E where \in {"connectHeld", "choose", "closed"} : pc' = [pc EXCEPT ![k] = where]
      BY <1>1, ConnectMoves
    <2> QED
      BY <1>1, <2>1 DEF Connect
  <1>2. ASSUME NEW k \in Conns, Choose(k) \/ Handshake(k) \/ Dial(k) PROVE PipeInv'
    BY <1>2 DEF Choose, Handshake, Dial, Pipe
  <1>3. ASSUME NEW k \in Conns, NEW q, Request(k, q) PROVE PipeInv'
    <2>1. \E where \in {"held", "inject", Answered(k)} : pc' = [pc EXCEPT ![k] = where]
      BY <1>3, RequestMoves
    <2> QED
      BY <1>3, <2>1 DEF Request
  <1>4. ASSUME NEW k \in Conns, Approve(k) PROVE PipeInv'
    BY <1>4 DEF Approve
  <1>5. ASSUME NEW k \in Conns, Refuse(k) PROVE PipeInv'
    BY <1>5 DEF Refuse
  <1>6. ASSUME NEW k \in Conns, Inject(k) PROVE PipeInv'
    BY <1>6 DEF Inject
  <1>7. ASSUME NEW k \in Conns, Forward(k) PROVE PipeInv'
    BY <1>7 DEF Forward
  <1>8. ASSUME NEW k \in Conns, Upgrade(k) PROVE PipeInv'
    BY <1>8 DEF Upgrade, Pipe
  <1>9. ASSUME NEW k \in Conns, Close(k) \/ PipeOver(k) PROVE PipeInv'
    BY <1>9 DEF Close, PipeOver
  <1>10. ASSUME NEW k \in Conns, NEW s \in Sides, PeerEnds(k, s) PROVE PipeInv'
    <2>1. /\ pc' = pc /\ copied' = copied
          /\ \/ peer[k][s] = "sending" /\ peer' = [peer EXCEPT ![k][s] = "finished"]
             \/ peer' = [peer EXCEPT ![k][s] = "gone"]
      BY <1>10 DEF PeerEnds
    <2> SUFFICES ASSUME NEW c \in Conns, NEW e \in Sides, pc[c] \in Piped, e \in copied[c]
                 PROVE  peer'[c][e] # "sending" \/ peer'[c][Other(e)] = "gone"
      BY <2>1
    <2>2. Other(e) \in Sides
      BY DEF Other, Sides
    <2>3. peer[c][e] # "sending" \/ peer[c][Other(e)] = "gone"
      OBVIOUS
    <2>4. peer \in [Conns -> [Sides -> {"sending", "finished", "gone"}]]
      OBVIOUS
    <2> HIDE DEF PipeInv, TypeOK
    <2> QED
      BY <2>1, <2>2, <2>3, <2>4
  <1>11. ASSUME NEW k \in Conns, NEW s \in Sides, CopyEnds(k, s) \/ CopyFails(k, s)
         PROVE  PipeInv'
    <2>1. /\ pc' = pc /\ peer' = peer
          /\ copied' = [copied EXCEPT ![k] = copied[k] \cup {s}]
          /\ peer[k][s] # "sending" \/ peer[k][Other(s)] = "gone"
      BY <1>11 DEF CopyEnds, CopyFails
    <2>2. copied \in [Conns -> SUBSET Sides]
      OBVIOUS
    <2> QED
      BY <2>1, <2>2
  <1>12. CASE Reload
    BY <1>12 DEF Reload
  <1>13. CASE UNCHANGED vars
    BY <1>13 DEF vars
  <1> QED
    BY <1>1, <1>2, <1>3, <1>4, <1>5, <1>6, <1>7, <1>8, <1>9, <1>10, <1>11, <1>12, <1>13
       DEF Next, Handle, Await

\* What is known of connections holds in every reachable state.
THEOREM ProxyInvariant == Spec => []ProxyInv
  <1>1. ProxyInv /\ [Next]_vars => ProxyInv'
    BY TypeStep, ClearedStep, HandlerStep, PipeStep DEF ProxyInv
  <1> QED
    BY InitProxyInv, <1>1, PTL DEF Spec

\* Every variable keeps its type.
THEOREM ProxyTyped == Spec => []TypeOK
  BY ProxyInvariant, PTL DEF ProxyInv
-----------------------------------------------------------------------------
(* What goes upstream.                                                     *)

\* A step sends nothing, or it sends what Send records for a connection past the
\* policy.
LEMMA SendStep ==
    ASSUME TypeOK, [Next]_vars
    PROVE  \/ sent' = sent
           \/ \E k \in Conns :
                \/ pc[k] = "dial" /\ Send(k, "tunnel")
                \/ /\ pc[k] = "send"
                   /\ \E what \in {"request", "websocket"} : Send(k, what)
  <1> USE DEF Next, Handle, Await, Connect, Choose, Handshake, Dial, Request, Approve,
          Refuse, Inject, Forward, Upgrade, Close, PeerEnds, CopyEnds, CopyFails, PipeOver, Reload, vars
  <1> QED
    OBVIOUS

\* What Send records of a connection.
Record(k, what) ==
    [what |-> what, config |-> snap[k], asked |-> asked[k], approved |-> approved[k],
     injected |-> injected[k], late |-> judged[k] < born[k]]

\* Whatever goes upstream was allowed, or held and approved for itself: the
\* policy's last word on it (ClearedInv) passes the rules in their order.
THEOREM OnlyAllowedSent == Spec => []SentWasAllowed
  <1>1. Init => SentWasAllowed
    BY DEF Init, SentWasAllowed
  <1>2. ASSUME ProxyInv, SentWasAllowed, [Next]_vars PROVE SentWasAllowed'
    <2>1. SUFFICES ASSUME NEW k \in Conns, NEW what, pc[k] \in {"dial", "send"}, Send(k, what)
                   PROVE  SentWasAllowed'
      BY <1>2, SendStep DEF ProxyInv, SentWasAllowed
    <2>2. Passes(snap[k].rules, asked[k], approved[k])
      BY <1>2, <2>1, ClearedPasses DEF ProxyInv, TypeOK, ClearedInv, ClearedAt
    <2>3. sent' = sent \cup {Record(k, what)}
      BY <2>1 DEF Send, Record
    <2>4. LET u == Record(k, what) IN Passes(u.config.rules, u.asked, u.approved)
      BY <2>2 DEF Record
    <2> QED
      BY <1>2, <2>3, <2>4 DEF SentWasAllowed
  <1> QED
    BY <1>1, <1>2, ProxyInvariant, PTL DEF Spec

\* No request is judged by a configuration older than itself.
THEOREM NothingJudgedLate == Spec => []NeverJudgedLate
  <1>1. Init => NeverJudgedLate
    BY DEF Init, NeverJudgedLate
  <1>2. ASSUME ProxyInv, NeverJudgedLate, [Next]_vars PROVE NeverJudgedLate'
    <2>1. SUFFICES ASSUME NEW k \in Conns, NEW what, Send(k, what)
                   PROVE  NeverJudgedLate'
      BY <1>2, SendStep DEF ProxyInv, NeverJudgedLate
    <2>2. sent' = sent \cup {Record(k, what)}
      BY <2>1 DEF Send, Record
    <2>3. judged[k] = born[k] /\ born[k] \in Nat
      BY <1>2, ConstantsOK DEF ProxyInv, HandlerInv, TypeOK
    <2>4. ~Record(k, what).late
      <3>1. Record(k, what).late = (judged[k] < born[k])
        BY DEF Record
      <3>2. ~(judged[k] < born[k])
        BY <2>3
      <3> QED
        BY <3>1, <3>2
    <2> QED
      BY <1>2, <2>2, <2>4 DEF NeverJudgedLate
  <1> QED
    BY <1>1, <1>2, ProxyInvariant, PTL DEF Spec

\* Requests go upstream with the credentials of their rule or not at all, and to
\* a host that a rule with credentials names.
THEOREM CredentialsComplete == Spec => []CredentialsOrNothing
  <1>1. Init => CredentialsOrNothing
    BY DEF Init, CredentialsOrNothing
  <1>2. ASSUME ProxyInv, CredentialsOrNothing, [Next]_vars PROVE CredentialsOrNothing'
    <2>1. SUFFICES ASSUME NEW k \in Conns, NEW what, Send(k, what),
                          what # "tunnel" => pc[k] = "send"
                   PROVE  CredentialsOrNothing'
      BY <1>2, SendStep DEF ProxyInv, CredentialsOrNothing
    <2>2. sent' = sent \cup {Record(k, what)}
      BY <2>1 DEF Send, Record
    <2> DEFINE u == Record(k, what)
    <2>3. ASSUME what # "tunnel"
          PROVE  /\ (u.injected = "token") <=> Evaluate(u.config, u.asked).credentials
                 /\ u.injected = "token" =>
                      \E i \in DOMAIN u.config.rules :
                          u.config.rules[i].credentials /\ Target \in u.config.rules[i].hosts
      <3>1. /\ u.config = snap[k] /\ u.asked = asked[k] /\ u.injected = injected[k]
            /\ snap[k] \in Configs
        BY <1>2 DEF Record, ProxyInv, TypeOK
      <3>2. /\ (injected[k] = "token") <=> Decision(k).credentials
            /\ Decision(k).credentials => Target \in Decision(k).hosts
        BY <1>2, <2>1, <2>3 DEF ProxyInv, HandlerInv
      <3> HIDE DEF u
      <3> QED
        BY <3>1, <3>2, CredentialRule DEF Decision
    <2>4. u.what = what
      BY DEF Record
    <2> HIDE DEF u
    <2> QED
      BY <1>2, <2>2, <2>3, <2>4 DEF CredentialsOrNothing, u
  <1> QED
    BY <1>1, <1>2, ProxyInvariant, PTL DEF Spec

\* Only PipeOver takes a connection out of a tunnel.
LEMMA LeavesPipe ==
    ASSUME TypeOK, [Next]_vars, NEW k \in Conns, pc[k] \in Piped, pc'[k] # pc[k]
    PROVE  \E c \in Conns : PipeOver(c)
  <1>1. SUFFICES ASSUME \A c \in Conns : ~PipeOver(c)
                 PROVE  pc'[k] = pc[k]
    OBVIOUS
  <1> USE DEF TypeOK, Goto, Answered, Piped
  <1>2. ASSUME NEW c \in Conns, Connect(c) PROVE pc'[k] = pc[k]
    BY <1>2, ConnectMoves DEF Connect
  <1>3. ASSUME NEW c \in Conns, NEW q, Request(c, q) PROVE pc'[k] = pc[k]
    <2>1. pc[c] \in {"ready", "new"}
      BY <1>3 DEF Request, Arrives
    <2> QED
      BY <1>3, <2>1, RequestMoves
  <1>4. ASSUME NEW c \in Conns,
               \/ Choose(c) \/ Handshake(c) \/ Dial(c) \/ Approve(c) \/ Refuse(c)
               \/ Inject(c) \/ Forward(c) \/ Upgrade(c) \/ Close(c)
        PROVE  pc'[k] = pc[k]
    BY <1>4 DEF Choose, Handshake, Dial, Approve, Refuse, Inject, Forward, Upgrade, Close
  <1>5. ASSUME NEW c \in Conns, NEW s \in Sides,
               PeerEnds(c, s) \/ CopyEnds(c, s) \/ CopyFails(c, s)
        PROVE  pc'[k] = pc[k]
    BY <1>5 DEF PeerEnds, CopyEnds, CopyFails
  <1>6. Reload \/ UNCHANGED vars => pc'[k] = pc[k]
    BY DEF Reload, vars
  <1> QED
    BY <1>1, <1>2, <1>3, <1>4, <1>5, <1>6 DEF Next, Handle, Await

\* A tunnel ends when both directions are over: whoever still sends is left
\* only if nobody is there to read it.
THEOREM HalfClose == Spec => HalfCloseHonoured
  <1> DEFINE Honoured ==
        \A k \in Conns, s \in Sides :
            (pc[k] \in Piped /\ pc'[k] = "closed" /\ peer[k][s] = "sending") =>
                peer[k][Other(s)] = "gone"
  <1>1. ASSUME ProxyInv, [Next]_vars PROVE [Honoured]_vars
    <2>1. SUFFICES ASSUME NEW k \in Conns, NEW s \in Sides, pc[k] \in Piped,
                          pc'[k] = "closed", peer[k][s] = "sending"
                   PROVE  peer[k][Other(s)] = "gone"
      OBVIOUS
    <2>2. copied[k] = Sides
      <3>1. PICK c \in Conns : PipeOver(c) /\ pc'[k] # pc[k]
        BY <1>1, <2>1, LeavesPipe DEF ProxyInv, Piped
      <3>2. c = k
        BY <1>1, <3>1 DEF ProxyInv, TypeOK, PipeOver, Goto
      <3> QED
        BY <3>1, <3>2 DEF PipeOver
    <2> QED
      BY <1>1, <2>1, <2>2 DEF ProxyInv, PipeInv
  <1> QED
    BY <1>1, ProxyInvariant, PTL DEF Spec, HalfCloseHonoured
-----------------------------------------------------------------------------
(* The certificate authority.                                              *)

\* The files of d hold one CA.
Whole == 1..MaxCAs
Complete(d) == cert[d.cert] = key[d.key] /\ cert[d.cert] \in Whole

\* Who is in loadOrCreateCA has the mutex of its process; what a creation writes
\* is one CA, and so is what is about to be used, as far as its certificate goes.
CreationInv ==
    \A t \in Threads :
        /\ at[t] \in Loading => caMu[Proc[t]] = t
        /\ want[t] = None <=> at[t] = "idle"
        /\ at[t] \in Creating => got[t].cert = got[t].key /\ got[t].cert \in Whole
        /\ at[t] = "use" => got[t].cert \in Whole

\* Where nothing is disturbed, who creates is alone.
AloneInv ==
    \A t, o \in Threads :
        (t # o /\ at[t] \in Creating /\ at[o] \in Loading /\ want[o] = want[t])
            => want[t] \in disturbed

\* Files that nothing has disturbed hold no key, or a key that was cut by whoever
\* is about to fill it or has been stopped, or all of one CA.
FilesInv ==
    \A d \in Places \ disturbed :
        \/ key[d.key] = Missing
        \/ /\ key[d.key] = Cut /\ cert[d.cert] \in Whole
           /\ d \in stopped \/ \E t \in Threads : at[t] = "fillKey" /\ want[t] = d
        \/ Complete(d)

\* Where nothing is disturbed, who loads knows what the files hold: a reader its
\* certificate, a creation how far it has come.
CreatorInv ==
    \A t \in Threads :
        want[t] \notin disturbed =>
            /\ at[t] = "readKey" => got[t].cert = cert[want[t].cert]
            /\ at[t] \in {"openCert", "fillCert", "openKey"} => key[want[t].key] = Missing
            /\ at[t] \in {"openKey", "fillKey"} => cert[want[t].cert] = got[t].cert
            /\ at[t] = "fillKey" => key[want[t].key] = Cut

\* A creation has disturbed whoever shares a file that it has begun to write.
SharedInv ==
    \A t \in Threads :
        /\ at[t] \in {"fillCert", "openKey", "fillKey"} => SharingCert(want[t]) \subseteq disturbed
        /\ at[t] = "fillKey" => SharingKey(want[t]) \subseteq disturbed

\* The CA in memory is that of its files.
MemoryInv ==
    \A p \in Procs :
        /\ ca[p].cert = 0 => ca[p] = NoCA
        /\ ca[p].cert # 0 => ca[p].from \in Places
        /\ ca[p].cert # 0 /\ ca[p].from \notin disturbed =>
                Complete(ca[p].from) /\ ca[p].cert = cert[ca[p].from.cert] /\ ca[p].key = ca[p].cert

\* So is one about to be used, and whatever clients have seen.
ShownInv ==
    /\ \A t \in Threads : at[t] = "use" /\ want[t] \notin disturbed =>
            Complete(want[t]) /\ got[t].cert = cert[want[t].cert]
    /\ \A d \in Places \ disturbed : \A x \in shown[d] : Complete(d) /\ x = cert[d.cert]

CAInv ==
    /\ CATypeOK /\ CreationInv /\ AloneInv /\ FilesInv /\ CreatorInv
    /\ SharedInv /\ MemoryInv /\ ShownInv
-----------------------------------------------------------------------------
\* What a file can hold: nothing, a piece, or a whole one.
LEMMA ContentsFacts ==
    /\ Proc \in [Threads -> Procs] /\ None \notin Threads /\ None \notin Places
    /\ MaxCAs \in Nat /\ MaxMoves \in Nat
    /\ Missing = 0 /\ Cut # Missing /\ Missing \notin Whole /\ Cut \notin Whole
    /\ Missing \in Contents /\ Cut \in Contents
    /\ \A x \in Contents : x = Missing \/ x = Cut \/ x \in Whole
    /\ Whole \subseteq 0..MaxCAs /\ 0..MaxCAs \subseteq Contents
    /\ \A x \in 0..MaxCAs : x # 0 => x \in Whole
  BY CAConstantsOK DEF CAConstantsOK, Missing, Cut, Whole, Contents

\* No process is up at the start, and there are no files.
LEMMA InitCAInv == CAInit => CAInv
  <1> SUFFICES ASSUME CAInit PROVE CAInv
    OBVIOUS
  <1>1. CATypeOK
    <2>1. Missing \in Contents /\ MaxCAs \in Nat /\ MaxMoves \in Nat
      BY CAConstantsOK DEF CAConstantsOK, Contents, Missing
    <2>2. NoCA \in CA /\ Nothing \in [cert : Contents, key : Contents]
      BY <2>1 DEF NoCA, CA, Nothing
    <2> QED
      BY <2>1, <2>2 DEF CAInit, CATypeOK
  <1>2. CreationInv /\ AloneInv /\ CreatorInv /\ SharedInv
    BY DEF CAInit, CreationInv, AloneInv, CreatorInv, SharedInv, Loading, Reading, Creating
  <1>3. FilesInv
    BY DEF CAInit, FilesInv, Places
  <1>4. MemoryInv /\ ShownInv
    BY DEF CAInit, MemoryInv, ShownInv, NoCA
  <1> QED
    BY <1>1, <1>2, <1>3, <1>4 DEF CAInv

\* Where there is no disturbance, the files are as they were while somebody reads
\* them, and hold no CA yet while somebody creates one.
LEMMA LoadFacts ==
    ASSUME CAInv
    PROVE  \A t \in Threads : at[t] \in Creating /\ want[t] \notin disturbed =>
                /\ ~Complete(want[t])
                /\ \A o \in Threads : o # t /\ at[o] \in Loading => want[o] # want[t]
  BY ContentsFacts DEF CAInv, CreatorInv, AloneInv, Creating, Complete

\* The parts of the variables have the types of these.
LEMMA CAParts ==
    ASSUME CAInv
    PROVE  /\ \A t \in Threads :
                /\ Proc[t] \in Procs /\ want[t] \in Places \cup {None}
                /\ at[t] # "idle" => want[t] \in Places
                /\ got[t].cert \in Contents /\ got[t].key \in Contents
                /\ got[t] = [cert |-> got[t].cert, key |-> got[t].key]
           /\ \A p \in Procs : ca[p].cert \in 0..MaxCAs /\ ca[p].key \in 0..MaxCAs
           /\ \A d \in Places :
                /\ d.cert \in CertPaths /\ d.key \in KeyPaths
                /\ cert[d.cert] \in Contents /\ key[d.key] \in Contents
  <1>1. Proc \in [Threads -> Procs]
    BY CAConstantsOK DEF CAConstantsOK
  <1>2. \A d \in Places : d.cert \in CertPaths /\ d.key \in KeyPaths
    BY DEF Places
  <1> QED
    BY <1>1, <1>2 DEF CAInv, CATypeOK, CreationInv, CA

\* A request gets the CA in memory.
LEMMA UseStep ==
    ASSUME CAInv, NEW t \in Threads, at[t] \in {"look", "lock"}, Matches(t), Use(t),
           UNCHANGED <<fileVars, procVars, want, historyVars>>
    PROVE  CAInv'
  <1>0. /\ CATypeOK /\ CreationInv /\ AloneInv /\ FilesInv /\ CreatorInv
        /\ SharedInv /\ MemoryInv /\ ShownInv
    BY DEF CAInv
  <1> USE ContentsFacts, LoadFacts, CAParts
      DEF CATypeOK, Loading, Reading, Creating, fileVars, pathVars, procVars, historyVars,
          Proceed, Idle, Nothing, CA, NoCA, Overlaps, DisturbedIf, BeginLoad
  <1>a. /\ at' = [at EXCEPT ![t] = "use"]
        /\ got' = [got EXCEPT ![t] = [cert |-> ca[Proc[t]].cert, key |-> ca[Proc[t]].key]]
        /\ ca[Proc[t]].cert \in Whole /\ ca[Proc[t]].key \in Contents
        /\ ca[Proc[t]].from = want[t]
        /\ UNCHANGED <<cert, key, made, up, pathVars, ca, caMu, want, shown, disturbed, stopped>>
    BY <1>0 DEF Use, Matches
  <1>1. CATypeOK'
    BY <1>0, <1>a DEF CATypeOK
  <1>2. CreationInv'
    BY <1>0, <1>a DEF CreationInv
  <1>3. AloneInv'
    BY <1>0, <1>a DEF AloneInv
  <1>4. FilesInv'
    BY <1>0, <1>a DEF FilesInv, Complete
  <1>5. CreatorInv'
    BY <1>0, <1>a DEF CreatorInv
  <1>6. MemoryInv'
    BY <1>0, <1>a DEF MemoryInv, Complete
  <1>7. ShownInv'
    BY <1>0, <1>a DEF ShownInv, MemoryInv, Complete
  <1>8. SharedInv'
    BY <1>0, <1>a DEF SharedInv
  <1> QED
    BY <1>1, <1>2, <1>3, <1>4, <1>5, <1>6, <1>7, <1>8 DEF CAInv

\* A load begins, with the mutex of the process.
LEMMA BeginStep ==
    ASSUME CAInv, NEW t \in Threads, NEW d \in Places, BeginLoad(t, d), at[t] \notin Loading,
           \A o \in Threads : Proc[o] = Proc[t] => at[o] \notin Loading,
           UNCHANGED <<fileVars, up, pathVars, ca, shown, stopped>>
    PROVE  CAInv'
  <1>0. /\ CATypeOK /\ CreationInv /\ AloneInv /\ FilesInv /\ CreatorInv
        /\ SharedInv /\ MemoryInv /\ ShownInv
    BY DEF CAInv
  <1> USE ContentsFacts, LoadFacts, CAParts
      DEF CATypeOK, Loading, Reading, Creating, fileVars, pathVars, procVars, historyVars,
          Proceed, Idle, Nothing, CA, NoCA, Overlaps, DisturbedIf, BeginLoad
  <1>1. CATypeOK'
    BY <1>0 DEF CATypeOK
  <1>2. CreationInv'
    BY <1>0 DEF CreationInv
  <1>3. AloneInv'
    BY <1>0 DEF AloneInv
  <1>4. FilesInv'
    BY <1>0 DEF FilesInv, Complete
  <1>5. CreatorInv'
    BY <1>0 DEF CreatorInv
  <1>6. MemoryInv'
    BY <1>0 DEF MemoryInv, Complete
  <1>7. ShownInv'
    BY <1>0 DEF ShownInv, Complete
  <1>8. SharedInv'
    BY <1>0 DEF SharedInv
  <1> QED
    BY <1>1, <1>2, <1>3, <1>4, <1>5, <1>6, <1>7, <1>8 DEF CAInv

\* A load ends without a CA.
LEMMA LoadFailsStep ==
    ASSUME CAInv, NEW t \in Threads, at[t] \in Loading, LoadFails(t),
           UNCHANGED <<fileVars, pathVars, shown>>,
           disturbed \subseteq disturbed', disturbed' \subseteq Places,
           stopped \subseteq stopped', stopped' \subseteq Places,
           at[t] = "fillKey" => want[t] \in stopped'
    PROVE  CAInv'
  <1>0. /\ CATypeOK /\ CreationInv /\ AloneInv /\ FilesInv /\ CreatorInv
        /\ SharedInv /\ MemoryInv /\ ShownInv
    BY DEF CAInv
  <1> USE ContentsFacts, LoadFacts, CAParts
      DEF CATypeOK, Loading, Reading, Creating, fileVars, pathVars, procVars, historyVars,
          Proceed, Idle, Nothing, CA, NoCA, Overlaps, DisturbedIf, BeginLoad
  <1>1. CATypeOK'
    BY <1>0 DEF LoadFails, CATypeOK
  <1>2. CreationInv'
    BY <1>0 DEF LoadFails, CreationInv
  <1>3. AloneInv'
    BY <1>0 DEF LoadFails, AloneInv
  <1>4. FilesInv'
    BY <1>0 DEF LoadFails, FilesInv, Complete
  <1>5. CreatorInv'
    BY <1>0 DEF LoadFails, CreatorInv
  <1>6. MemoryInv'
    BY <1>0 DEF LoadFails, MemoryInv, Complete
  <1>7. ShownInv'
    BY <1>0 DEF LoadFails, ShownInv, Complete
  <1>8. SharedInv'
    BY <1>0 DEF LoadFails, SharedInv
  <1> QED
    BY <1>1, <1>2, <1>3, <1>4, <1>5, <1>6, <1>7, <1>8 DEF CAInv

\* A load ends with a CA, that of the files unless something was disturbed.
LEMMA LoadedStep ==
    ASSUME CAInv, NEW t \in Threads, at[t] \in Loading, NEW d \in Places, want[t] = d,
           NEW pair, Loaded(t, pair),
           pair \in [cert : Whole, key : Whole],
           UNCHANGED <<cert, made, pathVars, shown, stopped>>,
           disturbed \subseteq disturbed', disturbed' \subseteq Places,
           key' \in [KeyPaths -> Contents], \A e \in Places \ {d} : e \notin disturbed' => key'[e.key] = key[e.key],
           d \notin disturbed' =>
                /\ Complete(d) => key'[d.key] = key[d.key]
                /\ cert[d.cert] = key'[d.key] /\ cert[d.cert] \in Whole
                /\ pair.cert = cert[d.cert] /\ pair.key = pair.cert
    PROVE  CAInv'
  <1>0. /\ CATypeOK /\ CreationInv /\ AloneInv /\ FilesInv /\ CreatorInv
        /\ SharedInv /\ MemoryInv /\ ShownInv
    BY DEF CAInv
  <1>g. \A y \in [cert : Contents, key : Contents] :
            [got EXCEPT ![t] = y] \in [Threads -> [cert : Contents, key : Contents]]
    BY <1>0 DEF CATypeOK
  <1> USE ContentsFacts, LoadFacts, CAParts
      DEF CATypeOK, Loading, Reading, Creating, fileVars, pathVars, procVars, historyVars,
          Proceed, Idle, Nothing, CA, NoCA, Overlaps, DisturbedIf, BeginLoad
  <1> DEFINE new == [cert |-> pair.cert, key |-> pair.key, from |-> want[t]]
  <1>a. /\ pair.cert \in Whole /\ pair.key \in Whole /\ d \in Places /\ Proc[t] \in Procs
        /\ new \in CA /\ new.cert # 0
        /\ pair \in [cert : Contents, key : Contents]
        /\ ca' = [ca EXCEPT ![Proc[t]] = new] /\ ca'[Proc[t]] = new
        /\ \A p \in Procs : p # Proc[t] => ca'[p] = ca[p]
    BY <1>0 DEF Loaded
  <1>b. \A e \in Places : Complete(e) /\ e \notin disturbed' => Complete(e)'
    BY <1>0 DEF Complete
  <1>c. d \notin disturbed' => Complete(d)' /\ pair.cert = cert'[d.cert] /\ pair.key = pair.cert
    BY <1>0 DEF Complete
  <1> HIDE DEF Loaded
  <1>1. CATypeOK'
    <2>1. ca' \in [Procs -> CA]
      BY <1>0, <1>a
    <2>2. got' \in [Threads -> [cert : Contents, key : Contents]]
      <3>1. got' \in {[got EXCEPT ![t] = pair], [got EXCEPT ![t] = Nothing]}
        BY DEF Loaded
      <3>2. Nothing \in [cert : Contents, key : Contents]
        OBVIOUS
      <3> QED
        BY <1>a, <1>g, <3>1, <3>2
    <2>3. at' \in [Threads -> {"idle", "look", "lock", "use"} \cup Loading]
      <3>1. at' \in {[at EXCEPT ![t] = "use"], [at EXCEPT ![t] = "idle"]}
        BY DEF Loaded
      <3> QED
        BY <1>0, <3>1
    <2>4. want' \in [Threads -> Places \cup {None}]
      BY <1>0, <1>a DEF Loaded
    <2>5. caMu' \in [Procs -> Threads \cup {None}] /\ up' \subseteq Procs
      BY <1>0, <1>a DEF Loaded
    <2> QED
      BY <1>0, <2>1, <2>2, <2>3, <2>4, <2>5
  <1>2. CreationInv'
    BY <1>0, <1>a DEF Loaded, CreationInv
  <1>3. AloneInv'
    BY <1>0, <1>a DEF Loaded, AloneInv
  <1>4. FilesInv'
    BY <1>0, <1>a DEF Loaded, FilesInv, Complete
  <1>5. CreatorInv'
    <2>1. at'[t] \in {"idle", "use"} /\ \A o \in Threads : o # t =>
            at'[o] = at[o] /\ want'[o] = want[o] /\ got'[o] = got[o]
      BY <1>0 DEF Loaded
    <2>2. \A o \in Threads : o # t /\ want[o] = d /\ at[o] \in Creating => d \in disturbed'
      BY <1>0 DEF AloneInv
    <2> SUFFICES ASSUME NEW o \in Threads, want'[o] \notin disturbed'
                 PROVE  /\ at'[o] = "readKey" => got'[o].cert = cert'[want'[o].cert]
                        /\ at'[o] \in {"openCert", "fillCert", "openKey"} => key'[want'[o].key] = Missing
                        /\ at'[o] \in {"openKey", "fillKey"} => cert'[want'[o].cert] = got'[o].cert
                        /\ at'[o] = "fillKey" => key'[want'[o].key] = Cut
      BY DEF CreatorInv
    <2>3. CASE o = t
      BY <2>1, <2>3
    <2>4. CASE o # t
      <3>1. at'[o] = at[o] /\ want'[o] = want[o] /\ got'[o] = got[o] /\ want[o] \notin disturbed
        BY <2>1, <2>4
      <3>2. at[o] \in Creating => want[o] \in Places /\ key'[want[o].key] = key[want[o].key]
        BY <1>0, <2>2, <2>4, <3>1 DEF CreationInv
      <3> QED
        BY <1>0, <3>1, <3>2 DEF CreatorInv
    <2> QED
      BY <2>3, <2>4
  <1>6. MemoryInv'
    <2> SUFFICES ASSUME NEW p \in Procs
                 PROVE  /\ ca'[p].cert = 0 => ca'[p] = NoCA
                        /\ ca'[p].cert # 0 => ca'[p].from \in Places
                        /\ ca'[p].cert # 0 /\ ca'[p].from \notin disturbed' =>
                            /\ Complete(ca[p].from)' /\ ca'[p].cert = cert'[ca'[p].from.cert]
                            /\ ca'[p].key = ca'[p].cert
      BY DEF MemoryInv
    <2>1. CASE p = Proc[t]
      BY <1>a, <1>c, <2>1 DEF Complete
    <2>2. CASE p # Proc[t]
      BY <1>0, <1>a, <1>b, <2>2 DEF MemoryInv, Complete
    <2> QED
      BY <2>1, <2>2
  <1>8. SharedInv'
    <2>1. at'[t] \in {"idle", "use"} /\ \A o \in Threads : o # t =>
            at'[o] = at[o] /\ want'[o] = want[o]
      BY <1>0 DEF Loaded
    <2>2. SUFFICES ASSUME NEW o \in Threads, o # t
                   PROVE  /\ at[o] \in {"fillCert", "openKey", "fillKey"} =>
                                SharingCert(want[o]) \subseteq disturbed'
                          /\ at[o] = "fillKey" => SharingKey(want[o]) \subseteq disturbed'
      BY <2>1 DEF SharedInv, SharingCert, SharingKey
    <2>3. /\ at[o] \in {"fillCert", "openKey", "fillKey"} => SharingCert(want[o]) \subseteq disturbed
          /\ at[o] = "fillKey" => SharingKey(want[o]) \subseteq disturbed
      BY <1>0, <2>2 DEF SharedInv
    <2> QED
      BY <2>3
  <1>7. ShownInv'
    <2>1. \A o \in Threads : at'[o] = "use" /\ want'[o] \notin disturbed' =>
            Complete(want[o])' /\ got'[o].cert = cert'[want[o].cert] /\ want'[o] = want[o]
      <3> SUFFICES ASSUME NEW o \in Threads, at'[o] = "use", want'[o] \notin disturbed'
                   PROVE  Complete(want[o])' /\ got'[o].cert = cert'[want[o].cert] /\ want'[o] = want[o]
        OBVIOUS
      <3>1. CASE o = t
        BY <1>0, <1>a, <1>c, <3>1 DEF Loaded
      <3>2. CASE o # t
        BY <1>0, <1>b, <3>2 DEF Loaded, ShownInv
      <3> QED
        BY <3>1, <3>2
    <2>2. \A e \in Places \ disturbed' : \A x \in shown'[e] : Complete(e)' /\ x = cert'[e.cert]
      BY <1>0, <1>b DEF ShownInv
    <2> QED
      BY <2>1, <2>2 DEF ShownInv, Complete
  <1> QED
    BY <1>1, <1>2, <1>3, <1>4, <1>5, <1>6, <1>7, <1>8 DEF CAInv

\* A creation truncates a file, or fills that of the certificate.
LEMMA WriteStep ==
    ASSUME CAInv, NEW t \in Threads, at[t] \in {"openCert", "fillCert", "openKey"},
           NEW next \in {"fillCert", "openKey", "fillKey"}, at' = [at EXCEPT ![t] = next],
           cert' \in [CertPaths -> Contents], key' \in [KeyPaths -> Contents],
           disturbed \subseteq disturbed', disturbed' \subseteq Places,
           UNCHANGED <<made, procVars, want, got, shown, stopped>>,
           \A e \in Places \ disturbed' : e # want[t] =>
                cert'[e.cert] = cert[e.cert] /\ key'[e.key] = key[e.key],
           SharingCert(want[t]) \subseteq disturbed',
           next = "fillKey" => SharingKey(want[t]) \subseteq disturbed',
           want[t] \notin disturbed' =>
                /\ next # "fillKey" => key'[want[t].key] = Missing
                /\ next # "fillCert" => cert'[want[t].cert] = got[t].cert
                /\ next = "fillKey" => key'[want[t].key] = Cut
    PROVE  CAInv'
  <1>0. CATypeOK /\ CreationInv /\ AloneInv /\ FilesInv /\ CreatorInv
        /\ SharedInv /\ MemoryInv /\ ShownInv
    BY DEF CAInv
  <1> USE ContentsFacts, LoadFacts, CAParts
      DEF CATypeOK, Loading, Reading, Creating, pathVars, procVars
  <1>a. /\ want[t] \in Places /\ at'[t] = next
        /\ \A o \in Threads : o # t => at'[o] = at[o]
        /\ UNCHANGED <<made, up, place, moves, ca, caMu, want, got, shown, stopped>>
    BY <1>0
  <1>b. \A e \in Places \ disturbed' : Complete(e) =>
            Complete(e)' /\ cert'[e.cert] = cert[e.cert]
    BY <1>0, <1>a DEF Complete
  <1>1. CATypeOK'
    BY <1>0, <1>a DEF CATypeOK
  <1>2. CreationInv'
    BY <1>0, <1>a DEF CreationInv
  <1>3. AloneInv'
    BY <1>0, <1>a DEF AloneInv
  <1>4. FilesInv'
    <2> SUFFICES ASSUME NEW e \in Places \ disturbed'
                 PROVE  \/ key'[e.key] = Missing
                        \/ /\ key'[e.key] = Cut /\ cert'[e.cert] \in Whole
                           /\ e \in stopped \/ \E o \in Threads : at'[o] = "fillKey" /\ want'[o] = e
                        \/ cert'[e.cert] = key'[e.key] /\ cert'[e.cert] \in Whole
      BY <1>a DEF FilesInv, Complete
    <2>1. CASE e = want[t]
      BY <1>0, <1>a, <2>1 DEF CreationInv
    <2>2. CASE e # want[t]
      BY <1>0, <1>a, <2>2 DEF FilesInv, Complete
    <2> QED
      BY <2>1, <2>2
  <1>5. CreatorInv'
    <2> SUFFICES ASSUME NEW o \in Threads, want[o] \notin disturbed'
                 PROVE  /\ at'[o] = "readKey" => got[o].cert = cert'[want[o].cert]
                        /\ at'[o] \in {"openCert", "fillCert", "openKey"} => key'[want[o].key] = Missing
                        /\ at'[o] \in {"openKey", "fillKey"} => cert'[want[o].cert] = got[o].cert
                        /\ at'[o] = "fillKey" => key'[want[o].key] = Cut
      BY <1>a DEF CreatorInv
    <2>1. CASE o = t
      BY <1>0, <1>a, <2>1
    <2>2. CASE o # t
      <3>1. at[o] \in Loading => want[o] \in Places /\ want[o] # want[t]
        BY <1>0, <1>a, <2>2
      <3> QED
        BY <1>0, <1>a, <2>2, <3>1 DEF CreatorInv
    <2> QED
      BY <2>1, <2>2
  <1>6. MemoryInv'
    BY <1>0, <1>a, <1>b DEF MemoryInv
  <1>7. ShownInv'
    BY <1>0, <1>a, <1>b DEF ShownInv
  <1>8. SharedInv'
    <2>1. \A d : SharingCert(d)' = SharingCert(d) /\ SharingKey(d)' = SharingKey(d)
      BY DEF SharingCert, SharingKey
    <2> QED
      BY <1>0, <1>a, <2>1 DEF SharedInv
  <1> QED
    BY <1>1, <1>2, <1>3, <1>4, <1>5, <1>6, <1>7, <1>8 DEF CAInv

\* CAInv is inductive.
LEMMA CAStep == CAInv /\ [CANext]_caVars => CAInv'
  <1> SUFFICES ASSUME CAInv, [CANext]_caVars PROVE CAInv'
    OBVIOUS
  <1>0. /\ CATypeOK /\ CreationInv /\ AloneInv /\ FilesInv /\ CreatorInv
        /\ SharedInv /\ MemoryInv /\ ShownInv
    BY DEF CAInv
  <1> USE ContentsFacts, LoadFacts, CAParts
      DEF CATypeOK, Loading, Reading, Creating, fileVars, pathVars, procVars, historyVars,
          Proceed, Idle, Nothing, CA, NoCA, Overlaps, DisturbedIf, BeginLoad
  <1>1. ASSUME NEW t \in Threads, Start(t) PROVE CAInv'
    BY <1>0, <1>1, BeginStep DEF Start
  <1>2. ASSUME NEW t \in Threads, NeedCA(t) PROVE CAInv'
    <2>1. CATypeOK'
      BY <1>0, <1>2 DEF NeedCA, CATypeOK
    <2>2. CreationInv'
      BY <1>0, <1>2 DEF NeedCA, CreationInv
    <2>3. AloneInv'
      BY <1>0, <1>2 DEF NeedCA, AloneInv
    <2>4. FilesInv'
      BY <1>0, <1>2 DEF NeedCA, FilesInv, Complete
    <2>5. CreatorInv'
      BY <1>0, <1>2 DEF NeedCA, CreatorInv
    <2>6. MemoryInv'
      BY <1>0, <1>2 DEF NeedCA, MemoryInv, Complete
    <2>7. ShownInv'
      BY <1>0, <1>2 DEF NeedCA, ShownInv, Complete
    <2>8. SharedInv'
      BY <1>0, <1>2 DEF NeedCA, SharedInv
    <2> QED
      BY <2>1, <2>2, <2>3, <2>4, <2>5, <2>6, <2>7, <2>8 DEF CAInv
  <1>3. ASSUME NEW t \in Threads, LookUp(t) PROVE CAInv'
    <2>1. CASE Matches(t)
      BY <1>3, <2>1, UseStep DEF LookUp
    <2>2. CASE ~Matches(t)
      <3>0. /\ at' = [at EXCEPT ![t] = "lock"] /\ at[t] = "look"
            /\ UNCHANGED <<cert, key, made, up, pathVars, ca, caMu, want, got, shown, disturbed, stopped>>
        BY <1>3, <2>2 DEF LookUp
      <3>1. CATypeOK'
        BY <1>0, <3>0 DEF CATypeOK
      <3>2. CreationInv'
        BY <1>0, <3>0 DEF CreationInv
      <3>3. AloneInv'
        BY <1>0, <3>0 DEF AloneInv
      <3>4. FilesInv'
        BY <1>0, <3>0 DEF FilesInv, Complete
      <3>5. CreatorInv'
        BY <1>0, <3>0 DEF CreatorInv
      <3>6. MemoryInv'
        BY <1>0, <3>0 DEF MemoryInv, Complete
      <3>7. ShownInv'
        BY <1>0, <3>0 DEF ShownInv, Complete
      <3>8. SharedInv'
        BY <1>0, <3>0 DEF SharedInv
      <3> QED
        BY <3>1, <3>2, <3>3, <3>4, <3>5, <3>6, <3>7, <3>8 DEF CAInv
    <2> QED
      BY <2>1, <2>2
  <1>4. ASSUME NEW t \in Threads, Lock(t) PROVE CAInv'
    <2>1. at[t] = "lock" /\ caMu[Proc[t]] = None /\ want[t] \in Places
      BY <1>4 DEF Lock
    <2>2. CASE Matches(t)
      BY <1>4, <2>1, <2>2, UseStep DEF Lock
    <2>3. CASE ~Matches(t)
      <3>1. \A o \in Threads : Proc[o] = Proc[t] => at[o] \notin Loading
        BY <1>0, <2>1 DEF CreationInv
      <3>2. BeginLoad(t, want[t]) /\ UNCHANGED <<fileVars, up, pathVars, ca, shown, stopped>>
        BY <1>4, <2>3 DEF Lock
      <3> QED
        BY <2>1, <3>1, <3>2, BeginStep
    <2> QED
      BY <2>2, <2>3
  <1>5. ASSUME NEW t \in Threads, ReadCert(t) PROVE CAInv'
    <2>1. CATypeOK'
      BY <1>0, <1>5 DEF ReadCert, CATypeOK
    <2>2. CreationInv'
      BY <1>0, <1>5 DEF ReadCert, CreationInv
    <2>3. AloneInv'
      BY <1>0, <1>5 DEF ReadCert, AloneInv
    <2>4. FilesInv'
      BY <1>0, <1>5 DEF ReadCert, FilesInv, Complete
    <2>5. CreatorInv'
      BY <1>0, <1>5 DEF ReadCert, CreatorInv
    <2>6. MemoryInv'
      BY <1>0, <1>5 DEF ReadCert, MemoryInv, Complete
    <2>7. ShownInv'
      BY <1>0, <1>5 DEF ReadCert, ShownInv, Complete
    <2>8. SharedInv'
      BY <1>0, <1>5 DEF ReadCert, SharedInv
    <2> QED
      BY <2>1, <2>2, <2>3, <2>4, <2>5, <2>6, <2>7, <2>8 DEF CAInv
  <1>6. ASSUME NEW t \in Threads, ReadKey(t) PROVE CAInv'
    <2> DEFINE d == want[t]
    <2>0. at[t] = "readKey" /\ d \in Places
      BY <1>6 DEF ReadKey
    <2>1. PICK k \in {key[d.key], Missing} :
            LET pair == [cert |-> got[t].cert, key |-> k]
            IN  /\ Parse(t, pair) \/ Generate(t, pair)
                /\ DisturbedIf(k # key[d.key] \/ (at'[t] = "openCert" /\ Overlaps(t, d, Loading)), d)
      BY <1>6 DEF ReadKey
    <2> DEFINE pair == [cert |-> got[t].cert, key |-> k]
    <2>2. /\ k \in Contents /\ UNCHANGED <<cert, key, pathVars, shown, stopped>>
          /\ disturbed \subseteq disturbed' /\ disturbed' \subseteq Places
          /\ d \notin disturbed' => k = key[d.key] /\ got[t].cert = cert[d.cert]
      BY <1>0, <1>6, <2>0, <2>1 DEF ReadKey, CreatorInv
    <2>3. ASSUME LoadFails(t), UNCHANGED made PROVE CAInv'
      BY <1>0, <2>0, <2>2, <2>3, LoadFailsStep
    <2>4. CASE Parse(t, pair) /\ Cut \notin {pair.cert, pair.key}
      <3>1. pair \in [cert : Whole, key : Whole]
        BY <2>2, <2>4 DEF Parse
      <3>2. d \notin disturbed' => cert[d.cert] = key[d.key]
        BY <1>0, <2>0, <2>2, <2>4, <3>1 DEF FilesInv, Complete
      <3>3. Loaded(t, pair) /\ UNCHANGED <<cert, key, made, pathVars, shown, stopped>>
        BY <2>2, <2>4 DEF Parse
      <3>4. key' \in [KeyPaths -> Contents] /\ \A e \in Places : key'[e.key] = key[e.key]
        BY <1>0, <3>3
      <3>5. d \notin disturbed' => /\ key'[d.key] = key[d.key]
                                  /\ cert[d.cert] = key'[d.key] /\ cert[d.cert] \in Whole
                                  /\ pair.cert = cert[d.cert] /\ pair.key = pair.cert
        BY <2>2, <3>1, <3>2, <3>3 DEF Complete
      <3> HIDE DEF pair, d
      <3> QED
        BY <2>0, <2>2, <3>1, <3>3, <3>4, <3>5, LoadedStep DEF d
    <2>5. CASE /\ made < MaxCAs /\ made' = made + 1
               /\ got' = [got EXCEPT ![t] = [cert |-> made', key |-> made']]
               /\ Proceed(t, "openCert") /\ Missing \in {pair.cert, pair.key}
               /\ UNCHANGED <<want, ca, up, caMu>>
      <3>1. made' \in Whole /\ made' \in Contents /\ made' \in 0..MaxCAs
        BY <1>0, <2>5 DEF Whole
      <3>2. d \notin disturbed' => /\ ~Overlaps(t, d, Loading)
                                  /\ key[d.key] = Missing
        BY <1>0, <2>0, <2>1, <2>2, <2>5 DEF FilesInv, Complete
      <3>3. /\ at' = [at EXCEPT ![t] = "openCert"]
            /\ got'[t].cert = made' /\ got'[t].key = made'
            /\ \A o \in Threads : o # t => got'[o] = got[o]
            /\ UNCHANGED <<cert, key, pathVars, shown, stopped, want, ca, up, caMu>>
        BY <1>0, <2>2, <2>5
      <3>4. got' \in [Threads -> [cert : Contents, key : Contents]]
        BY <1>0, <2>5, <3>1
      <3>5. \A o \in Threads : o # t /\ at[o] \in Loading /\ want[o] = d => d \in disturbed'
        BY <1>0, <2>0, <3>2 DEF CreationInv
      <3> HIDE DEF d, pair
      <3>6. CATypeOK'
        BY <1>0, <2>0, <2>2, <3>3, <3>1, <3>4 DEF CATypeOK
      <3>7. CreationInv'
        BY <1>0, <2>0, <2>2, <3>3, <3>1 DEF CreationInv
      <3>8. AloneInv'
        BY <1>0, <2>0, <2>2, <3>3, <3>5 DEF AloneInv, d
      <3>9. FilesInv'
        BY <1>0, <2>0, <2>2, <3>3 DEF FilesInv, Complete
      <3>10. CreatorInv'
        BY <1>0, <2>0, <2>2, <3>3, <3>2 DEF CreatorInv, d
      <3>11. MemoryInv'
        BY <1>0, <2>0, <2>2, <3>3 DEF MemoryInv, Complete
      <3>12. ShownInv'
        BY <1>0, <2>0, <2>2, <3>3 DEF ShownInv, Complete
      <3>13. SharedInv'
        BY <1>0, <2>0, <2>2, <3>3 DEF SharedInv
      <3> QED
        BY <3>6, <3>7, <3>8, <3>9, <3>10, <3>11, <3>12, <3>13 DEF CAInv
    <2> QED
      BY <2>1, <2>3, <2>4, <2>5 DEF Parse, Generate
  <1>7. ASSUME NEW t \in Threads, OpenCert(t) PROVE CAInv'
    <2>1. /\ at[t] = "openCert" /\ at' = [at EXCEPT ![t] = "fillCert"] /\ want[t] \in Places
          /\ cert' = [cert EXCEPT ![want[t].cert] = Cut]
          /\ disturbed' = disturbed \cup SharingCert(want[t])
          /\ UNCHANGED <<key, made, procVars, want, got, shown, stopped>>
      BY <1>0, <1>7 DEF OpenCert
    <2>2. /\ cert' \in [CertPaths -> Contents] /\ cert'[want[t].cert] = Cut
          /\ \A e \in Places : e.cert # want[t].cert => cert'[e.cert] = cert[e.cert]
      BY <1>0, <2>1
    <2>3. disturbed' \subseteq Places /\ SharingCert(want[t]) \subseteq disturbed'
      BY <1>0, <2>1 DEF SharingCert, SharedInv
    <2>4. \A e \in Places \ disturbed' : e # want[t] => e.cert # want[t].cert
      BY <2>3 DEF SharingCert
    <2>5. \A e \in Places \ disturbed' : e # want[t] =>
            cert'[e.cert] = cert[e.cert] /\ key'[e.key] = key[e.key]
      BY <2>1, <2>2, <2>4
    <2>6. want[t] \notin disturbed' => key'[want[t].key] = Missing
      BY <1>0, <2>1, <2>2 DEF CreatorInv
    <2>7. /\ cert' \in [CertPaths -> Contents] /\ key' \in [KeyPaths -> Contents]
          /\ disturbed \subseteq disturbed' /\ SharingCert(want[t]) \subseteq disturbed'
      BY <1>0, <2>1, <2>2, <2>3 DEF SharedInv
    <2> QED
      BY <2>1, <2>3, <2>5, <2>6, <2>7, WriteStep
  <1>8. ASSUME NEW t \in Threads, FillCert(t) PROVE CAInv'
    <2>1. /\ at[t] = "fillCert" /\ at' = [at EXCEPT ![t] = "openKey"] /\ want[t] \in Places
          /\ cert' = [cert EXCEPT ![want[t].cert] = got[t].cert]
          /\ UNCHANGED disturbed
          /\ UNCHANGED <<key, made, procVars, want, got, shown, stopped>>
      BY <1>0, <1>8 DEF FillCert
    <2>2. /\ cert' \in [CertPaths -> Contents] /\ cert'[want[t].cert] = got[t].cert
          /\ \A e \in Places : e.cert # want[t].cert => cert'[e.cert] = cert[e.cert]
      BY <1>0, <2>1
    <2>3. disturbed' \subseteq Places /\ SharingCert(want[t]) \subseteq disturbed'
      BY <1>0, <2>1 DEF SharingCert, SharedInv
    <2>4. \A e \in Places \ disturbed' : e # want[t] => e.cert # want[t].cert
      BY <2>3 DEF SharingCert
    <2>5. \A e \in Places \ disturbed' : e # want[t] =>
            cert'[e.cert] = cert[e.cert] /\ key'[e.key] = key[e.key]
      BY <2>1, <2>2, <2>4
    <2>6. want[t] \notin disturbed' => key'[want[t].key] = Missing /\ cert'[want[t].cert] = got[t].cert
      BY <1>0, <2>1, <2>2 DEF CreatorInv
    <2>7. /\ cert' \in [CertPaths -> Contents] /\ key' \in [KeyPaths -> Contents]
          /\ disturbed \subseteq disturbed' /\ SharingCert(want[t]) \subseteq disturbed'
      BY <1>0, <2>1, <2>2, <2>3 DEF SharedInv
    <2> QED
      BY <2>1, <2>3, <2>5, <2>6, <2>7, WriteStep
  <1>9. ASSUME NEW t \in Threads, OpenKey(t) PROVE CAInv'
    <2>1. /\ at[t] = "openKey" /\ at' = [at EXCEPT ![t] = "fillKey"] /\ want[t] \in Places
          /\ key' = [key EXCEPT ![want[t].key] = Cut]
          /\ disturbed' = disturbed \cup SharingKey(want[t])
          /\ UNCHANGED <<cert, made, procVars, want, got, shown, stopped>>
      BY <1>0, <1>9 DEF OpenKey
    <2>2. /\ key' \in [KeyPaths -> Contents] /\ key'[want[t].key] = Cut
          /\ \A e \in Places : e.key # want[t].key => key'[e.key] = key[e.key]
      BY <1>0, <2>1
    <2>3. disturbed' \subseteq Places /\ SharingKey(want[t]) \subseteq disturbed'
      BY <1>0, <2>1 DEF SharingKey, SharedInv
    <2>4. \A e \in Places \ disturbed' : e # want[t] => e.key # want[t].key
      BY <2>3 DEF SharingKey
    <2>5. \A e \in Places \ disturbed' : e # want[t] =>
            cert'[e.cert] = cert[e.cert] /\ key'[e.key] = key[e.key]
      BY <2>1, <2>2, <2>4
    <2>6. want[t] \notin disturbed' => cert'[want[t].cert] = got[t].cert /\ key'[want[t].key] = Cut
      BY <1>0, <2>1, <2>2 DEF CreatorInv
    <2>7. /\ cert' \in [CertPaths -> Contents] /\ key' \in [KeyPaths -> Contents]
          /\ disturbed \subseteq disturbed' /\ SharingCert(want[t]) \subseteq disturbed'
      BY <1>0, <2>1, <2>2, <2>3 DEF SharedInv
    <2> QED
      BY <2>1, <2>3, <2>5, <2>6, <2>7, WriteStep
  <1>10. ASSUME NEW t \in Threads, FillKey(t) PROVE CAInv'
    <2>1. /\ at[t] = "fillKey" /\ want[t] \in Places /\ Loaded(t, got[t])
          /\ key' = [key EXCEPT ![want[t].key] = got[t].key]
          /\ UNCHANGED <<cert, made, pathVars, shown, disturbed, stopped>>
      BY <1>10 DEF FillKey
    <2>2. /\ got[t].cert = got[t].key /\ got[t].cert \in Whole
          /\ got[t] \in [cert : Whole, key : Whole]
      BY <1>0, <2>1 DEF CreationInv
    <2>3. /\ key' \in [KeyPaths -> Contents] /\ key'[want[t].key] = got[t].cert
          /\ \A e \in Places : e.key # want[t].key => key'[e.key] = key[e.key]
      BY <1>0, <2>1, <2>2
    <2>4. \A e \in Places \ {want[t]} : e \notin disturbed' => key'[e.key] = key[e.key]
      BY <1>0, <2>1, <2>3 DEF SharedInv, SharingKey
    <2>5. want[t] \notin disturbed' => /\ ~Complete(want[t]) /\ cert[want[t].cert] = key'[want[t].key]
                                      /\ got[t].cert = cert[want[t].cert]
      BY <1>0, <2>1, <2>2, <2>3 DEF CreatorInv, Complete
    <2> QED
      BY <1>0, <2>1, <2>2, <2>3, <2>4, <2>5, LoadedStep
  <1>11. ASSUME NEW t \in Threads, WriteFails(t) PROVE CAInv'
    <2>1. stopped' \subseteq Places /\ (at[t] = "fillKey" => want[t] \in stopped')
      BY <1>0, <1>11 DEF WriteFails, StoppedIn
    <2> QED
      BY <1>0, <1>11, <2>1, LoadFailsStep DEF WriteFails, StoppedIn
  <1>12. ASSUME NEW t \in Threads, Serve(t) PROVE CAInv'
    <2>1. CATypeOK'
      <3>1. shown' \in [Places -> SUBSET (1..MaxCAs)]
        BY <1>0, <1>12 DEF Serve, CreationInv, Whole
      <3> QED
        BY <1>0, <1>12, <3>1 DEF Serve
    <2>2. CreationInv'
      BY <1>0, <1>12 DEF Serve, CreationInv
    <2>3. AloneInv'
      BY <1>0, <1>12 DEF Serve, AloneInv
    <2>4. FilesInv'
      BY <1>0, <1>12 DEF Serve, FilesInv, Complete
    <2>5. CreatorInv'
      BY <1>0, <1>12 DEF Serve, CreatorInv
    <2>6. MemoryInv'
      BY <1>0, <1>12 DEF Serve, MemoryInv, Complete
    <2>7. ShownInv'
      BY <1>0, <1>12 DEF Serve, ShownInv, Complete
    <2>8. SharedInv'
      BY <1>0, <1>12 DEF Serve, SharedInv
    <2> QED
      BY <2>1, <2>2, <2>3, <2>4, <2>5, <2>6, <2>7, <2>8 DEF CAInv
  <1>13. ASSUME NEW p \in Procs, ReloadPaths(p) PROVE CAInv'
    <2>1. CATypeOK'
      BY <1>0, <1>13 DEF ReloadPaths, CATypeOK
    <2>2. CreationInv'
      BY <1>0, <1>13 DEF ReloadPaths, CreationInv
    <2>3. AloneInv'
      BY <1>0, <1>13 DEF ReloadPaths, AloneInv
    <2>4. FilesInv'
      BY <1>0, <1>13 DEF ReloadPaths, FilesInv, Complete
    <2>5. CreatorInv'
      BY <1>0, <1>13 DEF ReloadPaths, CreatorInv
    <2>6. MemoryInv'
      BY <1>0, <1>13 DEF ReloadPaths, MemoryInv, Complete
    <2>7. ShownInv'
      BY <1>0, <1>13 DEF ReloadPaths, ShownInv, Complete
    <2>8. SharedInv'
      BY <1>0, <1>13 DEF ReloadPaths, SharedInv
    <2> QED
      BY <2>1, <2>2, <2>3, <2>4, <2>5, <2>6, <2>7, <2>8 DEF CAInv
  <1>14. ASSUME NEW p \in Procs, Crash(p) PROVE CAInv'
    <2>1. CATypeOK'
      BY <1>0, <1>14 DEF Crash, StoppedIn, CATypeOK
    <2>2. CreationInv'
      BY <1>0, <1>14 DEF Crash, StoppedIn, CreationInv
    <2>3. AloneInv'
      BY <1>0, <1>14 DEF Crash, StoppedIn, AloneInv
    <2>4. FilesInv'
      BY <1>0, <1>14 DEF Crash, StoppedIn, FilesInv, Complete
    <2>5. CreatorInv'
      BY <1>0, <1>14 DEF Crash, StoppedIn, CreatorInv
    <2>6. MemoryInv'
      BY <1>0, <1>14 DEF Crash, StoppedIn, MemoryInv, Complete
    <2>7. ShownInv'
      BY <1>0, <1>14 DEF Crash, StoppedIn, ShownInv, Complete
    <2>8. SharedInv'
      BY <1>0, <1>14 DEF Crash, StoppedIn, SharedInv
    <2> QED
      BY <2>1, <2>2, <2>3, <2>4, <2>5, <2>6, <2>7, <2>8 DEF CAInv
  <1>15. CASE UNCHANGED caVars
    <2>1. CATypeOK'
      BY <1>0, <1>15 DEF caVars, CATypeOK
    <2>2. CreationInv'
      BY <1>0, <1>15 DEF caVars, CreationInv
    <2>3. AloneInv'
      BY <1>0, <1>15 DEF caVars, AloneInv
    <2>4. FilesInv'
      BY <1>0, <1>15 DEF caVars, FilesInv, Complete
    <2>5. CreatorInv'
      BY <1>0, <1>15 DEF caVars, CreatorInv
    <2>6. MemoryInv'
      BY <1>0, <1>15 DEF caVars, MemoryInv, Complete
    <2>7. ShownInv'
      BY <1>0, <1>15 DEF caVars, ShownInv, Complete
    <2>8. SharedInv'
      BY <1>0, <1>15 DEF caVars, SharedInv
    <2> QED
      BY <2>1, <2>2, <2>3, <2>4, <2>5, <2>6, <2>7, <2>8 DEF CAInv
  <1> QED
    BY <1>1, <1>2, <1>3, <1>4, <1>5, <1>6, <1>7, <1>8, <1>9, <1>10, <1>11, <1>12, <1>13, <1>14, <1>15
       DEF CANext, Load

\* CAInv is an inductive invariant: between the files, the loads that are under
\* way and the CAs in memory there is one CA for each pair of paths, as long as no
\* other process creates it at the same time, no creation for another pair writes
\* over one of its files, and no read fails.
THEOREM CAInvariant == CASpec => []CAInv
  <1> QED
    BY InitCAInv, CAStep, PTL DEF CASpec

\* Every variable of the certificate authority keeps its type.
THEOREM CATyped == CASpec => []CATypeOK
  <1>1. CAInv => CATypeOK
    BY DEF CAInv
  <1> QED
    BY <1>1, CAInvariant, PTL

\* For any number of processes, paths, reloads of one or both of them and crashes:
\* clients of a pair of paths meet one CA, unless it was created twice at once, a
\* file could not be read, or was overwritten by a creation for another pair.
THEOREM ClientsSeeOneCA == CASpec => []OneAuthority
  <1>1. CAInv => OneAuthority
    <2> SUFFICES ASSUME CAInv, NEW d \in Places \ disturbed PROVE Cardinality(shown[d]) <= 1
      BY DEF OneAuthority
    <2>1. shown[d] = {} \/ shown[d] = {cert[d.cert]}
      BY DEF CAInv, ShownInv
    <2>2. Cardinality({}) = 0 /\ Cardinality({cert[d.cert]}) = 1
      BY FS_EmptySet, FS_Singleton
    <2> QED
      BY <2>1, <2>2
  <1> QED
    BY <1>1, CAInvariant, PTL

\* What a creation leaves behind, wherever it is stopped, can be loaded or is made
\* anew, but for a key file that was truncated and never filled, and for pairs of
\* paths that another creation, or a failed read, has disturbed.
THEOREM CreationResumes == CASpec => []NoDeadEnd
  <1>1. CAInv => NoDeadEnd
    BY ContentsFacts DEF CAInv, FilesInv, NoDeadEnd, Complete, Creating
  <1> QED
    BY <1>1, CAInvariant, PTL

\* A process never holds a certificate with the key of another CA, although it
\* reads them one after the other and nothing compares them, unless its pair of
\* paths was disturbed: by a creation for another pair with one of the files, say.
THEOREM CACanSign == CASpec => []AbleToSign
  <1>1. CAInv => AbleToSign
    BY DEF CAInv, MemoryInv, AbleToSign, NoCA
  <1> QED
    BY <1>1, CAInvariant, PTL
=============================================================================
