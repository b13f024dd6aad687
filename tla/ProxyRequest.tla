---------------------------- MODULE ProxyRequest ----------------------------
(***************************************************************************)
(* What the proxy does with a client's connection (Handler.ServeHTTP in    *)
(* src/internal/proxy/server.go) while the configuration is reloaded under *)
(* it.  A connection is "plain" (each request names its target and goes    *)
(* through serveForward) or "https" (a CONNECT, then a raw tunnel or the   *)
(* requests that interception reads from it, through roundTripMITMRequest).*)
(* All of them want the same target host, and its rules are evaluated by   *)
(* Evaluate (src/internal/policy/policy.go).                               *)
(*                                                                         *)
(* The configuration is read anew in several places, the policy is applied *)
(* to the CONNECT and again to each request, and a request may be held for *)
(* an operator in between (ApprovalGate says how that ends).  A step ends  *)
(* where the code waits: for an operator, the secret store, the provider,  *)
(* the client or the upstream, the last two without a deadline.  Targets   *)
(* that are the proxy itself are refused before any of this                *)
(* (isProxySelfTarget) and left out.                                       *)
(*                                                                         *)
(* A pattern is what it matches, and a list of patterns the set of methods,*)
(* hosts or paths that it has a match for.                                 *)
(***************************************************************************)
EXTENDS Naturals, Sequences, FiniteSetsExt

CONSTANTS
    Conns,       \* client connections
    Methods,     \* methods of requests, other than CONNECT
    Paths,       \* paths of requests; that of a CONNECT is Root
    Root,
    Target,      \* the host all of them want
    OtherHosts,  \* other hosts that rules name
    Configs,     \* the configurations a reload may install
    MaxReloads,  \* bound: reloads
    MaxRequests  \* bound: requests of one connection

Actions == {"allow", "deny", "approval"}
Integrations == {"google", "notion", "todoist", "slack", "github"}

\* RuleConfig.  An empty list of methods, hosts or paths matches all.
Rule ==
    [methods : SUBSET (Methods \cup {"CONNECT"}), hosts : SUBSET ({Target} \cup OtherHosts),
     paths : SUBSET Paths, action : Actions,
     credentials : BOOLEAN,  \* the rule names credentials
     services : BOOLEAN]     \* ... or services

ConfigType ==
    [rules : Seq(Rule),
     service : BOOLEAN,    \* a service in the configuration has the target
     listed : SUBSET Integrations,  \* server.integrations.X.hosts has the target
     elsewhere : BOOLEAN]  \* the lists of hosts to intercept have other ones

\* What Validate demands of rules, as far as the rest depends on it.
Valid(c) == \A i \in DOMAIN c.rules : c.rules[i].credentials => c.rules[i].hosts # {}

ASSUME ConstantsOK ==
    /\ Root \in Paths /\ "CONNECT" \notin Methods
    /\ \A c \in Configs : c \in ConfigType /\ Valid(c)
    /\ MaxReloads \in Nat /\ MaxRequests \in Nat \ {0}

VARIABLES
    version,  \* how many reloads there have been
    config,   \* Store.current
    kind,     \* kind[k]: plain or https
    pc,       \* pc[k]: where the connection's goroutine is
    snap,     \* snap[k]: the cfg its handler holds
    asked,    \* asked[k]: method and path of its request (or CONNECT)
    count,    \* count[k]: requests read from the connection
    born,     \* history: the version when the request (or CONNECT) arrived
    judged,   \* history: the version of snap[k]
    approved, \* history: has an operator approved this request (or CONNECT)?
    injected, \* injected[k]: what was added to the request: none, token
    peer,     \* peer[k][s]: what the client and the upstream of a tunnel do
    copied,   \* copied[k]: the directions of a tunnel that are over, by sender
    sent      \* history: what has gone upstream

configVars == <<version, config>>
requestVars == <<snap, asked, born, judged, approved, injected>>
pipeVars == <<peer, copied>>
vars == <<configVars, kind, pc, requestVars, count, pipeVars, sent>>

\* Where a connection is between its requests, where a CONNECT and where a
\* request is being worked on, where it is a tunnel, and where it ends.
Between == {"new", "ready"}
Connecting == {"connectHeld", "choose", "handshake", "dial"}
Working == {"held", "inject", "send"}
Piped == {"tunnel", "upgraded"}

\* Where the goroutine waits for the client or the upstream, for as long as that
\* takes: handshakes, connections through a backend proxy, requests, responses.
AtPeer == {"handshake", "dial", "send"}

\* A peer of a tunnel is sending, has finished and still reads, or is gone.
Sides == {"client", "upstream"}
Other(s) == IF s = "client" THEN "upstream" ELSE "client"

Asked == [method : Methods \cup {"CONNECT"}, path : Paths]
ConnectRequest == [method |-> "CONNECT", path |-> Root]

Upstream == [what : {"request", "tunnel", "websocket"}, config : Configs, asked : Asked,
             approved : BOOLEAN, injected : {"none", "token"}, late : BOOLEAN]

TypeOK ==
    /\ version \in 0..MaxReloads
    /\ config \in Configs
    /\ kind \in [Conns -> {"plain", "https"}]
    /\ pc \in [Conns -> Between \cup Connecting \cup Working \cup Piped \cup {"closed"}]
    /\ snap \in [Conns -> Configs]
    /\ asked \in [Conns -> Asked]
    /\ count \in [Conns -> 0..MaxRequests]
    /\ born \in [Conns -> 0..MaxReloads]
    /\ judged \in [Conns -> 0..MaxReloads]
    /\ approved \in [Conns -> BOOLEAN]
    /\ injected \in [Conns -> {"none", "token"}]
    /\ peer \in [Conns -> [Sides -> {"sending", "finished", "gone"}]]
    /\ copied \in [Conns -> SUBSET Sides]
    /\ sent \subseteq Upstream

Init ==
    /\ version = 0 /\ config \in Configs
    /\ kind \in [Conns -> {"plain", "https"}]
    /\ pc = [k \in Conns |-> "new"]
    /\ snap = [k \in Conns |-> config]
    /\ asked = [k \in Conns |-> ConnectRequest]
    /\ count = [k \in Conns |-> 0]
    /\ born = [k \in Conns |-> 0]
    /\ judged = [k \in Conns |-> 0]
    /\ approved = [k \in Conns |-> FALSE]
    /\ injected = [k \in Conns |-> "none"]
    /\ peer = [k \in Conns |-> [s \in Sides |-> "sending"]]
    /\ copied = [k \in Conns |-> {}]
    /\ sent = {}
-----------------------------------------------------------------------------
(* The policy.                                                             *)

InList(values, v) == values = {} \/ v \in values

RuleMatches(rule, q) ==
    /\ InList(rule.methods, q.method)
    /\ InList(rule.hosts, Target)
    /\ InList(rule.paths, q.path)

\* The decision where no rule matches.
NoRule == [methods |-> {}, hosts |-> {}, paths |-> {}, action |-> "allow",
           credentials |-> FALSE, services |-> FALSE]

\* The rules that match are looked at from the last one.
Evaluate_Last(c, q) ==
    LET hits == {i \in DOMAIN c.rules : RuleMatches(c.rules[i], q)}
    IN  IF hits = {} THEN NoRule ELSE c.rules[Max(hits)]

\* The first rule that matches decides.
Evaluate(c, q) ==
    LET hits == {i \in DOMAIN c.rules : RuleMatches(c.rules[i], q)}
    IN  IF hits = {} THEN NoRule ELSE c.rules[Min(hits)]

Decision(k) == Evaluate(snap[k], asked[k])
-----------------------------------------------------------------------------
Goto(k, where) == pc' = [pc EXCEPT ![k] = where]

\* A handler starts on a request: it takes the current configuration for its own.
Snapshot(k, q) ==
    /\ snap' = [snap EXCEPT ![k] = config]
    /\ asked' = [asked EXCEPT ![k] = q]
    /\ judged' = [judged EXCEPT ![k] = version]
    /\ born' = [born EXCEPT ![k] = version]
    /\ approved' = [approved EXCEPT ![k] = FALSE]
    /\ injected' = [injected EXCEPT ![k] = "none"]

\* authorizeDecision and denialResponse: the three ways on.
Authorize(k, action, held, onward, refused) ==
    CASE action = "deny" -> Goto(k, refused)
      [] action = "approval" -> Goto(k, held)
      [] action = "allow" -> Goto(k, onward)

\* After a response an intercepted connection waits for its next request.
Answered(k) == IF kind[k] = "https" THEN "ready" ELSE "closed"

\* Something goes upstream.
Send(k, what) ==
    sent' = sent \cup {[what |-> what, config |-> snap[k], asked |-> asked[k],
                        approved |-> approved[k], injected |-> injected[k],
                        late |-> judged[k] < born[k]]}

\* A tunnel begins.
Pipe(k) ==
    /\ peer' = [peer EXCEPT ![k] = [s \in Sides |-> "sending"]]
    /\ copied' = [copied EXCEPT ![k] = {}]
-----------------------------------------------------------------------------
(* CONNECT.                                                                *)

\* serveConnect.
Connect(k) ==
    /\ pc[k] = "new" /\ kind[k] = "https"
    /\ Snapshot(k, ConnectRequest)
    /\ Authorize(k, Evaluate(config, ConnectRequest).action, "connectHeld", "choose", "closed")
    /\ UNCHANGED <<configVars, kind, count, pipeVars, sent>>

\* mitmHostAllowed(integrationMITMHosts(cfg), host): no list means every host.
\* The list is made of three of the integrations and of the services.
MITMHostAllowed(c) ==
    c.listed \cap {"google", "notion", "todoist"} # {} \/ c.service \/ ~c.elsewhere

\* shouldMITMForServices: services of the rule, of the config, or of the store
\* have the host; or the list of hosts says so.
Intercepts(k, stored) ==
    Decision(k).services \/ snap[k].service \/ stored \/ MITMHostAllowed(snap[k])

\* The connection is to be intercepted, with the CA at hand, or tunnelled.  When
\* the store, the metadata or the CA fails, this is its end.
Choose(k) ==
    /\ pc[k] = "choose"
    /\ \E stored \in BOOLEAN :
        Goto(k, IF Intercepts(k, stored) THEN "handshake" ELSE "dial") \/ Goto(k, "closed")
    /\ UNCHANGED <<configVars, kind, requestVars, count, pipeVars, sent>>

\* The client's side of the TLS handshake, with the certificate for the host.
Handshake(k) ==
    /\ pc[k] = "handshake"
    /\ Goto(k, "ready") \/ Goto(k, "closed")
    /\ UNCHANGED <<configVars, kind, requestVars, count, pipeVars, sent>>

\* The upstream of a raw tunnel, or the backend proxy before it, is reached.
Dial(k) ==
    /\ pc[k] = "dial"
    /\ \/ Goto(k, "tunnel") /\ Pipe(k) /\ Send(k, "tunnel")
       \/ Goto(k, "closed") /\ UNCHANGED <<pipeVars, sent>>
    /\ UNCHANGED <<configVars, kind, requestVars, count>>
-----------------------------------------------------------------------------
(* A request: serveForward, or roundTripMITMRequest on an intercepted      *)
(* connection.                                                             *)

Arrives(k) ==
    /\ pc[k] = IF kind[k] = "https" THEN "ready" ELSE "new"
    /\ count[k] < MaxRequests
    /\ count' = [count EXCEPT ![k] = @ + 1]

\* The request is judged by the configuration its CONNECT was judged by.
Request_OfConnect(k, q) ==
    /\ Arrives(k)
    /\ asked' = [asked EXCEPT ![k] = q]
    /\ born' = [born EXCEPT ![k] = version]
    /\ approved' = [approved EXCEPT ![k] = FALSE]
    /\ injected' = [injected EXCEPT ![k] = "none"]
    /\ Authorize(k, Evaluate(snap[k], q).action, "held", "inject", Answered(k))
    /\ UNCHANGED <<configVars, kind, snap, judged, pipeVars, sent>>

\* What an operator approved for the CONNECT is taken to hold for the request.
Request_ApprovedBefore(k, q) ==
    /\ Arrives(k)
    /\ Snapshot(k, q)
    /\ Authorize(k, IF approved[k] THEN "allow" ELSE Evaluate(config, q).action,
                 "held", "inject", Answered(k))
    /\ UNCHANGED <<configVars, kind, pipeVars, sent>>

Request(k, q) ==
    /\ Arrives(k)
    /\ Snapshot(k, q)
    /\ Authorize(k, Evaluate(config, q).action, "held", "inject", Answered(k))
    /\ UNCHANGED <<configVars, kind, pipeVars, sent>>

\* An operator approves what is held.
Approve(k) ==
    /\ pc[k] \in {"connectHeld", "held"}
    /\ approved' = [approved EXCEPT ![k] = TRUE]
    /\ Goto(k, IF pc[k] = "held" THEN "inject" ELSE "choose")
    /\ UNCHANGED <<configVars, kind, snap, asked, count, born, judged, injected, pipeVars, sent>>

\* The wait of a request inside an intercepted connection has no timeout.
Refuse_ConnectOnly(k) ==
    /\ pc[k] = "connectHeld"
    /\ Goto(k, "closed")
    /\ UNCHANGED <<configVars, kind, requestVars, count, pipeVars, sent>>

\* Nobody does in time, or somebody denies it, or the client leaves.
Refuse(k) ==
    /\ pc[k] \in {"connectHeld", "held"}
    /\ Goto(k, IF pc[k] = "held" THEN Answered(k) ELSE "closed")
    /\ UNCHANGED <<configVars, kind, requestVars, count, pipeVars, sent>>

\* A failed injection is logged, and the request goes on without.
Inject_Bare(k) ==
    /\ pc[k] = "inject"
    /\ \E ok \in BOOLEAN :
        injected' = [injected EXCEPT ![k] = IF ok /\ Decision(k).credentials THEN "token" ELSE "none"]
    /\ Goto(k, "send")
    /\ UNCHANGED <<configVars, kind, snap, asked, count, born, judged, approved, pipeVars, sent>>

\* The target is checked against the hosts of the rule, the credentials and the
\* services are resolved and added; whatever fails ends the request with a 502.
Inject(k) ==
    /\ pc[k] = "inject"
    /\ \/ /\ Decision(k).credentials => Target \in Decision(k).hosts
          /\ injected' = [injected EXCEPT ![k] = IF Decision(k).credentials THEN "token" ELSE "none"]
          /\ Goto(k, "send")
       \/ Goto(k, Answered(k)) /\ UNCHANGED injected
    /\ UNCHANGED <<configVars, kind, snap, asked, count, born, judged, approved, pipeVars, sent>>

\* RoundTrip, and the response is passed back, or a 502 in its place.
Forward(k) ==
    /\ pc[k] = "send"
    /\ Send(k, "request") \/ UNCHANGED sent
    /\ Goto(k, Answered(k))
    /\ UNCHANGED <<configVars, kind, requestVars, count, pipeVars>>

\* handleMITMWebSocket: when the upstream accepts the upgrade, the connection is
\* piped from here on; when it answers anything else, the connection ends with
\* that; an error before is a 502.
Upgrade(k) ==
    /\ pc[k] = "send" /\ kind[k] = "https"
    /\ Send(k, "websocket")
    /\ \/ Goto(k, "upgraded") /\ Pipe(k)
       \/ \E where \in {"closed", "ready"} : Goto(k, where) /\ UNCHANGED pipeVars
    /\ UNCHANGED <<configVars, kind, requestVars, count>>

\* The client is done, or gone.
Close(k) ==
    /\ pc[k] = "ready"
    /\ Goto(k, "closed")
    /\ UNCHANGED <<configVars, kind, requestVars, count, pipeVars, sent>>
-----------------------------------------------------------------------------
(* A tunnel: pipeBidirectional.                                            *)

\* A peer has sent all it had to send, or is gone.
PeerEnds(k, s) ==
    /\ pc[k] \in Piped
    /\ \/ peer[k][s] = "sending" /\ peer' = [peer EXCEPT ![k][s] = "finished"]
       \/ peer[k][s] # "gone" /\ peer' = [peer EXCEPT ![k][s] = "gone"]
    /\ UNCHANGED <<configVars, kind, pc, requestVars, count, copied, sent>>

\* The end of one direction is not passed on.
CopyEnds_Silent(k, s) ==
    /\ pc[k] \in Piped
    /\ s \notin copied[k] /\ peer[k][s] # "sending" /\ peer[k][Other(s)] # "sending"
    /\ copied' = [copied EXCEPT ![k] = @ \cup {s}]
    /\ UNCHANGED <<configVars, kind, pc, requestVars, count, peer, sent>>

\* A copy ends with what it reads, and the other peer is told (closeWrite).
CopyEnds(k, s) ==
    /\ pc[k] \in Piped
    /\ s \notin copied[k] /\ peer[k][s] # "sending"
    /\ copied' = [copied EXCEPT ![k] = @ \cup {s}]
    /\ UNCHANGED <<configVars, kind, pc, requestVars, count, peer, sent>>

\* ... or when the other peer can no longer be written to.
CopyFails(k, s) ==
    /\ pc[k] \in Piped
    /\ s \notin copied[k] /\ peer[k][Other(s)] = "gone"
    /\ copied' = [copied EXCEPT ![k] = @ \cup {s}]
    /\ UNCHANGED <<configVars, kind, pc, requestVars, count, peer, sent>>

\* The first direction that is over ends the tunnel.
PipeOver_First(k) ==
    /\ pc[k] \in Piped
    /\ copied[k] # {}
    /\ Goto(k, "closed")
    /\ UNCHANGED <<configVars, kind, requestVars, count, pipeVars, sent>>

\* Both directions are over, and both connections are closed.
PipeOver(k) ==
    /\ pc[k] \in Piped
    /\ copied[k] = Sides
    /\ Goto(k, "closed")
    /\ UNCHANGED <<configVars, kind, requestVars, count, pipeVars, sent>>

\* ConfigReload installs another configuration.
Reload ==
    /\ version < MaxReloads
    /\ version' = version + 1
    /\ \E c \in Configs : config' = c
    /\ UNCHANGED <<kind, pc, requestVars, count, pipeVars, sent>>
-----------------------------------------------------------------------------
\* What the proxy does by itself, in a time that the code bounds.
Handle(k) ==
    \/ Choose(k) \/ Refuse(k) \/ Inject(k)
    \/ \E s \in Sides : CopyEnds(k, s)
    \/ PipeOver(k)

\* What it does when the peer it waits for lets it.
Await(k) == Handshake(k) \/ Dial(k) \/ Forward(k) \/ Upgrade(k)

Next ==
    \/ \E k \in Conns :
        \/ Connect(k) \/ Approve(k) \/ Handle(k) \/ Await(k) \/ Close(k)
        \/ \E m \in Methods, p \in Paths : Request(k, [method |-> m, path |-> p])
        \/ \E s \in Sides : PeerEnds(k, s) \/ CopyFails(k, s)
    \/ Reload

Spec == Init /\ [][Next]_vars

\* A peer that is told of the end of what the other one sends.
Told(k, s) == Other(s) \in copied[k]

\* Handlers run where nothing but timers, the store and providers hold them up, and
\* a held request ends, for Approval ends every Wait.  Await is not fair.  Of the
\* peers of a tunnel no more is assumed than that they take what they are sent, and
\* that who is told of the end of the other one's data ends too: the code sets no
\* timeout for them.
FairSpec ==
    /\ Spec
    /\ \A k \in Conns :
        /\ WF_vars(Handle(k))
        /\ \A s \in Sides :
            WF_vars(Told(k, s) /\ peer[k][s] = "sending" /\ PeerEnds(k, s))
-----------------------------------------------------------------------------
(* Properties.                                                             *)

\* A request passes the rules if all before the first that matches do not, and
\* that one allows it, or holds it and an operator has approved.
Passes(rules, q, wasApproved) ==
    \A i \in DOMAIN rules :
        (RuleMatches(rules[i], q) /\ \A j \in 1..(i - 1) : ~RuleMatches(rules[j], q)) =>
            rules[i].action = "allow" \/ (rules[i].action = "approval" /\ wasApproved)

\* Whatever goes upstream was allowed by the configuration it was judged by, or
\* held by it and then approved, for itself: the approval of a CONNECT is none
\* for a request inside, nor that of one request for the next.
SentWasAllowed == \A u \in sent : Passes(u.config.rules, u.asked, u.approved)

\* A request is judged by a configuration that was current when it arrived or
\* later: on a connection that is kept open a reload counts from the next request.
NeverJudgedLate == \A u \in sent : ~u.late

\* A request whose rule has credentials does not go upstream without them, and
\* they go to no host that no rule with credentials names.
CredentialsOrNothing ==
    \A u \in sent : u.what # "tunnel" =>
        /\ (u.injected = "token") <=> Evaluate(u.config, u.asked).credentials
        /\ u.injected = "token" =>
            \E i \in DOMAIN u.config.rules :
                u.config.rules[i].credentials /\ Target \in u.config.rules[i].hosts

\* Every request or CONNECT that arrives is answered or becomes a tunnel, if no
\* client or upstream keeps its connection waiting for ever: the operator, the
\* policy and the injection cannot.
RequestsAnswered ==
    \A k \in Conns : []<>(pc[k] \notin AtPeer) =>
        (pc[k] \in Connecting \cup Working) ~> (pc[k] \in {"ready", "closed"} \cup Piped)

\* A tunnel that one peer has ended ends, if the other one follows.
TunnelsEnd ==
    \A k \in Conns :
        (pc[k] \in Piped /\ \E s \in Sides : peer[k][s] # "sending") ~> (pc[k] = "closed")

\* A peer that is still sending is cut off only if nobody is there to read it:
\* who ends its own direction first still gets all of the answer.
HalfCloseHonoured ==
    [][\A k \in Conns, s \in Sides :
        (pc[k] \in Piped /\ pc'[k] = "closed" /\ peer[k][s] = "sending") =>
            peer[k][Other(s)] = "gone"]_vars
=============================================================================
