--------------------------- MODULE MCProxyRequest ---------------------------
(* Small instances of ProxyRequest for TLC. *)
EXTENDS ProxyRequest

CONSTANTS k1, target, other

OneConn == {k1}
OneMethod == {"GET"}
TwoPaths == {"/", "/private"}
OneOther == {other}

\* A configuration that says nothing about the host, and changes to it.
Says(rules) == [rules |-> rules, service |-> FALSE, listed |-> {}, elsewhere |-> FALSE]
For(hosts, action) == [NoRule EXCEPT !.hosts = hosts, !.action = action]
Private(action) == [For({target}, action) EXCEPT !.paths = {"/private"}]

Open == Says(<<>>)
\* Requests are held and get credentials, after a rule for another host.
Held == Says(<<For({other}, "deny"), [For({target}, "approval") EXCEPT !.credentials = TRUE]>>)
\* What is private is denied, and the rest allowed.
Denied == Says(<<Private("deny"), For({}, "allow"), For({other}, "deny")>>)
\* Other hosts are to be intercepted, among them an integration's that does not count.
Tunnelled == [Held EXCEPT !.elsewhere = TRUE, !.listed = {"slack"}]
\* Other hosts are, and this one for an integration.
Listed == [Denied EXCEPT !.elsewhere = TRUE, !.listed = {"notion"}]
\* ... or for a service.  A CONNECT is held, and a request in it is not.
Service == [Says(<<[For({}, "approval") EXCEPT !.methods = {"CONNECT"}]>>)
               EXCEPT !.elsewhere = TRUE, !.service = TRUE]

SixConfigs == {Open, Held, Denied, Tunnelled, Listed, Service}
=============================================================================
