----------------------------- MODULE MCOAuthFlow -----------------------------
(* A small instance of OAuthFlow for TLC. *)
EXTENDS OAuthFlow, TLC

CONSTANTS f1, f2, k1, k2, alice, bob, t1, t2

TwoFlows == {f1, f2}
TwoCallbacks == {k1, k2}
TwoUsers == {alice, bob}
TwoTokens == {t1, t2}

\* Everybody configured; alice removed; dynamic users; another client secret;
\* the credential removed.
Base == [users |-> {alice, bob}, dynamic |-> FALSE, defined |-> TRUE, secret |-> 1]
SomeConfigs ==
    {Base, [Base EXCEPT !.users = {bob}], [Base EXCEPT !.users = {}, !.dynamic = TRUE],
     [Base EXCEPT !.secret = 2], [Base EXCEPT !.defined = FALSE]}

Symmetry == Permutations(Flows) \cup Permutations(Callbacks) \cup Permutations(UserTokens)
=============================================================================
