------------------------------ MODULE Consents ------------------------------
(***************************************************************************)
(* What the authorization code flow promises, whatever the number of       *)
(* requests, reloads and restarts behind it: a flow belongs to the user it *)
(* was begun for, the user consents once, the consent can be turned into a *)
(* token once, and that token is put in one place, once, among the places  *)
(* of that user.  A consent or a token may be lost at any point; it is     *)
(* never used twice and never kept for somebody else.                      *)
(***************************************************************************)
CONSTANTS
    Flows,
    Users,
    Secrets, Keys,  \* <<u, s, l>>: a place of user u
    None

VARIABLES
    owner,    \* owner[f]: the user flow f was begun for
    consent,  \* consent[f]: "none", "given", "spent" or "kept"
    kept      \* kept[<<u, s, l>>]: the flow whose token is in that place

consentVars == <<owner, consent, kept>>

Init ==
    /\ owner = [f \in Flows |-> None]
    /\ consent = [f \in Flows |-> "none"]
    /\ kept = [x \in Users \X Secrets \X Keys |-> None]

Begin(f) ==
    /\ owner[f] = None
    /\ \E u \in Users : owner' = [owner EXCEPT ![f] = u]
    /\ UNCHANGED <<consent, kept>>

Give(f) ==
    /\ owner[f] # None
    /\ consent[f] = "none"
    /\ consent' = [consent EXCEPT ![f] = "given"]
    /\ UNCHANGED <<owner, kept>>

\* The consent becomes a token ...
Spend(f) ==
    /\ consent[f] = "given"
    /\ consent' = [consent EXCEPT ![f] = "spent"]
    /\ UNCHANGED <<owner, kept>>

\* ... which is kept for the user.
Keep(f) ==
    /\ consent[f] = "spent"
    /\ consent' = [consent EXCEPT ![f] = "kept"]
    /\ \E s \in Secrets, l \in Keys : kept' = [kept EXCEPT ![<<owner[f], s, l>>] = f]
    /\ UNCHANGED owner

Next == \E f \in Flows : Begin(f) \/ Give(f) \/ Spend(f) \/ Keep(f)

Spec == Init /\ [][Next]_consentVars
=============================================================================
