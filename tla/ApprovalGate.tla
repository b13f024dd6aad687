---------------------------- MODULE ApprovalGate ----------------------------
(***************************************************************************)
(* What the approval flow promises to a client whose request matched a     *)
(* rule with action "approval" (README.md: the proxy can "hold sensitive   *)
(* requests until an operator approves them"), without channels, timers or *)
(* locks: a held request is forwarded only when the first verdict an       *)
(* operator gave for it is an approval; it may be refused at any time (the *)
(* operator denied it, the wait timed out, the client left); and it does   *)
(* not stay held for ever.                                                 *)
(***************************************************************************)
CONSTANTS Requests

VARIABLES gate,    \* gate[r]: where the request stands
          verdict  \* verdict[r]: the first verdict an operator gave for r

gateVars == <<gate, verdict>>

Verdicts == {"approved", "denied"}

GateInit ==
    /\ gate = [r \in Requests |-> "new"]
    /\ verdict = [r \in Requests |-> "none"]

Hold(r) ==
    /\ gate[r] = "new"
    /\ gate' = [gate EXCEPT ![r] = "held"]
    /\ UNCHANGED verdict

\* Only the first verdict counts, and there is none before r is held.
Decide(r, v) ==
    /\ gate[r] # "new"
    /\ verdict[r] = "none"
    /\ verdict' = [verdict EXCEPT ![r] = v]
    /\ UNCHANGED gate

Forward(r) ==
    /\ gate[r] = "held"
    /\ verdict[r] = "approved"
    /\ gate' = [gate EXCEPT ![r] = "forwarded"]
    /\ UNCHANGED verdict

Refuse(r) ==
    /\ gate[r] = "held"
    /\ gate' = [gate EXCEPT ![r] = "refused"]
    /\ UNCHANGED verdict

GateNext ==
    \E r \in Requests :
        \/ Hold(r)
        \/ \E v \in Verdicts : Decide(r, v)
        \/ Forward(r)
        \/ Refuse(r)

GateSafeSpec == GateInit /\ [][GateNext]_gateVars

GateSpec ==
    /\ GateSafeSpec
    /\ \A r \in Requests : WF_gateVars(Forward(r) \/ Refuse(r))
=============================================================================
