------------------------------ MODULE Approval ------------------------------
(***************************************************************************)
(* The approval manager (src/internal/approval/manager.go) together with   *)
(* its two callers in src/internal/proxy/server.go: denialResponse, which  *)
(* blocks the client's request in Manager.Wait, and the admin endpoints    *)
(* that call Manager.Resolve.                                              *)
(*                                                                         *)
(* A request is the goroutine inside one Wait; a call is the goroutine of  *)
(* one POST /_scia/approvals/{id}/approve or deny.  Wait and Resolve share *)
(* the pending map (every access is one critical section of mu) and the    *)
(* request's channel done, of capacity one, which Resolve sends to AFTER   *)
(* it released mu.  A request that reached its select is "parked" when no  *)
(* case was ready: from then on the first event wakes it and no other can  *)
(* win, whereas before that events pile up and select picks any of them.   *)
(***************************************************************************)
CONSTANTS Requests,   \* requests that matched a rule with action "approval"
          Calls       \* admin calls that resolve a request

VARIABLES
    pending,    \* Manager.pending: the ids that List shows and Resolve finds
    wait,       \* wait[r]: how far r's goroutine is in Wait and after it
    done,       \* done[r]: the one slot of the channel pendingRequest.done
    fired,      \* fired[r]: r's timer has put its tick in timer.C
    gone,       \* gone[r]: the context of r's HTTP request is done
    outcome,    \* outcome[r]: what Wait returns
    call,       \* call[c]: how far the admin call is in Resolve
    callReq,    \* callReq[c]: the id in the URL of the call
    callVerdict,\* callVerdict[c]: approve or deny, from the URL of the call
    first       \* history: the first verdict Resolve sent for the request

vars == <<pending, wait, done, fired, gone, outcome, call, callReq,
          callVerdict, first>>

Verdicts == {"approved", "denied"}
Empty == "empty"
WaitStates == {"new", "registered", "parked", "decided", "forwarded", "refused"}
CallStates == {"idle", "found", "accepted", "notFound"}
Finished == {"forwarded", "refused"}

TypeOK ==
    /\ pending \in SUBSET Requests
    /\ wait \in [Requests -> WaitStates]
    /\ done \in [Requests -> Verdicts \cup {Empty}]
    /\ fired \in [Requests -> BOOLEAN]
    /\ gone \in [Requests -> BOOLEAN]
    /\ outcome \in [Requests -> Verdicts \cup {"none", "timeout", "cancelled"}]
    /\ call \in [Calls -> CallStates]
    /\ callReq \in [Calls -> Requests]
    /\ callVerdict \in [Calls -> Verdicts]
    /\ first \in [Requests -> Verdicts \cup {"none"}]

Init ==
    /\ pending = {}
    /\ wait = [r \in Requests |-> "new"]
    /\ done = [r \in Requests |-> Empty]
    /\ fired = [r \in Requests |-> FALSE]
    /\ gone = [r \in Requests |-> FALSE]
    /\ outcome = [r \in Requests |-> "none"]
    /\ call = [c \in Calls |-> "idle"]
    /\ callReq \in [Calls -> Requests]
    /\ callVerdict \in [Calls -> Verdicts]
    /\ first = [r \in Requests |-> "none"]

callVars == <<call, callReq, callVerdict, first>>
-----------------------------------------------------------------------------
(* The request's goroutine.                                                *)

\* r's select takes a case: Wait will return o.
Takes(r, o) ==
    /\ wait' = [wait EXCEPT ![r] = "decided"]
    /\ outcome' = [outcome EXCEPT ![r] = o]

\* Wait stores r in the pending map and starts r's timer.
Register(r) ==
    /\ wait[r] = "new"
    /\ wait' = [wait EXCEPT ![r] = "registered"]
    /\ pending' = pending \cup {r}
    /\ UNCHANGED <<done, fired, gone, outcome, callVars>>

\* A verdict is received but stays in the slot.
SelectVerdict_Peeks(r) ==
    /\ wait[r] = "registered"
    /\ done[r] # Empty
    /\ Takes(r, done[r])
    /\ UNCHANGED <<pending, done, fired, gone, callVars>>

\* The select: any case that is ready may be taken ...
SelectVerdict(r) ==
    /\ wait[r] = "registered"
    /\ done[r] # Empty
    /\ Takes(r, done[r])
    /\ done' = [done EXCEPT ![r] = Empty]
    /\ UNCHANGED <<pending, fired, gone, callVars>>

SelectTimeout(r) ==
    /\ wait[r] = "registered"
    /\ fired[r]
    /\ Takes(r, "timeout")
    /\ UNCHANGED <<pending, done, fired, gone, callVars>>

SelectCancelled(r) ==
    /\ wait[r] = "registered"
    /\ gone[r]
    /\ Takes(r, "cancelled")
    /\ UNCHANGED <<pending, done, fired, gone, callVars>>

\* ... and when none is, the goroutine parks.
Park(r) ==
    /\ wait[r] = "registered"
    /\ done[r] = Empty /\ ~fired[r] /\ ~gone[r]
    /\ wait' = [wait EXCEPT ![r] = "parked"]
    /\ UNCHANGED <<pending, done, fired, gone, outcome, callVars>>

\* The timer of a parked request is gone: only a verdict or the client ends it.
TimerFires_NotParked(r) ==
    /\ wait[r] = "registered"
    /\ ~fired[r]
    /\ fired' = [fired EXCEPT ![r] = TRUE]
    /\ UNCHANGED <<pending, wait, done, gone, outcome, callVars>>

\* The ttl has passed: the tick wakes a parked request or waits in timer.C.
TimerFires(r) ==
    /\ ~fired[r]
    /\ fired' = [fired EXCEPT ![r] = TRUE]
    /\ \/ wait[r] = "registered" /\ UNCHANGED <<wait, outcome>>
       \/ wait[r] = "parked" /\ Takes(r, "timeout")
    /\ UNCHANGED <<pending, done, gone, callVars>>

\* The client closes its connection before Wait was called or during it.
ClientLeaves(r) ==
    /\ ~gone[r]
    /\ gone' = [gone EXCEPT ![r] = TRUE]
    /\ \/ wait[r] \in {"new", "registered"} /\ UNCHANGED <<wait, outcome>>
       \/ wait[r] = "parked" /\ Takes(r, "cancelled")
    /\ UNCHANGED <<pending, done, fired, callVars>>

\* The request stays in the map after Wait.
Return_NoDelete(r) ==
    /\ wait[r] = "decided"
    /\ wait' = [wait EXCEPT ![r] =
                    IF outcome[r] = "approved" THEN "forwarded" ELSE "refused"]
    /\ UNCHANGED <<pending, done, fired, gone, outcome, callVars>>

\* Whatever is not a denial goes on.
Return_NotDenied(r) ==
    /\ wait[r] = "decided"
    /\ pending' = pending \ {r}
    /\ wait' = [wait EXCEPT ![r] =
                    IF outcome[r] # "denied" THEN "forwarded" ELSE "refused"]
    /\ UNCHANGED <<done, fired, gone, outcome, callVars>>

\* The deferred delete runs, Wait returns, and denialResponse lets the request
\* go on only for an approval without error.
Return(r) ==
    /\ wait[r] = "decided"
    /\ pending' = pending \ {r}
    /\ wait' = [wait EXCEPT ![r] =
                    IF outcome[r] = "approved" THEN "forwarded" ELSE "refused"]
    /\ UNCHANGED <<done, fired, gone, outcome, callVars>>
-----------------------------------------------------------------------------
(* The admin call's goroutine.                                             *)

\* Resolve looks the id up in the pending map, under the lock.
LookUp(c) ==
    /\ call[c] = "idle"
    /\ call' = [call EXCEPT ![c] =
                    IF callReq[c] \in pending THEN "found" ELSE "notFound"]
    /\ UNCHANGED <<pending, wait, done, fired, gone, outcome, callReq,
                   callVerdict, first>>

\* The channel is unbuffered: only a parked request takes a verdict.
Send_Unbuffered(c) ==
    /\ call[c] = "found"
    /\ wait[callReq[c]] = "parked"
    /\ Takes(callReq[c], callVerdict[c])
    /\ call' = [call EXCEPT ![c] = "accepted"]
    /\ first' = [first EXCEPT ![callReq[c]] = IF @ = "none" THEN callVerdict[c] ELSE @]
    /\ UNCHANGED <<pending, done, fired, gone, callReq, callVerdict>>

\* Resolve sends the verdict outside the lock: it is handed to a parked request,
\* or it takes the slot, or the call blocks while the slot is full.
Send(c) ==
    LET r == callReq[c]
        v == callVerdict[c]
    IN  /\ call[c] = "found"
        /\ \/ /\ wait[r] = "parked"
              /\ Takes(r, v)
              /\ UNCHANGED done
           \/ /\ wait[r] # "parked"
              /\ done[r] = Empty
              /\ done' = [done EXCEPT ![r] = v]
              /\ UNCHANGED <<wait, outcome>>
        /\ call' = [call EXCEPT ![c] = "accepted"]
        /\ first' = [first EXCEPT ![r] = IF @ = "none" THEN v ELSE @]
        /\ UNCHANGED <<pending, fired, gone, callReq, callVerdict>>
-----------------------------------------------------------------------------
Select(r) == SelectVerdict(r) \/ SelectTimeout(r) \/ SelectCancelled(r) \/ Park(r)

Next ==
    \/ \E r \in Requests :
            Register(r) \/ Select(r) \/ TimerFires(r) \/ ClientLeaves(r) \/ Return(r)
    \/ \E c \in Calls : LookUp(c) \/ Send(c)

Spec == Init /\ [][Next]_vars

\* The scheduler runs a goroutine that can run and the runtime fires timers;
\* clients and operators are under no obligation.
Fairness ==
    /\ \A r \in Requests : WF_vars(Select(r)) /\ WF_vars(TimerFires(r)) /\ WF_vars(Return(r))
    /\ \A c \in Calls : WF_vars(Send(c))

FairSpec == Spec /\ Fairness
-----------------------------------------------------------------------------
(* Properties.                                                             *)

Accepted(r) == {c \in Calls : call[c] = "accepted" /\ callReq[c] = r}

\* A request goes upstream only if the first verdict the manager took for it is
\* an approval that some operator's call reported as accepted: no timeout, lost
\* client, late or second verdict turns into an approval.
ForwardedWasApproved ==
    \A r \in Requests : wait[r] = "forwarded" =>
        /\ first[r] = "approved"
        /\ \E c \in Accepted(r) : callVerdict[c] = "approved"

\* The pending map holds exactly the requests between their registration and
\* their return: List shows no ghost, and Resolve misses no waiting request.
PendingIsInWait ==
    \A r \in Requests :
        r \in pending <=> wait[r] \in {"registered", "parked", "decided"}

\* Verdicts are conserved: of the calls accepted for a request one decided it
\* and at most one more is left in its channel.  In particular no more than two
\* calls are ever told that they resolved the same request.
VerdictsConserved ==
    \A r \in Requests :
        LET used == outcome[r] \in Verdicts
            left == done[r] # Empty
        IN  /\ (Accepted(r) = {}) <=> (~used /\ ~left)
            /\ \A a, b, c \in Accepted(r) : a = b \/ b = c \/ a = c
            /\ (\E a, b \in Accepted(r) : a # b) <=> (used /\ left)

\* Every Wait ends, whatever operators do: the ttl bounds it.
WaitEnds ==
    \A r \in Requests : (wait[r] = "registered") ~> (wait[r] \in Finished)

\* An admin call that found its request returns, except behind another call
\* whose accepted verdict came too late to matter: Resolve then blocks for ever
\* on a full channel nobody reads.
ResolveReturnsUnlessSlotLost ==
    \A c \in Calls :
        (call[c] = "found") ~>
            \/ call[c] = "accepted"
            \/ /\ wait[callReq[c]] \in Finished
               /\ done[callReq[c]] # Empty
               /\ Accepted(callReq[c]) # {}

\* The manager implements the abstract gate.
Gate == INSTANCE ApprovalGate WITH
    gate <- [r \in Requests |->
                IF wait[r] \in {"registered", "parked", "decided"} THEN "held" ELSE wait[r]],
    verdict <- first
GateSafe == Gate!GateSafeSpec
GateLive == Gate!GateSpec
=============================================================================
