--------------------------- MODULE ApprovalProofs ---------------------------
(***************************************************************************)
(* Proofs about Approval, for any sets of requests and admin calls.  The   *)
(* safety properties are not inductive: what a request may do at its       *)
(* return depends on what its channel held when its select ran, and that   *)
(* on which calls were accepted.  ApprovalInv records this chain.          *)
(***************************************************************************)
EXTENDS Approval, TLAPS

Waiting == {"registered", "parked", "decided"}

\* Wait has an outcome exactly when its select is over, and it is kept.
OutcomeInv ==
    \A r \in Requests :
        /\ (outcome[r] = "none") <=> (wait[r] \in {"new", "registered", "parked"})
        /\ (wait[r] = "forwarded") => (outcome[r] = "approved")

\* The first verdict is the one the request received or, before that, the one
\* in its channel; a parked request has had none.
FirstInv ==
    \A r \in Requests :
        /\ (outcome[r] \in Verdicts) => (outcome[r] = first[r])
        /\ (outcome[r] \notin Verdicts /\ done[r] # Empty) => (done[r] = first[r])
        /\ (outcome[r] \notin Verdicts /\ done[r] = Empty) => (first[r] = "none")
        /\ (wait[r] \in {"new", "parked"}) => (done[r] = Empty)

\* A verdict that counts was given by an accepted call, and calls are accepted
\* only for requests that reached the pending map.
GivenInv ==
    /\ \A r \in Requests : (first[r] # "none") =>
            \E c \in Accepted(r) : callVerdict[c] = first[r]
    /\ \A c \in Calls : (call[c] \in {"found", "accepted"}) => (wait[callReq[c]] # "new")

ApprovalInv ==
    /\ TypeOK
    /\ PendingIsInWait
    /\ OutcomeInv
    /\ FirstInv
    /\ GivenInv
    /\ VerdictsConserved

-----------------------------------------------------------------------------
\* The initial states satisfy the inductive invariant.
LEMMA InitApprovalInv == Init => ApprovalInv
  BY DEF Init, ApprovalInv, TypeOK, PendingIsInWait, OutcomeInv, FirstInv, GivenInv,
         VerdictsConserved, Accepted, Verdicts, Empty, WaitStates, CallStates

\* Every variable keeps its type.
LEMMA TypeStep == TypeOK /\ [Next]_vars => TypeOK'
  <1> SUFFICES ASSUME TypeOK, [Next]_vars PROVE TypeOK'
    OBVIOUS
  <1> USE DEF TypeOK, Verdicts, Empty, WaitStates, CallStates, callVars, Takes
  <1>1. ASSUME NEW r \in Requests, Register(r) PROVE TypeOK'
    BY <1>1 DEF Register
  <1>2. ASSUME NEW r \in Requests, SelectVerdict(r) PROVE TypeOK'
    BY <1>2 DEF SelectVerdict
  <1>3. ASSUME NEW r \in Requests, SelectTimeout(r) PROVE TypeOK'
    BY <1>3 DEF SelectTimeout
  <1>4. ASSUME NEW r \in Requests, SelectCancelled(r) PROVE TypeOK'
    BY <1>4 DEF SelectCancelled
  <1>5. ASSUME NEW r \in Requests, Park(r) PROVE TypeOK'
    BY <1>5 DEF Park
  <1>6. ASSUME NEW r \in Requests, TimerFires(r) PROVE TypeOK'
    BY <1>6 DEF TimerFires
  <1>7. ASSUME NEW r \in Requests, ClientLeaves(r) PROVE TypeOK'
    BY <1>7 DEF ClientLeaves
  <1>8. ASSUME NEW r \in Requests, Return(r) PROVE TypeOK'
    BY <1>8 DEF Return
  <1>9. ASSUME NEW c \in Calls, LookUp(c) PROVE TypeOK'
    BY <1>9 DEF LookUp
  <1>10. ASSUME NEW c \in Calls, Send(c) PROVE TypeOK'
    BY <1>10 DEF Send
  <1>11. CASE UNCHANGED vars
    BY <1>11 DEF vars
  <1> QED
    BY <1>1, <1>2, <1>3, <1>4, <1>5, <1>6, <1>7, <1>8, <1>9, <1>10, <1>11 DEF Next, Select

\* The pending map follows the state of the waits.
LEMMA PendingStep == ApprovalInv /\ [Next]_vars => PendingIsInWait'
  <1> SUFFICES ASSUME ApprovalInv, [Next]_vars PROVE PendingIsInWait'
    OBVIOUS
  <1> USE DEF ApprovalInv, TypeOK, PendingIsInWait, callVars, Takes
  <1>1. ASSUME NEW r \in Requests, Register(r) PROVE PendingIsInWait'
    BY <1>1 DEF Register
  <1>2. ASSUME NEW r \in Requests, Select(r) PROVE PendingIsInWait'
    BY <1>2 DEF Select, SelectVerdict, SelectTimeout, SelectCancelled, Park
  <1>3. ASSUME NEW r \in Requests, TimerFires(r) \/ ClientLeaves(r) PROVE PendingIsInWait'
    BY <1>3 DEF TimerFires, ClientLeaves
  <1>4. ASSUME NEW r \in Requests, Return(r) PROVE PendingIsInWait'
    BY <1>4 DEF Return
  <1>5. ASSUME NEW c \in Calls, LookUp(c) PROVE PendingIsInWait'
    BY <1>5 DEF LookUp
  <1>6. ASSUME NEW c \in Calls, Send(c) PROVE PendingIsInWait'
    BY <1>6 DEF Send
  <1>7. CASE UNCHANGED vars
    BY <1>7 DEF vars
  <1> QED
    BY <1>1, <1>2, <1>3, <1>4, <1>5, <1>6, <1>7 DEF Next

\* Outcomes are decided once, by the select.
LEMMA OutcomeStep == ApprovalInv /\ [Next]_vars => OutcomeInv'
  <1> SUFFICES ASSUME ApprovalInv, [Next]_vars PROVE OutcomeInv'
    OBVIOUS
  <1> USE DEF ApprovalInv, TypeOK, OutcomeInv, callVars, Takes, Verdicts, Empty
  <1>1. ASSUME NEW r \in Requests, Register(r) PROVE OutcomeInv'
    BY <1>1 DEF Register
  <1>2. ASSUME NEW r \in Requests, Select(r) PROVE OutcomeInv'
    BY <1>2 DEF Select, SelectVerdict, SelectTimeout, SelectCancelled, Park
  <1>3. ASSUME NEW r \in Requests, TimerFires(r) \/ ClientLeaves(r) PROVE OutcomeInv'
    BY <1>3 DEF TimerFires, ClientLeaves
  <1>4. ASSUME NEW r \in Requests, Return(r) PROVE OutcomeInv'
    BY <1>4 DEF Return
  <1>5. ASSUME NEW c \in Calls, LookUp(c) PROVE OutcomeInv'
    BY <1>5 DEF LookUp
  <1>6. ASSUME NEW c \in Calls, Send(c) PROVE OutcomeInv'
    BY <1>6 DEF Send
  <1>7. CASE UNCHANGED vars
    BY <1>7 DEF vars
  <1> QED
    BY <1>1, <1>2, <1>3, <1>4, <1>5, <1>6, <1>7 DEF Next

\* What is in the channel, or was taken from it, is the first verdict.
LEMMA FirstStep == ApprovalInv /\ [Next]_vars => FirstInv'
  <1> SUFFICES ASSUME ApprovalInv, [Next]_vars PROVE FirstInv'
    OBVIOUS
  <1> USE DEF ApprovalInv, TypeOK, OutcomeInv, FirstInv, callVars, Takes, Verdicts, Empty
  <1>1. ASSUME NEW r \in Requests, Register(r) PROVE FirstInv'
    BY <1>1 DEF Register
  <1>2. ASSUME NEW r \in Requests, Select(r) PROVE FirstInv'
    BY <1>2 DEF Select, SelectVerdict, SelectTimeout, SelectCancelled, Park
  <1>3. ASSUME NEW r \in Requests, TimerFires(r) \/ ClientLeaves(r) PROVE FirstInv'
    BY <1>3 DEF TimerFires, ClientLeaves
  <1>4. ASSUME NEW r \in Requests, Return(r) PROVE FirstInv'
    BY <1>4 DEF Return
  <1>5. ASSUME NEW c \in Calls, LookUp(c) PROVE FirstInv'
    BY <1>5 DEF LookUp
  <1>6. ASSUME NEW c \in Calls, Send(c) PROVE FirstInv'
    <2>1. wait[callReq[c]] # "new"
      BY <1>6 DEF Send, GivenInv
    <2> QED
      BY <1>6, <2>1 DEF Send
  <1>7. CASE UNCHANGED vars
    BY <1>7 DEF vars
  <1> QED
    BY <1>1, <1>2, <1>3, <1>4, <1>5, <1>6, <1>7 DEF Next

\* A verdict that counts keeps the call that gave it.
LEMMA GivenStep == ApprovalInv /\ [Next]_vars => GivenInv'
  <1> SUFFICES ASSUME ApprovalInv, [Next]_vars PROVE GivenInv'
    OBVIOUS
  <1> USE DEF ApprovalInv, TypeOK, GivenInv, Accepted, callVars, Takes, Verdicts, Empty
  <1>1. ASSUME NEW r \in Requests, Register(r) PROVE GivenInv'
    BY <1>1 DEF Register
  <1>2. ASSUME NEW r \in Requests, Select(r) PROVE GivenInv'
    BY <1>2 DEF Select, SelectVerdict, SelectTimeout, SelectCancelled, Park
  <1>3. ASSUME NEW r \in Requests, TimerFires(r) \/ ClientLeaves(r) PROVE GivenInv'
    BY <1>3 DEF TimerFires, ClientLeaves
  <1>4. ASSUME NEW r \in Requests, Return(r) PROVE GivenInv'
    BY <1>4 DEF Return
  <1>5. ASSUME NEW c \in Calls, LookUp(c) PROVE GivenInv'
    BY <1>5 DEF LookUp, PendingIsInWait
  <1>6. ASSUME NEW c \in Calls, Send(c) PROVE GivenInv'
    BY <1>6 DEF Send
  <1>7. CASE UNCHANGED vars
    BY <1>7 DEF vars
  <1> QED
    BY <1>1, <1>2, <1>3, <1>4, <1>5, <1>6, <1>7 DEF Next

\* Only Send and SelectVerdict move verdicts, and neither creates or drops one.
LEMMA ConservedStep == ApprovalInv /\ [Next]_vars => VerdictsConserved'
  <1> SUFFICES ASSUME ApprovalInv, [Next]_vars PROVE VerdictsConserved'
    OBVIOUS
  <1> USE DEF ApprovalInv, TypeOK, OutcomeInv, FirstInv, VerdictsConserved, Accepted,
              callVars, Takes, Verdicts, Empty
  <1>1. ASSUME NEW r \in Requests, Register(r) PROVE VerdictsConserved'
    BY <1>1 DEF Register
  <1>2. ASSUME NEW r \in Requests, Select(r) PROVE VerdictsConserved'
    BY <1>2 DEF Select, SelectVerdict, SelectTimeout, SelectCancelled, Park
  <1>3. ASSUME NEW r \in Requests, TimerFires(r) \/ ClientLeaves(r) PROVE VerdictsConserved'
    BY <1>3 DEF TimerFires, ClientLeaves
  <1>4. ASSUME NEW r \in Requests, Return(r) PROVE VerdictsConserved'
    BY <1>4 DEF Return
  <1>5. ASSUME NEW c \in Calls, LookUp(c) PROVE VerdictsConserved'
    BY <1>5 DEF LookUp
  <1>6. ASSUME NEW c \in Calls, Send(c) PROVE VerdictsConserved'
    BY <1>6 DEF Send
  <1>7. CASE UNCHANGED vars
    BY <1>7 DEF vars
  <1> QED
    BY <1>1, <1>2, <1>3, <1>4, <1>5, <1>6, <1>7 DEF Next

-----------------------------------------------------------------------------
\* ApprovalInv is an inductive invariant of the approval manager.
THEOREM ApprovalInvariant == Spec => []ApprovalInv
  <1>1. Init => ApprovalInv
    BY InitApprovalInv
  <1>2. ApprovalInv /\ [Next]_vars => ApprovalInv'
    BY TypeStep, PendingStep, OutcomeStep, FirstStep, GivenStep, ConservedStep
       DEF ApprovalInv
  <1> QED
    BY <1>1, <1>2, PTL DEF Spec

\* Nothing goes upstream from the approval flow without an operator's approval.
THEOREM OnlyApprovedForwarded == Spec => []ForwardedWasApproved
  <1>1. ApprovalInv => ForwardedWasApproved
    BY DEF ApprovalInv, OutcomeInv, FirstInv, GivenInv, ForwardedWasApproved, Accepted, Verdicts
  <1> QED
    BY <1>1, ApprovalInvariant, PTL

\* The pending map is the set of requests that are inside Wait.
THEOREM PendingExact == Spec => []PendingIsInWait
  <1>1. ApprovalInv => PendingIsInWait
    BY DEF ApprovalInv
  <1> QED
    BY <1>1, ApprovalInvariant, PTL

\* No verdict is lost, duplicated or made up between Resolve and Wait.
THEOREM VerdictConservation == Spec => []VerdictsConserved
  <1>1. ApprovalInv => VerdictsConserved
    BY DEF ApprovalInv
  <1> QED
    BY <1>1, ApprovalInvariant, PTL
-----------------------------------------------------------------------------
\* Every step of the manager is a step of the abstract gate, or none of it.
LEMMA GateStep == ApprovalInv /\ [Next]_vars => [Gate!GateNext]_(Gate!gateVars)
  <1> SUFFICES ASSUME ApprovalInv, [Next]_vars PROVE [Gate!GateNext]_(Gate!gateVars)
    OBVIOUS
  <1> USE DEF ApprovalInv, TypeOK, callVars, Takes, Gate!gateVars
  <1>1. ASSUME NEW r \in Requests, Register(r) PROVE Gate!Hold(r)
    BY <1>1 DEF Register, Gate!Hold
  <1>2. ASSUME NEW r \in Requests, Select(r) PROVE UNCHANGED Gate!gateVars
    BY <1>2 DEF Select, SelectVerdict, SelectTimeout, SelectCancelled, Park
  <1>3. ASSUME NEW r \in Requests, TimerFires(r) \/ ClientLeaves(r)
        PROVE UNCHANGED Gate!gateVars
    BY <1>3 DEF TimerFires, ClientLeaves
  <1>4. ASSUME NEW r \in Requests, Return(r) PROVE Gate!Forward(r) \/ Gate!Refuse(r)
    <2>1. (outcome[r] = "approved") => (first[r] = "approved")
      BY DEF FirstInv, Verdicts
    <2> QED
      BY <1>4, <2>1 DEF Return, Gate!Forward, Gate!Refuse
  <1>5. ASSUME NEW c \in Calls, LookUp(c) PROVE UNCHANGED Gate!gateVars
    BY <1>5 DEF LookUp
  <1>6. ASSUME NEW c \in Calls, Send(c)
        PROVE Gate!Decide(callReq[c], callVerdict[c]) \/ UNCHANGED Gate!gateVars
    <2>1. wait[callReq[c]] # "new"
      BY <1>6 DEF Send, GivenInv
    <2>2. CASE first[callReq[c]] = "none"
      BY <1>6, <2>1, <2>2 DEF Send, Gate!Decide
    <2>3. CASE first[callReq[c]] # "none"
      BY <1>6, <2>3 DEF Send
    <2> QED
      BY <2>2, <2>3
  <1>7. CASE UNCHANGED vars
    BY <1>7 DEF vars
  <1>8. callReq \in [Calls -> Requests] /\ callVerdict \in [Calls -> Gate!Verdicts]
    BY DEF Verdicts, Gate!Verdicts
  <1> QED
    BY <1>1, <1>2, <1>3, <1>4, <1>5, <1>6, <1>7, <1>8 DEF Next, Gate!GateNext

\* The manager implements the abstract approval gate.
THEOREM ManagerImplementsGate == Spec => GateSafe
  <1>1. Init => Gate!GateInit
    BY DEF Init, Gate!GateInit
  <1> QED
    BY <1>1, GateStep, ApprovalInvariant, PTL DEF Spec, GateSafe, Gate!GateSafeSpec
=============================================================================
