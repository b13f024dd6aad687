---------------------------- MODULE SecretStore ----------------------------
(***************************************************************************)
(* What the other modules take a secret store (src/internal/secrets) for:  *)
(* a map of which a call reads or changes one key, at one moment between   *)
(* its start and its end.  A call that returns without an error has taken  *)
(* effect; one that returns an error may or may not have.                  *)
(***************************************************************************)
CONSTANTS
    Callers,  \* goroutines of any process that use the store
    Keys,     \* keys of secrets
    Values,   \* what may be stored under a key
    None      \* nothing is

VARIABLES
    data,  \* data[k]: what is stored under k
    call   \* call[c]: the call c is making, or how the last one ended

Request == [what : {"get"}, key : Keys, value : {None}]
      \cup [what : {"delete"}, key : Keys, value : {None}]
      \cup [what : {"put"}, key : Keys, value : Values]

Over == {"none", "ok", "error"}

Init ==
    /\ data = [k \in Keys |-> None]
    /\ call = [c \in Callers |-> [state |-> "none", request |-> None, result |-> None]]

Begin(c) ==
    /\ call[c].state \in Over
    /\ \E q \in Request :
            call' = [call EXCEPT ![c] = [state |-> "called", request |-> q, result |-> None]]
    /\ UNCHANGED data

\* The call takes effect; a get remembers what it saw.
Take(c) ==
    LET q == call[c].request
    IN  /\ call[c].state = "called"
        /\ data' = IF q.what = "get" THEN data ELSE [data EXCEPT ![q.key] = q.value]
        /\ call' = [call EXCEPT ![c] =
                [state |-> "taken", request |-> q,
                 result |-> IF q.what = "get" THEN data[q.key] ELSE None]]

Return(c) ==
    /\ call[c].state = "taken"
    /\ call' = [call EXCEPT ![c] =
            [state |-> "ok", request |-> None, result |-> call[c].result]]
    /\ UNCHANGED data

Fail(c) ==
    /\ call[c].state \in {"called", "taken"}
    /\ call' = [call EXCEPT ![c] =
            [state |-> "error", request |-> None, result |-> None]]
    /\ UNCHANGED data

Next == \E c \in Callers : Begin(c) \/ Take(c) \/ Return(c) \/ Fail(c)

Spec == Init /\ [][Next]_<<data, call>>
=============================================================================
