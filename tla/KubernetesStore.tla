-------------------------- MODULE KubernetesStore --------------------------
(***************************************************************************)
(* KubernetesStore (src/internal/secrets/kubernetes.go): all secrets of a  *)
(* user are in one Secret object.  Get reads the object; Put and Delete    *)
(* read it, change one key of what they have read, and write all of it     *)
(* back.  The API server refuses a write that is based on a version that   *)
(* is no longer current, and the code does not try again.  Several         *)
(* goroutines and processes (proxies, the OAuth helper) use one object.    *)
(*                                                                         *)
(* A step is a call the API server answers.  Requests and answers may get  *)
(* lost, or the caller's context may end while they are on their way.      *)
(***************************************************************************)
EXTENDS Naturals

CONSTANTS
    Callers,   \* goroutines of any process that use the object
    Keys,      \* keys in the object's data
    Values,    \* what may be stored under a key
    None,      \* nothing is
    MaxWrites  \* bound: writes of the object

Request == [what : {"get"}, key : Keys, value : {None}]
      \cup [what : {"delete"}, key : Keys, value : {None}]
      \cup [what : {"put"}, key : Keys, value : Values]

ASSUME ConstantsOK ==
    /\ None \notin Values \cup Request
    /\ MaxWrites \in Nat

VARIABLES
    version,  \* the object's resourceVersion, 0 before it is created
    data,     \* its data
    at,       \* at[c]: where the call of c is
    request,  \* request[c]: what it is to do, None when it is over
    base,     \* base[c]: the version it has read
    copy,     \* copy[c]: the data it has read, and will write back
    result    \* result[c]: what a Get has found

objectVars == <<version, data>>
callVars == <<at, request, base, copy, result>>
storeVars == <<objectVars, callVars>>

Empty == [k \in Keys |-> None]
Map == [Keys -> Values \cup {None}]

\* Before the first call of the API and before the second, with an answer on
\* its way, and at the end.
Over == {"none", "ok", "error"}
Pending == {"read", "create", "update"}

StoreTypeOK ==
    /\ version \in 0..MaxWrites
    /\ data \in Map
    /\ version = 0 => data = Empty
    /\ at \in [Callers -> Over \cup Pending \cup {"answered"}]
    /\ request \in [Callers -> Request \cup {None}]
    /\ \A c \in Callers : request[c] = None <=> at[c] \in Over
    /\ base \in [Callers -> 0..MaxWrites]
    /\ copy \in [Callers -> Map]
    /\ result \in [Callers -> Values \cup {None}]

\* The first version is the one an empty Create would have; no call is running.
StoreInit ==
    /\ version = 0 /\ data = Empty
    /\ at = [c \in Callers |-> "none"]
    /\ request = [c \in Callers |-> None]
    /\ base = [c \in Callers |-> 0]
    /\ copy = [c \in Callers |-> Empty]
    /\ result = [c \in Callers |-> None]
-----------------------------------------------------------------------------
\* Get, Put or Delete is called.
Call(c, q) ==
    /\ at[c] \in Over
    /\ at' = [at EXCEPT ![c] = "read"]
    /\ request' = [request EXCEPT ![c] = q]
    /\ result' = [result EXCEPT ![c] = None]
    /\ UNCHANGED <<objectVars, base, copy>>

\* The object as read, with the change the request makes to it.
Changed(q) == [data EXCEPT ![q.key] = q.value]

\* Get: what is under the key, if there is an object.
ReadGet(c) ==
    /\ at[c] = "read" /\ request[c].what = "get"
    /\ at' = [at EXCEPT ![c] = "answered"]
    /\ result' = [result EXCEPT ![c] = data[request[c].key]]
    /\ UNCHANGED <<objectVars, request, base, copy>>

\* Delete finds no object, or none with data: there is nothing to do.
ReadNothing(c) ==
    /\ at[c] = "read" /\ request[c].what = "delete"
    /\ data = Empty
    /\ at' = [at EXCEPT ![c] = "answered"]
    /\ UNCHANGED <<objectVars, request, base, copy, result>>

\* Put, and Delete if there is data: the copy that was read is changed.
ReadForWrite(c) ==
    /\ at[c] = "read" /\ request[c].what # "get"
    /\ request[c].what = "delete" => data # Empty
    /\ at' = [at EXCEPT ![c] = IF version = 0 THEN "create" ELSE "update"]
    /\ base' = [base EXCEPT ![c] = version]
    /\ copy' = [copy EXCEPT ![c] = Changed(request[c])]
    /\ UNCHANGED <<objectVars, request, result>>

\* The version is not sent along, and the last writer wins.
Write_Forced(c) ==
    /\ at[c] \in {"create", "update"}
    /\ version < MaxWrites
    /\ version' = version + 1
    /\ data' = copy[c]
    /\ at' = [at EXCEPT ![c] = "answered"]
    /\ UNCHANGED <<request, base, copy, result>>

\* The API server takes a Create while there is no object, and an Update of the
\* current version.
Write(c) ==
    /\ at[c] \in {"create", "update"}
    /\ version = base[c]
    /\ version < MaxWrites
    /\ version' = version + 1
    /\ data' = copy[c]
    /\ at' = [at EXCEPT ![c] = "answered"]
    /\ UNCHANGED <<request, base, copy, result>>

\* The call ends, and what it has read goes with it.
End(c, how) ==
    /\ at' = [at EXCEPT ![c] = how]
    /\ request' = [request EXCEPT ![c] = None]
    /\ base' = [base EXCEPT ![c] = 0]
    /\ copy' = [copy EXCEPT ![c] = Empty]

Receive(c) ==
    /\ at[c] = "answered"
    /\ End(c, "ok")
    /\ UNCHANGED <<objectVars, result>>

\* A conflict is taken for success: somebody else has written the object.
Error_ConflictIsOk(c) ==
    /\ at[c] \in Pending \cup {"answered"}
    /\ End(c, IF at[c] = "update" /\ version # base[c] THEN "ok" ELSE "error")
    /\ result' = [result EXCEPT ![c] = None]
    /\ UNCHANGED objectVars

\* A conflict (AlreadyExists for a Create), any other refusal, or an answer that
\* does not reach the caller.
Error(c) ==
    /\ at[c] \in Pending \cup {"answered"}
    /\ End(c, "error")
    /\ result' = [result EXCEPT ![c] = None]
    /\ UNCHANGED objectVars
-----------------------------------------------------------------------------
StoreStep(c) ==
    \/ ReadGet(c) \/ ReadNothing(c) \/ ReadForWrite(c)
    \/ Write(c) \/ Receive(c) \/ Error(c)

StoreNext ==
    \E c \in Callers : StoreStep(c) \/ \E q \in Request : Call(c, q)

StoreSpec == StoreInit /\ [][StoreNext]_storeVars
-----------------------------------------------------------------------------
(* Properties.                                                             *)

CallState(c) ==
    CASE at[c] \in Pending -> "called"
      [] at[c] = "answered" -> "taken"
      [] OTHER -> at[c]

CallRecord(c) == [state |-> CallState(c), request |-> request[c], result |-> result[c]]

Object == INSTANCE SecretStore WITH
    data <- data, call <- [c \in Callers |-> CallRecord(c)]

\* Reading and writing back the whole object is nevertheless one access to one
\* key: no Put and no Delete that is in the middle of it undoes what others do
\* to other keys, and who is told that it succeeded has had its effect.
OneKeyAtATime == Object!Spec
=============================================================================
