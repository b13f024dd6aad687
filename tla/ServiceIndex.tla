---------------------------- MODULE ServiceIndex ----------------------------
(***************************************************************************)
(* Service metadata in the secret store: one record per service and one    *)
(* entry, the index, that lists the services with a record                 *)
(* (src/internal/serviceinfo/serviceinfo.go).  Put writes the record and   *)
(* then adds the service to the index by reading the entry and writing it  *)
(* back: three store calls, and nothing keeps two of them apart, whether   *)
(* in one proxy or in replicas that share the store.                       *)
(*                                                                         *)
(* A job is what uses the metadata: a proxied request that no rule gives a *)
(* service ("match": serviceIDsForRequest), a request whose rule names its *)
(* service ("named": Injector.serviceByID), an admin call that brings the  *)
(* metadata along ("put"), and the prefetch of a proxy that starts         *)
(* ("prefetch").  Reading the index and then the records it lists is one   *)
(* step, for records are never deleted.                                    *)
(***************************************************************************)
EXTENDS FiniteSets

CONSTANTS
    Services,    \* service ids; the hosts of different services are disjoint
    Configured,  \* services of server.services in the proxy's config
    Catalog,     \* services the OAuth helper serves at metadataUrl
    Listed,      \* does metadataUrl list them all (or is it a {service} template)?
    Jobs

ASSUME ConstantsOK ==
    /\ Configured \subseteq Services /\ Catalog \subseteq Services
    /\ Listed \in BOOLEAN

VARIABLES
    record,   \* services with a record under SecretKey
    index,    \* the list under IndexSecretKey: its order and repetitions are
              \* cleared away by whoever reads it
    kind,     \* kind[j]: what the job is
    service,  \* service[j]: the service its host or its rule stands for
    pc,       \* pc[j]: where it is
    todo,     \* todo[j]: services it still has to Put
    item,     \* item[j]: the service it is putting
    ids,      \* ids[j]: the index as AddToIndex has read it
    result,   \* result[j]: how it ended
    erased    \* history: services a write of the index has dropped that had read it
              \* before they were on it, and that nobody has listed since

vars == <<record, index, kind, service, pc, todo, item, ids, result, erased>>

Kinds == {"match", "named", "put", "prefetch"}
Results == {"none", "injected", "bare", "stored", "failed"}
Busy == {"fetch", "record", "read", "write", "rematch"}

TypeOK ==
    /\ record \in SUBSET Services /\ index \in SUBSET Services
    /\ kind \in [Jobs -> Kinds]
    /\ service \in [Jobs -> Services]
    /\ pc \in [Jobs -> {"start", "end"} \cup Busy]
    /\ todo \in [Jobs -> SUBSET Services]
    /\ item \in [Jobs -> Services]
    /\ ids \in [Jobs -> SUBSET Services]
    /\ result \in [Jobs -> Results]
    /\ erased \in SUBSET Services

Init ==
    /\ record = {} /\ index = {} /\ erased = {}
    /\ kind \in [Jobs -> Kinds]
    /\ service \in [Jobs -> Services]
    /\ pc = [j \in Jobs |-> "start"]
    /\ todo = [j \in Jobs |-> {}]
    /\ item = service
    /\ ids = [j \in Jobs |-> {}]
    /\ result = [j \in Jobs |-> "none"]
-----------------------------------------------------------------------------
End(j, how) ==
    /\ pc' = [pc EXCEPT ![j] = "end"]
    /\ result' = [result EXCEPT ![j] = how]

Goto(j, where) ==
    /\ pc' = [pc EXCEPT ![j] = where]
    /\ UNCHANGED result

\* MatchingStoredIDs and matchingConfiguredServiceIDs.
Matched(s) == s \in Configured \/ s \in index \cap record

\* A request without an explicit service looks for one whose hosts match, and
\* has the whole list fetched if there is none.
Match(j) ==
    /\ pc[j] = "start" /\ kind[j] = "match"
    /\ IF Matched(service[j]) THEN End(j, "injected")
       ELSE IF Listed THEN Goto(j, "fetch")
       ELSE End(j, "bare")
    /\ UNCHANGED <<record, index, kind, service, todo, item, ids, erased>>

\* The second look, after the fetched list was stored.
Rematch(j) ==
    /\ pc[j] = "rematch"
    /\ IF service[j] \in index \cap record THEN End(j, "injected") ELSE End(j, "bare")
    /\ UNCHANGED <<record, index, kind, service, todo, item, ids, erased>>

\* A named service is in the config, or has a record, or is fetched by its id.
Named(j) ==
    /\ pc[j] = "start" /\ kind[j] = "named"
    /\ IF service[j] \in Configured \cup record THEN End(j, "injected") ELSE Goto(j, "fetch")
    /\ UNCHANGED <<record, index, kind, service, todo, item, ids, erased>>

\* NewHandler prefetches the list, and does not start without it.
Prefetch(j) ==
    /\ pc[j] = "start" /\ kind[j] = "prefetch"
    /\ IF Listed THEN Goto(j, "fetch") ELSE End(j, "stored")
    /\ UNCHANGED <<record, index, kind, service, todo, item, ids, erased>>

\* POST /_scia/tokens with the service's metadata: the token is stored, the
\* record and the index follow.
PutToken(j) ==
    /\ pc[j] = "start" /\ kind[j] = "put"
    /\ todo' = [todo EXCEPT ![j] = {service[j]}]
    /\ Goto(j, "record")
    /\ UNCHANGED <<record, index, kind, service, item, ids, erased>>

\* FetchAll, or Fetch of the one service; unknown services end in an error.
Fetch(j) ==
    LET wanted == IF kind[j] = "named" THEN {service[j]} \cap Catalog ELSE Catalog
    IN  /\ pc[j] = "fetch"
        /\ todo' = [todo EXCEPT ![j] = wanted]
        /\ IF wanted # {} THEN Goto(j, "record")
           ELSE IF kind[j] = "match" THEN Goto(j, "rematch")
           ELSE End(j, IF kind[j] = "named" THEN "failed" ELSE "stored")
        /\ UNCHANGED <<record, index, kind, service, item, ids, erased>>
-----------------------------------------------------------------------------
(* Put, for one service after the other.                                   *)

PutRecord(j) ==
    /\ pc[j] = "record"
    /\ \E s \in todo[j] :
        /\ record' = record \cup {s}
        /\ item' = [item EXCEPT ![j] = s]
    /\ Goto(j, "read")
    /\ UNCHANGED <<index, kind, service, todo, ids, erased>>

\* The item is done: on to the next one, or to what the job wanted it for.
Proceed(j) ==
    LET left == todo[j] \ {item[j]}
    IN  /\ todo' = [todo EXCEPT ![j] = left]
        /\ IF left # {} THEN Goto(j, "record")
           ELSE CASE kind[j] = "match" -> Goto(j, "rematch")
                  [] kind[j] = "named" -> End(j, "injected")
                  [] kind[j] \in {"put", "prefetch"} -> End(j, "stored")

\* The index is taken to hold the service if the service has a record.
ReadIndex_ByRecord(j) ==
    /\ pc[j] = "read"
    /\ Proceed(j)
    /\ UNCHANGED <<record, index, kind, service, item, ids, erased>>

\* AddToIndex reads the list and is done if the service is on it.
ReadIndex(j) ==
    /\ pc[j] = "read"
    /\ \/ item[j] \in index /\ Proceed(j) /\ UNCHANGED ids
       \/ /\ item[j] \notin index
          /\ ids' = [ids EXCEPT ![j] = index]
          /\ Goto(j, "write")
          /\ UNCHANGED todo
    /\ UNCHANGED <<record, index, kind, service, item, erased>>

\* What j's write drops without having seen it counts as erased until it is listed
\* again; what it has read and drops all the same does not.
Account(j) == erased' = (erased \cup ((index \ index') \ ids[j])) \ index'

\* The list is written with nothing but the new service.
WriteIndex_Alone(j) ==
    /\ pc[j] = "write"
    /\ index' = {item[j]}
    /\ Account(j)
    /\ Proceed(j)
    /\ UNCHANGED <<record, kind, service, item, ids>>

\* It writes the list it has read with the service added.
WriteIndex(j) ==
    /\ pc[j] = "write"
    /\ index' = ids[j] \cup {item[j]}
    /\ Account(j)
    /\ Proceed(j)
    /\ UNCHANGED <<record, kind, service, item, ids>>

\* A store call or the metadata endpoint fails, or the process is stopped: the
\* caller gets an error, and what was written stays.
Fail(j) ==
    /\ pc[j] \in {"start"} \cup Busy
    /\ End(j, "failed")
    /\ UNCHANGED <<record, index, kind, service, todo, item, ids, erased>>
-----------------------------------------------------------------------------
Step(j) ==
    \/ Match(j) \/ Rematch(j) \/ Named(j) \/ Prefetch(j) \/ PutToken(j) \/ Fetch(j)
    \/ PutRecord(j) \/ ReadIndex(j) \/ WriteIndex(j)

Next == \E j \in Jobs : Step(j) \/ Fail(j)

Spec == Init /\ [][Next]_vars
-----------------------------------------------------------------------------
(* Properties.                                                             *)

\* Whatever is on the list has a record: MatchingStoredIDs finds what it looks
\* for, whichever writes of other jobs it runs into.
IndexedAreRecorded == index \subseteq record

\* A request for a host of a listed service goes upstream without the service
\* only if at that moment the list lacks it because of a write that overlapped the
\* one that listed it: failed calls, half-done lists and losses that were made good
\* since are no excuse, for the second look heals them.
BareOnlyIfErased ==
    [][\A j \in Jobs : (result[j] # "bare" /\ result'[j] = "bare" /\ Listed) =>
            service[j] \notin Catalog \/ service[j] \in erased]_vars

\* A service that was put is on the list, unless such a write has dropped it and
\* nobody has listed it since: jobs that follow each other keep every entry.
StoredUnlessErased ==
    \A j \in Jobs : (result[j] = "stored" /\ kind[j] = "put") =>
        service[j] \in index \cup erased

\* README.md: scia "stores it beside the token in the secret store and indexes
\* the service ID.  After that, the proxy can match requests".
StoredIsIndexed ==
    \A j \in Jobs : (result[j] = "stored" /\ kind[j] = "put") => service[j] \in index
=============================================================================
