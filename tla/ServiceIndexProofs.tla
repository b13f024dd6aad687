------------------------- MODULE ServiceIndexProofs -------------------------
(***************************************************************************)
(* Proofs about ServiceIndex, for any services and any number of jobs.     *)
(* That only a write that overlapped makes a service disappear is not      *)
(* inductive: it rests on what a job has already put.                      *)
(* PutInv says that what a job wanted to put is still to do, on the list,  *)
(* or has been dropped from it by another job's write.                     *)
(***************************************************************************)
EXTENDS ServiceIndex, TLAPS

\* What a job puts: a list it has fetched, or the service it was called for.
Wanted(j) == IF kind[j] = "match" THEN Catalog ELSE {service[j]}

\* Where a job puts services, and where it has put them all.
Putting == {"record", "read", "write"}
HasPut(j) == pc[j] = "rematch" \/ (kind[j] = "put" /\ result[j] = "stored")

PutInv ==
    \A j \in Jobs :
        /\ (kind[j] \in {"match", "put"} /\ pc[j] \in Putting) =>
                Wanted(j) \subseteq todo[j] \cup index \cup erased
        /\ HasPut(j) => Wanted(j) \subseteq index \cup erased
        /\ pc[j] \in {"read", "write"} => item[j] \in record
        /\ pc[j] = "write" => ids[j] \subseteq record
        /\ pc[j] = "rematch" => kind[j] = "match"
        /\ pc[j] = "fetch" => kind[j] # "put"
        /\ pc[j] # "end" => result[j] = "none"

\* With the types and the records behind the list.
IndexInv ==
    /\ TypeOK
    /\ IndexedAreRecorded
    /\ PutInv
-----------------------------------------------------------------------------
\* The invariant holds with an empty index and no jobs at work.
LEMMA InitIndexInv == Init => IndexInv
  <1> SUFFICES ASSUME Init PROVE IndexInv
    OBVIOUS
  <1> USE DEF Init
  <1>1. TypeOK
    BY DEF TypeOK, Results, Busy
  <1>2. IndexedAreRecorded
    BY DEF IndexedAreRecorded
  <1>3. PutInv
    BY DEF PutInv, Putting, HasPut
  <1> QED
    BY <1>1, <1>2, <1>3 DEF IndexInv

\* Every variable keeps its type.
LEMMA TypeStep == TypeOK /\ [Next]_vars => TypeOK'
  <1> SUFFICES ASSUME TypeOK, [Next]_vars PROVE TypeOK'
    OBVIOUS
  <1> USE ConstantsOK DEF TypeOK, Results, Busy, Kinds, End, Goto
  <1>1. ASSUME NEW j \in Jobs, Match(j) \/ Rematch(j) \/ Named(j) \/ Prefetch(j) PROVE TypeOK'
    BY <1>1 DEF Match, Rematch, Named, Prefetch
  <1>2. ASSUME NEW j \in Jobs, PutToken(j) PROVE TypeOK'
    BY <1>2 DEF PutToken
  <1>3. ASSUME NEW j \in Jobs, Fetch(j) PROVE TypeOK'
    <2> DEFINE wanted == IF kind[j] = "named" THEN {service[j]} \cap Catalog ELSE Catalog
    <2>1. wanted \in SUBSET Services
      OBVIOUS
    <2>2. todo' = [todo EXCEPT ![j] = wanted]
      BY <1>3 DEF Fetch
    <2>3. todo' \in [Jobs -> SUBSET Services]
      BY <2>1, <2>2
    <2>4. pc' \in [Jobs -> {"start", "end"} \cup Busy] /\ result' \in [Jobs -> Results]
      BY <1>3 DEF Fetch
    <2> QED
      BY <1>3, <2>3, <2>4 DEF Fetch
  <1>4. ASSUME NEW j \in Jobs, PutRecord(j) PROVE TypeOK'
    BY <1>4 DEF PutRecord
  <1>5. ASSUME NEW j \in Jobs, Proceed(j)
        PROVE  /\ todo' \in [Jobs -> SUBSET Services]
               /\ pc' \in [Jobs -> {"start", "end"} \cup Busy] /\ result' \in [Jobs -> Results]
    <2>1. todo[j] \ {item[j]} \in SUBSET Services
      OBVIOUS
    <2> QED
      BY <1>5, <2>1 DEF Proceed
  <1>6. ASSUME NEW j \in Jobs, ReadIndex(j) PROVE TypeOK'
    BY <1>5, <1>6 DEF ReadIndex
  <1>7. ASSUME NEW j \in Jobs, WriteIndex(j) PROVE TypeOK'
    BY <1>5, <1>7 DEF WriteIndex, Account
  <1>8. ASSUME NEW j \in Jobs, Fail(j) PROVE TypeOK'
    BY <1>8 DEF Fail
  <1>9. CASE UNCHANGED vars
    BY <1>9 DEF vars
  <1> QED
    BY <1>1, <1>2, <1>3, <1>4, <1>6, <1>7, <1>8, <1>9 DEF Next, Step

\* The record is written before the list, and no record is removed.
LEMMA RecordedStep == IndexInv /\ [Next]_vars => IndexedAreRecorded'
  <1> SUFFICES ASSUME IndexInv, [Next]_vars PROVE IndexedAreRecorded'
    OBVIOUS
  <1> USE DEF IndexInv, IndexedAreRecorded
  <1>1. ASSUME NEW j \in Jobs, PutRecord(j) PROVE IndexedAreRecorded'
    BY <1>1 DEF PutRecord
  <1>2. ASSUME NEW j \in Jobs, WriteIndex(j) PROVE IndexedAreRecorded'
    BY <1>2 DEF WriteIndex, PutInv
  <1>3. ASSUME NEW j \in Jobs, ~PutRecord(j), ~WriteIndex(j), Step(j) \/ Fail(j)
        PROVE  IndexedAreRecorded'
    BY <1>3 DEF Step, Match, Rematch, Named, Prefetch, PutToken, Fetch, ReadIndex, Fail
  <1>4. CASE UNCHANGED vars
    BY <1>4 DEF vars
  <1> QED
    BY <1>1, <1>2, <1>3, <1>4 DEF Next

\* The request of job j goes upstream without a service it should have found.
Lost(j) == /\ result[j] # "bare" /\ result'[j] = "bare" /\ Listed
           /\ service[j] \in Catalog /\ service[j] \notin erased

\* Only the second look can end without a service that is in the catalog, and by
\* then the whole catalog has been put.
LEMMA BareStep == ASSUME IndexInv, [Next]_vars, NEW o \in Jobs PROVE ~Lost(o)
  <1> USE DEF IndexInv, Lost, TypeOK, End, Goto
  <1>1. ASSUME NEW j \in Jobs, Match(j) \/ Named(j) \/ Prefetch(j) \/ PutToken(j)
        PROVE  ~Lost(o)
    BY <1>1 DEF Match, Named, Prefetch, PutToken
  <1>2. ASSUME NEW j \in Jobs, Rematch(j) PROVE ~Lost(o)
    <2>1. service[j] \in Catalog => service[j] \in index \cup erased
      BY <1>2 DEF Rematch, PutInv, HasPut, Wanted
    <2> QED
      BY <1>2, <2>1 DEF Rematch, IndexedAreRecorded
  <1>3. ASSUME NEW j \in Jobs, Fetch(j) \/ PutRecord(j) \/ Fail(j) PROVE ~Lost(o)
    BY <1>3 DEF Fetch, PutRecord, Fail
  <1>4. ASSUME NEW j \in Jobs, ReadIndex(j) PROVE ~Lost(o)
    BY <1>4 DEF ReadIndex, Proceed, Kinds
  <1>5. ASSUME NEW j \in Jobs, WriteIndex(j) PROVE ~Lost(o)
    BY <1>5 DEF WriteIndex, Proceed, Kinds
  <1>6. CASE UNCHANGED vars
    BY <1>6 DEF vars
  <1> QED
    BY <1>1, <1>2, <1>3, <1>4, <1>5, <1>6 DEF Next, Step

\* Whatever was on the list is on it or has been dropped, and records stay.
LEMMA NothingForgotten ==
    ASSUME TypeOK, [Next]_vars
    PROVE  index \cup erased \subseteq index' \cup erased' /\ record \subseteq record'
  <1>1. ASSUME NEW j \in Jobs, WriteIndex(j)
        PROVE  index \cup erased \subseteq index' \cup erased' /\ record \subseteq record'
    BY <1>1 DEF TypeOK, WriteIndex, Account
  <1>2. ASSUME NEW j \in Jobs, ~WriteIndex(j), Step(j) \/ Fail(j)
        PROVE  index \cup erased \subseteq index' \cup erased' /\ record \subseteq record'
    BY <1>2 DEF TypeOK, Step, Match, Rematch, Named, Prefetch, PutToken, Fetch, PutRecord,
                ReadIndex, Fail
  <1> QED
    BY <1>1, <1>2 DEF Next, vars

\* The part of PutInv that is about one job.
Put(j) ==
    /\ (kind[j] \in {"match", "put"} /\ pc[j] \in Putting) =>
            Wanted(j) \subseteq todo[j] \cup index \cup erased
    /\ HasPut(j) => Wanted(j) \subseteq index \cup erased
    /\ pc[j] \in {"read", "write"} => item[j] \in record
    /\ pc[j] = "write" => ids[j] \subseteq record
    /\ pc[j] = "rematch" => kind[j] = "match"
    /\ pc[j] = "fetch" => kind[j] # "put"
    /\ pc[j] # "end" => result[j] = "none"

\* A job that does nothing keeps what it has put.
LEMMA OthersStep ==
    ASSUME IndexInv, [Next]_vars, NEW o \in Jobs,
           pc'[o] = pc[o], todo'[o] = todo[o], item'[o] = item[o], ids'[o] = ids[o],
           result'[o] = result[o], kind' = kind, service' = service
    PROVE  Put(o)'
  BY NothingForgotten DEF IndexInv, PutInv, Put, HasPut, Wanted

\* The end of a Put takes the service off what is to do: it is on the list now.
LEMMA ProceedPut ==
    ASSUME IndexInv, NEW j \in Jobs, Proceed(j), pc[j] \in {"read", "write"},
           item[j] \in index', index \cup erased \subseteq index' \cup erased',
           item' = item, kind' = kind, service' = service, record' = record, ids' = ids
    PROVE  Put(j)'
  <1> DEFINE left == todo[j] \ {item[j]}
  <1> USE DEF IndexInv, TypeOK
  <1>1. todo'[j] = left /\ result[j] = "none" /\ kind[j] \in Kinds
    BY DEF Proceed, PutInv
  <1>2. kind[j] \in {"match", "put"} => Wanted(j) \subseteq left \cup index' \cup erased'
    BY DEF PutInv, Putting
  <1>3. Wanted(j)' = Wanted(j)
    BY DEF Wanted
  <1>4. CASE left # {}
    <2>1. pc'[j] = "record" /\ result'[j] = "none"
      BY <1>1, <1>4 DEF Proceed, Goto
    <2> QED
      BY <1>1, <1>2, <1>3, <2>1 DEF Put, HasPut
  <1>5. CASE left = {}
    <2>1. \/ kind[j] = "match" /\ pc'[j] = "rematch" /\ result'[j] = "none"
          \/ kind[j] # "match" /\ pc'[j] = "end"
      BY <1>1, <1>5 DEF Proceed, Goto, End, Kinds
    <2> QED
      BY <1>1, <1>2, <1>3, <1>5, <2>1 DEF Put, HasPut, Putting
  <1> QED
    BY <1>4, <1>5

\* What a job wanted to put stays to be done, listed or erased.
LEMMA PutStep == IndexInv /\ [Next]_vars => PutInv'
  <1> SUFFICES ASSUME IndexInv, [Next]_vars, NEW o \in Jobs PROVE Put(o)'
    BY DEF PutInv, Put
  <1>0. Put(o)
    BY DEF IndexInv, PutInv, Put
  <1> USE DEF IndexInv, TypeOK
  <1>1. ASSUME NEW j \in Jobs, Step(j) \/ Fail(j), j # o PROVE Put(o)'
    <2> DEFINE Idles == /\ pc'[o] = pc[o] /\ todo'[o] = todo[o] /\ item'[o] = item[o]
                        /\ ids'[o] = ids[o] /\ result'[o] = result[o]
                        /\ kind' = kind /\ service' = service
    <2>1. ASSUME Match(j) \/ Rematch(j) \/ Named(j) \/ Prefetch(j) \/ PutToken(j) \/ Fail(j)
          PROVE  Idles
      BY <1>1, <2>1 DEF Match, Rematch, Named, Prefetch, PutToken, Fail, End, Goto
    <2>2. ASSUME Fetch(j) \/ PutRecord(j) PROVE Idles
      BY <1>1, <2>2 DEF Fetch, PutRecord, End, Goto
    <2>3. Proceed(j) => pc'[o] = pc[o] /\ todo'[o] = todo[o] /\ result'[o] = result[o]
      BY <1>1 DEF Proceed, End, Goto, Kinds
    <2>4. ASSUME ReadIndex(j) \/ WriteIndex(j) PROVE Idles
      BY <1>1, <2>3, <2>4 DEF ReadIndex, WriteIndex, Goto
    <2>5. Idles
      BY <1>1, <2>1, <2>2, <2>4 DEF Step
    <2> QED
      BY <2>5, OthersStep
  <1>2. CASE Match(o) \/ Rematch(o) \/ Named(o) \/ Prefetch(o)
    BY <1>0, <1>2 DEF Match, Rematch, Named, Prefetch, Put, HasPut, Putting, End, Goto
  <1>3. CASE PutToken(o)
    BY <1>0, <1>3 DEF PutToken, Put, HasPut, Wanted, Goto
  <1>4. CASE Fetch(o)
    BY <1>0, <1>4 DEF Fetch, Put, HasPut, Wanted, Putting, End, Goto
  <1>5. CASE PutRecord(o)
    BY <1>0, <1>5 DEF PutRecord, Put, HasPut, Wanted, Putting, Goto
  <1>6. CASE ReadIndex(o)
    <2>1. CASE item[o] \in index /\ Proceed(o) /\ UNCHANGED ids
      BY <1>6, <2>1, ProceedPut DEF ReadIndex
    <2>2. CASE Goto(o, "write") /\ ids' = [ids EXCEPT ![o] = index] /\ UNCHANGED todo
      BY <1>0, <1>6, <2>2 DEF ReadIndex, Put, HasPut, Wanted, Putting, Goto, IndexedAreRecorded
    <2> QED
      BY <1>6, <2>1, <2>2 DEF ReadIndex
  <1>7. CASE WriteIndex(o)
    BY <1>7, ProceedPut, NothingForgotten DEF WriteIndex
  <1>8. CASE Fail(o)
    BY <1>0, <1>8 DEF Fail, Put, HasPut, Putting, End
  <1>9. CASE UNCHANGED vars
    BY <1>9, OthersStep DEF vars
  <1> QED
    BY <1>1, <1>2, <1>3, <1>4, <1>5, <1>6, <1>7, <1>8, <1>9 DEF Next, Step
-----------------------------------------------------------------------------
\* The inductive invariant holds in every reachable state.
THEOREM IndexInvariant == Spec => []IndexInv
  <1>1. IndexInv /\ [Next]_vars => IndexInv'
    BY TypeStep, RecordedStep, PutStep DEF IndexInv
  <1> QED
    BY InitIndexInv, <1>1, PTL DEF Spec

\* Every variable keeps its type.
THEOREM IndexTyped == Spec => []TypeOK
  BY IndexInvariant, PTL DEF IndexInv

\* Whoever follows the list finds a record for every service on it.
THEOREM ListIsBacked == Spec => []IndexedAreRecorded
  BY IndexInvariant, PTL DEF IndexInv

\* A service that was put is missing from the list only if a write that overlapped
\* has dropped it and nobody has listed it since.
THEOREM StoredIsMissingByOverlap == Spec => []StoredUnlessErased
  <1>1. IndexInv => StoredUnlessErased
    BY DEF IndexInv, PutInv, HasPut, Wanted, StoredUnlessErased
  <1> QED
    BY <1>1, IndexInvariant, PTL

\* A request goes without a listed service only while the list lacks it for that
\* reason.
THEOREM BareByOverlap == Spec => BareOnlyIfErased
  <1> DEFINE Excused ==
        \A j \in Jobs : (result[j] # "bare" /\ result'[j] = "bare" /\ Listed) =>
            service[j] \notin Catalog \/ service[j] \in erased
  <1>1. IndexInv /\ [Next]_vars => [Excused]_vars
    BY BareStep DEF Lost
  <1> QED
    BY <1>1, IndexInvariant, PTL DEF Spec, BareOnlyIfErased
=============================================================================
