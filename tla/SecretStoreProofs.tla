------------------------- MODULE SecretStoreProofs -------------------------
(***************************************************************************)
(* Proofs that KubernetesStore and EnvelopeStore implement SecretStore,    *)
(* for any number of callers, keys, data keys and writes, and any size of  *)
(* the cache of data keys.                                                 *)
(*                                                                         *)
(* KubernetesStore: as long as the object has the version a writer has     *)
(* read, it also has the data the writer has read, so that the copy it     *)
(* writes is the present data with one key changed.  When the version is   *)
(* another one, the write is refused.                                      *)
(*                                                                         *)
(* EnvelopeStore: the inner call is what the outer one was asked for, but  *)
(* for the encryption; and the data key a call works with is in a slice of *)
(* its own, which no eviction and no Close overwrites.                     *)
(***************************************************************************)
EXTENDS EnvelopeStore, SequenceTheorems, TLAPS

(* The store of one object. *)

\* Who has read the object to write it has a request that changes a key, and a
\* copy that differs from the object in nothing else while the object has the
\* version that was read.
CopyInv ==
    \A c \in Callers : at[c] \in {"create", "update"} =>
        /\ request[c].what # "get"
        /\ base[c] <= version
        /\ base[c] = version => copy[c] = [data EXCEPT ![request[c].key] = request[c].value]

\* A call has nothing to return before it has read, and a change never has.
ResultInv ==
    \A c \in Callers :
        /\ at[c] \in Pending \cup {"error"} => result[c] = None
        /\ at[c] = "answered" /\ request[c].what # "get" => result[c] = None

StoreInv == StoreTypeOK /\ CopyInv /\ ResultInv
-----------------------------------------------------------------------------
\* What a request is made of.
LEMMA RequestParts ==
    ASSUME NEW q \in Request
    PROVE  /\ q.what \in {"get", "put", "delete"}
           /\ q.key \in Keys
           /\ q.value \in Values \cup {None}
  BY DEF Request

\* An empty store satisfies the invariant.
LEMMA InitStoreInv == StoreInit => StoreInv
  BY ConstantsOK DEF StoreInit, StoreInv, StoreTypeOK, CopyInv, ResultInv, Map, Empty,
     Over, Pending

\* Every variable keeps its type.
LEMMA TypeStep == StoreInv /\ [StoreNext]_storeVars => StoreTypeOK'
  <1> SUFFICES ASSUME StoreInv, [StoreNext]_storeVars PROVE StoreTypeOK'
    OBVIOUS
  <1> USE ConstantsOK DEF StoreInv, StoreTypeOK, Map, Empty, Over, Pending, objectVars
  <1>0. ASSUME NEW c \in Callers, at[c] \notin Over PROVE request[c] \in Request
    BY <1>0
  <1>1. ASSUME NEW c \in Callers, ReadGet(c) PROVE StoreTypeOK'
    BY <1>0, <1>1, RequestParts DEF ReadGet
  <1>2. ASSUME NEW c \in Callers, ReadNothing(c) PROVE StoreTypeOK'
    BY <1>2 DEF ReadNothing
  <1>3. ASSUME NEW c \in Callers, ReadForWrite(c) PROVE StoreTypeOK'
    <2>1. Changed(request[c]) \in Map
      BY <1>0, <1>3, RequestParts DEF ReadForWrite, Changed
    <2> QED
      BY <1>3, <2>1 DEF ReadForWrite
  <1>4. ASSUME NEW c \in Callers, Write(c) PROVE StoreTypeOK'
    BY <1>4 DEF Write
  <1>5. ASSUME NEW c \in Callers, Receive(c) PROVE StoreTypeOK'
    BY <1>5 DEF Receive, End
  <1>6. ASSUME NEW c \in Callers, Error(c) PROVE StoreTypeOK'
    BY <1>6 DEF Error, End
  <1>7. ASSUME NEW c \in Callers, NEW q \in Request, Call(c, q) PROVE StoreTypeOK'
    BY <1>7 DEF Call
  <1>8. CASE UNCHANGED storeVars
    BY <1>8 DEF storeVars, callVars
  <1> QED
    BY <1>1, <1>2, <1>3, <1>4, <1>5, <1>6, <1>7, <1>8 DEF StoreNext, StoreStep

\* A write gives the object a version that nobody has read, and nothing else
\* touches the object.
LEMMA CopyStep == StoreInv /\ [StoreNext]_storeVars => CopyInv'
  <1> SUFFICES ASSUME StoreInv, [StoreNext]_storeVars PROVE CopyInv'
    OBVIOUS
  <1> USE DEF StoreInv, StoreTypeOK, CopyInv, Over, Pending, objectVars
  <1>1. ASSUME NEW c \in Callers, ReadGet(c) PROVE CopyInv'
    BY <1>1 DEF ReadGet
  <1>2. ASSUME NEW c \in Callers, ReadNothing(c) PROVE CopyInv'
    BY <1>2 DEF ReadNothing
  <1>3. ASSUME NEW c \in Callers, ReadForWrite(c) PROVE CopyInv'
    <2>1. version <= version
      BY ConstantsOK
    <2>2. copy'[c] = [data EXCEPT ![request[c].key] = request[c].value] /\ base'[c] = version
      BY <1>3 DEF ReadForWrite, Changed
    <2> QED
      BY <1>3, <2>1, <2>2 DEF ReadForWrite
  <1>4. ASSUME NEW c \in Callers, Write(c) PROVE CopyInv'
    <2>1. \A o \in Callers : at[o] \in {"create", "update"} => base[o] < version'
      BY <1>4 DEF Write
    <2> QED
      BY <1>4, <2>1 DEF Write
  <1>5. ASSUME NEW c \in Callers, Receive(c) PROVE CopyInv'
    BY <1>5 DEF Receive, End
  <1>6. ASSUME NEW c \in Callers, Error(c) PROVE CopyInv'
    BY <1>6 DEF Error, End
  <1>7. ASSUME NEW c \in Callers, NEW q \in Request, Call(c, q) PROVE CopyInv'
    BY <1>7 DEF Call
  <1>8. CASE UNCHANGED storeVars
    BY <1>8 DEF storeVars, callVars
  <1> QED
    BY <1>1, <1>2, <1>3, <1>4, <1>5, <1>6, <1>7, <1>8 DEF StoreNext, StoreStep

\* No step gives a call a result before it has read.
LEMMA ResultStep == StoreInv /\ [StoreNext]_storeVars => ResultInv'
  <1> SUFFICES ASSUME StoreInv, [StoreNext]_storeVars PROVE ResultInv'
    OBVIOUS
  <1> USE DEF StoreInv, StoreTypeOK, ResultInv, Over, Pending, objectVars
  <1>1. ASSUME NEW c \in Callers, ReadGet(c) PROVE ResultInv'
    BY <1>1 DEF ReadGet
  <1>2. ASSUME NEW c \in Callers, ReadNothing(c) PROVE ResultInv'
    BY <1>2 DEF ReadNothing
  <1>3. ASSUME NEW c \in Callers, ReadForWrite(c) PROVE ResultInv'
    BY <1>3 DEF ReadForWrite
  <1>4. ASSUME NEW c \in Callers, Write(c) PROVE ResultInv'
    BY <1>4 DEF Write
  <1>5. ASSUME NEW c \in Callers, Receive(c) PROVE ResultInv'
    BY <1>5 DEF Receive, End
  <1>6. ASSUME NEW c \in Callers, Error(c) PROVE ResultInv'
    BY <1>6 DEF Error, End
  <1>7. ASSUME NEW c \in Callers, NEW q \in Request, Call(c, q) PROVE ResultInv'
    BY <1>7 DEF Call
  <1>8. CASE UNCHANGED storeVars
    BY <1>8 DEF storeVars, callVars
  <1> QED
    BY <1>1, <1>2, <1>3, <1>4, <1>5, <1>6, <1>7, <1>8 DEF StoreNext, StoreStep

\* StoreInv is an inductive invariant: while the version a writer has read is
\* the object's, its copy is the object's data with its one change.
THEOREM StoreInvariant == StoreSpec => []StoreInv
  <1>1. StoreInv /\ [StoreNext]_storeVars => StoreInv'
    BY TypeStep, CopyStep, ResultStep DEF StoreInv
  <1> QED
    BY <1>1, InitStoreInv, PTL DEF StoreSpec
-----------------------------------------------------------------------------
\* Every step of the store is a step of the map of secrets, or none of it.
LEMMA MapStep ==
    StoreInv /\ [StoreNext]_storeVars =>
        [Object!Next]_<<data, [c \in Callers |-> CallRecord(c)]>>
  <1> DEFINE calls == [c \in Callers |-> CallRecord(c)]
  <1> SUFFICES ASSUME StoreInv, [StoreNext]_storeVars
               PROVE  Object!Next \/ UNCHANGED <<data, calls>>
    OBVIOUS
  <1> USE DEF StoreInv, StoreTypeOK, Over, Pending, objectVars, CallRecord, CallState
  <1>1. ASSUME NEW c \in Callers, ReadGet(c) PROVE Object!Take(c)
    BY <1>1 DEF ReadGet, Object!Take, ResultInv
  <1>2. ASSUME NEW c \in Callers, ReadNothing(c) PROVE Object!Take(c)
    <2>1. request[c].key \in Keys /\ request[c].value = None
      BY <1>2 DEF ReadNothing, Request
    <2>2. [data EXCEPT ![request[c].key] = request[c].value] = data
      BY <1>2, <2>1 DEF ReadNothing, Empty
    <2> QED
      BY <1>2, <2>2 DEF ReadNothing, Object!Take, ResultInv
  <1>3. ASSUME NEW c \in Callers, ReadForWrite(c) PROVE UNCHANGED <<data, calls>>
    BY <1>3 DEF ReadForWrite
  <1>4. ASSUME NEW c \in Callers, Write(c) PROVE Object!Take(c)
    BY <1>4 DEF Write, Object!Take, ResultInv, CopyInv
  <1>5. ASSUME NEW c \in Callers, Receive(c) PROVE Object!Return(c)
    BY <1>5 DEF Receive, End, Object!Return
  <1>6. ASSUME NEW c \in Callers, Error(c) PROVE Object!Fail(c)
    BY <1>6 DEF Error, End, Object!Fail
  <1>7. ASSUME NEW c \in Callers, NEW q \in Request, Call(c, q) PROVE Object!Begin(c)
    BY <1>7 DEF Call, Object!Begin, Object!Over, Object!Request, Request
  <1>8. CASE UNCHANGED storeVars
    BY <1>8 DEF storeVars, callVars
  <1> QED
    BY <1>1, <1>2, <1>3, <1>4, <1>5, <1>6, <1>7, <1>8
       DEF StoreNext, StoreStep, Object!Next

\* Put and Delete of any number of callers, in one process or in several, each
\* change one key at one moment although they write the whole object.
THEOREM StoreIsAMap == StoreSpec => OneKeyAtATime
  <1>1. StoreInit => Object!Init
    BY DEF StoreInit, Object!Init, Empty, CallRecord, CallState, Pending
  <1> QED
    BY <1>1, MapStep, StoreInvariant, PTL DEF StoreSpec, OneKeyAtATime, Object!Spec
-----------------------------------------------------------------------------
(* Sequences without repetition, such as the cache. *)

\* No element occurs twice.
Distinct(s) == \A i, j \in 1..Len(s) : s[i] = s[j] => i = j

LEMMA SubSeqKeeps ==
    ASSUME NEW S, NEW s \in Seq(S), Distinct(s), NEW n \in 0..Len(s)
    PROVE  LET t == SubSeq(s, n + 1, Len(s))
           IN  /\ t \in Seq(S) /\ Distinct(t) /\ Len(t) = Len(s) - n
               /\ Range(t) \subseteq Range(s)
  BY SubSeqProperties DEF Distinct, Range

LEMMA TailKeeps ==
    ASSUME NEW S, NEW s \in Seq(S), Distinct(s), s # <<>>
    PROVE  /\ Tail(s) \in Seq(S) /\ Distinct(Tail(s)) /\ Len(Tail(s)) = Len(s) - 1
           /\ Range(Tail(s)) \subseteq Range(s)
  BY HeadTailProperties DEF Distinct, Range

LEMMA RemoveFirstKeeps ==
    ASSUME NEW S, NEW s \in Seq(S), Distinct(s), NEW e
    PROVE  LET t == RemoveFirst(s, e)
           IN  /\ t \in Seq(S) /\ Distinct(t)
               /\ Len(t) = IF e \in Range(s) THEN Len(s) - 1 ELSE Len(s)
               /\ Range(t) = Range(s) \ {e}
  <1>1. CASE e \notin Range(s)
    <2>1. RemoveFirst(s, e) = s
      BY <1>1 DEF RemoveFirst, Range
    <2> QED
      BY <1>1, <2>1
  <1>2. CASE e \in Range(s)
    <2>1. PICK n \in 1..Len(s) : s[n] = e
      BY <1>2 DEF Range
    <2>2. {i \in 1..Len(s) : s[i] = e} = {n}
      BY <2>1 DEF Distinct
    <2>3. SelectInSeq(s, LAMBDA v : v = e) = n
      BY <2>2 DEF SelectInSeq, Min
    <2>4. RemoveFirst(s, e) = SubSeq(s, 1, n - 1) \o SubSeq(s, n + 1, Len(s))
      BY <2>1, <2>3 DEF RemoveFirst, RemoveAt
    <2> DEFINE u == SubSeq(s, 1, n - 1)
               v == SubSeq(s, n + 1, Len(s))
               t == u \o v
    <2>5. u \in Seq(S) /\ Len(u) = n - 1 /\ \A i \in 1..n - 1 : u[i] = s[i]
      BY SubSeqProperties
    <2>6. v \in Seq(S) /\ Len(v) = Len(s) - n /\ \A i \in 1..Len(s) - n : v[i] = s[n + i]
      BY SubSeqProperties
    <2>7. /\ t \in Seq(S) /\ Len(t) = Len(s) - 1
          /\ \A i \in 1..Len(s) - 1 : t[i] = IF i < n THEN s[i] ELSE s[i + 1]
      <3> HIDE DEF u, v
      <3>0. n \in Int /\ Len(s) \in Nat
        BY LenProperties
      <3>1. t \in Seq(S) /\ Len(t) = Len(s) - 1
        <4>1. t \in Seq(S) /\ Len(t) = Len(u) + Len(v)
          BY <2>5, <2>6, ConcatProperties
        <4> QED
          BY <4>1, <3>0, <2>5, <2>6
      <3>2. ASSUME NEW i \in 1..Len(s) - 1 PROVE t[i] = IF i < n THEN s[i] ELSE s[i + 1]
        <4>1. CASE i < n
          <5>1. t[i] = u[i]
            BY <2>5, <2>6, <4>1, ConcatProperties
          <5> QED
            BY <2>5, <4>1, <5>1
        <4>2. CASE i >= n
          <5>1. i - (n - 1) \in 1..Len(v) /\ n + (i - (n - 1)) = i + 1
            BY <2>6, <4>2
          <5>2. t[i] = v[i - (n - 1)]
            BY <2>5, <2>6, <4>2, ConcatProperties
          <5>3. v[i - (n - 1)] = s[i + 1]
            BY <2>6, <5>1
          <5> QED
            BY <4>2, <5>2, <5>3
        <4> HIDE DEF t
        <4> QED
          BY <4>1, <4>2, <3>0
      <3> QED
        BY <3>1, <3>2
    <2> HIDE DEF u, v, t
    <2>8. Distinct(t)
      <3> SUFFICES ASSUME NEW i \in 1..Len(s) - 1, NEW j \in 1..Len(s) - 1, t[i] = t[j]
                   PROVE  i = j
        BY <2>7 DEF Distinct
      <3> DEFINE place(x) == IF x < n THEN x ELSE x + 1
      <3>1. n \in 1..Len(s) /\ Len(s) \in Nat
        BY LenProperties
      <3>2. /\ place(i) \in 1..Len(s) /\ t[i] = s[place(i)]
            /\ place(j) \in 1..Len(s) /\ t[j] = s[place(j)]
        BY <2>7, <3>1
      <3>3. place(i) = place(j)
        BY <3>2 DEF Distinct
      <3> QED
        BY <3>1, <3>3
    <2>9. Range(t) = Range(s) \ {e}
      <3>1. DOMAIN t = 1..Len(s) - 1 /\ DOMAIN s = 1..Len(s)
        BY <2>7
      <3>2. ASSUME NEW x \in Range(s), x # e PROVE x \in Range(t)
        <4>1. PICK i \in 1..Len(s) : s[i] = x
          BY DEF Range
        <4>2. CASE i < n
          BY <4>1, <4>2, <3>1, <2>7 DEF Range
        <4>3. CASE i > n
          <5>1. i - 1 \in 1..Len(s) - 1 /\ t[i - 1] = s[i]
            BY <4>3, <2>7
          <5> QED
            BY <4>1, <5>1, <3>1 DEF Range
        <4> QED
          BY <4>1, <4>2, <4>3, <2>1, <3>2
      <3>3. ASSUME NEW x \in Range(t) PROVE x \in Range(s) /\ x # e
        <4>1. PICK i \in 1..Len(s) - 1 : t[i] = x
          BY <3>1 DEF Range
        <4> DEFINE j == IF i < n THEN i ELSE i + 1
        <4>2. j \in 1..Len(s) /\ j # n /\ n \in 1..Len(s) /\ s[n] = e
          BY <2>1, <2>7, <4>1
        <4>3. t[i] = s[j]
          BY <2>7, <4>1
        <4> HIDE DEF j
        <4>4. x = s[j] /\ s[j] # s[n]
          BY <4>1, <4>2, <4>3 DEF Distinct
        <4> QED
          BY <3>1, <4>2, <4>4 DEF Range
      <3> QED
        BY <3>2, <3>3
    <2> QED
      BY <1>2, <2>4, <2>7, <2>8, <2>9 DEF u, v, t
  <1> QED
    BY <1>1, <1>2

LEMMA AppendKeeps ==
    ASSUME NEW S, NEW s \in Seq(S), Distinct(s), NEW e \in S, e \notin Range(s)
    PROVE  LET t == Append(s, e)
           IN  /\ t \in Seq(S) /\ Distinct(t) /\ Len(t) = Len(s) + 1
               /\ Range(t) = Range(s) \cup {e}
  BY AppendProperties DEF Distinct, Range
-----------------------------------------------------------------------------
(* The encrypted store. *)

\* A call has a slice of its own while it needs a data key, and has none
\* otherwise; what a Get works with is the key of its envelope.
SliceInv ==
    \A c \in Callers :
        /\ dek[c] = IF phase[c] \in {"seal", "remember", "open"} THEN c ELSE None
        /\ phase[c] \in {"unwrap", "remember", "open"} => result[c] # None
        /\ phase[c] \in {"remember", "open"} => mem[c] = result[c].key

\* A key has one entry in the cache, whose slice holds it; every other slice
\* that nobody holds is zeros.
CacheInv ==
    /\ Distinct(cache)
    /\ Len(cache) <= MaxEntries
    /\ \A k \in Cached : mem[k] = k
    /\ \A x \in Cells : mem[x] # 0 => x \in Cached \/ \E c \in Callers : dek[c] = x

\* Where keys are, in the object and on their way to it or from it.
Of(v, k) == v # None /\ v.key = k

InStore(k) ==
    \/ \E x \in Keys : Of(data[x], k)
    \/ \E c \in Callers :
            \/ Of(result[c], k)
            \/ request[c] # None /\ Of(request[c].value, k)
            \/ \E x \in Keys : Of(copy[c][x], k)

InUse(k) == k \in Cached \/ InStore(k)

\* A data key that is to be used for a Put is nowhere else yet.
FreshInv ==
    /\ \A k \in 1..MaxKeys : InUse(k) => k <= keys
    /\ \A c \in Callers : phase[c] = "seal" =>
            /\ mem[c] \in 1..keys /\ ~InUse(mem[c])
            /\ \A o \in Callers : phase[o] = "seal" /\ mem[o] = mem[c] => o = c

\* If a key is decrypted although it has an entry, or somebody else decrypts it,
\* then two calls have decrypted it at once.
TwiceInv ==
    /\ \A c \in Callers, k \in 1..MaxKeys : Unwraps(c, k) =>
            /\ k \in Cached => k \in twice
            /\ \A o \in Callers : Unwraps(o, k) /\ o # c => k \in twice
    /\ stray \subseteq twice

\* What a call asks of the inner store is what it was asked for, with an
\* envelope in the place of the secret.
AskedInv ==
    \A c \in Callers :
        /\ asked[c] = None <=> phase[c] \in Over
        /\ phase[c] \in {"generate", "seal"} => asked[c].what = "put"
        /\ phase[c] = "inner" /\ request[c] # None =>
                /\ request[c].what = asked[c].what /\ request[c].key = asked[c].key
                /\ Text(request[c].value) = asked[c].value

\* What is known of the encrypted store between any two steps.
EnvelopeInv ==
    /\ StoreInv /\ TypeOK
    /\ SliceInv /\ CacheInv /\ FreshInv /\ TwiceInv /\ AskedInv

\* A slice of a call, a slice of an entry and no slice are different things.
LEMMA CellsApart ==
    /\ \A c \in Callers : c \in Cells /\ c # None /\ c \notin 1..MaxKeys
    /\ \A k \in 1..MaxKeys : k \in Cells /\ k # None /\ k # 0
    /\ None \notin Cells
    /\ MaxKeys \in Nat /\ MaxEntries \in Nat
  BY EnvelopeConstantsOK DEF Cells

\* What an envelope is made of.
LEMMA EnvelopeParts ==
    /\ Values = Envelope /\ None \notin Texts
    /\ \A v \in Values : v # None /\ v.key \in 1..MaxKeys /\ v.text \in Texts
  BY EnvelopeConstantsOK, ConstantsOK DEF Envelope

\* What a question is made of.
LEMMA QuestionParts ==
    \A q \in Question :
        /\ q # None
        /\ q.what \in {"get", "put", "delete"} /\ q.key \in Keys
        /\ q.value = IF q.what = "put" THEN q.value ELSE None
        /\ q.what = "put" => q.value \in Texts
        /\ q.what # "put" => q \in Request
  BY EnvelopeConstantsOK, ConstantsOK DEF Question, Request

\* The data key of the envelope that a Get has found.
LEMMA FoundKey ==
    EnvelopeInv => \A c \in Callers :
        result[c] # None => result[c].key \in 1..MaxKeys /\ result[c].text \in Texts
  BY EnvelopeParts DEF EnvelopeInv, StoreInv, StoreTypeOK

\* Entries of the cache have slices that are no call's.
LEMMA CellsIn ==
    TypeOK => \A k \in Cached : k \in 1..MaxKeys /\ k \in Cells /\ k \notin Callers
  BY CellsApart DEF TypeOK, Cached, Range

\* The cache after a put: the new entry and what was kept, within the limit.
LEMMA PutKeeps ==
    TypeOK /\ CacheInv /\ Enabled =>
        /\ Range(Kept) \subseteq Cached
        /\ \A k \in 1..MaxKeys :
            LET t == Append(RemoveFirst(Kept, k), k)
            IN  /\ t \in Seq(1..MaxKeys) /\ Distinct(t) /\ Len(t) <= MaxEntries
                /\ Range(t) = Range(Kept) \cup {k}
  <1> SUFFICES ASSUME TypeOK, CacheInv, Enabled
               PROVE  /\ Range(Kept) \subseteq Cached
                      /\ \A k \in 1..MaxKeys :
                          LET t == Append(RemoveFirst(Kept, k), k)
                          IN  /\ t \in Seq(1..MaxKeys) /\ Distinct(t) /\ Len(t) <= MaxEntries
                              /\ Range(t) = Range(Kept) \cup {k}
    OBVIOUS
  <1> DEFINE S == 1..MaxKeys
  <1>1. /\ Unexpired \in Seq(S) /\ Distinct(Unexpired)
        /\ Len(Unexpired) <= MaxEntries /\ Range(Unexpired) \subseteq Cached
    <2>1. /\ cache \in Seq(S) /\ Distinct(cache) /\ expired \in 0..Len(cache)
          /\ Len(cache) \in Nat /\ Len(cache) <= MaxEntries
      BY LenProperties DEF TypeOK, CacheInv
    <2>2. /\ Unexpired \in Seq(S) /\ Distinct(Unexpired)
          /\ Len(Unexpired) = Len(cache) - expired /\ Range(Unexpired) \subseteq Cached
      BY <2>1, SubSeqKeeps DEF Unexpired, Cached
    <2> QED
      BY <2>1, <2>2, CellsApart
  <1>2. /\ Kept \in Seq(S) /\ Distinct(Kept)
        /\ Len(Kept) + 1 <= MaxEntries /\ Range(Kept) \subseteq Cached
    <2>1. CASE Len(Unexpired) >= MaxEntries
      <3>1. Unexpired # <<>>
        BY <1>1, <2>1, CellsApart DEF Enabled
      <3>2. Kept = Tail(Unexpired)
        BY <2>1 DEF Kept
      <3> QED
        BY <1>1, <3>1, <3>2, TailKeeps, LenProperties, CellsApart
    <2>2. CASE ~(Len(Unexpired) >= MaxEntries)
      BY <1>1, <2>2, LenProperties, CellsApart DEF Kept
    <2> QED
      BY <2>1, <2>2
  <1>3. ASSUME NEW k \in S
        PROVE  LET t == Append(RemoveFirst(Kept, k), k)
               IN  /\ t \in Seq(S) /\ Distinct(t) /\ Len(t) <= MaxEntries
                   /\ Range(t) = Range(Kept) \cup {k}
    <2> DEFINE r == RemoveFirst(Kept, k)
    <2>1. /\ r \in Seq(S) /\ Distinct(r) /\ Len(r) <= Len(Kept)
          /\ Range(r) = Range(Kept) \ {k}
      BY <1>2, RemoveFirstKeeps, LenProperties
    <2> HIDE DEF r
    <2>2. LET t == Append(r, k)
          IN  /\ t \in Seq(S) /\ Distinct(t) /\ Len(t) = Len(r) + 1
              /\ Range(t) = Range(r) \cup {k}
      <3>1. r \in Seq(S) /\ Distinct(r) /\ k \in S /\ k \notin Range(r)
        BY <2>1
      <3> HIDE DEF S
      <3> QED
        BY <3>1, AppendKeeps
    <2>3. Len(r) \in Nat /\ Len(Kept) \in Nat
      BY <2>1, <1>2, LenProperties
    <2> QED
      BY <2>1, <2>2, <2>3, <1>2, CellsApart DEF r
  <1> QED
    BY <1>2, <1>3

\* The effect of a put of the data key k, by a call that has zeroed the cells in
\* gone: k gets an entry, others may lose theirs, no call loses its slice, and no
\* slice keeps its key that nobody holds any more.
CacheGets(k, gone) ==
    /\ cache' \in Seq(1..MaxKeys) /\ Distinct(cache') /\ Len(cache') <= MaxEntries
    /\ expired' \in 0..Len(cache')
    /\ mem' \in [Cells -> 0..MaxKeys]
    /\ Cached' \subseteq Cached \cup {k}
    /\ stray' \subseteq stray \cup (Cached \cap {k})
    /\ \A x \in Cached' : mem'[x] = x
    /\ \A x \in Cells : mem'[x] # 0 => x \in Cached' \/ (x \notin gone \cup Cached /\ mem[x] # 0)
    /\ \A o \in Callers : o \notin gone => mem'[o] = mem[o]

LEMMA PutEffect ==
    TypeOK /\ CacheInv =>
        \A k \in 1..MaxKeys, gone \in SUBSET Callers :
            PutIfEnabled(k, k, Zeroed(mem, gone)) => CacheGets(k, gone)
  <1> SUFFICES ASSUME TypeOK, CacheInv, NEW k \in 1..MaxKeys, NEW gone \in SUBSET Callers,
                      PutIfEnabled(k, k, Zeroed(mem, gone))
               PROVE  CacheGets(k, gone)
    OBVIOUS
  <1>1. /\ mem \in [Cells -> 0..MaxKeys]
        /\ Cached \subseteq 1..MaxKeys /\ gone \cap (1..MaxKeys) = {}
    BY CellsApart DEF TypeOK, Cached, Range
  <1>2. CASE Enabled
    <2>1. /\ cache' \in Seq(1..MaxKeys) /\ Distinct(cache') /\ Len(cache') <= MaxEntries
          /\ Range(cache') = Range(Kept) \cup {k} /\ Range(Kept) \subseteq Cached
      BY <1>2, PutKeeps DEF PutIfEnabled, Put
    <2>2. expired' \in 0..Len(cache')
      BY <1>2, <2>1, LenProperties DEF PutIfEnabled, Put
    <2>3. \A x \in Cells :
            mem'[x] = IF x = k THEN k
                      ELSE IF x \in (Cached \ Range(Kept)) \cup gone THEN 0 ELSE mem[x]
      BY <1>2, CellsApart DEF PutIfEnabled, Put, Zeroed
    <2>4. mem' \in [Cells -> 0..MaxKeys]
      <3>1. DOMAIN mem' = Cells /\ mem' = [x \in Cells |-> mem'[x]]
        BY <1>2 DEF PutIfEnabled, Put, Zeroed
      <3>2. \A x \in Cells : mem'[x] \in 0..MaxKeys
        BY <1>1, <2>3, CellsApart
      <3> QED
        BY <3>1, <3>2
    <2>5. Cached' = Range(Kept) \cup {k} /\ stray' = stray \cup (Range(Kept) \cap {k})
      BY <1>2, <2>1 DEF Cached, PutIfEnabled, Put
    <2>6. \A x \in Cached' : mem'[x] = x
      BY <1>1, <2>1, <2>3, <2>5, CellsApart DEF CacheInv
    <2>7. \A x \in Cells :
            mem'[x] # 0 => x \in Cached' \/ (x \notin gone \cup Cached /\ mem[x] # 0)
      BY <2>1, <2>3, <2>5
    <2>8. \A o \in Callers : o \notin gone => mem'[o] = mem[o]
      BY <1>1, <2>3, CellsApart
    <2> QED
      BY <2>1, <2>2, <2>4, <2>5, <2>6, <2>7, <2>8 DEF CacheGets
  <1>3. CASE ~Enabled
    <2>1. UNCHANGED <<cache, expired, stray>> /\ mem' = Zeroed(mem, gone)
      BY <1>3 DEF PutIfEnabled, cacheVars
    <2>2. \A x \in Cells : mem'[x] = IF x \in gone THEN 0 ELSE mem[x]
      BY <2>1 DEF Zeroed
    <2>3. mem' \in [Cells -> 0..MaxKeys]
      BY <1>1, <2>1, CellsApart DEF Zeroed
    <2>4. Cached' = Cached
      BY <2>1 DEF Cached
    <2>5. \A x \in Cached' : mem'[x] = x
      BY <1>1, <2>2, <2>4, CellsApart DEF CacheInv
    <2>6. /\ cache' \in Seq(1..MaxKeys) /\ Distinct(cache') /\ Len(cache') <= MaxEntries
          /\ expired' \in 0..Len(cache')
      BY <2>1 DEF TypeOK, CacheInv
    <2>7. \A x \in Cells :
            mem'[x] # 0 => x \in Cached' \/ (x \notin gone \cup Cached /\ mem[x] # 0)
      BY <2>2, <2>4
    <2>8. \A o \in Callers : o \notin gone => mem'[o] = mem[o]
      BY <2>2, CellsApart
    <2> QED
      BY <2>1, <2>3, <2>4, <2>5, <2>6, <2>7, <2>8 DEF CacheGets
  <1> QED
    BY <1>2, <1>3

\* The two calls that put a data key into the cache.
LEMMA SealEffect ==
    EnvelopeInv => \A c \in Callers : Seal(c) =>
        dek[c] = c /\ mem[c] \in 1..MaxKeys /\ CacheGets(mem[c], {c})
  <1> SUFFICES ASSUME EnvelopeInv, NEW c \in Callers, Seal(c)
               PROVE  dek[c] = c /\ mem[c] \in 1..MaxKeys /\ CacheGets(mem[c], {c})
    OBVIOUS
  <1>1. dek[c] = c /\ mem[c] \in 1..MaxKeys
    BY CellsApart DEF EnvelopeInv, SliceInv, FreshInv, TypeOK, Seal
  <1>2. PutIfEnabled(mem[c], mem[c], Zeroed(mem, {c}))
    BY <1>1 DEF Seal
  <1> QED
    BY <1>1, <1>2, PutEffect DEF EnvelopeInv

LEMMA RememberEffect ==
    EnvelopeInv => \A c \in Callers : Remember(c) =>
        result[c].key \in 1..MaxKeys /\ CacheGets(result[c].key, {})
  <1> SUFFICES ASSUME EnvelopeInv, NEW c \in Callers, Remember(c)
               PROVE  result[c].key \in 1..MaxKeys /\ CacheGets(result[c].key, {})
    OBVIOUS
  <1>1. /\ dek[c] = c /\ mem[c] = result[c].key
        /\ result[c].key \in 1..MaxKeys
    BY FoundKey DEF EnvelopeInv, SliceInv, Remember
  <1>2. Zeroed(mem, {}) = mem
    BY DEF EnvelopeInv, TypeOK, Zeroed
  <1>3. PutIfEnabled(result[c].key, result[c].key, Zeroed(mem, {}))
    BY <1>1, <1>2 DEF Remember
  <1> QED
    BY <1>1, <1>3, PutEffect DEF EnvelopeInv

\* The cache after a miss: the entry of the key that was looked for is gone, and
\* had expired if there was one.
LEMMA MissKeeps ==
    TypeOK /\ CacheInv =>
        \A k \in 1..MaxKeys :
            LET t == RemoveFirst(cache, k)
            IN  /\ t \in Seq(1..MaxKeys) /\ Distinct(t) /\ Len(t) <= Len(cache)
                /\ Range(t) = Cached \ {k}
                /\ Len(t) = IF k \in Cached THEN Len(cache) - 1 ELSE Len(cache)
                /\ k \in Cached /\ ~HasEntry(k) => expired \in 1..Len(cache)
  <1> SUFFICES ASSUME TypeOK, CacheInv, NEW k \in 1..MaxKeys
               PROVE  LET t == RemoveFirst(cache, k)
                      IN  /\ t \in Seq(1..MaxKeys) /\ Distinct(t) /\ Len(t) <= Len(cache)
                          /\ Range(t) = Cached \ {k}
                          /\ Len(t) = IF k \in Cached THEN Len(cache) - 1 ELSE Len(cache)
                          /\ k \in Cached /\ ~HasEntry(k) => expired \in 1..Len(cache)
    OBVIOUS
  <1> DEFINE t == RemoveFirst(cache, k)
  <1>1. /\ t \in Seq(1..MaxKeys) /\ Distinct(t)
        /\ Len(t) = IF k \in Cached THEN Len(cache) - 1 ELSE Len(cache)
        /\ Range(t) = Cached \ {k}
    BY RemoveFirstKeeps DEF TypeOK, CacheInv, Cached
  <1>2. ASSUME k \in Cached, ~HasEntry(k) PROVE expired \in 1..Len(cache)
    <2>1. PICK i \in 1..Len(cache) : cache[i] = k
      BY <1>2 DEF Cached, Range, TypeOK
    <2>2. ~(i > expired)
      BY <1>2, <2>1 DEF HasEntry
    <2> QED
      BY <2>1, <2>2 DEF TypeOK
  <1>3. Len(cache) \in Nat
    BY LenProperties DEF TypeOK
  <1> HIDE DEF t
  <1>4. Len(t) <= Len(cache)
    BY <1>1, <1>3
  <1> QED
    BY <1>1, <1>2, <1>4 DEF t

\* A step of the encrypted store is a step of the inner one, or none.
LEMMA InnerStep == EnvelopeInv /\ [Next]_vars => [StoreNext]_storeVars
  <1> SUFFICES ASSUME EnvelopeInv, [Next]_vars PROVE StoreNext \/ UNCHANGED storeVars
    OBVIOUS
  <1>1. ASSUME NEW c \in Callers, NEW q \in Question, Ask(c, q)
        PROVE  StoreNext \/ UNCHANGED storeVars
    BY <1>1, QuestionParts DEF Ask, StoreNext
  <1>2. ASSUME NEW c \in Callers, Seal(c) PROVE StoreNext
    <2>1. asked[c] \in Question /\ asked[c].what = "put"
      BY <1>2, EnvelopeConstantsOK DEF EnvelopeInv, TypeOK, AskedInv, Seal, Over
    <2>2. dek[c] = c /\ mem[c] \in 1..MaxKeys
      BY <1>2, CellsApart DEF EnvelopeInv, TypeOK, SliceInv, FreshInv, Seal
    <2>3. [asked[c] EXCEPT !.value = [key |-> mem[dek[c]], text |-> asked[c].value]] \in Request
      BY <2>1, <2>2, EnvelopeParts, QuestionParts DEF Question, Request, Envelope
    <2> QED
      BY <1>2, <2>3 DEF Seal, StoreNext
  <1>3. ASSUME NEW c \in Callers, Inner(c) PROVE StoreNext
    BY <1>3 DEF Inner, StoreNext
  <1>4. CASE UNCHANGED vars
    BY <1>4 DEF vars
  <1>5. ASSUME NEW c \in Callers,
               Generate(c) \/ Finish(c) \/ Hit(c) \/ Miss(c) \/ Unwrap(c) \/ Remember(c)
                   \/ Open(c) \/ KMSFails(c)
        PROVE  UNCHANGED storeVars
    BY <1>5 DEF Generate, Finish, Hit, Miss, Unwrap, Remember, Open, KMSFails
  <1>6. ASSUME Expire \/ Close PROVE UNCHANGED storeVars
    BY <1>6 DEF Expire, Close
  <1> QED
    BY <1>1, <1>2, <1>3, <1>4, <1>5, <1>6 DEF Next, Step

\* Every variable of the encrypted store keeps its type.
LEMMA EnvelopeTypeStep == EnvelopeInv /\ [Next]_vars => TypeOK'
  <1> SUFFICES ASSUME EnvelopeInv, [Next]_vars PROVE TypeOK'
    OBVIOUS
  <1> USE CellsApart DEF EnvelopeInv, TypeOK, Over, Inside, cacheVars
  <1>0. StoreTypeOK'
    BY InnerStep, TypeStep
  <1>1. ASSUME NEW c \in Callers, NEW q \in Question, Ask(c, q) PROVE TypeOK'
    BY <1>1, <1>0 DEF Ask, Call, Goto
  <1>2. ASSUME NEW c \in Callers, Generate(c) PROVE TypeOK'
    BY <1>2, <1>0 DEF Generate, Goto
  <1>3. ASSUME NEW c \in Callers, Seal(c) PROVE TypeOK'
    <2>1. dek[c] = c /\ mem[c] \in 1..MaxKeys /\ CacheGets(mem[c], {c})
      BY <1>3, SealEffect
    <2>2. stray' \subseteq 1..MaxKeys
      BY <2>1 DEF CacheGets
    <2> QED
      BY <1>3, <1>0, <2>1, <2>2 DEF Seal, Goto, CacheGets
  <1>4. ASSUME NEW c \in Callers, Inner(c) PROVE TypeOK'
    BY <1>4, <1>0 DEF Inner, envelopeVars
  <1>5. ASSUME NEW c \in Callers, Finish(c) PROVE TypeOK'
    BY <1>5, <1>0 DEF Finish, Answer, Goto
  <1>6. ASSUME NEW c \in Callers, Hit(c) PROVE TypeOK'
    BY <1>6, <1>0, FoundKey DEF Hit, Found, Goto
  <1>7. ASSUME NEW c \in Callers, Miss(c) PROVE TypeOK'
    <2> DEFINE k == result[c].key
    <2>1. k \in 1..MaxKeys /\ ~HasEntry(k)
      BY <1>7, FoundKey DEF Miss, Found
    <2>2. cache' = RemoveFirst(cache, k) /\ cache' \in Seq(1..MaxKeys)
      BY <1>7, <2>1, MissKeeps DEF Miss
    <2>3. expired' \in 0..Len(cache')
      <3>1. Len(cache') \in Nat /\ Len(cache) \in Nat
        BY <2>2, LenProperties
      <3>2. Len(cache') = IF k \in Cached THEN Len(cache) - 1 ELSE Len(cache)
        BY <2>1, <2>2, MissKeeps
      <3>3. CASE k \in Cached
        <4>1. expired \in 1..Len(cache) /\ expired' = expired - 1
          BY <1>7, <2>1, <3>3, MissKeeps DEF Miss
        <4> QED
          BY <3>1, <3>2, <3>3, <4>1
      <3>4. CASE k \notin Cached
        BY <1>7, <3>1, <3>2, <3>4 DEF Miss
      <3> QED
        BY <3>3, <3>4
    <2>4. twice' \subseteq 1..MaxKeys
      BY <1>7, <2>1 DEF Miss
    <2>5. mem' \in [Cells -> 0..MaxKeys]
      BY <1>7 DEF Miss, Zeroed
    <2> QED
      BY <1>7, <1>0, <2>2, <2>3, <2>4, <2>5 DEF Miss, Goto
  <1>8. ASSUME NEW c \in Callers, Unwrap(c) PROVE TypeOK'
    <2>1. result[c].key \in 0..MaxKeys
      BY <1>8, FoundKey DEF SliceInv, Unwrap
    <2>2. /\ phase' \in [Callers -> Over \cup Inside] /\ dek' \in [Callers -> Cells \cup {None}]
          /\ mem' \in [Cells -> 0..MaxKeys]
      BY <1>8, <2>1 DEF Unwrap, Goto
    <2> QED
      BY <1>8, <1>0, <2>2 DEF Unwrap
  <1>9. ASSUME NEW c \in Callers, Remember(c) PROVE TypeOK'
    <2>1. result[c].key \in 1..MaxKeys /\ CacheGets(result[c].key, {})
      BY <1>9, RememberEffect
    <2>2. stray' \subseteq 1..MaxKeys
      BY <2>1 DEF CacheGets
    <2> QED
      BY <1>9, <1>0, <2>1, <2>2 DEF Remember, Goto, CacheGets
  <1>10. ASSUME NEW c \in Callers, Open(c) PROVE TypeOK'
    <2>1. result[c].text \in Texts
      BY <1>10, FoundKey DEF SliceInv, Open
    <2>2. reply' \in [Callers -> Texts \cup {None}]
      BY <1>10, <2>1 DEF Open, Answer
    <2>3. mem' \in [Cells -> 0..MaxKeys]
      BY <1>10 DEF Open, Zeroed
    <2> QED
      BY <1>10, <1>0, <2>2, <2>3 DEF Open, Answer, Goto
  <1>11. ASSUME NEW c \in Callers, KMSFails(c) PROVE TypeOK'
    BY <1>11, <1>0 DEF KMSFails, Answer, Goto
  <1>12. ASSUME Expire PROVE TypeOK'
    BY <1>12, <1>0 DEF Expire
  <1>13. ASSUME Close PROVE TypeOK'
    <2>1. <<>> \in Seq(1..MaxKeys) /\ Len(<<>>) = 0
      OBVIOUS
    <2> QED
      BY <1>13, <1>0, <2>1 DEF Close, Zeroed
  <1>14. CASE UNCHANGED vars
    BY <1>14, <1>0 DEF vars, envelopeVars
  <1> QED
    BY <1>1, <1>2, <1>3, <1>4, <1>5, <1>6, <1>7, <1>8, <1>9, <1>10, <1>11, <1>12, <1>13, <1>14 DEF Next, Step

\* Nobody overwrites the slice of a call but the call.
LEMMA SliceStep == EnvelopeInv /\ [Next]_vars => SliceInv'
  <1> SUFFICES ASSUME EnvelopeInv, [Next]_vars PROVE SliceInv'
    OBVIOUS
  <1> USE CellsApart DEF EnvelopeInv, SliceInv, TypeOK, StoreInv, StoreTypeOK, Over, Inside, storeVars, objectVars, callVars, cacheVars
  <1>1. ASSUME NEW c \in Callers, NEW q \in Question, Ask(c, q) PROVE SliceInv'
    BY <1>1 DEF Ask, Call, Goto
  <1>2. ASSUME NEW c \in Callers, Generate(c) PROVE SliceInv'
    BY <1>2 DEF Generate, Goto
  <1>3. ASSUME NEW c \in Callers, Seal(c) PROVE SliceInv'
    <2>1. \A o \in Callers : o # c => mem'[o] = mem[o]
      BY <1>3, SealEffect DEF CacheGets
    <2> QED
      BY <1>3, <2>1 DEF Seal, Call, Goto
  <1>4. ASSUME NEW c \in Callers, Inner(c) PROVE SliceInv'
    <2>1. \A o \in Callers : o # c => result'[o] = result[o]
      BY <1>4 DEF Inner, StoreStep, ReadGet, ReadNothing, ReadForWrite, Write, Receive, Error
    <2>2. phase[c] = "inner" /\ UNCHANGED <<phase, dek, mem>>
      BY <1>4 DEF Inner, envelopeVars
    <2> QED
      BY <2>1, <2>2
  <1>5. ASSUME NEW c \in Callers, Finish(c) PROVE SliceInv'
    BY <1>5 DEF Finish, Answer, Goto
  <1>6. ASSUME NEW c \in Callers, Hit(c) PROVE SliceInv'
    <2>1. result[c] # None /\ result[c].key \in Cells
      BY <1>6, FoundKey DEF Hit, Found
    <2>3. result[c].key \in Cached
      <3>1. PICK i \in 1..Len(cache) : cache[i] = result[c].key
        BY <1>6 DEF Hit, HasEntry
      <3>2. DOMAIN cache = 1..Len(cache)
        OBVIOUS
      <3> QED
        BY <3>1, <3>2 DEF Cached, Range
    <2>2. mem' = [mem EXCEPT ![c] = result[c].key]
      BY <1>6, <2>1, <2>3 DEF Hit, CacheInv
    <2> QED
      BY <1>6, <2>1, <2>2 DEF Hit, Goto
  <1>7. ASSUME NEW c \in Callers, Miss(c) PROVE SliceInv'
    <2>1. \A o \in Callers : mem'[o] = mem[o]
      BY <1>7, FoundKey DEF Miss, Found, Zeroed
    <2> QED
      BY <1>7, <2>1 DEF Miss, Found, Goto
  <1>8. ASSUME NEW c \in Callers, Unwrap(c) PROVE SliceInv'
    BY <1>8 DEF Unwrap, Goto
  <1>9. ASSUME NEW c \in Callers, Remember(c) PROVE SliceInv'
    <2>1. \A o \in Callers : mem'[o] = mem[o]
      BY <1>9, RememberEffect DEF CacheGets
    <2> QED
      BY <1>9, <2>1 DEF Remember, Goto
  <1>10. ASSUME NEW c \in Callers, Open(c) PROVE SliceInv'
    <2>1. \A o \in Callers : o # c => mem'[o] = mem[o]
      BY <1>10 DEF Open, Zeroed
    <2>2. phase'[c] \in {"ok", "error"} /\ \A o \in Callers : o # c => phase'[o] = phase[o]
      BY <1>10 DEF Open, Answer, Goto
    <2> QED
      BY <1>10, <2>1, <2>2 DEF Open
  <1>11. ASSUME NEW c \in Callers, KMSFails(c) PROVE SliceInv'
    BY <1>11 DEF KMSFails, Answer, Goto
  <1>12. ASSUME Expire PROVE SliceInv'
    BY <1>12 DEF Expire
  <1>13. ASSUME Close PROVE SliceInv'
    <2>1. \A o \in Callers : mem'[o] = mem[o]
      <3>1. Cached \subseteq 1..MaxKeys
        BY DEF Cached, Range
      <3> QED
        BY <1>13, <3>1 DEF Close, Zeroed
    <2> QED
      BY <1>13, <2>1 DEF Close
  <1>14. CASE UNCHANGED vars
    BY <1>14 DEF vars, envelopeVars, cacheVars, storeVars, objectVars, callVars
  <1> QED
    BY <1>1, <1>2, <1>3, <1>4, <1>5, <1>6, <1>7, <1>8, <1>9, <1>10, <1>11, <1>12, <1>13, <1>14 DEF Next, Step

\* What leaves the cache is overwritten; what is in it is not.
LEMMA CacheStep == EnvelopeInv /\ [Next]_vars => CacheInv'
  <1> SUFFICES ASSUME EnvelopeInv, [Next]_vars PROVE CacheInv'
    OBVIOUS
  <1> USE CellsApart DEF EnvelopeInv, TypeOK, cacheVars
  <1>1. ASSUME NEW c \in Callers, NEW q \in Question, Ask(c, q) PROVE CacheInv'
    BY <1>1 DEF Ask, CacheInv, Cached
  <1>2. ASSUME NEW c \in Callers, Generate(c) PROVE CacheInv'
    <2>1. Cached' = Cached /\ cache' = cache
      BY <1>2 DEF Generate, Cached
    <2>2. \A x \in Cells : x # c => mem'[x] = mem[x]
      BY <1>2 DEF Generate
    <2>3. \A o \in Callers : o # c => dek'[o] = dek[o]
      BY <1>2 DEF Generate
    <2>4. mem'[c] # 0 => dek'[c] = c
      BY <1>2 DEF Generate, SliceInv
    <2>5. dek[c] \in {c, None}
      BY DEF SliceInv
    <2>6. \A k \in Cached : mem'[k] = k
      BY <2>2, CellsIn DEF CacheInv
    <2>7. ASSUME NEW x \in Cells, mem'[x] # 0
          PROVE  x \in Cached \/ \E o \in Callers : dek'[o] = x
      <3>1. CASE x = c
        BY <2>4, <2>7, <3>1
      <3>2. CASE x # c
        <4>1. x \in Cached \/ \E o \in Callers : dek[o] = x
          BY <2>2, <2>7, <3>2 DEF CacheInv
        <4>2. ASSUME NEW o \in Callers, dek[o] = x PROVE dek'[o] = x
          BY <2>3, <2>5, <3>2, <4>2
        <4> QED
          BY <4>1, <4>2
      <3> QED
        BY <3>1, <3>2
    <2> QED
      BY <2>1, <2>6, <2>7 DEF CacheInv
  <1>3. ASSUME NEW c \in Callers, Seal(c) PROVE CacheInv'
    <2>1. CacheGets(mem[c], {c})
      BY <1>3, SealEffect
    <2>2. \A o \in Callers : o \notin {c} => dek'[o] = dek[o]
      BY <1>3 DEF Seal
    <2>3. \A o \in {c} : dek[o] = o
      BY <1>3, SealEffect
    <2>4. ASSUME NEW x \in Cells, mem'[x] # 0
          PROVE  x \in Cached' \/ \E o \in Callers : dek'[o] = x
      <3>1. x \in Cached' \/ (x \notin {c} \cup Cached /\ mem[x] # 0)
        BY <2>1, <2>4 DEF CacheGets
      <3>2. ASSUME x \notin {c}, NEW o \in Callers, dek[o] = x PROVE dek'[o] = x
        BY <2>2, <2>3, <3>2
      <3> QED
        BY <3>1, <3>2 DEF CacheInv
    <2> QED
      BY <2>1, <2>4 DEF CacheGets, CacheInv
  <1>4. ASSUME NEW c \in Callers, Inner(c) PROVE CacheInv'
    BY <1>4 DEF Inner, envelopeVars, CacheInv, Cached
  <1>5. ASSUME NEW c \in Callers, Finish(c) PROVE CacheInv'
    BY <1>5 DEF Finish, CacheInv, Cached
  <1>6. ASSUME NEW c \in Callers, Hit(c) PROVE CacheInv'
    <2>1. Cached' = Cached /\ cache' = cache
      BY <1>6 DEF Hit, Cached
    <2>2. \A x \in Cells : x # c => mem'[x] = mem[x]
      BY <1>6 DEF Hit
    <2>3. \A o \in Callers : o # c => dek'[o] = dek[o]
      BY <1>6 DEF Hit
    <2>4. mem'[c] # 0 => dek'[c] = c
      BY <1>6 DEF Hit, SliceInv
    <2>5. dek[c] \in {c, None}
      BY DEF SliceInv
    <2>6. \A k \in Cached : mem'[k] = k
      BY <2>2, CellsIn DEF CacheInv
    <2>7. ASSUME NEW x \in Cells, mem'[x] # 0
          PROVE  x \in Cached \/ \E o \in Callers : dek'[o] = x
      <3>1. CASE x = c
        BY <2>4, <2>7, <3>1
      <3>2. CASE x # c
        <4>1. x \in Cached \/ \E o \in Callers : dek[o] = x
          BY <2>2, <2>7, <3>2 DEF CacheInv
        <4>2. ASSUME NEW o \in Callers, dek[o] = x PROVE dek'[o] = x
          BY <2>3, <2>5, <3>2, <4>2
        <4> QED
          BY <4>1, <4>2
      <3> QED
        BY <3>1, <3>2
    <2> QED
      BY <2>1, <2>6, <2>7 DEF CacheInv
  <1>7. ASSUME NEW c \in Callers, Miss(c) PROVE CacheInv'
    <2> DEFINE k == result[c].key
    <2>1. k \in 1..MaxKeys
      BY <1>7, FoundKey DEF Miss, Found
    <2>2. Distinct(cache') /\ Len(cache') <= Len(cache) /\ Cached' = Cached \ {k}
      BY <1>7, <2>1, MissKeeps DEF Miss, Cached
    <2>3. Len(cache') <= MaxEntries
      <3>1. Len(cache') \in Nat /\ Len(cache) \in Nat
        BY <1>7, <2>1, MissKeeps, LenProperties DEF Miss
      <3> QED
        BY <2>2, <3>1 DEF CacheInv
    <2>4. \A x \in Cells : mem'[x] = IF x = k /\ k \in Cached THEN 0 ELSE mem[x]
      BY <1>7 DEF Miss, Zeroed
    <2>5. \A x \in Cached' : mem'[x] = x
      BY <2>2, <2>4, CellsIn DEF CacheInv
    <2>6. ASSUME NEW x \in Cells, mem'[x] # 0
          PROVE  x \in Cached' \/ \E o \in Callers : dek'[o] = x
      BY <1>7, <2>2, <2>4, <2>6 DEF Miss, CacheInv
    <2> QED
      BY <2>2, <2>3, <2>5, <2>6 DEF CacheInv
  <1>8. ASSUME NEW c \in Callers, Unwrap(c) PROVE CacheInv'
    <2>1. Cached' = Cached /\ cache' = cache
      BY <1>8 DEF Unwrap, Cached
    <2>2. \A x \in Cells : x # c => mem'[x] = mem[x]
      BY <1>8 DEF Unwrap
    <2>3. \A o \in Callers : o # c => dek'[o] = dek[o]
      BY <1>8 DEF Unwrap
    <2>4. mem'[c] # 0 => dek'[c] = c
      BY <1>8 DEF Unwrap, SliceInv
    <2>5. dek[c] \in {c, None}
      BY DEF SliceInv
    <2>6. \A k \in Cached : mem'[k] = k
      BY <2>2, CellsIn DEF CacheInv
    <2>7. ASSUME NEW x \in Cells, mem'[x] # 0
          PROVE  x \in Cached \/ \E o \in Callers : dek'[o] = x
      <3>1. CASE x = c
        BY <2>4, <2>7, <3>1
      <3>2. CASE x # c
        <4>1. x \in Cached \/ \E o \in Callers : dek[o] = x
          BY <2>2, <2>7, <3>2 DEF CacheInv
        <4>2. ASSUME NEW o \in Callers, dek[o] = x PROVE dek'[o] = x
          BY <2>3, <2>5, <3>2, <4>2
        <4> QED
          BY <4>1, <4>2
      <3> QED
        BY <3>1, <3>2
    <2> QED
      BY <2>1, <2>6, <2>7 DEF CacheInv
  <1>9. ASSUME NEW c \in Callers, Remember(c) PROVE CacheInv'
    <2>1. CacheGets(result[c].key, {})
      BY <1>9, RememberEffect
    <2>2. \A o \in Callers : o \notin {} => dek'[o] = dek[o]
      BY <1>9 DEF Remember
    <2>3. \A o \in {} : dek[o] = o
      BY <1>9, RememberEffect
    <2>4. ASSUME NEW x \in Cells, mem'[x] # 0
          PROVE  x \in Cached' \/ \E o \in Callers : dek'[o] = x
      <3>1. x \in Cached' \/ (x \notin {} \cup Cached /\ mem[x] # 0)
        BY <2>1, <2>4 DEF CacheGets
      <3>2. ASSUME x \notin {}, NEW o \in Callers, dek[o] = x PROVE dek'[o] = x
        BY <2>2, <2>3, <3>2
      <3> QED
        BY <3>1, <3>2 DEF CacheInv
    <2> QED
      BY <2>1, <2>4 DEF CacheGets, CacheInv
  <1>10. ASSUME NEW c \in Callers, Open(c) PROVE CacheInv'
    <2>1. Cached' = Cached /\ cache' = cache
      BY <1>10 DEF Open, Zeroed, SliceInv, Cached
    <2>2. \A x \in Cells : x # c => mem'[x] = mem[x]
      BY <1>10 DEF Open, Zeroed, SliceInv
    <2>3. \A o \in Callers : o # c => dek'[o] = dek[o]
      BY <1>10 DEF Open, Zeroed, SliceInv
    <2>4. mem'[c] # 0 => dek'[c] = c
      BY <1>10 DEF Open, Zeroed, SliceInv
    <2>5. dek[c] \in {c, None}
      BY DEF SliceInv
    <2>6. \A k \in Cached : mem'[k] = k
      BY <2>2, CellsIn DEF CacheInv
    <2>7. ASSUME NEW x \in Cells, mem'[x] # 0
          PROVE  x \in Cached \/ \E o \in Callers : dek'[o] = x
      <3>1. CASE x = c
        BY <2>4, <2>7, <3>1
      <3>2. CASE x # c
        <4>1. x \in Cached \/ \E o \in Callers : dek[o] = x
          BY <2>2, <2>7, <3>2 DEF CacheInv
        <4>2. ASSUME NEW o \in Callers, dek[o] = x PROVE dek'[o] = x
          BY <2>3, <2>5, <3>2, <4>2
        <4> QED
          BY <4>1, <4>2
      <3> QED
        BY <3>1, <3>2
    <2> QED
      BY <2>1, <2>6, <2>7 DEF CacheInv
  <1>11. ASSUME NEW c \in Callers, KMSFails(c) PROVE CacheInv'
    BY <1>11 DEF KMSFails, CacheInv, Cached
  <1>12. ASSUME Expire PROVE CacheInv'
    BY <1>12 DEF Expire, CacheInv, Cached
  <1>13. ASSUME Close PROVE CacheInv'
    <2>1. Cached' = {} /\ Distinct(cache') /\ Len(cache') = 0
      BY <1>13 DEF Close, Cached, Range, Distinct
    <2>2. \A x \in Cells : mem'[x] = IF x \in Cached THEN 0 ELSE mem[x]
      BY <1>13 DEF Close, Zeroed
    <2>3. ASSUME NEW x \in Cells, mem'[x] # 0 PROVE \E o \in Callers : dek'[o] = x
      BY <1>13, <2>2, <2>3 DEF Close, CacheInv
    <2> QED
      BY <2>1, <2>3 DEF CacheInv
  <1>14. CASE UNCHANGED vars
    BY <1>14 DEF vars, envelopeVars, CacheInv, Cached
  <1> QED
    BY <1>1, <1>2, <1>3, <1>4, <1>5, <1>6, <1>7, <1>8, <1>9, <1>10, <1>11, <1>12, <1>13, <1>14 DEF Next, Step

\* As long as no key gets to a new place and no call a new key to use, those
\* that are to be used stay unknown.
LEMMA FreshKept ==
    /\ EnvelopeInv /\ UNCHANGED keys
    /\ \A k \in 1..MaxKeys : InUse(k)' => InUse(k)
    /\ \A o \in Callers : phase'[o] = "seal" => phase[o] = "seal" /\ mem'[o] = mem[o]
    => FreshInv'
  <1> SUFFICES ASSUME EnvelopeInv, UNCHANGED keys,
                      \A k \in 1..MaxKeys : InUse(k)' => InUse(k),
                      \A o \in Callers : phase'[o] = "seal" => phase[o] = "seal" /\ mem'[o] = mem[o]
               PROVE  FreshInv'
    OBVIOUS
  <1>1. \A k \in 1..MaxKeys : InUse(k)' => k <= keys'
    BY DEF EnvelopeInv, FreshInv
  <1>2. ASSUME NEW o \in Callers, phase'[o] = "seal"
        PROVE  /\ mem'[o] = mem[o] /\ mem'[o] \in 1..keys' /\ ~InUse(mem[o])'
               /\ \A p \in Callers : phase'[p] = "seal" /\ mem'[p] = mem'[o] => p = o
    <2>1. /\ phase[o] = "seal" /\ mem'[o] = mem[o]
          /\ mem[o] \in 1..keys /\ ~InUse(mem[o]) /\ mem[o] \in 1..MaxKeys
      BY <1>2, CellsApart DEF EnvelopeInv, FreshInv, TypeOK
    <2> QED
      BY <2>1 DEF EnvelopeInv, FreshInv
  <1> QED
    BY <1>1, <1>2 DEF FreshInv

\* No step of the inner store brings a key to it.
LEMMA InUseInner ==
    EnvelopeInv => \A c \in Callers, k \in 1..MaxKeys : StoreStep(c) /\ InStore(k)' => InStore(k)
  <1> SUFFICES ASSUME EnvelopeInv, NEW c \in Callers, NEW k \in 1..MaxKeys, StoreStep(c), InStore(k)'
               PROVE  InStore(k)
    OBVIOUS
  <1> USE DEF EnvelopeInv, StoreInv, StoreTypeOK, objectVars, Over, Pending, Map, Empty
  <1>0. at[c] \notin Over => request[c] \in Request /\ request[c] # None /\ request[c].key \in Keys
    BY RequestParts
  <1>1. CASE ReadGet(c)
    BY <1>0, <1>1 DEF ReadGet, InStore, Of
  <1>2. CASE ReadNothing(c)
    BY <1>2 DEF ReadNothing, InStore, Of
  <1>3. CASE ReadForWrite(c)
    <2>1. \A x \in Keys :
            Of(copy'[c][x], k) => Of(data[x], k) \/ Of(request[c].value, k)
      BY <1>0, <1>3 DEF ReadForWrite, Changed, Of
    <2>2. UNCHANGED <<data, request, result>> /\ \A o \in Callers : o # c => copy'[o] = copy[o]
      BY <1>3 DEF ReadForWrite
    <2>3. request[c] # None
      BY <1>0, <1>3 DEF ReadForWrite
    <2> QED
      BY <2>1, <2>2, <2>3 DEF InStore
  <1>4. CASE Write(c)
    BY <1>4 DEF Write, InStore, Of
  <1>5. CASE Receive(c)
    BY <1>5 DEF Receive, End, InStore, Of
  <1>6. CASE Error(c)
    BY <1>6 DEF Error, End, InStore, Of
  <1> QED
    BY <1>1, <1>2, <1>3, <1>4, <1>5, <1>6 DEF StoreStep

\* A new data key is used once.
LEMMA FreshStep == EnvelopeInv /\ [Next]_vars => FreshInv'
  <1> SUFFICES ASSUME EnvelopeInv, [Next]_vars PROVE FreshInv'
    OBVIOUS
  <1> USE CellsApart DEF EnvelopeInv
  <1>1. ASSUME NEW c \in Callers, NEW q \in Question, Ask(c, q) PROVE FreshInv'
    <2>1. \A k \in 1..MaxKeys : InStore(k)' => InStore(k)
      <3>1. CASE q.what = "put"
        BY <1>1, <3>1 DEF Ask, storeVars, objectVars, callVars, InStore
      <3>2. CASE q.what # "put"
        <4>1. request'[c] = q /\ q.value = None /\ result'[c] = None /\ UNCHANGED <<data, copy>>
          BY <1>1, <3>2, QuestionParts DEF Ask, Call, objectVars, StoreInv, StoreTypeOK
        <4>2. \A o \in Callers : o # c => request'[o] = request[o] /\ result'[o] = result[o]
          BY <1>1, <3>2 DEF Ask, Call, StoreInv, StoreTypeOK
        <4> QED
          BY <4>1, <4>2 DEF InStore, Of
      <3> QED
        BY <3>1, <3>2
    <2>2. Cached' = Cached
      BY <1>1 DEF Ask, cacheVars, Cached
    <2>3. \A o \in Callers : phase'[o] = "seal" => phase[o] = "seal" /\ mem'[o] = mem[o]
      BY <1>1 DEF Ask, Goto, TypeOK
    <2> QED
      BY <1>1, <2>1, <2>2, <2>3, FreshKept DEF Ask, InUse
  <1>2. ASSUME NEW c \in Callers, Generate(c) PROVE FreshInv'
    <2>1. \A k \in 1..MaxKeys : InUse(k)' <=> InUse(k)
      BY <1>2 DEF Generate, cacheVars, storeVars, objectVars, callVars, InUse, InStore, Cached
    <2>2. /\ keys' = keys + 1 /\ keys' \in 1..MaxKeys
          /\ phase'[c] = "seal" /\ mem'[c] = keys' /\ phase[c] # "seal"
          /\ \A o \in Callers : o # c => phase'[o] = phase[o] /\ mem'[o] = mem[o]
      BY <1>2, CellsApart DEF Generate, Goto, TypeOK
    <2>3. \A k \in 1..MaxKeys : InUse(k) => k <= keys /\ k < keys'
      BY <2>2 DEF FreshInv, TypeOK
    <2>4. ~InUse(mem[c])'
      BY <2>1, <2>2, <2>3, CellsApart DEF TypeOK
    <2>5. ASSUME NEW o \in Callers, o # c, phase[o] = "seal"
          PROVE  mem'[o] = mem[o] /\ mem[o] \in 1..keys /\ mem[o] < keys' /\ ~InUse(mem[o])'
      <3>1. /\ mem[o] \in 1..keys /\ ~InUse(mem[o]) /\ mem[o] \in 1..MaxKeys
            /\ mem'[o] = mem[o]
        BY <2>2, <2>5, CellsApart DEF FreshInv, TypeOK
      <3>2. mem[o] < keys' /\ keys \in Nat
        BY <2>2, <3>1 DEF TypeOK
      <3> QED
        BY <2>1, <3>1, <3>2
    <2>6. \A o \in Callers : phase'[o] = "seal" /\ o # c => phase[o] = "seal"
      BY <2>2
    <2>7. \A k \in 1..MaxKeys : InUse(k)' => k <= keys'
      BY <2>1, <2>2, <2>3 DEF TypeOK
    <2>8. mem'[c] \in 1..keys' /\ \A o \in Callers : phase[o] = "seal" /\ o # c => mem'[o] \in 1..keys' /\ mem'[o] # mem'[c]
      BY <2>2, <2>5, CellsApart DEF TypeOK
    <2>9. \A o, p \in Callers : phase[o] = "seal" /\ phase[p] = "seal" /\ mem[o] = mem[p] => o = p
      BY DEF FreshInv
    <2> QED
      BY <2>2, <2>4, <2>5, <2>6, <2>7, <2>8, <2>9 DEF FreshInv
  <1>3. ASSUME NEW c \in Callers, Seal(c) PROVE FreshInv'
    <2> DEFINE n == mem[c]
    <2>1. n \in 1..MaxKeys /\ dek[c] = c /\ CacheGets(n, {c})
      BY <1>3, SealEffect
    <2>2. /\ phase[c] = "seal" /\ n \in 1..keys /\ keys' = keys
          /\ phase'[c] = "inner" /\ \A o \in Callers : o # c => phase'[o] = phase[o]
      BY <1>3 DEF Seal, Goto, FreshInv, TypeOK
    <2>3. \A k \in 1..MaxKeys : InStore(k)' => InStore(k) \/ k = n
      <3> DEFINE env == [key |-> n, text |-> asked[c].value]
      <3>1. /\ request' = [request EXCEPT ![c] = [asked[c] EXCEPT !.value = env]]
            /\ result' = [result EXCEPT ![c] = None] /\ UNCHANGED <<data, copy>>
        BY <1>3, <2>1 DEF Seal, Call, objectVars
      <3>2. asked[c] \in Question
        BY <1>3 DEF Seal, AskedInv, TypeOK, Over
      <3>3. request'[c].value = env /\ env.key = n /\ result'[c] = None
        BY <3>1, <3>2, QuestionParts DEF Question, StoreInv, StoreTypeOK
      <3>4. \A o \in Callers : o # c => request'[o] = request[o] /\ result'[o] = result[o]
        BY <3>1 DEF StoreInv, StoreTypeOK
      <3> QED
        BY <3>1, <3>3, <3>4 DEF InStore, Of
    <2>4. \A k \in 1..MaxKeys : InUse(k)' => InUse(k) \/ k = n
      BY <2>1, <2>3 DEF InUse, CacheGets
    <2>5. ASSUME NEW o \in Callers, o # c, phase[o] = "seal"
          PROVE  /\ mem'[o] = mem[o] /\ mem[o] \in 1..keys /\ ~InUse(mem[o])'
      <3>1. mem[o] \in 1..keys /\ ~InUse(mem[o]) /\ mem[o] \in 1..MaxKeys /\ mem[o] # n
        BY <2>2, <2>5, CellsApart DEF FreshInv, TypeOK
      <3> QED
        BY <2>1, <2>4, <2>5, <3>1 DEF CacheGets
    <2> HIDE DEF n
    <2>6. \A k \in 1..MaxKeys : InUse(k)' => k <= keys
      BY <2>2, <2>4 DEF FreshInv, TypeOK
    <2> QED
      BY <2>2, <2>5, <2>6 DEF FreshInv
  <1>4. ASSUME NEW c \in Callers, Inner(c) PROVE FreshInv'
    <2>1. \A k \in 1..MaxKeys : InUse(k)' => InUse(k)
      BY <1>4, InUseInner DEF Inner, envelopeVars, cacheVars, InUse, Cached
    <2> QED
      BY <1>4, <2>1, FreshKept DEF Inner, envelopeVars
  <1>5. ASSUME NEW c \in Callers, Finish(c) PROVE FreshInv'
    <2>1. \A k \in 1..MaxKeys : InUse(k)' => InUse(k)
      BY <1>5 DEF Finish, Answer, cacheVars, storeVars, objectVars, callVars, InUse, InStore, Cached
    <2>2. \A o \in Callers : phase'[o] = "seal" => phase[o] = "seal" /\ mem'[o] = mem[o]
      BY <1>5 DEF Finish, Answer, Goto, TypeOK
    <2> QED
      BY <1>5, <2>1, <2>2, FreshKept DEF Finish, Answer
  <1>6. ASSUME NEW c \in Callers, Hit(c) PROVE FreshInv'
    <2>1. \A k \in 1..MaxKeys : InUse(k)' => InUse(k)
      BY <1>6 DEF Hit, cacheVars, storeVars, objectVars, callVars, InUse, InStore, Cached
    <2>2. \A o \in Callers : phase'[o] = "seal" => phase[o] = "seal" /\ mem'[o] = mem[o]
      BY <1>6 DEF Hit, Goto, TypeOK
    <2> QED
      BY <1>6, <2>1, <2>2, FreshKept DEF Hit
  <1>7. ASSUME NEW c \in Callers, Miss(c) PROVE FreshInv'
    <2>1. result[c].key \in 1..MaxKeys
      BY <1>7, FoundKey DEF Miss, Found
    <2>2. Cached' \subseteq Cached
      BY <1>7, <2>1, MissKeeps DEF Miss, Cached
    <2>3. \A k \in 1..MaxKeys : InUse(k)' => InUse(k)
      BY <1>7, <2>2 DEF Miss, storeVars, objectVars, callVars, InUse, InStore
    <2>4. \A o \in Callers : phase'[o] = "seal" => phase[o] = "seal" /\ mem'[o] = mem[o]
      BY <1>7, <2>1 DEF Miss, Goto, Zeroed, TypeOK
    <2> QED
      BY <1>7, <2>3, <2>4, FreshKept DEF Miss
  <1>8. ASSUME NEW c \in Callers, Unwrap(c) PROVE FreshInv'
    <2>1. \A k \in 1..MaxKeys : InUse(k)' => InUse(k)
      BY <1>8 DEF Unwrap, cacheVars, storeVars, objectVars, callVars, InUse, InStore, Cached
    <2>2. \A o \in Callers : phase'[o] = "seal" => phase[o] = "seal" /\ mem'[o] = mem[o]
      BY <1>8 DEF Unwrap, Goto, TypeOK
    <2> QED
      BY <1>8, <2>1, <2>2, FreshKept DEF Unwrap
  <1>9. ASSUME NEW c \in Callers, Remember(c) PROVE FreshInv'
    <2> DEFINE k == result[c].key
    <2>1. k \in 1..MaxKeys /\ CacheGets(k, {})
      BY <1>9, RememberEffect
    <2>2. InStore(k)
      BY <1>9 DEF Remember, SliceInv, InStore, Of
    <2>3. \A x \in 1..MaxKeys : InUse(x)' => InUse(x)
      BY <1>9, <2>1, <2>2 DEF Remember, CacheGets, storeVars, objectVars, callVars, InUse, InStore
    <2>4. \A o \in Callers : phase'[o] = "seal" => phase[o] = "seal" /\ mem'[o] = mem[o]
      BY <1>9, <2>1 DEF Remember, Goto, CacheGets, TypeOK
    <2> QED
      BY <1>9, <2>3, <2>4, FreshKept DEF Remember
  <1>10. ASSUME NEW c \in Callers, Open(c) PROVE FreshInv'
    <2>1. \A k \in 1..MaxKeys : InUse(k)' => InUse(k)
      BY <1>10 DEF Open, Answer, cacheVars, storeVars, objectVars, callVars, InUse, InStore, Cached
    <2>2. \A o \in Callers : phase'[o] = "seal" => phase[o] = "seal" /\ mem'[o] = mem[o]
      BY <1>10 DEF Open, Answer, Zeroed, SliceInv, Goto, TypeOK
    <2> QED
      BY <1>10, <2>1, <2>2, FreshKept DEF Open, Answer
  <1>11. ASSUME NEW c \in Callers, KMSFails(c) PROVE FreshInv'
    <2>1. \A k \in 1..MaxKeys : InUse(k)' => InUse(k)
      BY <1>11 DEF KMSFails, Answer, cacheVars, storeVars, objectVars, callVars, InUse, InStore, Cached
    <2>2. \A o \in Callers : phase'[o] = "seal" => phase[o] = "seal" /\ mem'[o] = mem[o]
      BY <1>11 DEF KMSFails, Answer, Goto, TypeOK
    <2> QED
      BY <1>11, <2>1, <2>2, FreshKept DEF KMSFails, Answer
  <1>12. ASSUME Expire PROVE FreshInv'
    <2>1. \A k \in 1..MaxKeys : InUse(k)' => InUse(k)
      BY <1>12 DEF Expire, cacheVars, storeVars, objectVars, callVars, InUse, InStore, Cached
    <2>2. \A o \in Callers : phase'[o] = "seal" => phase[o] = "seal" /\ mem'[o] = mem[o]
      BY <1>12 DEF Expire, Goto, TypeOK
    <2> QED
      BY <1>12, <2>1, <2>2, FreshKept DEF Expire
  <1>13. ASSUME Close PROVE FreshInv'
    <2>1. Cached' = {}
      BY <1>13 DEF Close, Cached, Range
    <2>2. \A k \in 1..MaxKeys : InUse(k)' => InUse(k)
      BY <1>13, <2>1 DEF Close, storeVars, objectVars, callVars, InUse, InStore
    <2>3. \A o \in Callers : mem'[o] = mem[o]
      BY <1>13, CellsIn DEF Close, Zeroed
    <2> QED
      BY <1>13, <2>2, <2>3, FreshKept DEF Close
  <1>14. CASE UNCHANGED vars
    BY <1>14, FreshKept DEF vars, envelopeVars, cacheVars, storeVars, objectVars, callVars, InUse, InStore, Cached
  <1> QED
    BY <1>1, <1>2, <1>3, <1>4, <1>5, <1>6, <1>7, <1>8, <1>9, <1>10, <1>11, <1>12, <1>13, <1>14 DEF Next, Step

\* As long as no call begins to decrypt, and keys that are being decrypted get no
\* entry that is not accounted for, nothing changes.
LEMMA TwiceKept ==
    /\ TwiceInv /\ UNCHANGED twice
    /\ \A o \in Callers, k \in 1..MaxKeys : Unwraps(o, k)' =>
            Unwraps(o, k) /\ (k \in Cached' => k \in Cached \cup twice)
    /\ stray' \subseteq stray \cup twice
    => TwiceInv'
  BY DEF TwiceInv

\* Two entries for one key need two calls that decrypt it at once.
LEMMA TwiceStep == EnvelopeInv /\ [Next]_vars => TwiceInv'
  <1> SUFFICES ASSUME EnvelopeInv, [Next]_vars PROVE TwiceInv'
    OBVIOUS
  <1> USE CellsApart DEF EnvelopeInv
  <1>1. ASSUME NEW c \in Callers, NEW q \in Question, Ask(c, q) PROVE TwiceInv'
    <2>1. \A o \in Callers, k \in 1..MaxKeys : Unwraps(o, k)' => Unwraps(o, k)
      BY <1>1 DEF Ask, Call, Goto, Unwraps, TypeOK, StoreInv, StoreTypeOK, storeVars, callVars
    <2>2. UNCHANGED <<stray, twice>> /\ Cached' = Cached
      BY <1>1 DEF Ask, Call, cacheVars, Cached
    <2> QED
      BY <2>1, <2>2, TwiceKept
  <1>2. ASSUME NEW c \in Callers, Generate(c) PROVE TwiceInv'
    <2>1. \A o \in Callers, k \in 1..MaxKeys : Unwraps(o, k)' => Unwraps(o, k)
      BY <1>2 DEF Generate, Goto, Unwraps, TypeOK, StoreInv, StoreTypeOK, storeVars, callVars
    <2>2. UNCHANGED <<stray, twice>> /\ Cached' = Cached
      BY <1>2 DEF Generate, cacheVars, Cached
    <2> QED
      BY <2>1, <2>2, TwiceKept
  <1>3. ASSUME NEW c \in Callers, Seal(c) PROVE TwiceInv'
    <2>1. /\ mem[c] \in 1..MaxKeys /\ CacheGets(mem[c], {c})
          /\ ~InUse(mem[c])
      BY <1>3, SealEffect DEF Seal, FreshInv
    <2>2. \A o \in Callers, k \in 1..MaxKeys : Unwraps(o, k)' => Unwraps(o, k)
      BY <1>3 DEF Seal, Call, Goto, Unwraps, TypeOK, StoreInv, StoreTypeOK
    <2>3. \A o \in Callers : ~Unwraps(o, mem[c])
      BY <2>1 DEF InUse, InStore, Of, Unwraps, SliceInv
    <2>4. mem[c] \notin Cached
      BY <2>1 DEF InUse
    <2> QED
      BY <1>3, <2>1, <2>2, <2>3, <2>4, TwiceKept DEF Seal, CacheGets
  <1>4. ASSUME NEW c \in Callers, Inner(c) PROVE TwiceInv'
    <2>1. phase[c] = "inner" /\ UNCHANGED <<phase, cache, stray, twice>>
      BY <1>4 DEF Inner, envelopeVars, cacheVars
    <2>2. \A o \in Callers : o # c => result'[o] = result[o]
      BY <1>4 DEF Inner, StoreStep, ReadGet, ReadNothing, ReadForWrite, Write, Receive, Error,
         StoreInv, StoreTypeOK
    <2>3. \A o \in Callers, k \in 1..MaxKeys : Unwraps(o, k)' => Unwraps(o, k)
      BY <2>1, <2>2 DEF Unwraps
    <2>4. Cached' = Cached
      BY <2>1 DEF Cached
    <2> QED
      BY <2>1, <2>3, <2>4, TwiceKept
  <1>5. ASSUME NEW c \in Callers, Finish(c) PROVE TwiceInv'
    <2>1. \A o \in Callers, k \in 1..MaxKeys : Unwraps(o, k)' => Unwraps(o, k)
      BY <1>5 DEF Finish, Answer, Goto, Unwraps, TypeOK, StoreInv, StoreTypeOK, storeVars, callVars
    <2>2. UNCHANGED <<stray, twice>> /\ Cached' = Cached
      BY <1>5 DEF Finish, Answer, cacheVars, Cached
    <2> QED
      BY <2>1, <2>2, TwiceKept
  <1>6. ASSUME NEW c \in Callers, Hit(c) PROVE TwiceInv'
    <2>1. \A o \in Callers, k \in 1..MaxKeys : Unwraps(o, k)' => Unwraps(o, k)
      BY <1>6 DEF Hit, Goto, Unwraps, TypeOK, StoreInv, StoreTypeOK, storeVars, callVars
    <2>2. UNCHANGED <<stray, twice>> /\ Cached' = Cached
      BY <1>6 DEF Hit, cacheVars, Cached
    <2> QED
      BY <2>1, <2>2, TwiceKept
  <1>7. ASSUME NEW c \in Callers, Miss(c) PROVE TwiceInv'
    <2> DEFINE n == result[c].key
    <2>1. n \in 1..MaxKeys /\ phase[c] = "inner"
      BY <1>7, FoundKey DEF Miss, Found
    <2>2. Cached' = Cached \ {n}
      BY <1>7, <2>1, MissKeeps DEF Miss, Cached
    <2>3. /\ twice \subseteq twice'
          /\ \A o \in Callers : Unwraps(o, n) => n \in twice'
      BY <1>7 DEF Miss
    <2>4. \A o \in Callers, k \in 1..MaxKeys : Unwraps(o, k)' <=> Unwraps(o, k) \/ (o = c /\ k = n)
      BY <1>7, <2>1 DEF Miss, Goto, Unwraps, TypeOK, storeVars, callVars
    <2>5. stray' = stray
      BY <1>7 DEF Miss
    <2>6. \A k \in 1..MaxKeys : ~Unwraps(c, k)
      BY <2>1 DEF Unwraps
    <2> HIDE DEF n
    <2> QED
      BY <2>2, <2>3, <2>4, <2>5, <2>6 DEF TwiceInv
  <1>8. ASSUME NEW c \in Callers, Unwrap(c) PROVE TwiceInv'
    <2>1. \A o \in Callers, k \in 1..MaxKeys : Unwraps(o, k)' => Unwraps(o, k)
      BY <1>8 DEF Unwrap, Goto, Unwraps, TypeOK, StoreInv, StoreTypeOK, storeVars, callVars
    <2>2. UNCHANGED <<stray, twice>> /\ Cached' = Cached
      BY <1>8 DEF Unwrap, cacheVars, Cached
    <2> QED
      BY <2>1, <2>2, TwiceKept
  <1>9. ASSUME NEW c \in Callers, Remember(c) PROVE TwiceInv'
    <2> DEFINE n == result[c].key
    <2>1. n \in 1..MaxKeys /\ CacheGets(n, {})
      BY <1>9, RememberEffect
    <2>2. Unwraps(c, n)
      BY <1>9 DEF Remember, Unwraps
    <2>3. \A o \in Callers, k \in 1..MaxKeys : Unwraps(o, k)' => Unwraps(o, k) /\ o # c
      BY <1>9 DEF Remember, Goto, Unwraps, TypeOK, storeVars, callVars
    <2>4. UNCHANGED twice
      BY <1>9 DEF Remember
    <2>5. \A o \in Callers : o # c /\ Unwraps(o, n) => n \in twice
      BY <2>1, <2>2 DEF TwiceInv
    <2>6. n \in Cached => n \in twice
      BY <2>1, <2>2 DEF TwiceInv
    <2> HIDE DEF n
    <2>7. stray' \subseteq stray \cup twice /\ Cached' \subseteq Cached \cup {n}
      BY <2>1, <2>6 DEF CacheGets
    <2>8. \A o \in Callers, k \in 1..MaxKeys : Unwraps(o, k)' =>
            Unwraps(o, k) /\ (k \in Cached' => k \in Cached \cup twice)
      BY <2>3, <2>5, <2>7
    <2> QED
      BY <2>4, <2>7, <2>8, TwiceKept
  <1>10. ASSUME NEW c \in Callers, Open(c) PROVE TwiceInv'
    <2>1. \A o \in Callers, k \in 1..MaxKeys : Unwraps(o, k)' => Unwraps(o, k)
      BY <1>10 DEF Open, Answer, Goto, Unwraps, TypeOK, StoreInv, StoreTypeOK, storeVars, callVars
    <2>2. UNCHANGED <<stray, twice>> /\ Cached' = Cached
      BY <1>10 DEF Open, Answer, cacheVars, Cached
    <2> QED
      BY <2>1, <2>2, TwiceKept
  <1>11. ASSUME NEW c \in Callers, KMSFails(c) PROVE TwiceInv'
    <2>1. \A o \in Callers, k \in 1..MaxKeys : Unwraps(o, k)' => Unwraps(o, k)
      BY <1>11 DEF KMSFails, Answer, Goto, Unwraps, TypeOK, StoreInv, StoreTypeOK, storeVars, callVars
    <2>2. UNCHANGED <<stray, twice>> /\ Cached' = Cached
      BY <1>11 DEF KMSFails, Answer, cacheVars, Cached
    <2> QED
      BY <2>1, <2>2, TwiceKept
  <1>12. ASSUME Expire PROVE TwiceInv'
    <2>1. \A o \in Callers, k \in 1..MaxKeys : Unwraps(o, k)' => Unwraps(o, k)
      BY <1>12 DEF Expire, Goto, Unwraps, TypeOK, StoreInv, StoreTypeOK, storeVars, callVars
    <2>2. UNCHANGED <<stray, twice>> /\ Cached' = Cached
      BY <1>12 DEF Expire, cacheVars, Cached
    <2> QED
      BY <2>1, <2>2, TwiceKept
  <1>13. ASSUME Close PROVE TwiceInv'
    <2>1. \A o \in Callers, k \in 1..MaxKeys : Unwraps(o, k)' => Unwraps(o, k)
      BY <1>13 DEF Close, Unwraps, storeVars, callVars
    <2>2. Cached' = {} /\ UNCHANGED <<stray, twice>>
      BY <1>13 DEF Close, Cached, Range
    <2> QED
      BY <2>1, <2>2, TwiceKept
  <1>14. CASE UNCHANGED vars
    BY <1>14 DEF vars, envelopeVars, cacheVars, storeVars, callVars, TwiceInv, Unwraps, Cached
  <1> QED
    BY <1>1, <1>2, <1>3, <1>4, <1>5, <1>6, <1>7, <1>8, <1>9, <1>10, <1>11, <1>12, <1>13, <1>14 DEF Next, Step

\* A call that ends asks nothing of the inner store any more.
LEMMA AskedEnds ==
    ASSUME AskedInv, NEW c \in Callers, phase'[c] \in {"ok", "error"}, asked'[c] = None,
           UNCHANGED request,
           \A o \in Callers : o # c => phase'[o] = phase[o] /\ asked'[o] = asked[o]
    PROVE  AskedInv'
  <1> SUFFICES ASSUME NEW o \in Callers
               PROVE  /\ asked'[o] = None <=> phase'[o] \in Over
                      /\ phase'[o] \in {"generate", "seal"} => asked'[o].what = "put"
                      /\ phase'[o] = "inner" /\ request[o] # None =>
                            /\ request[o].what = asked'[o].what /\ request[o].key = asked'[o].key
                            /\ Text(request[o].value) = asked'[o].value
    BY DEF AskedInv, Text, Over
  <1>1. CASE o = c
    BY <1>1 DEF Over
  <1>2. CASE o # c
    BY <1>2 DEF AskedInv, Over
  <1> QED
    BY <1>1, <1>2

\* No request changes on its way to the inner store.
LEMMA AskedStep == EnvelopeInv /\ [Next]_vars => AskedInv'
  <1> SUFFICES ASSUME EnvelopeInv, [Next]_vars PROVE AskedInv'
    OBVIOUS
  <1> USE CellsApart DEF EnvelopeInv, AskedInv, TypeOK, StoreInv, StoreTypeOK, Over, Inside, storeVars, callVars
  <1>1. ASSUME NEW c \in Callers, NEW q \in Question, Ask(c, q) PROVE AskedInv'
    BY <1>1, QuestionParts DEF Ask, Call, Goto, Text
  <1>2. ASSUME NEW c \in Callers, Generate(c) PROVE AskedInv'
    BY <1>2 DEF Generate, Goto
  <1>3. ASSUME NEW c \in Callers, Seal(c) PROVE AskedInv'
    <2>1. asked[c] \in Question /\ asked[c].what = "put"
      BY <1>3 DEF Seal
    <2>2. request'[c] = [asked[c] EXCEPT !.value = [key |-> mem[dek[c]], text |-> asked[c].value]]
      BY <1>3 DEF Seal, Call
    <2>3. /\ request'[c].what = asked[c].what /\ request'[c].key = asked[c].key
          /\ request'[c].value = [key |-> mem[dek[c]], text |-> asked[c].value]
      BY <2>1, <2>2 DEF Question
    <2>4. [key |-> mem[dek[c]], text |-> asked[c].value] # None
      BY <1>3, <2>1, SealEffect, QuestionParts, EnvelopeParts DEF Envelope
    <2>5. Text(request'[c].value) = asked[c].value
      BY <2>3, <2>4 DEF Text
    <2>6. /\ phase'[c] = "inner" /\ UNCHANGED asked /\ asked[c] # None
          /\ \A o \in Callers : o # c => phase'[o] = phase[o] /\ request'[o] = request[o]
      BY <1>3, <2>1, QuestionParts DEF Seal, Call, Goto
    <2> QED
      BY <2>3, <2>5, <2>6
  <1>4. ASSUME NEW c \in Callers, Inner(c) PROVE AskedInv'
    <2>1. /\ phase[c] = "inner" /\ UNCHANGED <<phase, asked>>
      BY <1>4 DEF Inner, envelopeVars
    <2>2. \A o \in Callers : request'[o] = request[o] \/ (o = c /\ request'[o] = None)
      BY <1>4 DEF Inner, StoreStep, ReadGet, ReadNothing, ReadForWrite, Write, Receive, Error, End
    <2> QED
      BY <2>1, <2>2
  <1>5. ASSUME NEW c \in Callers, Finish(c) PROVE AskedInv'
    <2>1. /\ phase'[c] \in {"ok", "error"} /\ asked'[c] = None /\ UNCHANGED request
          /\ \A o \in Callers : o # c => phase'[o] = phase[o] /\ asked'[o] = asked[o]
      BY <1>5 DEF Finish, Answer, Goto
    <2> QED
      BY <2>1, AskedEnds
  <1>6. ASSUME NEW c \in Callers, Hit(c) PROVE AskedInv'
    BY <1>6 DEF Hit, Found, Goto
  <1>7. ASSUME NEW c \in Callers, Miss(c) PROVE AskedInv'
    BY <1>7 DEF Miss, Found, Goto
  <1>8. ASSUME NEW c \in Callers, Unwrap(c) PROVE AskedInv'
    BY <1>8 DEF Unwrap, Goto
  <1>9. ASSUME NEW c \in Callers, Remember(c) PROVE AskedInv'
    BY <1>9 DEF Remember, Goto
  <1>10. ASSUME NEW c \in Callers, Open(c) PROVE AskedInv'
    <2>1. /\ phase'[c] \in {"ok", "error"} /\ asked'[c] = None /\ UNCHANGED request
          /\ \A o \in Callers : o # c => phase'[o] = phase[o] /\ asked'[o] = asked[o]
      BY <1>10 DEF Open, Answer, Goto
    <2> QED
      BY <2>1, AskedEnds
  <1>11. ASSUME NEW c \in Callers, KMSFails(c) PROVE AskedInv'
    BY <1>11 DEF KMSFails, Answer, Goto
  <1>12. ASSUME Expire PROVE AskedInv'
    BY <1>12 DEF Expire
  <1>13. ASSUME Close PROVE AskedInv'
    BY <1>13 DEF Close
  <1>14. CASE UNCHANGED vars
    BY <1>14 DEF vars, envelopeVars, cacheVars, storeVars, objectVars, callVars
  <1> QED
    BY <1>1, <1>2, <1>3, <1>4, <1>5, <1>6, <1>7, <1>8, <1>9, <1>10, <1>11, <1>12, <1>13, <1>14 DEF Next, Step

\* An empty store and an empty cache satisfy the invariant.
LEMMA InitEnvelopeInv == Init => EnvelopeInv
  <1> SUFFICES ASSUME Init PROVE EnvelopeInv
    OBVIOUS
  <1>1. StoreInv
    BY InitStoreInv DEF Init
  <1>2. cache = <<>> /\ Len(cache) = 0 /\ Cached = {} /\ Distinct(cache)
    BY DEF Init, Cached, Range, Distinct
  <1>3. TypeOK
    BY <1>1, <1>2, CellsApart DEF Init, TypeOK, StoreInv, Over
  <1>4. SliceInv /\ AskedInv /\ TwiceInv
    BY <1>2 DEF Init, SliceInv, AskedInv, TwiceInv, Over, Unwraps
  <1>5. CacheInv
    BY <1>2, CellsApart DEF Init, CacheInv
  <1>6. FreshInv
    BY <1>2 DEF Init, StoreInit, FreshInv, InUse, InStore, Of, Empty
  <1> QED
    BY <1>1, <1>3, <1>4, <1>5, <1>6 DEF EnvelopeInv

\* EnvelopeInv is an inductive invariant: every data key in memory is in the slice
\* of the call or of the entry it belongs to, and a key that was just generated is
\* known to nobody else, so that it never displaces an entry of its own.
THEOREM EnvelopeInvariant == Spec => []EnvelopeInv
  <1>1. EnvelopeInv /\ [Next]_vars => StoreInv'
    BY InnerStep, TypeStep, CopyStep, ResultStep DEF EnvelopeInv, StoreInv
  <1>2. EnvelopeInv /\ [Next]_vars => EnvelopeInv'
    BY <1>1, EnvelopeTypeStep, SliceStep, CacheStep, FreshStep, TwiceStep, AskedStep
       DEF EnvelopeInv
  <1> QED
    BY <1>2, InitEnvelopeInv, PTL DEF Spec

\* Every variable of the encrypted store has its type.
THEOREM EnvelopeTyped == Spec => []TypeOK
  <1>1. EnvelopeInv => TypeOK
    BY DEF EnvelopeInv
  <1> QED
    BY <1>1, EnvelopeInvariant, PTL

\* No eviction, expiry or Close, and no other call, overwrites the data key that a
\* Get decrypts with, for any number of calls and any size of the cache.
THEOREM NoKeyOverwritten == Spec => []KeysIntact
  <1>1. EnvelopeInv => KeysIntact
    BY DEF EnvelopeInv, SliceInv, KeysIntact
  <1> QED
    BY <1>1, EnvelopeInvariant, PTL

\* The cache stays within its limit, and plaintext data keys are in memory only
\* while they are needed, unless two calls had decrypted the same one at once.
THEOREM NoKeyLeftBehind == Spec => []PlaintextAccounted
  <1>1. EnvelopeInv => PlaintextAccounted
    BY DEF EnvelopeInv, CacheInv, TwiceInv, PlaintextAccounted
  <1> QED
    BY <1>1, EnvelopeInvariant, PTL

\* The encrypted store uses the inner one as its callers may: what is proved of the
\* Secret object holds of the one that holds envelopes.
THEOREM EnvelopesAreStored == Spec => OneKeyAtATime
  <1>1. Init => StoreInit
    BY DEF Init
  <1>2. Spec => StoreSpec
    BY <1>1, InnerStep, EnvelopeInvariant, PTL DEF Spec, StoreSpec
  <1> QED
    BY <1>2, StoreIsAMap
-----------------------------------------------------------------------------
\* A step that changes the call of c, seen from outside, and no other.
LEMMA CallChange ==
    \A c \in Callers :
        (\A o \in Callers : o # c => SecretCall(o)' = SecretCall(o)) =>
            [o \in Callers |-> SecretCall(o)]' =
                [[o \in Callers |-> SecretCall(o)] EXCEPT ![c] = SecretCall(c)']
  OBVIOUS

\* What makes a step the moment at which a put or a delete takes effect.
LEMMA TakeFrom ==
    ASSUME NEW c \in Callers, NEW q,
           SecretCall(c) = [state |-> "called", request |-> q, result |-> None],
           q.what # "get",
           [o \in Callers |-> SecretCall(o)]' =
                [[o \in Callers |-> SecretCall(o)] EXCEPT
                    ![c] = [state |-> "taken", request |-> q, result |-> None]],
           [k \in Keys |-> Text(data[k])]' =
                [[k \in Keys |-> Text(data[k])] EXCEPT ![q.key] = q.value]
    PROVE  Secrets!Take(c)
  <1> DEFINE secrets == [k \in Keys |-> Text(data[k])]
             calls == [o \in Callers |-> SecretCall(o)]
  <1>1. calls[c] = [state |-> "called", request |-> q, result |-> None]
    OBVIOUS
  <1>2. calls[c].state = "called" /\ calls[c].request = q
    BY <1>1
  <1> QED
    BY <1>2 DEF Secrets!Take

\* A step of the inner store, seen through the encryption.
LEMMA SecretInner ==
    EnvelopeInv => \A c \in Callers : Inner(c) =>
        Secrets!Take(c) \/ Secrets!Fail(c)
            \/ UNCHANGED <<[k \in Keys |-> Text(data[k])], [o \in Callers |-> SecretCall(o)]>>
  <1> DEFINE secrets == [k \in Keys |-> Text(data[k])]
             calls == [o \in Callers |-> SecretCall(o)]
  <1> SUFFICES ASSUME EnvelopeInv, NEW c \in Callers, Inner(c)
               PROVE  Secrets!Take(c) \/ Secrets!Fail(c) \/ UNCHANGED <<secrets, calls>>
    OBVIOUS
  <1> USE DEF EnvelopeInv, StoreInv, StoreTypeOK, Over, Pending, objectVars
  <1>1. phase[c] = "inner" /\ UNCHANGED <<phase, asked, reply>> /\ asked[c] \in Question
    BY DEF Inner, envelopeVars, AskedInv, TypeOK
  <1>2. ASSUME NEW o \in Callers, o # c PROVE SecretCall(o)' = SecretCall(o)
    <2>1. UNCHANGED <<at[o], result[o]>>
      BY <1>2 DEF Inner, StoreStep, ReadGet, ReadNothing, ReadForWrite, Write, Receive, Error, End
    <2> QED
      BY <1>1, <2>1 DEF SecretCall, Progress, Seen, CallState
  <1>3. calls' = [calls EXCEPT ![c] = SecretCall(c)']
    BY <1>2, CallChange
  <1>4. ASSUME at[c] \in Pending
        PROVE  /\ SecretCall(c) = [state |-> "called", request |-> asked[c], result |-> None]
               /\ request[c] # None /\ request[c] \in Request
               /\ request[c].what = asked[c].what /\ request[c].key = asked[c].key
               /\ Text(request[c].value) = asked[c].value
    <2>1. SecretCall(c) = [state |-> "called", request |-> asked[c], result |-> None]
      BY <1>1, <1>4 DEF SecretCall, Progress, Seen, CallState, Text, ResultInv
    <2> QED
      BY <1>1, <1>4, <2>1, ConstantsOK DEF AskedInv
  <1>5. ASSUME at'[c] = "answered"
        PROVE  SecretCall(c)' = [state |-> "taken", request |-> asked[c], result |-> Text(result'[c])]
    BY <1>1, <1>5 DEF SecretCall, Progress, Seen, CallState
  <1>6. CASE ReadGet(c)
    <2>1. /\ at[c] = "read" /\ at'[c] = "answered" /\ request[c].what = "get"
          /\ result'[c] = data[request[c].key] /\ UNCHANGED data
      BY <1>6 DEF ReadGet
    <2>2. request[c].key \in Keys
      BY <1>4, <2>1, RequestParts
    <2> DEFINE r == Text(data[request[c].key])
    <2>3. /\ asked[c].what = "get" /\ asked[c].key = request[c].key
          /\ SecretCall(c) = [state |-> "called", request |-> asked[c], result |-> None]
          /\ SecretCall(c)' = [state |-> "taken", request |-> asked[c], result |-> r]
      BY <1>4, <1>5, <2>1
    <2>4. secrets' = secrets /\ r = secrets[asked[c].key]
      BY <2>1, <2>2, <2>3
    <2>5. calls' = [calls EXCEPT ![c] = [state |-> "taken", request |-> asked[c], result |-> r]]
      BY <1>3, <2>3
    <2>6. calls[c].state = "called" /\ calls[c].request = asked[c]
      BY <2>3
    <2> HIDE DEF SecretCall, r
    <2> QED
      BY <2>3, <2>4, <2>5, <2>6 DEF Secrets!Take
  <1>7. CASE ReadNothing(c)
    <2>1. /\ at[c] = "read" /\ at'[c] = "answered" /\ request[c].what = "delete"
          /\ data = Empty /\ UNCHANGED <<data, result>>
      BY <1>7 DEF ReadNothing
    <2>2. asked[c].what = "delete" /\ asked[c].key \in Keys /\ asked[c].value = None
      BY <1>1, <1>4, <2>1, QuestionParts
    <2>3. secrets = [secrets EXCEPT ![asked[c].key] = None]
      BY <2>1, <2>2 DEF Empty, Text
    <2>4. Text(result'[c]) = None
      BY <2>1 DEF ResultInv, Text
    <2>5. SecretCall(c)' = [state |-> "taken", request |-> asked[c], result |-> None]
      BY <1>5, <2>1, <2>4
    <2>6. /\ SecretCall(c) = [state |-> "called", request |-> asked[c], result |-> None]
          /\ calls' = [calls EXCEPT ![c] = [state |-> "taken", request |-> asked[c], result |-> None]]
      BY <1>3, <1>4, <2>1, <2>5
    <2>7. secrets' = [secrets EXCEPT ![asked[c].key] = asked[c].value]
      BY <2>1, <2>2, <2>3
    <2> HIDE DEF SecretCall
    <2> QED
      BY <2>2, <2>6, <2>7, TakeFrom
  <1>8. CASE ReadForWrite(c)
    <2>1. at[c] = "read" /\ at'[c] \in {"create", "update"} /\ UNCHANGED <<data, result>>
      BY <1>8 DEF ReadForWrite
    <2>2. SecretCall(c)' = SecretCall(c)
      BY <1>1, <2>1 DEF SecretCall, Progress, Seen, CallState
    <2> QED
      BY <1>3, <2>1, <2>2
  <1>9. CASE Write(c)
    <2>1. /\ at[c] \in {"create", "update"} /\ at'[c] = "answered" /\ UNCHANGED result
          /\ request[c].what # "get"
          /\ data' = [data EXCEPT ![request[c].key] = request[c].value]
      BY <1>9 DEF Write, CopyInv
    <2>2. asked[c].what # "get" /\ result'[c] = None
      BY <1>4, <2>1 DEF ResultInv
    <2>3. secrets' = [secrets EXCEPT ![asked[c].key] = asked[c].value]
      BY <1>4, <2>1 DEF Map
    <2>4. SecretCall(c)' = [state |-> "taken", request |-> asked[c], result |-> None]
      BY <1>5, <2>1, <2>2 DEF Text
    <2>5. /\ SecretCall(c) = [state |-> "called", request |-> asked[c], result |-> None]
          /\ calls' = [calls EXCEPT ![c] = [state |-> "taken", request |-> asked[c], result |-> None]]
      BY <1>3, <1>4, <2>1, <2>4
    <2> HIDE DEF SecretCall
    <2> QED
      BY <2>2, <2>3, <2>5, TakeFrom
  <1>10. CASE Receive(c)
    <2>1. at[c] = "answered" /\ at'[c] = "ok" /\ UNCHANGED <<data, result>>
      BY <1>10 DEF Receive, End
    <2>2. SecretCall(c)' = SecretCall(c)
      BY <1>1, <2>1 DEF SecretCall, Progress, Seen, CallState
    <2> QED
      BY <1>3, <2>1, <2>2
  <1>11. CASE Error(c)
    <2>1. at[c] \in Pending \cup {"answered"} /\ at'[c] = "error" /\ result'[c] = None /\ UNCHANGED data
      BY <1>11 DEF Error, End
    <2>2. SecretCall(c)' = [state |-> "error", request |-> None, result |-> None]
      BY <1>1, <2>1 DEF SecretCall, Progress, Seen, CallState, Text
    <2>3. SecretCall(c).state \in {"called", "taken"}
      BY <1>1, <2>1 DEF SecretCall, Progress, CallState
    <2> HIDE DEF SecretCall
    <2> QED
      BY <1>3, <2>1, <2>2, <2>3 DEF Secrets!Fail
  <1> QED
    BY <1>6, <1>7, <1>8, <1>9, <1>10, <1>11 DEF Inner, StoreStep

\* Every step of the encrypted store is a step of the map of secrets, or none of it.
LEMMA SecretStep ==
    EnvelopeInv /\ [Next]_vars =>
        [Secrets!Next]_<<[k \in Keys |-> Text(data[k])], [c \in Callers |-> SecretCall(c)]>>
  <1> DEFINE secrets == [k \in Keys |-> Text(data[k])]
             calls == [c \in Callers |-> SecretCall(c)]
             Good == Secrets!Next \/ UNCHANGED <<secrets, calls>>
  <1> SUFFICES ASSUME EnvelopeInv, [Next]_vars PROVE Good
    OBVIOUS
  <1> USE DEF TypeOK, Over, Inside, storeVars, objectVars, callVars, SecretCall, Progress, Seen,
          EnvelopeInv
  <1>1. ASSUME NEW c \in Callers, NEW q \in Question, Ask(c, q) PROVE Secrets!Begin(c)
    <2>1. /\ phase[c] \in Over /\ SecretCall(c).state = phase[c]
          /\ UNCHANGED data
      BY <1>1 DEF Ask, Call
    <2>2. SecretCall(c)' = [state |-> "called", request |-> q, result |-> None]
      <3>1. CASE q.what = "put"
        BY <1>1, <3>1 DEF Ask, Goto
      <3>2. CASE q.what # "put"
        BY <1>1, <3>2 DEF Ask, Goto, Call, CallState, Pending, Text, StoreInv, StoreTypeOK
      <3> QED
        BY <3>1, <3>2
    <2>3. ASSUME NEW o \in Callers, o # c PROVE SecretCall(o)' = SecretCall(o)
      BY <1>1, <2>3 DEF Ask, Goto, Call, CallState, StoreInv, StoreTypeOK
    <2>4. q \in Secrets!Request
      BY DEF Secrets!Request, Question
    <2> HIDE DEF SecretCall, Progress, Seen
    <2>5. calls' = [calls EXCEPT ![c] = [state |-> "called", request |-> q, result |-> None]]
      BY <2>2, <2>3
    <2> QED
      BY <2>1, <2>4, <2>5 DEF Secrets!Begin, Secrets!Over
  <1>2. ASSUME NEW c \in Callers, Generate(c) PROVE Good
    BY <1>2 DEF Generate, Goto, CallState
  <1>3. ASSUME NEW c \in Callers, Seal(c) PROVE Good
    <2>1. /\ phase[c] = "seal" /\ phase'[c] = "inner" /\ at'[c] = "read" /\ result'[c] = None
          /\ \A o \in Callers : o # c =>
                phase'[o] = phase[o] /\ at'[o] = at[o] /\ result'[o] = result[o]
          /\ UNCHANGED <<data, asked, reply>>
      BY <1>3 DEF Seal, Goto, Call, StoreInv, StoreTypeOK
    <2>2. SecretCall(c)' = SecretCall(c)
      BY <2>1 DEF CallState, Pending, Text
    <2>3. \A o \in Callers : o # c => SecretCall(o)' = SecretCall(o)
      BY <2>1 DEF CallState
    <2> HIDE DEF SecretCall, EnvelopeInv, TypeOK
    <2> QED
      BY <2>1, <2>2, <2>3
  <1>4. ASSUME NEW c \in Callers, Inner(c) PROVE Good
    BY <1>4, SecretInner DEF Secrets!Next
  <1>5. ASSUME NEW c \in Callers, Finish(c) PROVE Good
    <2>1. phase[c] = "inner" /\ reply'[c] = None /\ UNCHANGED <<data, at, result>>
      BY <1>5 DEF Finish, Answer
    <2>2. ASSUME NEW o \in Callers, o # c PROVE SecretCall(o)' = SecretCall(o)
      BY <1>5, <2>2 DEF Finish, Answer, Goto, CallState
    <2>3. calls' = [calls EXCEPT ![c] = SecretCall(c)']
      BY <2>2, CallChange
    <2>4. CASE at[c] = "error"
      <3>1. phase'[c] = "error" /\ result[c] = None
        BY <1>5, <2>4 DEF Finish, Answer, Goto, StoreInv, ResultInv
      <3>2. SecretCall(c)' = SecretCall(c)
        BY <2>1, <2>4, <3>1 DEF CallState, Text, Pending
      <3> HIDE DEF SecretCall, EnvelopeInv, TypeOK
      <3>3. calls[c] = SecretCall(c) /\ UNCHANGED secrets
        BY <2>1
      <3>4. UNCHANGED calls
        BY <2>3, <3>2, <3>3
      <3> HIDE DEF calls, secrets
      <3> QED
        BY <3>3, <3>4
    <2>5. CASE at[c] = "ok" /\ result[c] = None
      <3>1. phase'[c] = "ok"
        BY <1>5, <2>5 DEF Finish, Answer, Goto
      <3>2. /\ SecretCall(c).state = "taken" /\ SecretCall(c).result = None
            /\ SecretCall(c)' = [state |-> "ok", request |-> None, result |-> None]
        BY <2>1, <2>5, <3>1 DEF Text
      <3> HIDE DEF SecretCall, EnvelopeInv, TypeOK
      <3>3. calls[c] = SecretCall(c) /\ UNCHANGED secrets
        BY <2>1
      <3>4. Secrets!Return(c)
        BY <2>3, <3>2, <3>3 DEF Secrets!Return
      <3> QED
        BY <3>4 DEF Secrets!Next
    <2> QED
      BY <1>5, <2>4, <2>5 DEF Finish
  <1>6. ASSUME NEW c \in Callers, Hit(c) PROVE Good
    BY <1>6 DEF Hit, Found, Goto, CallState
  <1>7. ASSUME NEW c \in Callers, Miss(c) PROVE Good
    BY <1>7 DEF Miss, Found, Goto, CallState
  <1>8. ASSUME NEW c \in Callers, Unwrap(c) PROVE Good
    BY <1>8 DEF Unwrap, Goto, CallState
  <1>9. ASSUME NEW c \in Callers, Remember(c) PROVE Good
    BY <1>9 DEF Remember, Goto, CallState
  <1>10. ASSUME NEW c \in Callers, Open(c) PROVE Good
    <2>1. phase[c] = "open" /\ UNCHANGED data
      BY <1>10 DEF Open
    <2>2. ASSUME NEW o \in Callers, o # c PROVE SecretCall(o)' = SecretCall(o)
      <3>1. UNCHANGED <<phase[o], asked[o], reply[o], at[o], result[o]>>
        BY <1>10, <2>2 DEF Open, Answer, Goto
      <3> QED
        BY <3>1 DEF CallState
    <2>3. calls' = [calls EXCEPT ![c] = SecretCall(c)']
      BY <2>2, CallChange
    <2>4. phase'[c] = "ok" /\ reply'[c] = Text(result[c])
      BY <1>10 DEF Open, Answer, Goto, SliceInv, Text
    <2>5. /\ SecretCall(c).state = "taken" /\ SecretCall(c).result = Text(result[c])
          /\ SecretCall(c)' = [state |-> "ok", request |-> None, result |-> Text(result[c])]
      BY <2>1, <2>4
    <2> HIDE DEF SecretCall
    <2> QED
      BY <2>1, <2>3, <2>5 DEF Secrets!Return, Secrets!Next
  <1>11. ASSUME NEW c \in Callers, KMSFails(c) PROVE Good
    <2>1. phase[c] \in {"generate", "unwrap"} /\ phase'[c] = "error" /\ reply'[c] = None /\ UNCHANGED data
      BY <1>11 DEF KMSFails, Answer, Goto
    <2>2. ASSUME NEW o \in Callers, o # c PROVE SecretCall(o)' = SecretCall(o)
      BY <1>11, <2>2 DEF KMSFails, Answer, Goto, CallState
    <2>3. calls' = [calls EXCEPT ![c] = SecretCall(c)']
      BY <2>2, CallChange
    <2>4. /\ SecretCall(c).state \in {"called", "taken"}
          /\ SecretCall(c)' = [state |-> "error", request |-> None, result |-> None]
      BY <2>1
    <2> HIDE DEF SecretCall
    <2> QED
      BY <2>1, <2>3, <2>4 DEF Secrets!Fail, Secrets!Next
  <1>12. ASSUME Expire \/ Close PROVE Good
    BY <1>12 DEF Expire, Close, CallState
  <1>13. CASE UNCHANGED vars
    BY <1>13 DEF vars, envelopeVars, CallState
  <1> QED
    BY <1>1, <1>2, <1>3, <1>4, <1>5, <1>6, <1>7, <1>8, <1>9, <1>10, <1>11, <1>12, <1>13
       DEF Next, Step, Secrets!Next

\* What a Get of the encrypted store returns is what the last Put under this key
\* was given, and no Put or Delete touches another key, for any number of callers.
THEOREM EnvelopesAreAMap == Spec => ImplementsSecretStore
  <1>1. Init => Secrets!Init
    BY DEF Init, StoreInit, Secrets!Init, Empty, Text, SecretCall, Progress, Seen, Over
  <1> QED
    BY <1>1, SecretStep, EnvelopeInvariant, PTL DEF Spec, ImplementsSecretStore, Secrets!Spec
=============================================================================
