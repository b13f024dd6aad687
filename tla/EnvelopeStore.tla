--------------------------- MODULE EnvelopeStore ---------------------------
(***************************************************************************)
(* EnvelopeStore (src/internal/secrets/envelope.go) over KubernetesStore:  *)
(* Put has KMS generate a data key, encrypts the secret with it and stores *)
(* the encrypted key and the ciphertext together, as an envelope.  Get     *)
(* reads the envelope, has KMS decrypt its key, and opens it.  Plaintext   *)
(* data keys are kept in a cache with a time to live and a maximal size,   *)
(* that all calls of the process share, and are overwritten with zeros     *)
(* wherever they are let go.                                               *)
(*                                                                         *)
(* A data key is identified by a number; so is the encrypted key in an     *)
(* envelope, under which the cache keeps it.  Memory consists of cells:    *)
(* one for the slice a call works with, one for the slice of each entry.   *)
(*                                                                         *)
(* The configuration allows encryption over sqlite only, where an inner    *)
(* call is atomic; over KubernetesStore it may do more than that.          *)
(***************************************************************************)
EXTENDS KubernetesStore, Sequences, SequencesExt

CONSTANTS
    Texts,       \* secrets
    MaxKeys,     \* bound: data keys generated
    MaxEntries   \* cacheMaxEntries; 0 disables the cache, as a cacheTTL of 0 does

Envelope == [key : 1..MaxKeys, text : Texts]

Question == [what : {"get"}, key : Keys, value : {None}]
       \cup [what : {"delete"}, key : Keys, value : {None}]
       \cup [what : {"put"}, key : Keys, value : Texts]

\* Slices of calls, and of entries of the cache.
Cells == Callers \cup 1..MaxKeys

ASSUME EnvelopeConstantsOK ==
    /\ MaxKeys \in Nat /\ MaxEntries \in Nat
    /\ Values = Envelope /\ None \notin Texts \cup Question
    /\ Callers \cap (1..MaxKeys) = {} /\ None \notin Cells

VARIABLES
    keys,     \* how many data keys KMS has generated
    phase,    \* phase[c]: where the call of c to this store is
    asked,    \* asked[c]: what it is to do, in plaintext; None when it is over
    dek,      \* dek[c]: the cell of the data key it works with, None if it has none
    reply,    \* reply[c]: what it returns
    mem,      \* mem[x]: the data key in cell x, 0 for zeros
    cache,    \* the keys that have an entry, the oldest first
    expired,  \* how many of them, from the front, are past their time to live
    stray,    \* keys in slices that nobody holds any more
    twice     \* history: keys that two calls had decrypted at the same time

cacheVars == <<cache, expired, stray>>
envelopeVars == <<keys, phase, asked, dek, reply, mem, cacheVars, twice>>
vars == <<storeVars, envelopeVars>>

\* Waiting for KMS, for the inner store, for KMS again, and local work.
Inside == {"generate", "seal", "inner", "unwrap", "remember", "open"}

TypeOK ==
    /\ StoreTypeOK
    /\ keys \in 0..MaxKeys
    /\ phase \in [Callers -> Over \cup Inside]
    /\ asked \in [Callers -> Question \cup {None}]
    /\ dek \in [Callers -> Cells \cup {None}]
    /\ reply \in [Callers -> Texts \cup {None}]
    /\ mem \in [Cells -> 0..MaxKeys]
    /\ cache \in Seq(1..MaxKeys)
    /\ expired \in 0..Len(cache)
    /\ stray \subseteq 1..MaxKeys /\ twice \subseteq 1..MaxKeys

Init ==
    /\ StoreInit
    /\ keys = 0
    /\ phase = [c \in Callers |-> "none"]
    /\ asked = [c \in Callers |-> None]
    /\ dek = [c \in Callers |-> None]
    /\ reply = [c \in Callers |-> None]
    /\ mem = [x \in Cells |-> 0]
    /\ cache = <<>> /\ expired = 0
    /\ stray = {} /\ twice = {}
-----------------------------------------------------------------------------
(* The cache of data keys, and memory.                                     *)

Cached == Range(cache)

Enabled == MaxEntries > 0

\* zeroBytes, for several slices.
Zeroed(m, cells) == [x \in Cells |-> IF x \in cells THEN 0 ELSE m[x]]

\* What dekCache.put keeps: expired entries go, then the oldest if there is no room.
Unexpired == SubSeq(cache, expired + 1, Len(cache))
Kept == IF Len(Unexpired) >= MaxEntries THEN Tail(Unexpired) ELSE Unexpired

\* An expired or displaced entry is let go with its key still in memory.
Put_NotZeroed(k, v, m) ==
    /\ cache' = Append(RemoveFirst(Kept, k), k)
    /\ expired' = 0
    /\ mem' = [m EXCEPT ![k] = v]
    /\ stray' = stray \cup (Range(Kept) \cap {k})

\* dekCache.put: what goes is zeroed.  A new entry gets a slice of its own, also
\* where it replaces one for the same key: the replaced slice is not zeroed, and
\* stray.
Put(k, v, m) ==
    /\ cache' = Append(RemoveFirst(Kept, k), k)
    /\ expired' = 0
    /\ mem' = [Zeroed(m, Cached \ Range(Kept)) EXCEPT ![k] = v]
    /\ stray' = stray \cup (Range(Kept) \cap {k})

PutIfEnabled(k, v, m) ==
    IF Enabled THEN Put(k, v, m) ELSE mem' = m /\ UNCHANGED cacheVars
-----------------------------------------------------------------------------
(* A call.                                                                 *)

Goto(c, where) == phase' = [phase EXCEPT ![c] = where]

Answer(c, how, value) ==
    /\ Goto(c, how)
    /\ asked' = [asked EXCEPT ![c] = None]
    /\ reply' = [reply EXCEPT ![c] = value]

\* Put starts with KMS, Get and Delete with the inner store.
Ask(c, q) ==
    /\ phase[c] \in Over
    /\ asked' = [asked EXCEPT ![c] = q]
    /\ reply' = [reply EXCEPT ![c] = None]
    /\ \/ q.what = "put" /\ Goto(c, "generate") /\ UNCHANGED storeVars
       \/ q.what # "put" /\ Goto(c, "inner") /\ Call(c, q)
    /\ UNCHANGED <<keys, dek, mem, cacheVars, twice>>

\* KMS answers with a new data key.
Generate(c) ==
    /\ phase[c] = "generate"
    /\ keys < MaxKeys
    /\ keys' = keys + 1
    /\ dek' = [dek EXCEPT ![c] = c]
    /\ mem' = [mem EXCEPT ![c] = keys']
    /\ Goto(c, "seal")
    /\ UNCHANGED <<storeVars, asked, reply, cacheVars, twice>>

\* encrypt: the secret is sealed, the cache gets a copy of the key, the key is
\* overwritten (a defer), and the envelope goes to the inner store.
Seal(c) ==
    LET k == mem[dek[c]]
        q == asked[c]
    IN  /\ phase[c] = "seal"
        /\ PutIfEnabled(k, k, Zeroed(mem, {dek[c]}))
        /\ dek' = [dek EXCEPT ![c] = None]
        /\ Call(c, [q EXCEPT !.value = [key |-> k, text |-> q.value]])
        /\ Goto(c, "inner")
        /\ UNCHANGED <<keys, asked, reply, twice>>

\* The inner call of a Put, a Delete, or a Get that found nothing or failed, ends.
Finish(c) ==
    /\ phase[c] = "inner"
    /\ \/ at[c] = "error" /\ Answer(c, "error", None)
       \/ at[c] = "ok" /\ result[c] = None /\ Answer(c, "ok", None)
    /\ UNCHANGED <<storeVars, keys, dek, mem, cacheVars, twice>>

Found(c) == phase[c] = "inner" /\ at[c] = "ok" /\ result[c] # None
Unwraps(c, k) == phase[c] \in {"unwrap", "remember"} /\ result[c].key = k
HasEntry(k) == \E i \in 1..Len(cache) : i > expired /\ cache[i] = k

\* dekCache.get hands out the entry's own slice.
Hit_Shared(c) ==
    /\ Found(c) /\ HasEntry(result[c].key)
    /\ dek' = [dek EXCEPT ![c] = result[c].key]
    /\ Goto(c, "open")
    /\ UNCHANGED <<storeVars, keys, asked, reply, mem, cacheVars, twice>>

\* dekCache.get: a copy of the entry's key.
Hit(c) ==
    /\ Found(c) /\ HasEntry(result[c].key)
    /\ dek' = [dek EXCEPT ![c] = c]
    /\ mem' = [mem EXCEPT ![c] = mem[result[c].key]]
    /\ Goto(c, "open")
    /\ UNCHANGED <<storeVars, keys, asked, reply, cacheVars, twice>>

\* There is none, or one that has expired and goes.
Miss(c) ==
    LET k == result[c].key
    IN  /\ Found(c) /\ ~HasEntry(k)
        /\ mem' = Zeroed(mem, {k} \cap Cached)
        /\ cache' = RemoveFirst(cache, k)
        /\ expired' = IF k \in Cached THEN expired - 1 ELSE expired
        /\ Goto(c, "unwrap")
        /\ twice' = twice \cup {k : d \in {e \in Callers : Unwraps(e, k)}}
        /\ UNCHANGED <<storeVars, keys, asked, dek, reply, stray>>

\* KMS decrypts the key of the envelope.
Unwrap(c) ==
    /\ phase[c] = "unwrap"
    /\ dek' = [dek EXCEPT ![c] = c]
    /\ mem' = [mem EXCEPT ![c] = result[c].key]
    /\ Goto(c, "remember")
    /\ UNCHANGED <<storeVars, keys, asked, reply, cacheVars, twice>>

Remember(c) ==
    /\ phase[c] = "remember"
    /\ PutIfEnabled(result[c].key, mem[dek[c]], mem)
    /\ Goto(c, "open")
    /\ UNCHANGED <<storeVars, keys, asked, dek, reply, twice>>

\* The envelope is opened; AES-GCM refuses any key but the one that sealed it.
\* The key is overwritten (a defer).
Open(c) ==
    /\ phase[c] = "open"
    /\ IF mem[dek[c]] = result[c].key
       THEN Answer(c, "ok", result[c].text)
       ELSE Answer(c, "error", None)
    /\ mem' = Zeroed(mem, {dek[c]})
    /\ dek' = [dek EXCEPT ![c] = None]
    /\ UNCHANGED <<storeVars, keys, cacheVars, twice>>

\* KMS, or the broker in front of it, fails, or the caller's context ends.
KMSFails(c) ==
    /\ phase[c] \in {"generate", "unwrap"}
    /\ Answer(c, "error", None)
    /\ UNCHANGED <<storeVars, keys, dek, mem, cacheVars, twice>>

\* What the inner store does for a call.
Inner(c) == phase[c] = "inner" /\ StoreStep(c) /\ UNCHANGED envelopeVars

\* The oldest entry that had time to live has none left.
Expire ==
    /\ expired < Len(cache)
    /\ expired' = expired + 1
    /\ UNCHANGED <<storeVars, keys, phase, asked, dek, reply, mem, cache, stray, twice>>

\* Close, while calls are still running.
Close ==
    /\ cache # <<>>
    /\ mem' = Zeroed(mem, Cached)
    /\ cache' = <<>> /\ expired' = 0
    /\ UNCHANGED <<storeVars, keys, phase, asked, dek, reply, stray, twice>>
-----------------------------------------------------------------------------
Step(c) ==
    \/ \E q \in Question : Ask(c, q)
    \/ Generate(c) \/ Seal(c) \/ Inner(c) \/ Finish(c) \/ Hit(c) \/ Miss(c)
    \/ Unwrap(c) \/ Remember(c) \/ Open(c) \/ KMSFails(c)

Next == (\E c \in Callers : Step(c)) \/ Expire \/ Close

Spec == Init /\ [][Next]_vars
-----------------------------------------------------------------------------
(* Properties.                                                             *)

Text(v) == IF v = None THEN None ELSE v.text

\* How far a call has come, in the terms of SecretStore.
Progress(c) ==
    CASE phase[c] \in Over -> phase[c]
      [] phase[c] \in {"generate", "seal"} -> "called"
      [] phase[c] \in {"unwrap", "remember", "open"} -> "taken"
      [] phase[c] = "inner" -> IF at[c] = "ok" THEN "taken" ELSE CallState(c)

Seen(c) ==
    CASE phase[c] \in Over -> reply[c]
      [] phase[c] \in {"generate", "seal"} -> None
      [] OTHER -> Text(result[c])

SecretCall(c) ==
    [state |-> Progress(c), result |-> Seen(c),
     request |-> IF Progress(c) \in Over THEN None ELSE asked[c]]

Secrets == INSTANCE SecretStore WITH
    Values <- Texts,
    data <- [k \in Keys |-> Text(data[k])],
    call <- [c \in Callers |-> SecretCall(c)]

\* Seen from the callers, the encrypted store is a map of secrets: what a Get
\* returns is what the last Put under this key was given, whatever the cache of
\* keys does in between.
ImplementsSecretStore == Secrets!Spec

\* A call never works with a key that somebody else has overwritten: eviction,
\* expiry and Close zero the cache's slices, never a call's.
KeysIntact ==
    \A c \in Callers : phase[c] \in {"remember", "open"} => mem[dek[c]] = result[c].key

\* A plaintext key is in memory only while a call works with it or the cache
\* holds it, and the cache holds no more keys than it is configured for.  Keys
\* stay behind, unzeroed, only where two calls decrypted the same one at once.
PlaintextAccounted ==
    /\ \A x \in Cells : mem[x] # 0 => x \in Cached \cup {dek[c] : c \in Callers}
    /\ Len(cache) <= MaxEntries
    /\ stray \subseteq twice
=============================================================================
