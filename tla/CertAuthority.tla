--------------------------- MODULE CertAuthority ---------------------------
(***************************************************************************)
(* The CA that signs the certificates of intercepted connections           *)
(* (src/internal/proxy/ca.go, Handler.currentCA in server.go).  It is two  *)
(* files, a certificate and a key, and the configuration names a path for  *)
(* each.  Whoever cannot read both makes a new CA and writes one file      *)
(* after the other, each by truncating and filling it.  A process keeps    *)
(* the CA of one pair of paths in memory, behind a read-write mutex, and   *)
(* goes to the files again when a path in its configuration has changed.   *)
(* A reload may change one of the two paths only: then two pairs have one  *)
(* file in common, and a creation for the one writes over half the other.  *)
(*                                                                         *)
(* Several processes (replicas, or an old and a new one in a rollout) may  *)
(* name the same files; each may be killed at any moment and started       *)
(* again.  A write may fail half way, and a read may fail although there   *)
(* is a file.                                                              *)
(***************************************************************************)
EXTENDS Naturals, FiniteSets

CONSTANTS
    Procs,    \* proxy processes
    Threads,  \* their goroutines
    Proc,     \* Proc[t]: the process of t
    CertPaths, KeyPaths,  \* the paths that configurations name
    None,     \* no thread, no place
    MaxCAs,   \* bound: CAs made
    MaxMoves  \* bound: reloads that change paths, of all processes

\* A pair of paths; None is no pair.
Places == [cert : CertPaths, key : KeyPaths]

ASSUME CAConstantsOK ==
    /\ Proc \in [Threads -> Procs] /\ None \notin Threads \cup Places
    /\ MaxCAs \in Nat /\ MaxMoves \in Nat

\* What a file holds: nothing (there is none), the part of some CA, or less.
Missing == 0
Cut == MaxCAs + 1
Contents == {Missing, Cut} \cup 1..MaxCAs

\* certificateAuthority; 0 is none.
CA == [cert : 0..MaxCAs, key : 0..MaxCAs, from : Places \cup {None}]

VARIABLES
    cert, key,  \* cert[c], key[k]: what the file at that path holds
    made,       \* how many CAs have been generated
    up,         \* the processes whose handler is ready
    place,      \* place[p]: the paths in the configuration of p
    moves,      \* how often a configuration got other paths
    ca,         \* ca[p]: the handler's CA, with its paths
    caMu,       \* caMu[p]: who holds the mutex for writing
    at,         \* at[t]: where t is
    want,       \* want[t]: the paths in its cfg, None when it is idle
    got,        \* got[t]: the CA it has read, made or been given
    shown,      \* history: shown[d]: CAs that clients of d have seen
    disturbed,  \* history: places where a creation overlapped with another
                \* process's load, where a file could not be read, or where one of
                \* the two was overwritten by a creation for another pair of paths
    stopped     \* history: places where a creation ended between the
                \* truncation of the key file and its filling

fileVars == <<cert, key, made>>
pathVars == <<place, moves>>
procVars == <<up, pathVars, ca, caMu>>
historyVars == <<shown, disturbed, stopped>>
caVars == <<fileVars, procVars, at, want, got, historyVars>>

\* In loadOrCreateCA: reading, and writing.
Reading == {"readCert", "readKey"}
Creating == {"openCert", "fillCert", "openKey", "fillKey"}
Loading == Reading \cup Creating

CATypeOK ==
    /\ cert \in [CertPaths -> Contents] /\ key \in [KeyPaths -> Contents]
    /\ made \in 0..MaxCAs
    /\ up \subseteq Procs
    /\ place \in [Procs -> Places] /\ moves \in 0..MaxMoves
    /\ ca \in [Procs -> CA]
    /\ caMu \in [Procs -> Threads \cup {None}]
    /\ at \in [Threads -> {"idle", "look", "lock", "use"} \cup Loading]
    /\ want \in [Threads -> Places \cup {None}]
    /\ got \in [Threads -> [cert : Contents, key : Contents]]
    /\ shown \in [Places -> SUBSET (1..MaxCAs)]
    /\ disturbed \subseteq Places /\ stopped \subseteq Places

Nothing == [cert |-> Missing, key |-> Missing]
NoCA == [cert |-> 0, key |-> 0, from |-> None]

CAInit ==
    /\ cert = [c \in CertPaths |-> Missing] /\ key = [k \in KeyPaths |-> Missing]
    /\ made = 0
    /\ up = {}
    /\ place \in [Procs -> Places] /\ moves = 0
    /\ ca = [p \in Procs |-> NoCA]
    /\ caMu = [p \in Procs |-> None]
    /\ at = [t \in Threads |-> "idle"]
    /\ want = [t \in Threads |-> None]
    /\ got = [t \in Threads |-> Nothing]
    /\ shown = [d \in Places |-> {}]
    /\ disturbed = {} /\ stopped = {}
-----------------------------------------------------------------------------
Proceed(t, where) == at' = [at EXCEPT ![t] = where]

Idle(t) ==
    /\ Proceed(t, "idle")
    /\ want' = [want EXCEPT ![t] = None]
    /\ got' = [got EXCEPT ![t] = Nothing]

\* Does another process do its part of loadOrCreateCA for these files?
Overlaps(t, d, part) ==
    \E o \in Threads : Proc[o] # Proc[t] /\ at[o] \in part /\ want[o] = d

DisturbedIf(condition, d) == disturbed' = IF condition THEN disturbed \cup {d} ELSE disturbed

\* Other pairs of paths with the same certificate or key file.
SharingCert(d) == {e \in Places \ {d} : e.cert = d.cert}
SharingKey(d) == {e \in Places \ {d} : e.key = d.key}

\* loadOrCreateCA begins.
BeginLoad(t, d) ==
    /\ Proceed(t, "readCert")
    /\ want' = [want EXCEPT ![t] = d]
    /\ got' = [got EXCEPT ![t] = Nothing]
    /\ caMu' = [caMu EXCEPT ![Proc[t]] = t]
    /\ DisturbedIf(Overlaps(t, d, Creating), d)

\* NewHandler, in a process that is starting; nobody else waits for the mutex yet.
Start(t) ==
    /\ Proc[t] \notin up
    /\ \A o \in Threads : Proc[o] = Proc[t] => at[o] = "idle"
    /\ BeginLoad(t, place[Proc[t]])
    /\ UNCHANGED <<fileVars, up, pathVars, ca, shown, stopped>>

\* A CONNECT that is to be intercepted, or a request for ca.pem.
NeedCA(t) ==
    /\ Proc[t] \in up /\ at[t] = "idle"
    /\ want' = [want EXCEPT ![t] = place[Proc[t]]]
    /\ Proceed(t, "look")
    /\ UNCHANGED <<fileVars, procVars, got, historyVars>>

\* There is one, of whatever paths.
Matches_Any(t) == ca[Proc[t]].cert # 0

\* The handler's CA, if it is one of these paths.
Matches(t) == ca[Proc[t]].cert # 0 /\ ca[Proc[t]].from = want[t]

Use(t) ==
    /\ got' = [got EXCEPT ![t] = [cert |-> ca[Proc[t]].cert, key |-> ca[Proc[t]].key]]
    /\ Proceed(t, "use")

\* currentCA, under the read lock.
LookUp(t) ==
    /\ at[t] = "look" /\ caMu[Proc[t]] = None
    /\ \/ Matches(t) /\ Use(t)
       \/ ~Matches(t) /\ Proceed(t, "lock") /\ UNCHANGED got
    /\ UNCHANGED <<fileVars, procVars, want, historyVars>>

\* ... and under the write lock, where it looks again.
Lock(t) ==
    /\ at[t] = "lock" /\ caMu[Proc[t]] = None
    /\ \/ /\ Matches(t) /\ Use(t)
          /\ UNCHANGED <<want, caMu, disturbed>>
       \/ ~Matches(t) /\ BeginLoad(t, want[t])
    /\ UNCHANGED <<fileVars, up, pathVars, ca, shown, stopped>>
-----------------------------------------------------------------------------
(* loadOrCreateCA.                                                         *)

\* The load succeeds: the CA becomes the handler's.  A start has nothing to do
\* with it yet, a request goes on to use it.
Loaded(t, pair) ==
    LET p == Proc[t]
    IN  /\ ca' = [ca EXCEPT ![p] = [cert |-> pair.cert, key |-> pair.key, from |-> want[t]]]
        /\ up' = up \cup {p}
        /\ caMu' = [caMu EXCEPT ![p] = None]
        /\ IF p \in up THEN Proceed(t, "use") /\ got' = [got EXCEPT ![t] = pair] /\ UNCHANGED want
                      ELSE Idle(t)

\* It fails: the handler keeps what it has, or the process exits.
LoadFails(t) ==
    /\ Idle(t)
    /\ caMu' = [caMu EXCEPT ![Proc[t]] = None]
    /\ UNCHANGED <<ca, up>>

\* os.ReadFile: what is there, or nothing although something is.
ReadCert(t) ==
    /\ at[t] = "readCert"
    /\ \E c \in {cert[want[t].cert], Missing} :
        /\ got' = [got EXCEPT ![t].cert = c]
        /\ DisturbedIf(c # cert[want[t].cert], want[t])
    /\ Proceed(t, "readKey")
    /\ UNCHANGED <<fileVars, procVars, want, shown, stopped>>

\* parseCA, when there is a key; a file that was cut has no PEM block.  It does
\* not ask whether certificate and key belong together.
Parse(t, pair) ==
    /\ pair.cert # Missing /\ pair.key # Missing
    /\ IF Cut \in {pair.cert, pair.key} THEN LoadFails(t) ELSE Loaded(t, pair)
    /\ UNCHANGED made

\* A new CA is made if one of the files cannot be read; that may fail, too.
Generate(t, pair) ==
    /\ Missing \in {pair.cert, pair.key}
    /\ \/ /\ made < MaxCAs
          /\ made' = made + 1
          /\ got' = [got EXCEPT ![t] = [cert |-> made', key |-> made']]
          /\ Proceed(t, "openCert")
          /\ UNCHANGED <<want, ca, up, caMu>>
       \/ LoadFails(t) /\ UNCHANGED made

ReadKey(t) ==
    /\ at[t] = "readKey"
    /\ \E k \in {key[want[t].key], Missing} :
        LET pair == [cert |-> got[t].cert, key |-> k]
        IN  /\ Parse(t, pair) \/ Generate(t, pair)
            /\ DisturbedIf(k # key[want[t].key]
                    \/ (at'[t] = "openCert" /\ Overlaps(t, want[t], Loading)), want[t])
    /\ UNCHANGED <<cert, key, pathVars, shown, stopped>>

\* A certificate that is there is kept.
OpenCert_KeepsExisting(t) ==
    /\ at[t] = "openCert"
    /\ IF cert[want[t].cert] = Missing
       THEN Proceed(t, "fillCert") /\ cert' = [cert EXCEPT ![want[t].cert] = Cut]
       ELSE Proceed(t, "openKey") /\ UNCHANGED cert
    /\ disturbed' = disturbed \cup SharingCert(want[t])
    /\ UNCHANGED <<key, made, procVars, want, got, shown, stopped>>

\* The key is written first.
OpenCert_KeyFirst(t) ==
    /\ at[t] = "openCert" /\ Proceed(t, "fillCert")
    /\ key' = [key EXCEPT ![want[t].key] = got[t].key]
    /\ cert' = [cert EXCEPT ![want[t].cert] = Cut]
    /\ disturbed' = disturbed \cup SharingCert(want[t]) \cup SharingKey(want[t])
    /\ UNCHANGED <<made, procVars, want, got, shown, stopped>>

\* os.WriteFile of the certificate, then of the key, whatever other pair of paths
\* names the file as well.
OpenCert(t) ==
    /\ at[t] = "openCert" /\ Proceed(t, "fillCert")
    /\ cert' = [cert EXCEPT ![want[t].cert] = Cut]
    /\ disturbed' = disturbed \cup SharingCert(want[t])
    /\ UNCHANGED <<key, made, procVars, want, got, shown, stopped>>

FillCert(t) ==
    /\ at[t] = "fillCert" /\ Proceed(t, "openKey")
    /\ cert' = [cert EXCEPT ![want[t].cert] = got[t].cert]
    /\ UNCHANGED <<key, made, procVars, want, got, historyVars>>

OpenKey(t) ==
    /\ at[t] = "openKey" /\ Proceed(t, "fillKey")
    /\ key' = [key EXCEPT ![want[t].key] = Cut]
    /\ disturbed' = disturbed \cup SharingKey(want[t])
    /\ UNCHANGED <<cert, made, procVars, want, got, shown, stopped>>

FillKey(t) ==
    /\ at[t] = "fillKey"
    /\ key' = [key EXCEPT ![want[t].key] = got[t].key]
    /\ Loaded(t, got[t])
    /\ UNCHANGED <<cert, made, pathVars, historyVars>>

StoppedIn(threads) ==
    stopped' = stopped \cup {want[t] : t \in {o \in threads : at[o] = "fillKey"}}

\* A write, or the directory, fails.
WriteFails(t) ==
    /\ at[t] \in Creating
    /\ LoadFails(t)
    /\ StoppedIn({t})
    /\ UNCHANGED <<fileVars, pathVars, shown, disturbed>>
-----------------------------------------------------------------------------
\* ca.pem is served, or a leaf is signed (or taken from the CA's cache) and
\* presented; no leaf can be signed with a key that is not the certificate's.
Serve(t) ==
    /\ at[t] = "use"
    /\ shown' = [shown EXCEPT ![want[t]] = @ \cup {got[t].cert}]
    /\ Idle(t)
    /\ UNCHANGED <<fileVars, procVars, disturbed, stopped>>

\* The configuration of a process gets other paths, both or one of them.
ReloadPaths(p) ==
    /\ moves < MaxMoves
    /\ moves' = moves + 1
    /\ \E d \in Places : place' = [place EXCEPT ![p] = d]
    /\ UNCHANGED <<fileVars, up, ca, caMu, at, want, got, historyVars>>

\* A process is killed; its configuration stays.
Crash(p) ==
    LET its == {t \in Threads : Proc[t] = p}
    IN  /\ \E t \in its : p \in up \/ at[t] # "idle"
        /\ up' = up \ {p}
        /\ ca' = [ca EXCEPT ![p] = NoCA]
        /\ caMu' = [caMu EXCEPT ![p] = None]
        /\ at' = [t \in Threads |-> IF t \in its THEN "idle" ELSE at[t]]
        /\ want' = [t \in Threads |-> IF t \in its THEN None ELSE want[t]]
        /\ got' = [t \in Threads |-> IF t \in its THEN Nothing ELSE got[t]]
        /\ StoppedIn(its)
        /\ UNCHANGED <<fileVars, pathVars, shown, disturbed>>
-----------------------------------------------------------------------------
Load(t) ==
    \/ ReadCert(t) \/ ReadKey(t)
    \/ OpenCert(t) \/ FillCert(t) \/ OpenKey(t) \/ FillKey(t) \/ WriteFails(t)

CANext ==
    \/ \E t \in Threads : Start(t) \/ NeedCA(t) \/ LookUp(t) \/ Lock(t) \/ Load(t) \/ Serve(t)
    \/ \E p \in Procs : ReloadPaths(p) \/ Crash(p)

CASpec == CAInit /\ [][CANext]_caVars
-----------------------------------------------------------------------------
(* Properties.                                                             *)

\* Clients that trust a CA of these paths meet no other one, after whatever
\* restarts, reloads and incomplete creations, unless two processes created it at
\* the same time, a file could not be read (which replaces a good CA), or a CA was
\* created for another pair of paths that shares one of the two files.
OneAuthority == \A d \in Places : Cardinality(shown[d]) <= 1 \/ d \in disturbed

\* Whatever a creation leaves behind can be loaded or is made anew by the next
\* start, but for a key file that was truncated and never filled.  Creations that
\* meet over the same file, of one pair of paths or of two, may leave a mixture.
NoDeadEnd ==
    \A d \in Places :
        (d \notin disturbed \cup stopped /\ \A t \in Threads : at[t] \in Creating => want[t] # d) =>
            \/ Missing \in {cert[d.cert], key[d.key]}
            \/ cert[d.cert] = key[d.key] /\ cert[d.cert] # Cut

\* The CA in memory can sign: its key is its certificate's, though the two are read
\* one after the other and nothing compares them, unless one of the files was
\* written over by another creation, or could not be read.
AbleToSign ==
    \A p \in Procs : ca[p].cert = ca[p].key \/ ca[p].from \in disturbed

=============================================================================
