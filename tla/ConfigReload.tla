---------------------------- MODULE ConfigReload ----------------------------
(***************************************************************************)
(* How the running process follows its configuration files: NewStore in    *)
(* src/internal/config/config.go and FileProvider in file_provider.go.     *)
(* NewStore loads the files once and then runs two goroutines: Watch looks *)
(* at the modification times every two seconds and, when one is newer than *)
(* the last it saw, loads all files again and sends the result through a   *)
(* channel of capacity one; the other validates what arrives and makes it  *)
(* the current configuration.                                              *)
(*                                                                         *)
(* Meanwhile somebody edits the files.  A load reads them one after the    *)
(* other, so it may combine contents that never stood side by side.  What  *)
(* a file contributes is abstracted to a version and to whether a load can *)
(* read and Validate accepts it.                                           *)
(***************************************************************************)
EXTENDS Naturals

CONSTANTS
    N,          \* number of files given with -config
    Backdated,  \* may a file be replaced by one with an older modification time?
    MaxWrites,  \* bound: how often files are written
    MaxFails    \* bound: how often the file system fails in passing

ASSUME ConstantsOK ==
    N \in Nat \ {0} /\ Backdated \in BOOLEAN /\ MaxWrites \in Nat /\ MaxFails \in Nat

Files == 1..N

VARIABLES
    content,  \* content[f]: what the file holds
    mtime,    \* mtime[f]: its modification time
    writes,   \* how often files have been written
    lastMod,  \* Watch: the last modification time seen, 0 if none
    pc,       \* where Watch is ("boot": NewStore still loads)
    next,     \* the file that is looked at or read next
    changed,  \* Watch: was a newer file seen in this round?
    merged,   \* Load: what it has read so far
    updates,  \* the channel: the set of the configurations in it, one at most
    current,  \* Store.current
    fails,    \* how often a file could not be looked at or read in passing
    gaveUp    \* history: did Watch's last load end with such a failure?

fileVars == <<content, mtime, writes>>
failVars == <<fails, gaveUp>>
vars == <<fileVars, lastMod, pc, next, changed, merged, updates, current, failVars>>

Kinds == {"good", "invalid", "broken", "absent"}
Content == [version : 0..MaxWrites, kind : Kinds]
Config == [Files -> Content]
Loadable(c) == c.kind \in {"good", "invalid"}
Valid(config) == \A f \in Files : config[f].kind = "good"

TypeOK ==
    /\ content \in Config
    /\ mtime \in [Files -> Nat]
    /\ writes \in 0..MaxWrites
    /\ lastMod \in [Files -> Nat]
    /\ pc \in {"boot", "exit", "idle", "stat", "read", "send"}
    /\ next \in 1..N + 1
    /\ changed \in BOOLEAN
    /\ merged \in Config
    /\ updates \in SUBSET Config
    /\ current \in Config
    /\ fails \in 0..MaxFails
    /\ gaveUp \in BOOLEAN

Init ==
    /\ content \in [Files -> [version : {0}, kind : Kinds]]
    /\ mtime = [f \in Files |-> 1]
    /\ writes = 0
    /\ lastMod = [f \in Files |-> 0]
    /\ pc = "boot" /\ next = 1 /\ changed = FALSE
    /\ merged = content
    /\ updates = {}
    /\ current = content
    /\ fails = 0 /\ gaveUp = FALSE
-----------------------------------------------------------------------------
(* The files.                                                              *)

\* A file is written, replaced or removed.
Write(f) ==
    /\ writes < MaxWrites
    /\ writes' = writes + 1
    /\ \E k \in Kinds : content' = [content EXCEPT ![f] = [version |-> writes', kind |-> k]]
    /\ \/ mtime' = [mtime EXCEPT ![f] = @ + 1]
       \/ Backdated /\ \E m \in 1..mtime[f] : mtime' = [mtime EXCEPT ![f] = m]
    /\ UNCHANGED <<lastMod, pc, next, changed, merged, updates, current, failVars>>
-----------------------------------------------------------------------------
(* Load, for NewStore and for Watch.                                       *)

\* The next file is read and merged; the first that fails ends the load.
ReadFile(where, onError) ==
    /\ pc = where
    /\ next <= N
    /\ IF Loadable(content[next])
       THEN /\ merged' = [merged EXCEPT ![next] = content[next]]
            /\ next' = next + 1
            /\ UNCHANGED pc
       ELSE pc' = onError /\ UNCHANGED <<merged, next>>
    /\ UNCHANGED <<fileVars, lastMod, changed, updates, current, failVars>>

BootRead == ReadFile("boot", "exit")

\* os.ReadFile fails for a reason that will pass, such as too many open files.
ReadFails ==
    /\ pc \in {"boot", "read"}
    /\ next <= N
    /\ fails < MaxFails
    /\ fails' = fails + 1
    /\ IF pc = "boot" THEN pc' = "exit" /\ UNCHANGED gaveUp
                      ELSE pc' = "idle" /\ gaveUp' = TRUE
    /\ UNCHANGED <<fileVars, lastMod, next, changed, merged, updates, current>>

\* Watch takes the times at its start for those of the first load.
Boot_Stats ==
    /\ pc = "boot"
    /\ next > N
    /\ IF Valid(merged) THEN pc' = "idle" /\ current' = merged
                        ELSE pc' = "exit" /\ UNCHANGED current
    /\ lastMod' = mtime
    /\ UNCHANGED <<fileVars, next, changed, merged, updates, failVars>>

\* NewStore validates the first configuration: the process starts or gives up.
\* Watch begins with an empty lastMod.
Boot ==
    /\ pc = "boot"
    /\ next > N
    /\ IF Valid(merged) THEN pc' = "idle" /\ current' = merged
                        ELSE pc' = "exit" /\ UNCHANGED current
    /\ UNCHANGED <<fileVars, lastMod, next, changed, merged, updates, failVars>>
-----------------------------------------------------------------------------
(* The goroutine of Watch.                                                 *)

Tick ==
    /\ pc = "idle"
    /\ pc' = "stat" /\ next' = 1 /\ changed' = FALSE
    /\ UNCHANGED <<fileVars, lastMod, merged, updates, current, failVars>>

\* os.Stat on the next file; one that is missing is passed over.
Stat ==
    /\ pc = "stat"
    /\ next <= N
    /\ IF content[next].kind # "absent" /\ mtime[next] > lastMod[next]
       THEN /\ lastMod' = [lastMod EXCEPT ![next] = mtime[next]]
            /\ changed' = TRUE
       ELSE UNCHANGED <<lastMod, changed>>
    /\ next' = next + 1
    /\ UNCHANGED <<fileVars, pc, merged, updates, current, failVars>>

\* os.Stat fails in passing: the file is passed over, and looked at next time.
StatFails ==
    /\ pc = "stat"
    /\ next <= N
    /\ fails < MaxFails
    /\ fails' = fails + 1
    /\ next' = next + 1
    /\ UNCHANGED <<fileVars, lastMod, pc, changed, merged, updates, current, gaveUp>>

\* All files were looked at: load if there was a newer one.
Decide ==
    /\ pc = "stat"
    /\ next > N
    /\ IF changed THEN pc' = "read" /\ next' = 1 /\ gaveUp' = FALSE
                  ELSE pc' = "idle" /\ UNCHANGED <<next, gaveUp>>
    /\ UNCHANGED <<fileVars, lastMod, changed, merged, updates, current, fails>>

\* A failed load is logged, and the old configuration stays.
WatchRead == ReadFile("read", "idle")

\* All files were read: Load decodes the merged document and returns.
Loaded ==
    /\ pc = "read"
    /\ next > N
    /\ pc' = "send"
    /\ UNCHANGED <<fileVars, lastMod, next, changed, merged, updates, current, failVars>>

\* Configurations queue up for goroutines that install them in any order.
Send_Unordered ==
    /\ pc = "send"
    /\ updates' = updates \cup {merged}
    /\ pc' = "idle"
    /\ UNCHANGED <<fileVars, lastMod, next, changed, merged, current, failVars>>

\* A full channel drops the configuration.
Send_Drops ==
    /\ pc = "send"
    /\ updates' = IF updates = {} THEN {merged} ELSE updates
    /\ pc' = "idle"
    /\ UNCHANGED <<fileVars, lastMod, next, changed, merged, current, failVars>>

\* Watch blocks until the channel has room.
Send ==
    /\ pc = "send"
    /\ updates = {}
    /\ updates' = {merged}
    /\ pc' = "idle"
    /\ UNCHANGED <<fileVars, lastMod, next, changed, merged, current, failVars>>
-----------------------------------------------------------------------------
(* The goroutine of NewStore.                                              *)

\* What arrives is installed as it is.
Apply_Unchecked ==
    /\ \E config \in updates :
        /\ current' = config
        /\ updates' = updates \ {config}
    /\ UNCHANGED <<fileVars, lastMod, pc, next, changed, merged, failVars>>

\* A configuration that does not validate is ignored.
Apply ==
    /\ \E config \in updates :
        /\ current' = IF Valid(config) THEN config ELSE current
        /\ updates' = updates \ {config}
    /\ UNCHANGED <<fileVars, lastMod, pc, next, changed, merged, failVars>>
-----------------------------------------------------------------------------
Watch == Tick \/ Stat \/ Decide \/ WatchRead \/ Loaded \/ Send

Next ==
    \/ \E f \in Files : Write(f)
    \/ BootRead \/ Boot \/ Watch \/ Apply
    \/ ReadFails \/ StatFails

Spec == Init /\ [][Next]_vars

\* Both goroutines run, and the ticker ticks.  Who edits the files is free, and
\* so is the file system in what it fails.
Fairness == WF_vars(BootRead \/ Boot) /\ WF_vars(Watch) /\ WF_vars(Apply)

FairSpec == Spec /\ Fairness
-----------------------------------------------------------------------------
(* Properties.                                                             *)

Running == pc \notin {"boot", "exit"}

\* Watch has not seen the file as it is now.
Unnoticed(f) == content[f].kind # "absent" /\ mtime[f] > lastMod[f]

\* What follows the load Watch is at, if no file changes any more.
Pending ==
    \/ pc = "stat" /\ changed
    \/ pc = "read" /\ \A f \in 1..next - 1 : merged[f] = content[f]
    \/ pc = "send" /\ merged = content
    \/ pc \in {"idle", "stat"} /\ updates = {content}
    \/ pc \in {"idle", "stat"} /\ updates = {} /\ current = content

\* No change is missed: when files that are all good differ from the current
\* configuration, a file is newer than Watch knows, or what they hold now is on
\* its way, or the last load was given up.  In particular a mixture of old and
\* new files does not stay, and a look that fails puts a change off and no more.
StaleIsNoticed ==
    Running /\ Valid(content) => Pending \/ gaveUp \/ \E f \in Files : Unnoticed(f)

\* The process never works with a configuration that Validate rejects, whatever
\* the files go through after it has started.
RunningIsValid == Running => Valid(current)

\* A reload never brings back a file's older contents.
NeverBackwards ==
    [][Running => \A f \in Files : current'[f].version >= current[f].version]_vars

\* docs/generic-service-integrations-design.md: "file watching watches every
\* loaded file and reloads the merged config when any file changes": once the
\* files are left alone and good, they are the current configuration for good.
\* But a load that failed in passing is not tried again before the next change:
\* Watch remembers the new times before it knows whether the load succeeds.
ConfigConverges == <>[](Running /\ Valid(content) /\ ~gaveUp => current = content)
=============================================================================
