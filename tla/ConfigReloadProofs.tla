------------------------- MODULE ConfigReloadProofs -------------------------
(***************************************************************************)
(* Proofs about ConfigReload, for any number of files and of writes.  The  *)
(* heart is StaleIsNoticed, which is what lets a reload without locks or   *)
(* transactions end with the files as they are: every change is newer than *)
(* what Watch remembers, or a load that will see it is under way, or the   *)
(* last load was given up.  It needs modification times that only grow.    *)
(***************************************************************************)
EXTENDS ConfigReload, TLAPS

\* Watch remembers no time that lies ahead of the file's,
\* and none at all before its first round.
TimesInv ==
    \A f \in Files :
        /\ lastMod[f] <= mtime[f]
        /\ mtime[f] >= 1
        /\ pc = "boot" => lastMod[f] = 0

\* While the process runs, contents travel in order: from the files to what was
\* read, to the channel, to the current configuration.
OrderInv ==
    /\ \A f \in Files : merged[f].version <= content[f].version
    /\ \A f \in Files : content[f].version <= writes
    /\ \A c, d \in updates : c = d
    /\ pc \in {"boot", "exit"} => updates = {}
    /\ Running => \A f \in Files : current[f].version <= merged[f].version
    /\ \A c \in updates, f \in Files :
            current[f].version <= c[f].version /\ c[f].version <= merged[f].version

ReloadInv == TypeOK /\ RunningIsValid /\ OrderInv

NoticeInv == TimesInv /\ StaleIsNoticed
-----------------------------------------------------------------------------
\* The contents of a file and their version.
LEMMA ContentFacts ==
    /\ \A c \in Content : c.version \in Nat /\ c.version \in 0..MaxWrites /\ c.kind \in Kinds
    /\ \A c \in Config : \A f \in Files : c[f] \in Content
    /\ \A v \in 0..MaxWrites, k \in Kinds : [version |-> v, kind |-> k] \in Content
    /\ 0 \in 0..MaxWrites
  BY ConstantsOK DEF ConstantsOK, Content, Config

\* Every variable keeps its type.
LEMMA TypeStep == TypeOK /\ [Next]_vars => TypeOK'
  <1> SUFFICES ASSUME TypeOK, [Next]_vars PROVE TypeOK'
    OBVIOUS
  <1> USE ConstantsOK, ContentFacts DEF TypeOK, ConstantsOK, Files, fileVars, failVars
  <1>1. ASSUME NEW f \in Files, Write(f) PROVE TypeOK'
    <2>1. writes' \in 0..MaxWrites
      BY <1>1 DEF Write
    <2>2. content' \in Config
      BY <1>1, <2>1 DEF Write, Config
    <2>3. mtime' \in [Files -> Nat]
      BY <1>1 DEF Write
    <2> QED
      BY <1>1, <2>1, <2>2, <2>3 DEF Write
  <1>2. ASSUME NEW w \in {"boot", "read"}, NEW e \in {"exit", "idle"}, ReadFile(w, e) PROVE TypeOK'
    <2>1. next \in Files /\ next + 1 \in 1..N + 1
      BY <1>2 DEF ReadFile
    <2>2. merged' \in Config
      BY <1>2, <2>1 DEF ReadFile, Config
    <2> QED
      BY <1>2, <2>1, <2>2 DEF ReadFile
  <1>3. CASE Boot
    BY <1>3 DEF Boot
  <1>4. CASE Tick
    <2>1. 1 \in 1..N + 1
      OBVIOUS
    <2> QED
      BY <1>4, <2>1 DEF Tick
  <1>5. CASE Stat
    <2>1. next \in Files /\ next + 1 \in 1..N + 1
      BY <1>5 DEF Stat
    <2> QED
      BY <1>5, <2>1 DEF Stat
  <1>6. CASE Decide
    <2>1. next' \in 1..N + 1
      BY <1>6 DEF Decide
    <2>2. gaveUp' \in BOOLEAN
      BY <1>6, Zenon DEF Decide
    <2> QED
      BY <1>6, <2>1, <2>2 DEF Decide
  <1>7. CASE Loaded
    BY <1>7 DEF Loaded
  <1>8. CASE Send
    BY <1>8 DEF Send
  <1>9. CASE Apply
    BY <1>9 DEF Apply
  <1>10. CASE UNCHANGED vars
    BY <1>10 DEF vars
  <1>11. CASE ReadFails
    <2>1. fails' \in 0..MaxFails
      BY <1>11 DEF ReadFails
    <2>2. gaveUp' \in BOOLEAN
      BY <1>11, Zenon DEF ReadFails
    <2> QED
      BY <1>11, <2>1, <2>2 DEF ReadFails
  <1>12. CASE StatFails
    BY <1>12 DEF StatFails
  <1> QED
    BY <1>1, <1>2, <1>3, <1>4, <1>5, <1>6, <1>7, <1>8, <1>9, <1>10, <1>11, <1>12
       DEF Next, Watch, BootRead, WatchRead

\* Reading a file moves what was read forward, for NewStore as for Watch.
LEMMA ReadOrder ==
  ASSUME ReloadInv, NEW w \in {"boot", "read"}, NEW e \in {"exit", "idle"},
         ReadFile(w, e), (w = "boot") <=> (e = "exit"), TypeOK'
  PROVE  RunningIsValid' /\ OrderInv'
  <1> USE ConstantsOK DEF ConstantsOK, ReloadInv, ReadFile, fileVars, Running, Files
  <1>1. RunningIsValid'
    BY DEF RunningIsValid, Valid
  <1>2. \A f \in Files : merged[f].version <= merged'[f].version
                        /\ merged'[f].version <= content[f].version
    <2>1. next \in Files => merged' \in Config /\ merged \in Config
      BY DEF TypeOK
    <2>2. \A f \in Files : merged[f].version \in Nat /\ content[f].version \in Nat
      BY ContentFacts DEF TypeOK
    <2>3. \A f \in Files : merged'[f] = merged[f] \/ (merged'[f] = content[f])
      BY DEF TypeOK, Config
    <2> QED
      BY <2>2, <2>3 DEF OrderInv
  <1>3. \A f \in Files : /\ merged[f].version \in Nat /\ content[f].version \in Nat
                         /\ merged'[f].version \in Nat /\ current[f].version \in Nat
                         /\ \A c \in updates : c[f].version \in Nat
    BY ContentFacts DEF TypeOK
  <1>4. OrderInv'
    BY <1>2, <1>3 DEF OrderInv
  <1> QED
    BY <1>1, <1>4

\* The invariant of types, validity and order is inductive.
LEMMA ReloadStep == ReloadInv /\ [Next]_vars => ReloadInv'
  <1> SUFFICES ASSUME ReloadInv, [Next]_vars PROVE RunningIsValid' /\ OrderInv'
    BY TypeStep DEF ReloadInv
  <1>0. TypeOK /\ TypeOK'
    BY TypeStep DEF ReloadInv
  <1>T. \A f \in Files : /\ merged[f].version \in Nat /\ content[f].version \in Nat
                         /\ current[f].version \in Nat
                         /\ \A c \in updates : c[f].version \in Nat
    BY <1>0, ContentFacts DEF TypeOK
  <1> USE ConstantsOK DEF ConstantsOK, ReloadInv, fileVars, Running
  <1>1. ASSUME NEW f \in Files, Write(f) PROVE RunningIsValid' /\ OrderInv'
    <2>1. RunningIsValid'
      BY <1>1 DEF Write, RunningIsValid, Valid
    <2>2. \A g \in Files : content'[g].version = IF g = f THEN writes + 1 ELSE content[g].version
      BY <1>1, <1>0 DEF Write, TypeOK, Config
    <2>3. \A g \in Files : content[g].version <= content'[g].version /\ content'[g].version <= writes'
      BY <1>1, <1>0, <1>T, <2>2 DEF Write, TypeOK, OrderInv
    <2>4. \A g \in Files : merged[g].version <= content'[g].version
      BY <2>3, <1>T, <2>2, <1>0 DEF OrderInv, TypeOK
    <2> QED
      BY <1>1, <2>1, <2>3, <2>4 DEF Write, OrderInv
  <1>2. CASE BootRead
    BY <1>2, <1>0, ReadOrder DEF BootRead
  <1>3. CASE WatchRead
    BY <1>3, <1>0, ReadOrder DEF WatchRead
  <1>4. CASE Boot
    BY <1>4, <1>T DEF Boot, RunningIsValid, OrderInv, Valid
  <1>5. CASE Tick
    BY <1>5 DEF Tick, RunningIsValid, OrderInv, Valid
  <1>6. CASE Stat
    BY <1>6 DEF Stat, RunningIsValid, OrderInv, Valid
  <1>7. CASE Decide
    BY <1>7 DEF Decide, RunningIsValid, OrderInv, Valid
  <1>8. CASE Loaded
    BY <1>8 DEF Loaded, RunningIsValid, OrderInv, Valid
  <1>9. CASE Send
    BY <1>9, <1>T DEF Send, RunningIsValid, OrderInv, Valid
  <1>10. CASE Apply
    BY <1>10, <1>T DEF Apply, RunningIsValid, OrderInv, Valid
  <1>11. CASE UNCHANGED vars
    BY <1>11 DEF vars, RunningIsValid, OrderInv, Valid
  <1>12. CASE ReadFails \/ StatFails
    BY <1>12 DEF ReadFails, StatFails, RunningIsValid, OrderInv, Valid
  <1> QED
    BY <1>1, <1>2, <1>3, <1>4, <1>5, <1>6, <1>7, <1>8, <1>9, <1>10, <1>11, <1>12 DEF Next, Watch

\* The initial states satisfy it.
LEMMA InitReload == Init => ReloadInv /\ NoticeInv
  <1> SUFFICES ASSUME Init PROVE ReloadInv /\ NoticeInv
    OBVIOUS
  <1> USE ConstantsOK DEF ConstantsOK, Init
  <1>1. content \in Config
    BY DEF Config, Content
  <1>2. TypeOK
    <2>1. 1 \in 1..N + 1 /\ 0 \in 0..MaxWrites /\ 0 \in 0..MaxFails
      OBVIOUS
    <2> QED
      BY <1>1, <2>1 DEF TypeOK
  <1>3. \A f \in Files : content[f].version = 0
    BY DEF Config, Content
  <1>4. OrderInv /\ RunningIsValid
    BY <1>2, <1>3 DEF OrderInv, RunningIsValid, Running
  <1>5. TimesInv /\ StaleIsNoticed
    BY DEF TimesInv, StaleIsNoticed, Running
  <1> QED
    BY <1>2, <1>4, <1>5 DEF ReloadInv, NoticeInv

\* A reload does not bring back older contents: a step that installs something
\* installs what was read later than the current configuration.
LEMMA ForwardStep ==
    ReloadInv /\ [Next]_vars =>
        [Running => \A f \in Files : current'[f].version >= current[f].version]_vars
  <1> SUFFICES ASSUME ReloadInv, [Next]_vars, Running, NEW f \in Files
               PROVE  current'[f].version >= current[f].version
    OBVIOUS
  <1>T. current[f].version \in Nat /\ \A c \in updates : c[f].version \in Nat
    BY ContentFacts DEF ReloadInv, TypeOK
  <1>1. CASE Apply
    BY <1>1, <1>T DEF Apply, ReloadInv, OrderInv
  <1>2. CASE ~Apply
    <2>1. current' = current
      BY <1>2 DEF Next, vars, Write, BootRead, Boot, Watch, Tick, Stat, Decide, WatchRead,
                  ReadFile, Loaded, Send, Running, ReadFails, StatFails
    <2> QED
      BY <2>1, <1>T
  <1> QED
    BY <1>1, <1>2

\* Watch remembers only times it has seen, if times do not go back.
LEMMA TimesStep ==
  ASSUME TypeOK, TimesInv, [Next]_vars, ~Backdated
  PROVE  TimesInv'
  <1> USE ConstantsOK DEF ConstantsOK, TimesInv, TypeOK, fileVars
  <1>1. ASSUME NEW f \in Files, Write(f) PROVE TimesInv'
    BY <1>1 DEF Write
  <1>2. CASE Stat
    BY <1>2 DEF Stat
  <1>3. CASE BootRead \/ WatchRead
    BY <1>3 DEF BootRead, WatchRead, ReadFile
  <1>4. CASE Boot \/ Tick \/ Decide \/ Loaded \/ Send
    BY <1>4 DEF Boot, Tick, Decide, Loaded, Send
  <1>5. CASE Apply \/ ReadFails \/ StatFails \/ UNCHANGED vars
    BY <1>5 DEF Apply, ReadFails, StatFails, vars
  <1> QED
    BY <1>1, <1>2, <1>3, <1>4, <1>5 DEF Next, Watch

\* No change is missed: one case for each step that can end a reason to expect
\* the next load, or the load itself.
LEMMA NoticeStep ==
  ASSUME ReloadInv, NoticeInv, [Next]_vars, ~Backdated
  PROVE  NoticeInv'
  <1>0. TypeOK /\ TypeOK' /\ TimesInv'
    BY TypeStep, TimesStep DEF ReloadInv, NoticeInv
  <1> SUFFICES ASSUME Running', Valid(content)'
               PROVE  Pending' \/ gaveUp' \/ \E f \in Files : Unnoticed(f)'
    BY <1>0 DEF NoticeInv, StaleIsNoticed
  <1> DEFINE Goal == Pending' \/ gaveUp' \/ \E f \in Files : Unnoticed(f)'
  <1> HIDE DEF Goal
  <1> USE ConstantsOK DEF ConstantsOK
  <1>1. ASSUME NEW f \in Files, Write(f) PROVE Goal
    <2>1. mtime'[f] > lastMod'[f]
      BY <1>0, <1>1 DEF Write, NoticeInv, TimesInv, TypeOK
    <2>2. content'[f].kind # "absent"
      BY DEF Valid
    <2> QED
      BY <2>1, <2>2 DEF Unnoticed, Goal
  <1>2. CASE Boot
    <2>1. 1 \in Files /\ mtime'[1] > lastMod'[1]
      BY <1>0, <1>2 DEF Boot, NoticeInv, TimesInv, TypeOK, Files, fileVars
    <2>2. content'[1].kind # "absent"
      BY <2>1 DEF Valid
    <2> QED
      BY <2>1, <2>2 DEF Unnoticed, Goal
  <1>3. CASE BootRead
    BY <1>3 DEF BootRead, ReadFile, Running
  <1>4. CASE ReadFails
    BY <1>4 DEF ReadFails, Running, Goal
  <1>5. ASSUME ~(\E f \in Files : Write(f)), ~Boot, ~BootRead, ~ReadFails PROVE Goal
    <2>1. content' = content /\ mtime' = mtime /\ Running
      BY <1>5 DEF Next, Watch, vars, Tick, Stat, Decide, WatchRead, ReadFile, Loaded, Send,
                  StatFails, Apply, fileVars, Running
    <2>2. Valid(content) /\ (Pending \/ gaveUp \/ \E f \in Files : Unnoticed(f))
      BY <2>1 DEF NoticeInv, StaleIsNoticed, Valid
    <2>3. CASE Stat
      <3>1. CASE changed'
        BY <2>3, <3>1 DEF Stat, Pending, Goal
      <3>2. CASE ~changed'
        <4>1. lastMod' = lastMod /\ changed' = changed
          BY <2>3, <3>2 DEF Stat
        <4> QED
          BY <2>1, <2>2, <2>3, <3>2, <4>1 DEF Stat, Pending, Unnoticed, Goal, failVars
      <3> QED
        BY <3>1, <3>2
    <2>4. ASSUME ~Stat PROVE Goal
      <3>1. lastMod' = lastMod
        BY <1>5, <2>4 DEF Next, Watch, vars, Tick, Decide, WatchRead, ReadFile, Loaded, Send, Apply,
                    StatFails
      <3>2. CASE \E f \in Files : Unnoticed(f)
        BY <2>1, <3>1, <3>2 DEF Unnoticed, Goal
      <3>3. CASE gaveUp /\ ~(Decide /\ changed)
        <4>1. gaveUp' = gaveUp
          BY <1>5, <2>4, <3>3 DEF Next, Watch, vars, failVars, Tick, Decide, WatchRead, ReadFile,
                                   Loaded, Send, Apply, StatFails
        <4> QED
          BY <3>3, <4>1 DEF Goal
      <3>4. CASE Decide /\ changed
        <4>1. pc' = "read" /\ 1..next' - 1 = {}
          BY <3>4 DEF Decide
        <4> QED
          BY <4>1 DEF Pending, Goal
      <3> SUFFICES ASSUME Pending, ~(Decide /\ changed) PROVE Pending'
        BY <2>2, <3>2, <3>3, <3>4 DEF Goal
      <3>5. CASE Tick
        BY <2>1, <3>5 DEF Tick, Pending
      <3>6. CASE Decide
        BY <2>1, <3>6 DEF Decide, Pending
      <3>7. CASE StatFails
        BY <2>1, <3>7 DEF StatFails, Pending
      <3>8. CASE WatchRead
        <4>1. next \in Files
          BY <1>0, <3>8 DEF WatchRead, ReadFile, TypeOK, Files
        <4>2. Loadable(content[next])
          BY <2>2, <4>1 DEF Valid, Loadable
        <4>3. pc' = "read" /\ next' = next + 1 /\ merged' = [merged EXCEPT ![next] = content[next]]
          BY <3>8, <4>2 DEF WatchRead, ReadFile
        <4>4. \A f \in 1..next - 1 : merged[f] = content[f]
          BY <3>8 DEF WatchRead, ReadFile, Pending
        <4>5. \A f \in 1..next' - 1 : f \in Files /\ (f = next \/ f \in 1..next - 1)
          <5>1. N \in Nat /\ next \in 1..N /\ next' = next + 1
            BY <4>1, <4>3, ConstantsOK DEF Files, ConstantsOK
          <5> QED
            BY <5>1 DEF Files
        <4>6. \A f \in 1..next' - 1 : merged'[f] = content[f]
          <5> SUFFICES ASSUME NEW f \in 1..next' - 1 PROVE merged'[f] = content[f]
            OBVIOUS
          <5>1. f \in Files /\ DOMAIN merged = Files
            BY <1>0, <4>5 DEF TypeOK, Config
          <5>2. CASE f = next
            BY <4>1, <4>3, <5>1, <5>2
          <5>3. CASE f # next
            <6>1. f \in 1..next - 1
              BY <4>5, <5>3
            <6> QED
              BY <4>3, <4>4, <5>1, <5>3, <6>1
          <5> QED
            BY <5>2, <5>3
        <4> QED
          BY <2>1, <4>3, <4>6 DEF Pending
      <3>9. CASE Loaded
        <4>1. \A f \in Files : merged[f] = content[f]
          BY <1>0, <3>9 DEF Loaded, Pending, TypeOK, Files
        <4>2. merged = content
          BY <1>0, <4>1 DEF TypeOK, Config
        <4> QED
          BY <2>1, <3>9, <4>2 DEF Loaded, Pending
      <3>10. CASE Send
        BY <2>1, <3>10 DEF Send, Pending
      <3>11. CASE Apply
        BY <2>1, <2>2, <3>11 DEF Apply, Pending, fileVars
      <3>12. CASE UNCHANGED vars
        BY <2>1, <3>12 DEF vars, Pending
      <3> QED
        BY <1>5, <2>4, <3>5, <3>6, <3>7, <3>8, <3>9, <3>10, <3>11, <3>12 DEF Next, Watch
    <2> QED
      BY <2>3, <2>4
  <1> QED
    BY <1>1, <1>2, <1>3, <1>5, <1>4 DEF Goal
-----------------------------------------------------------------------------
\* The invariant that the theorems about every behaviour rest on.
THEOREM ReloadInvariant == Spec => []ReloadInv
  BY InitReload, ReloadStep, PTL DEF Spec

\* Type correctness.
THEOREM ReloadTyped == Spec => []TypeOK
  <1>1. ReloadInv => TypeOK
    BY DEF ReloadInv
  <1> QED
    BY <1>1, ReloadInvariant, PTL

\* From its start on the process works with a configuration that Validate
\* accepts, whatever is written to the files.
THEOREM AlwaysValid == Spec => []RunningIsValid
  <1>1. ReloadInv => RunningIsValid
    BY DEF ReloadInv
  <1> QED
    BY <1>1, ReloadInvariant, PTL

\* No reload brings older contents back.
THEOREM ReloadsGoForward == Spec => NeverBackwards
  BY ReloadInvariant, ForwardStep, PTL DEF Spec, NeverBackwards

\* If modification times do not go back, no change of the files is missed.
THEOREM EveryChangeNoticed ==
  ASSUME ~Backdated
  PROVE  Spec => []StaleIsNoticed
  <1>1. ReloadInv /\ NoticeInv /\ [Next]_vars => NoticeInv'
    BY NoticeStep
  <1>2. NoticeInv => StaleIsNoticed
    BY DEF NoticeInv
  <1> QED
    BY <1>1, <1>2, InitReload, ReloadInvariant, PTL DEF Spec
=============================================================================
