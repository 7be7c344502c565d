---------------------------- MODULE ReloadProofs ----------------------------
(***************************************************************************)
(* The generations of the shell, for any configuration and any bounds:     *)
(* types (ReloadTypeCorrect), no generation destroyed twice, lost or used  *)
(* after its end (ReloadSafe), and postReload only once the old trees are  *)
(* gone (ReloadPostsAfterDrop).  CurrentExists is not inductive: that the  *)
(* shell ends when its current generation goes needs DyingEndsShell.  The  *)
(* last one needs that roots are deleted in the order of reloads, or that  *)
(* the shell ends: InTurn.                                                 *)
(***************************************************************************)
EXTENDS Reload, SequenceTheorems, FiniteSetTheorems, TLAPS

-----------------------------------------------------------------------------
(* Queues without duplicates.                                              *)

Queued(s, g) == \E i \in DOMAIN s : s[i] = g
Once(s) == \A i, j \in DOMAIN s : s[i] = s[j] => i = j

\* A newcomer at the end of a queue is queued, once.
LEMMA ConcatOnce ==
    ASSUME NEW S, NEW s \in Seq(S), NEW x \in S, Once(s), ~Queued(s, x)
    PROVE  /\ s \o <<x>> \in Seq(S)
           /\ Once(s \o <<x>>)
           /\ \A g : Queued(s \o <<x>>, g) <=> Queued(s, g) \/ g = x
           /\ Append(s, x) = s \o <<x>>
<1> DEFINE t == s \o <<x>>
<1>1. <<x>> \in Seq(S) /\ Len(<<x>>) = 1 /\ <<x>>[1] = x
  OBVIOUS
<1>2. /\ t \in Seq(S)
      /\ Len(t) = Len(s) + 1
      /\ \A i \in 1 .. Len(s) + 1 : t[i] = IF i <= Len(s) THEN s[i] ELSE x
  <2>1. /\ t \in Seq(S)
        /\ Len(t) = Len(s) + 1
        /\ \A i \in 1 .. Len(s) + 1 : t[i] = IF i <= Len(s) THEN s[i] ELSE <<x>>[i - Len(s)]
    BY <1>1, ConcatProperties
  <2>2. \A i \in 1 .. Len(s) + 1 : ~(i <= Len(s)) => i - Len(s) = 1
    BY LenProperties
  <2> QED
    BY <1>1, <2>1, <2>2
<1>3. /\ DOMAIN s = 1 .. Len(s) /\ DOMAIN t = 1 .. Len(s) + 1 /\ Len(s) \in Nat
  BY <1>2, LenProperties
<1>4. Once(t)
  BY <1>2, <1>3 DEF Once, Queued
<1>5. \A g : Queued(t, g) <=> Queued(s, g) \/ g = x
  <2>1. ASSUME NEW g, Queued(t, g) PROVE Queued(s, g) \/ g = x
    BY <1>2, <1>3, <2>1 DEF Queued
  <2>2. ASSUME NEW g, Queued(s, g) PROVE Queued(t, g)
    <3>1. PICK i \in 1 .. Len(s) : s[i] = g
      BY <1>3, <2>2 DEF Queued
    <3>2. i \in 1 .. Len(s) + 1 /\ i <= Len(s)
      BY <1>3
    <3> QED
      BY <1>2, <1>3, <3>1, <3>2 DEF Queued
  <2>3. Queued(t, x)
    <3>1. Len(s) + 1 \in 1 .. Len(s) + 1 /\ ~(Len(s) + 1 <= Len(s))
      BY <1>3
    <3> QED
      BY <1>2, <1>3, <3>1 DEF Queued
  <2> QED
    BY <2>1, <2>2, <2>3
<1>6. Append(s, x) = s \o <<x>>
  BY AppendIsConcat
<1> QED
  BY <1>2, <1>4, <1>5, <1>6

\* The head of a queue leaves it.
LEMMA TailOnce ==
    ASSUME NEW S, NEW s \in Seq(S), s # <<>>, Once(s)
    PROVE  /\ Tail(s) \in Seq(S)
           /\ Head(s) \in S
           /\ Queued(s, Head(s))
           /\ Once(Tail(s))
           /\ \A g : Queued(Tail(s), g) <=> Queued(s, g) /\ g # Head(s)
<1>1. /\ Head(s) \in S /\ Tail(s) \in Seq(S)
      /\ Len(Tail(s)) = Len(s) - 1
      /\ \A i \in 1 .. Len(s) - 1 : Tail(s)[i] = s[i + 1]
  BY HeadTailProperties
<1>2. /\ DOMAIN s = 1 .. Len(s) /\ DOMAIN Tail(s) = 1 .. Len(s) - 1
      /\ Len(s) \in Nat \ {0} /\ Head(s) = s[1]
  BY <1>1, LenProperties, EmptySeq
<1>3. Once(Tail(s))
  BY <1>1, <1>2 DEF Once
<1>4. Queued(s, Head(s))
  BY <1>2 DEF Queued
<1>5. ASSUME NEW g, Queued(s, g), g # Head(s)
      PROVE  Queued(Tail(s), g)
  <2>1. PICK i \in 1 .. Len(s) : s[i] = g
    BY <1>2, <1>5 DEF Queued
  <2>2. i - 1 \in 1 .. Len(s) - 1 /\ (i - 1) + 1 = i
    BY <1>2, <1>5, <2>1
  <2> QED
    BY <1>1, <1>2, <2>1, <2>2 DEF Queued
<1>6. ASSUME NEW g, Queued(Tail(s), g)
      PROVE  Queued(s, g) /\ g # Head(s)
  <2>1. PICK i \in 1 .. Len(s) - 1 : Tail(s)[i] = g
    BY <1>2, <1>6 DEF Queued
  <2>2. i + 1 \in 1 .. Len(s) /\ s[i + 1] = g /\ i + 1 # 1
    BY <1>1, <1>2, <2>1
  <2> QED
    BY <1>2, <2>2 DEF Queued, Once
<1> QED
  BY <1>1, <1>3, <1>4, <1>5, <1>6

-----------------------------------------------------------------------------
(* Types.                                                                  *)

WatchTypeOK ==
    /\ watcher \in [Gens -> BOOLEAN]
    /\ watched \in [Gens -> SUBSET Files]
    /\ deleted \in [Gens -> SUBSET Files]
    /\ changed \in [Gens -> SUBSET Files]
    /\ removed \in [Gens -> SUBSET Files]
    /\ dirty \in [Gens -> BOOLEAN]

\* What the scanner finds are files, with contents files may have.
LEMMA ScanTypes ==
    ASSUME NEW d \in MaybeFiles
    PROVE  /\ Reach(d) \in SUBSET Files
           /\ \A fs \in SUBSET Files : Hashes(d, fs) \in MaybeFiles
           /\ NoFiles \in MaybeFiles
<1>1. Root \in Files
  BY FilesAssumption
<1>2. Reach(d) \in SUBSET Files
  BY <1>1, ContentsAssumption DEF Reach, MaybeFiles
<1> QED
  BY <1>2 DEF Hashes, MaybeFiles, NoFiles

\* A watcher that is made or dropped keeps the types.
LEMMA WatcherTypes ==
    ASSUME WatchTypeOK, NEW g \in Gens, scanned[g] \cup extra[g] \in SUBSET Files,
           \/ DropWatcher(g)
           \/ \E fs \in SUBSET Files : NewWatcher(g, fs)
           \/ \E on \in BOOLEAN : SetWatchingFiles(g, on)
    PROVE  WatchTypeOK'
<1>0. ASSUME LetGo(g)
      PROVE  /\ changed' \in [Gens -> SUBSET Files]
             /\ removed' \in [Gens -> SUBSET Files]
             /\ dirty' \in [Gens -> BOOLEAN]
  <2>1. PICK late \in SUBSET changed[g], gone \in SUBSET removed[g], moved \in {FALSE, dirty[g]} :
          /\ changed' = [changed EXCEPT ![g] = late]
          /\ removed' = [removed EXCEPT ![g] = gone]
          /\ dirty' = [dirty EXCEPT ![g] = moved]
    BY <1>0 DEF LetGo
  <2>2. late \in SUBSET Files /\ gone \in SUBSET Files /\ moved \in BOOLEAN
    BY DEF WatchTypeOK
  <2> QED
    BY <2>1, <2>2 DEF WatchTypeOK
<1>1. ASSUME DropWatcher(g)
      PROVE  WatchTypeOK'
  BY <1>1 DEF DropWatcher, WatchTypeOK
<1>2. ASSUME NEW fs \in SUBSET Files, NewWatcher(g, fs)
      PROVE  WatchTypeOK'
  <2>1. {f \in fs : disk[f] # Absent} \in SUBSET Files
    OBVIOUS
  <2> QED
    BY <1>0, <1>2, <2>1 DEF NewWatcher, WatchTypeOK
<1>3. ASSUME NEW on \in BOOLEAN, SetWatchingFiles(g, on)
      PROVE  WatchTypeOK'
  <2>1. CASE on = watcher[g]
    BY <1>3, <2>1 DEF SetWatchingFiles, watchVars, WatchTypeOK
  <2>2. CASE on # watcher[g] /\ on
    BY <1>2, <1>3, <2>2 DEF SetWatchingFiles
  <2>3. CASE on # watcher[g] /\ ~on
    BY <1>0, <1>3, <2>3 DEF SetWatchingFiles, WatchTypeOK
  <2> QED
    BY <2>1, <2>2, <2>3
<1> QED
  BY <1>1, <1>2, <1>3

\* The first generation is made of files.
LEMMA InitTypes == Init => TypeOK
<1> SUFFICES ASSUME Init PROVE TypeOK
  OBVIOUS
<1>1. disk \in MaybeFiles /\ 1 \in Gens /\ MaxGen \in Nat
  BY BoundsAssumption DEF Init, MaybeFiles, Gens
<1>2. Reach(disk) \in SUBSET Files /\ Hashes(disk, Reach(disk)) \in MaybeFiles /\ NoFiles \in MaybeFiles
  BY <1>1, ScanTypes
<1>3. WatchTypeOK
  BY <1>2 DEF Init, WatchTypeOK
<1>4. loading \in [step : {"idle", "scanned", "read"}, hard : BOOLEAN,
                   scanned : SUBSET Files, hash : MaybeFiles, files : MaybeFiles]
  BY <1>2 DEF Init, Idle
<1>5. deferred \in Seq(Gens)
  BY EmptySeq DEF Init
<1> QED
  BY <1>1, <1>2, <1>3, <1>4, <1>5, BoundsAssumption DEF Init, TypeOK, WatchTypeOK

\* Another edit is within the bound.
LEMMA EditBound ==
    ASSUME TypeOK, MayEdit
    PROVE  edits' \in 0 .. MaxEdits
<1>1. edits < MaxEdits /\ edits' = edits + 1
  BY DEF MayEdit
<1>2. edits \in 0 .. MaxEdits /\ MaxEdits \in Nat
  BY BoundsAssumption DEF TypeOK
<1> QED
  BY <1>1, <1>2

\* The changes of files keep the types.
LEMMA EnvironmentTypes ==
    ASSUME TypeOK, Environment
    PROVE  TypeOK'
<1>1. ASSUME NEW f \in Files, NEW c \in Contents, Write(f, c) \/ Create(f, c)
      PROVE  TypeOK'
  <2>1. disk' \in MaybeFiles
    <3>1. disk' = [disk EXCEPT ![f] = c]
      BY <1>1 DEF Write, Create
    <3> QED
      BY <3>1 DEF TypeOK, MaybeFiles
  <2>2. edits' \in 0 .. MaxEdits
    BY <1>1, EditBound DEF Write, Create
  <2>3. WatchTypeOK'
    <3>1. CASE Write(f, c)
      BY <3>1 DEF Write, TypeOK, WatchTypeOK
    <3>2. CASE Create(f, c)
      BY <3>2 DEF Create, TypeOK, WatchTypeOK
    <3> QED
      BY <1>1, <3>1, <3>2
  <2> QED
    BY <1>1, <2>1, <2>2, <2>3
       DEF Write, Create, EditFrame, TypeOK, WatchTypeOK, scanVars, genVars
<1>2. ASSUME NEW f \in Files, Remove(f)
      PROVE  TypeOK'
  <2>1. disk' \in MaybeFiles
    BY <1>2 DEF Remove, TypeOK, MaybeFiles
  <2>2. edits' \in 0 .. MaxEdits
    BY <1>2, EditBound DEF Remove
  <2>3. WatchTypeOK'
    BY <1>2 DEF Remove, TypeOK, WatchTypeOK
  <2> QED
    BY <1>2, <2>1, <2>2, <2>3 DEF Remove, EditFrame, TypeOK, WatchTypeOK, scanVars, genVars
<1>3. \A f \in Files : Holds[f] \in SUBSET Contents
  BY ContentsAssumption
<1> QED
  BY <1>1, <1>2, <1>3 DEF Environment

\* Beginning to reload keeps them.
LEMMA ReloadScanTypes ==
    ASSUME TypeOK, NEW hard \in BOOLEAN, ReloadScan(hard)
    PROVE  /\ setting' \in BOOLEAN
           /\ loading' \in [step : {"idle", "scanned", "read"}, hard : BOOLEAN,
                            scanned : SUBSET Files, hash : MaybeFiles, files : MaybeFiles]
           /\ rejected' \in SUBSET Files
<1>1. /\ Reach(disk) \in SUBSET Files
      /\ Hashes(disk, Reach(disk)) \in MaybeFiles
      /\ NoFiles \in MaybeFiles
  BY ScanTypes DEF TypeOK
<1> QED
  BY <1>1 DEF TypeOK, ReloadScan, Idle

\* The events of watchers keep them.
LEMMA WatchersTypes ==
    ASSUME TypeOK, Watchers
    PROVE  TypeOK'
<1>1. ASSUME NEW g \in Gens, FilesChanged(g)
      PROVE  /\ setting' \in BOOLEAN
             /\ loading' \in [step : {"idle", "scanned", "read"}, hard : BOOLEAN,
                              scanned : SUBSET Files, hash : MaybeFiles, files : MaybeFiles]
             /\ rejected' \in SUBSET Files
  BY <1>1, ReloadScanTypes DEF FilesChanged, TypeOK
<1>2. ASSUME NEW g \in Gens, NEW f \in Files, OnFileChanged(g, f)
      PROVE  TypeOK'
  <2>1. WatchTypeOK'
    BY <1>2 DEF OnFileChanged, FileEvent, TypeOK, WatchTypeOK
  <2>2. FilesChanged(g) \/ UNCHANGED <<setting, loading, rejected>>
    BY <1>2 DEF OnFileChanged
  <2> QED
    BY <1>1, <1>2, <2>1, <2>2
       DEF OnFileChanged, FileEvent, EventFrame, TypeOK, WatchTypeOK, scanVars, genVars
<1>3. ASSUME NEW g \in Gens, NEW f \in Files, OnFileRemoved(g, f)
      PROVE  TypeOK'
  <2>1. WatchTypeOK'
    BY <1>3 DEF OnFileRemoved, FileEvent, TypeOK, WatchTypeOK
  <2> QED
    BY <1>3, <2>1 DEF OnFileRemoved, FileEvent, EventFrame, TypeOK, WatchTypeOK, scanVars, genVars
<1>4. ASSUME NEW g \in Gens, OnDirectoryChanged(g)
      PROVE  TypeOK'
  <2>1. WatchTypeOK'
    BY <1>4 DEF OnDirectoryChanged, TypeOK, WatchTypeOK
  <2>2. FilesChanged(g) \/ UNCHANGED <<setting, loading, rejected>>
    BY <1>4 DEF OnDirectoryChanged
  <2> QED
    BY <1>1, <1>4, <2>1, <2>2
       DEF OnDirectoryChanged, EventFrame, TypeOK, WatchTypeOK, scanVars, genVars
<1> QED
  BY <1>2, <1>3, <1>4 DEF Watchers

\* The calls of QML and of other processes keep them.
LEMMA CallTypes ==
    ASSUME TypeOK,
           \/ \E hard \in BOOLEAN : Reload(hard)
           \/ \E on \in BOOLEAN : SetWatchFiles(on)
    PROVE  TypeOK'
<1>1. ASSUME calls < MaxCalls, calls' = calls + 1
      PROVE  calls' \in 0 .. MaxCalls
  BY <1>1, BoundsAssumption DEF TypeOK
<1>2. ASSUME NEW hard \in BOOLEAN, Reload(hard)
      PROVE  TypeOK'
  BY <1>1, <1>2, ReloadScanTypes DEF Reload, TypeOK, scanVars, genVars, watchVars
<1>3. ASSUME NEW on \in BOOLEAN, SetWatchFiles(on)
      PROVE  TypeOK'
  <2>1. WatchTypeOK'
    <3>1. CASE current = 0
      BY <1>3, <3>1 DEF SetWatchFiles, TypeOK, WatchTypeOK, watchVars
    <3>2. CASE current # 0
      <4>1. current \in Gens /\ SetWatchingFiles(current, on)
        BY <1>3, <3>2, BoundsAssumption DEF SetWatchFiles, TypeOK, Gens
      <4>2. scanned[current] \cup extra[current] \in SUBSET Files /\ WatchTypeOK
        BY <4>1 DEF TypeOK, WatchTypeOK
      <4> QED
        BY <4>1, <4>2, WatcherTypes
    <3> QED
      BY <3>1, <3>2
  <2>2. setting' \in BOOLEAN
    BY <1>3 DEF SetWatchFiles
  <2> QED
    BY <1>1, <1>3, <2>1, <2>2
       DEF SetWatchFiles, TypeOK, WatchTypeOK, scanVars, genVars, watchVars
<1> QED
  BY <1>2, <1>3

\* The end of reloadGraph keeps them.
LEMMA ReloadLoadTypes ==
    ASSUME TypeOK, ReloadLoad
    PROVE  TypeOK'
<1>0. /\ loading.scanned \in SUBSET Files /\ loading.hash \in MaybeFiles
      /\ loading.files \in MaybeFiles /\ loading.hard \in BOOLEAN
      /\ loading.step \in {"idle", "scanned", "read"}
      /\ disk \in MaybeFiles
      /\ WatchTypeOK
  BY DEF TypeOK, WatchTypeOK
<1>1. Idle \in [step : {"idle", "scanned", "read"}, hard : BOOLEAN,
                scanned : SUBSET Files, hash : MaybeFiles, files : MaybeFiles]
  BY <1>0, ScanTypes DEF Idle
<1>2. CASE ReloadRead
  <2>1. loading' \in [step : {"idle", "scanned", "read"}, hard : BOOLEAN,
                      scanned : SUBSET Files, hash : MaybeFiles, files : MaybeFiles]
    BY <1>0, <1>2 DEF ReloadRead, TypeOK
  <2> QED
    BY <1>2, <2>1 DEF ReloadRead, TypeOK, scanVars, genVars, watchVars
<1>3. CASE LoadFails
  <2>1. CASE current = 0
    BY <1>1, <1>3, <2>1 DEF LoadFails, TypeOK, scanVars, genVars, watchVars
  <2>2. CASE current # 0
    <3>1. PICK new \in SUBSET Files :
            /\ extra' = [extra EXCEPT ![current] = new]
            /\ hash' = [hash EXCEPT ![current] =
                           [f \in Files |-> IF f \in new /\ disk[f] # Absent
                                            THEN disk[f] ELSE @[f]]]
            /\ IF watcher[current] THEN NewWatcher(current, scanned[current] \cup new)
               ELSE UNCHANGED watchVars
            /\ UNCHANGED <<scanned, loaded>>
      BY <1>0, <1>3, <2>2 DEF LoadFails
    <3>2. current \in Gens
      BY <2>2, BoundsAssumption DEF TypeOK, Gens
    <3>3. extra' \in [Gens -> SUBSET Files]
      BY <3>1, <3>2 DEF TypeOK
    <3>4. hash' \in [Gens -> MaybeFiles]
      <4>1. hash[current] \in MaybeFiles /\ hash \in [Gens -> MaybeFiles]
        BY <3>2 DEF TypeOK
      <4>2. [f \in Files |-> IF f \in new /\ disk[f] # Absent
                             THEN disk[f] ELSE hash[current][f]] \in MaybeFiles
        BY <1>0, <4>1 DEF MaybeFiles
      <4> QED
        BY <3>1, <4>1, <4>2
    <3>5. WatchTypeOK'
      <4>1. scanned[current] \cup new \in SUBSET Files
        BY <3>2 DEF TypeOK
      <4>2. scanned[current] \cup extra[current] \in SUBSET Files
        BY <3>2 DEF TypeOK
      <4> QED
        BY <1>0, <3>1, <3>2, <4>1, <4>2, WatcherTypes DEF watchVars, WatchTypeOK
    <3> QED
      BY <1>1, <1>3, <3>1, <3>3, <3>4, <3>5 DEF LoadFails, TypeOK, WatchTypeOK, genVars
  <2> QED
    BY <2>1, <2>2
<1>4. ASSUME NEW n \in Gens, NEW quits \in BOOLEAN, LoadSucceeds(n, quits)
      PROVE  TypeOK'
  <2>1. setting' \in BOOLEAN
    BY <1>4 DEF LoadSucceeds, TypeOK
  <2>2. root' \in [Gens -> BOOLEAN]
    BY <1>4 DEF LoadSucceeds, TypeOK
  <2>3. after' \in [Gens -> 0 .. MaxGen]
    BY <1>4 DEF LoadSucceeds, TypeOK
  <2>4. status' \in [Gens -> {"unused", "live", "dying", "freed"}]
    BY <1>4 DEF LoadSucceeds, TypeOK
  <2>5. terminate' \in [Gens -> BOOLEAN]
    BY <1>4 DEF LoadSucceeds, TypeOK
  <2>6. deferred' \in Seq(Gens)
    <3>1. PICK one \in Seq(Gens), two \in Seq(Gens) : deferred' = deferred \o one \o two
      <4>1. current # 0 => current \in Gens
        BY BoundsAssumption DEF TypeOK, Gens
      <4>2. <<n>> \in Seq(Gens) /\ <<>> \in Seq(Gens) /\ (current # 0 => <<current>> \in Seq(Gens))
        BY <4>1
      <4> QED
        BY <1>4, <4>2 DEF LoadSucceeds
    <3>2. deferred \in Seq(Gens)
      BY DEF TypeOK
    <3>3. deferred \o one \in Seq(Gens)
      BY <3>1, <3>2, ConcatProperties
    <3> QED
      BY <3>1, <3>3, ConcatProperties
  <2>7. posted' \in [Gens -> BOOLEAN]
    <3>1. PICK rootSet, waits :
            \/ posted' = PostReload(posted, rootSet, n)
            \/ posted' = PostAfter(posted, rootSet, current, waits)
            \/ posted' = posted
      BY <1>4 DEF LoadSucceeds
    <3> QED
      BY <3>1 DEF PostReload, PostAfter, TypeOK
  <2>8. /\ scanned' = [scanned EXCEPT ![n] = loading.scanned]
        /\ hash' = [hash EXCEPT ![n] = loading.hash]
        /\ loaded' = [loaded EXCEPT ![n] = loading.files]
        /\ running' \in BOOLEAN
        /\ current' = n
        /\ loading' = Idle
        /\ UNCHANGED <<disk, extra, deleted, rejected, edits, calls>>
    BY <1>4 DEF LoadSucceeds
  <2>9. WatchTypeOK'
    <3>1. watcher' \in [Gens -> BOOLEAN] /\ dirty' \in [Gens -> BOOLEAN]
      BY <1>4 DEF LoadSucceeds, TypeOK
    <3>2. /\ watched' \in [Gens -> SUBSET Files]
          /\ changed' \in [Gens -> SUBSET Files]
          /\ removed' \in [Gens -> SUBSET Files]
      BY <1>0, <1>4 DEF LoadSucceeds, TypeOK
    <3> QED
      BY <2>8, <3>1, <3>2 DEF TypeOK, WatchTypeOK
  <2>10. n \in 0 .. MaxGen
    BY BoundsAssumption DEF Gens
  <2> QED
    BY <1>0, <1>1, <2>1, <2>2, <2>3, <2>4, <2>5, <2>6, <2>7, <2>8, <2>9, <2>10
       DEF TypeOK, WatchTypeOK
<1> QED
  BY <1>2, <1>3, <1>4 DEF ReloadLoad

\* What quit does to a generation that is not ending yet.
LEMMA QuitEffect ==
    ASSUME TypeOK, NEW g \in Gens, Quit(g), status[g] # "dying"
    PROVE  /\ DropWatcher(g)
           /\ root' = [root EXCEPT ![g] = FALSE]
           /\ terminate' = [terminate EXCEPT ![g] = TRUE]
           /\ \/ /\ root[g]
                 /\ status' = [status EXCEPT ![g] = "dying"]
                 /\ deferred' = Append(deferred, g)
                 /\ UNCHANGED <<running, current, posted>>
              \/ /\ ~root[g]
                 /\ status' = [status EXCEPT ![g] = "freed"]
                 /\ current' = IF current = g THEN 0 ELSE current
                 /\ posted' = PostAfter(posted, root, g, after)
                 /\ running' = FALSE
                 /\ deferred' = deferred
<1>1. CASE root[g] = TRUE
  BY <1>1 DEF Quit
<1>2. CASE root[g] = FALSE
  BY <1>2 DEF Quit
<1> QED
  BY <1>1, <1>2 DEF TypeOK

\* The end of a generation keeps them.
LEMMA EndTypes ==
    ASSUME TypeOK,
           \/ RootDestroyed
           \/ \E g \in Gens : Quit(g)
    PROVE  TypeOK'
<1>1. ASSUME NEW g \in Gens, DropWatcher(g)
      PROVE  WatchTypeOK'
  BY <1>1 DEF DropWatcher, TypeOK, WatchTypeOK
<1>2. ASSUME NEW g
      PROVE  PostAfter(posted, root, g, after) \in [Gens -> BOOLEAN]
  BY DEF PostAfter, TypeOK
<1>3. CASE RootDestroyed
  <2>1. PICK g \in Gens :
          /\ status' = [status EXCEPT ![g] = "freed"]
          /\ posted' = PostAfter(posted, root, g, after)
          /\ current' = IF current = g THEN 0 ELSE current
          /\ running' = ~terminate[g]
          /\ DropWatcher(g)
          /\ deferred' \in Seq(Gens)
    BY <1>3, HeadTailProperties DEF RootDestroyed, TypeOK
  <2>2. WatchTypeOK' /\ posted' \in [Gens -> BOOLEAN] /\ running' \in BOOLEAN
    BY <1>1, <1>2, <2>1
  <2>3. current' \in 0 .. MaxGen
    BY <2>1, BoundsAssumption DEF TypeOK
  <2> QED
    BY <1>3, <2>1, <2>2, <2>3 DEF RootDestroyed, TypeOK, WatchTypeOK, scanVars
<1>4. ASSUME NEW g \in Gens, Quit(g)
      PROVE  TypeOK'
  <2>1. CASE status[g] = "dying"
    BY <1>4, <2>1 DEF Quit, TypeOK, scanVars, watchVars
  <2>2. CASE status[g] # "dying"
    <3>1. WatchTypeOK'
      BY <1>1, <1>4, <2>2, QuitEffect
    <3>2. status' \in [Gens -> {"unused", "live", "dying", "freed"}]
      BY <1>4, <2>2, QuitEffect DEF TypeOK
    <3>3. deferred' \in Seq(Gens)
      <4>1. deferred' = Append(deferred, g) \/ deferred' = deferred
        BY <1>4, <2>2, QuitEffect
      <4>2. deferred \in Seq(Gens)
        BY DEF TypeOK
      <4> QED
        BY <4>1, <4>2, AppendProperties
    <3>4. posted' \in [Gens -> BOOLEAN] /\ current' \in 0 .. MaxGen /\ running' \in BOOLEAN
      <4>1. \/ UNCHANGED <<running, current, posted>>
            \/ /\ current' = IF current = g THEN 0 ELSE current
               /\ posted' = PostAfter(posted, root, g, after)
               /\ running' = FALSE
        BY <1>4, <2>2, QuitEffect
      <4>2. 0 \in 0 .. MaxGen
        BY BoundsAssumption
      <4>3. posted \in [Gens -> BOOLEAN] /\ current \in 0 .. MaxGen /\ running \in BOOLEAN
        BY DEF TypeOK
      <4>4. PostAfter(posted, root, g, after) \in [Gens -> BOOLEAN]
        BY <1>2
      <4> QED
        BY <4>1, <4>2, <4>3, <4>4
    <3>5. root' \in [Gens -> BOOLEAN] /\ terminate' \in [Gens -> BOOLEAN]
      BY <1>4, <2>2, QuitEffect DEF TypeOK
    <3> QED
      BY <1>4, <3>1, <3>2, <3>3, <3>4, <3>5 DEF Quit, TypeOK, WatchTypeOK, scanVars
  <2> QED
    BY <2>1, <2>2
<1> QED
  BY <1>3, <1>4

\* Killing the shell ends a generation or nothing but the shell.
LEMMA KillQuits ==
    ASSUME NEW popup \in BOOLEAN, Kill(popup)
    PROVE  /\ loading = Idle
           /\ \/ \E g \in Gens : g \in Live /\ Quit(g)
              \/ /\ running' = FALSE
                 /\ UNCHANGED <<disk, scanVars, watchVars, genVars, current, setting, loading,
                                rejected, edits, calls>>
<1>1. OnlyGeneration(popup) # 0 => OnlyGeneration(popup) \in Live
  <2>1. ASSUME Cardinality(Live) = 1
        PROVE  (CHOOSE g \in Live : TRUE) \in Live
    <3>1. Live # {}
      BY <2>1, FS_EmptySet
    <3> QED
      BY <3>1
  <2> QED
    BY <2>1 DEF OnlyGeneration
<1>2. Live \in SUBSET Gens
  BY DEF Live
<1> QED
  BY <1>1, <1>2 DEF Kill

\* Every variable has its type, for any files, contents and bounds.
THEOREM ReloadTypeCorrect == Spec => []TypeOK
<1>1. TypeOK /\ [Next]_vars => TypeOK'
  <2> SUFFICES ASSUME TypeOK, [Next]_vars PROVE TypeOK'
    OBVIOUS
  <2>1. ASSUME NEW popup \in BOOLEAN, Kill(popup) PROVE TypeOK'
    <3>1. CASE \E g \in Gens : Quit(g)
      BY <3>1, EndTypes
    <3>2. CASE running' = FALSE /\ UNCHANGED <<disk, scanVars, watchVars, genVars, current,
                                               setting, loading, rejected, edits, calls>>
      BY <3>2 DEF TypeOK, scanVars, watchVars, genVars
    <3> QED
      BY <2>1, <3>1, <3>2, KillQuits
  <2>2. CASE QuitFromQml
    BY <2>2, EndTypes DEF QuitFromQml, Live
  <2>3. CASE UNCHANGED vars
    BY <2>3 DEF TypeOK, vars, scanVars, watchVars, genVars
  <2> QED
    BY <2>1, <2>2, <2>3, EnvironmentTypes, WatchersTypes, ReloadLoadTypes, CallTypes, EndTypes
       DEF Next, Terminated
<1> QED
  BY <1>1, InitTypes, PTL DEF Spec

-----------------------------------------------------------------------------
(* Generations.                                                            *)

\* The end of the current generation is the end of the shell.
DyingEndsShell == current # 0 /\ status[current] = "dying" => terminate[current]

SafeInv ==
    /\ TypeOK
    /\ DestroyedOnce
    /\ CurrentExists
    /\ DyingEndsShell

\* DestroyedOnce, in terms of queues.
LEMMA DestroyedOnceQueued ==
    DestroyedOnce <=> /\ \A g \in Gens : status[g] = "dying" <=> Queued(deferred, g)
                      /\ Once(deferred)
                      /\ \A g \in Gens : root[g] => status[g] = "live"
BY DEF DestroyedOnce, Queued, Once

\* The invariant speaks of these variables, which other handlers leave alone.
LEMMA SafeFrame ==
    ASSUME SafeInv, TypeOK', UNCHANGED <<status, root, deferred, current, terminate>>,
           running' => running
    PROVE  SafeInv'
<1>1. DestroyedOnce'
  BY DEF SafeInv, DestroyedOnce
<1>2. CurrentExists'
  BY DEF SafeInv, CurrentExists
<1>3. DyingEndsShell'
  BY DEF SafeInv, DyingEndsShell
<1> QED
  BY <1>1, <1>2, <1>3 DEF SafeInv

\* The shell starts with its first generation.
LEMMA InitSafe == Init => SafeInv
<1> SUFFICES ASSUME Init PROVE SafeInv
  OBVIOUS
<1>1. TypeOK /\ 1 \in Gens
  BY InitTypes, BoundsAssumption DEF Gens
<1>2. \A g \in Gens : ~Queued(<<>>, g)
  BY DEF Queued
<1>3. Once(<<>>)
  BY DEF Once
<1>4. DestroyedOnce
  BY <1>1, <1>2, <1>3, DestroyedOnceQueued DEF Init
<1> QED
  BY <1>1, <1>4 DEF SafeInv, Init, CurrentExists, DyingEndsShell

\* What a reload that succeeds does to the generation it replaces.
LEMMA LoadEffect ==
    ASSUME SafeInv, NEW n \in Gens, NEW quits \in BOOLEAN, LoadSucceeds(n, quits)
    PROVE  LET ends == status[current] = "live"
               one == IF quits THEN <<n>> ELSE <<>>
               two == IF ends /\ root[current] THEN <<current>> ELSE <<>>
           IN /\ status[n] = "unused" /\ n # current /\ current \in Gens
              /\ status' = [g \in Gens |->
                     IF g = n THEN IF quits THEN "dying" ELSE "live"
                     ELSE IF g = current /\ ends THEN IF root[g] THEN "dying" ELSE "freed"
                     ELSE status[g]]
              /\ root'[n] => quits = FALSE
              /\ \A g \in Gens \ {n} : root'[g] => root[g] /\ ~(g = current /\ ends)
              /\ deferred' = deferred \o one \o two
              /\ current' = n
              /\ terminate' = [terminate EXCEPT ![n] = quits]
<1>1. running /\ status[n] = "unused"
  BY DEF LoadSucceeds
<1>2. current \in Gens /\ n # current
  BY <1>1, BoundsAssumption DEF SafeInv, CurrentExists, TypeOK, Gens
<1>3. current' = n /\ terminate' = [terminate EXCEPT ![n] = quits]
  BY DEF LoadSucceeds
<1> DEFINE live == IF current # 0 /\ status[current] = "live" THEN {current} ELSE {}
           freed == {g \in live : ~root[g]}
           queued == {g \in live : root[g]}
<1>4. /\ status' = [g \in Gens |-> IF g \in freed THEN "freed"
                                   ELSE IF g \in (IF quits THEN {n} ELSE {}) \cup queued THEN "dying"
                                   ELSE IF g = n THEN "live" ELSE status[g]]
      /\ deferred' = deferred \o (IF quits THEN <<n>> ELSE <<>>)
                              \o (IF queued # {} THEN <<current>> ELSE <<>>)
      /\ \E created \in BOOLEAN :
            root' = [g \in Gens |-> IF g = n THEN created /\ ~quits ELSE root[g] /\ g \notin live]
  BY DEF LoadSucceeds
<1>5. live = IF status[current] = "live" THEN {current} ELSE {}
  BY <1>2, BoundsAssumption DEF Gens
<1>6. /\ n \notin live
      /\ \A g \in Gens : g \in live <=> g = current /\ status[current] = "live"
      /\ \A g \in Gens : g \in freed <=> g = current /\ status[current] = "live" /\ ~root[g]
      /\ \A g \in Gens : g \in queued <=> g = current /\ status[current] = "live" /\ root[g]
      /\ queued # {} <=> status[current] = "live" /\ root[current]
  BY <1>2, <1>5
<1> HIDE DEF live, freed, queued
<1>7. status' = [g \in Gens |->
                     IF g = n THEN IF quits THEN "dying" ELSE "live"
                     ELSE IF g = current /\ status[current] = "live"
                          THEN IF root[g] THEN "dying" ELSE "freed"
                     ELSE status[g]]
  BY <1>2, <1>4, <1>6
<1>8. /\ root'[n] => quits = FALSE
      /\ \A g \in Gens \ {n} : root'[g] => root[g] /\ ~(g = current /\ status[current] = "live")
  BY <1>4, <1>6
<1>9. deferred' = deferred \o (IF quits THEN <<n>> ELSE <<>>)
              \o (IF status[current] = "live" /\ root[current] THEN <<current>> ELSE <<>>)
  BY <1>4, <1>6
<1> QED
  BY <1>1, <1>2, <1>3, <1>7, <1>8, <1>9

\* A reload that succeeds ends the generation it replaces, once.
LEMMA LoadSucceedsSafe ==
    ASSUME SafeInv, TypeOK', NEW n \in Gens, NEW quits \in BOOLEAN, LoadSucceeds(n, quits)
    PROVE  SafeInv'
<1> DEFINE ends == status[current] = "live"
           one == IF quits THEN <<n>> ELSE <<>>
           two == IF ends /\ root[current] THEN <<current>> ELSE <<>>
<1>1. /\ status[n] = "unused" /\ n # current /\ current \in Gens
      /\ status' = [g \in Gens |->
             IF g = n THEN IF quits THEN "dying" ELSE "live"
             ELSE IF g = current /\ ends THEN IF root[g] THEN "dying" ELSE "freed"
             ELSE status[g]]
      /\ root'[n] => quits = FALSE
      /\ \A g \in Gens \ {n} : root'[g] => root[g] /\ ~(g = current /\ ends)
      /\ deferred' = deferred \o one \o two
      /\ current' = n
      /\ terminate' = [terminate EXCEPT ![n] = quits]
  BY LoadEffect
<1>2. /\ deferred \in Seq(Gens) /\ Once(deferred)
      /\ \A g \in Gens : status[g] = "dying" <=> Queued(deferred, g)
      /\ \A g \in Gens : root[g] => status[g] = "live"
  BY DestroyedOnceQueued DEF SafeInv, TypeOK
<1>3. \A g \in Gens : status[g] = "live" => g = current
  BY DEF SafeInv, CurrentExists
<1> DEFINE s == deferred \o one
<1>4. /\ s \in Seq(Gens) /\ Once(s)
      /\ \A g \in Gens : Queued(s, g) <=> Queued(deferred, g) \/ (quits /\ g = n)
  <2>1. CASE quits = TRUE
    <3>1. ~Queued(deferred, n) /\ s = deferred \o <<n>>
      BY <1>1, <1>2, <2>1
    <3> QED
      BY <1>2, <2>1, <3>1, ConcatOnce
  <2>2. CASE quits = FALSE
    <3>1. s = deferred
      BY <1>2, <2>2, ConcatEmptySeq
    <3> QED
      BY <1>2, <2>2, <3>1
  <2> QED
    BY <2>1, <2>2
<1>5. /\ Once(s \o two)
      /\ \A g \in Gens : Queued(s \o two, g)
                             <=> Queued(s, g) \/ (ends /\ root[current] /\ g = current)
  <2>1. CASE ends /\ root[current]
    <3>1. ~Queued(s, current) /\ two = <<current>>
      BY <1>1, <1>2, <1>4, <2>1
    <3>2. /\ Once(s \o <<current>>)
          /\ \A g : Queued(s \o <<current>>, g) <=> Queued(s, g) \/ g = current
      <4> HIDE DEF s, two
      <4> QED
        BY <1>1, <1>4, <3>1, ConcatOnce
    <3> QED
      BY <2>1, <3>1, <3>2
  <2>2. CASE ~(ends /\ root[current])
    <3>1. s \o two = s
      BY <1>4, <2>2, ConcatEmptySeq
    <3> QED
      BY <1>4, <2>2, <3>1
  <2> QED
    BY <2>1, <2>2
<1>6. deferred' = s \o two
  BY <1>1
<1> HIDE DEF s, two
<1>7. \A g \in Gens : status'[g] = "dying" <=> Queued(deferred', g)
  BY <1>1, <1>2, <1>4, <1>5, <1>6
<1>8. \A g \in Gens : root'[g] => status'[g] = "live"
  BY <1>1, <1>2, <1>3
<1>9. DestroyedOnce'
  BY <1>5, <1>6, <1>7, <1>8 DEF DestroyedOnce, Queued, Once
<1>10. CurrentExists'
  <2>1. \A g \in Gens : status'[g] = "live" => g = n
    BY <1>1, <1>3
  <2>2. status'[n] \in {"live", "dying"} /\ n # 0
    BY <1>1, BoundsAssumption DEF Gens
  <2> QED
    BY <1>1, <2>1, <2>2 DEF CurrentExists
<1>11. DyingEndsShell'
  <2>1. status'[n] = "dying" => quits = TRUE
    BY <1>1
  <2>2. terminate'[n] = quits
    BY <1>1 DEF SafeInv, TypeOK
  <2> QED
    BY <1>1, <2>1, <2>2 DEF DyingEndsShell
<1> QED
  BY <1>9, <1>10, <1>11 DEF SafeInv

\* The root of a generation is deleted when it leaves the queue.
LEMMA RootDestroyedSafe ==
    ASSUME SafeInv, TypeOK', RootDestroyed
    PROVE  SafeInv'
<1>1. /\ deferred \in Seq(Gens) /\ Once(deferred) /\ deferred # <<>>
      /\ \A g \in Gens : status[g] = "dying" <=> Queued(deferred, g)
      /\ \A g \in Gens : root[g] => status[g] = "live"
  BY DestroyedOnceQueued DEF SafeInv, TypeOK, RootDestroyed
<1>2. PICK g : g = Head(deferred)
  OBVIOUS
<1>3. /\ status' = [status EXCEPT ![g] = "freed"]
      /\ current' = IF current = g THEN 0 ELSE current
      /\ running' = ~terminate[g]
      /\ deferred' = Tail(deferred)
      /\ root' = root /\ terminate' = terminate
  BY <1>2 DEF RootDestroyed
<1>4. /\ g \in Gens /\ Queued(deferred, g) /\ Once(deferred')
      /\ \A h : Queued(deferred', h) <=> Queued(deferred, h) /\ h # g
  BY <1>1, <1>2, <1>3, TailOnce
<1>5. status[g] = "dying" /\ \A h \in Gens : status'[h] = IF h = g THEN "freed" ELSE status[h]
  BY <1>1, <1>3, <1>4 DEF SafeInv, TypeOK
<1>6. DestroyedOnce'
  <2>1. \A h \in Gens : status'[h] = "dying" <=> Queued(deferred', h)
    BY <1>1, <1>4, <1>5
  <2>2. \A h \in Gens : root'[h] => status'[h] = "live"
    BY <1>1, <1>3, <1>5
  <2> QED
    BY <1>4, <2>1, <2>2 DEF DestroyedOnce, Queued, Once
<1>7. CurrentExists'
  <2>1. CASE current = g
    <3>1. g # 0 /\ terminate[g]
      BY <1>4, <1>5, <2>1, BoundsAssumption DEF SafeInv, DyingEndsShell, Gens
    <3>2. \A h \in Gens : status'[h] # "live"
      BY <1>5, <2>1 DEF SafeInv, CurrentExists
    <3>3. current' = 0 /\ running' = FALSE
      BY <1>3, <2>1, <3>1
    <3> QED
      BY <3>2, <3>3 DEF CurrentExists
  <2>2. CASE current # g
    <3>1. current # 0 => current \in Gens
      BY BoundsAssumption DEF SafeInv, TypeOK, Gens
    <3>2. running
      BY DEF RootDestroyed
    <3> QED
      BY <1>3, <1>5, <2>2, <3>1, <3>2 DEF SafeInv, CurrentExists
  <2> QED
    BY <2>1, <2>2
<1>8. DyingEndsShell'
  <2>1. current' # 0 => current' = current /\ current \in Gens
    BY <1>3, BoundsAssumption DEF SafeInv, TypeOK, Gens
  <2> QED
    BY <1>3, <1>5, <2>1 DEF SafeInv, DyingEndsShell
<1> QED
  BY <1>6, <1>7, <1>8 DEF SafeInv

\* A generation that quits is queued if it was not, and takes the shell down.
LEMMA QuitSafe ==
    ASSUME SafeInv, TypeOK', NEW g \in Live, Quit(g)
    PROVE  SafeInv'
<1>1. /\ deferred \in Seq(Gens) /\ Once(deferred) /\ g \in Gens
      /\ \A h \in Gens : status[h] = "dying" <=> Queued(deferred, h)
      /\ \A h \in Gens : root[h] => status[h] = "live"
  BY DestroyedOnceQueued DEF SafeInv, TypeOK, Live
<1>2. terminate' = [terminate EXCEPT ![g] = TRUE]
  BY DEF Quit
<1>3. CASE status[g] = "dying"
  <2>1. UNCHANGED <<status, root, deferred, running, current>>
    BY <1>3 DEF Quit
  <2>2. DestroyedOnce' /\ CurrentExists'
    BY <2>1 DEF SafeInv, DestroyedOnce, CurrentExists
  <2>3. DyingEndsShell'
    BY <1>1, <1>2, <2>1 DEF SafeInv, DyingEndsShell, TypeOK
  <2> QED
    BY <2>2, <2>3 DEF SafeInv
<1>4. CASE status[g] # "dying"
  <2>1. status[g] = "live" /\ g = current /\ current # 0
    BY <1>1, <1>4, BoundsAssumption DEF SafeInv, CurrentExists, Live, Gens
  <2>2. \A h \in Gens : root'[h] => root[h] /\ h # g
    <3>1. root' = [root EXCEPT ![g] = FALSE]
      BY <1>1, <1>4, QuitEffect DEF SafeInv
    <3> QED
      BY <1>1, <3>1 DEF SafeInv, TypeOK
  <2>3. CASE /\ status' = [status EXCEPT ![g] = "dying"]
             /\ deferred' = Append(deferred, g)
             /\ UNCHANGED <<running, current>>
    <3>1. ~Queued(deferred, g)
      BY <1>1, <1>4
    <3>2. Once(deferred') /\ \A h : Queued(deferred', h) <=> Queued(deferred, h) \/ h = g
      <4>1. /\ Append(deferred, g) = deferred \o <<g>>
            /\ Once(deferred \o <<g>>)
            /\ \A h : Queued(deferred \o <<g>>, h) <=> Queued(deferred, h) \/ h = g
        BY <1>1, <3>1, ConcatOnce
      <4> QED
        BY <2>3, <4>1
    <3>3. \A h \in Gens : status'[h] = IF h = g THEN "dying" ELSE status[h]
      BY <2>3 DEF SafeInv, TypeOK
    <3>4. \A h \in Gens : status'[h] = "dying" <=> Queued(deferred', h)
      BY <1>1, <3>2, <3>3
    <3>5. \A h \in Gens : root'[h] => status'[h] = "live"
      BY <1>1, <2>2, <3>3
    <3>6. DestroyedOnce'
      BY <3>2, <3>4, <3>5 DEF DestroyedOnce, Queued, Once
    <3>7. CurrentExists'
      BY <1>1, <2>1, <2>3, <3>3 DEF SafeInv, CurrentExists
    <3>8. DyingEndsShell'
      BY <1>1, <1>2, <2>1, <2>3 DEF SafeInv, TypeOK, DyingEndsShell
    <3> QED
      BY <3>6, <3>7, <3>8 DEF SafeInv
  <2>4. CASE /\ status' = [status EXCEPT ![g] = "freed"]
             /\ current' = IF current = g THEN 0 ELSE current
             /\ running' = FALSE
             /\ deferred' = deferred
    <3>1. \A h \in Gens : status'[h] = IF h = g THEN "freed" ELSE status[h]
      BY <2>4 DEF SafeInv, TypeOK
    <3>2. \A h \in Gens : status'[h] = "dying" <=> Queued(deferred', h)
      BY <1>1, <1>4, <2>4, <3>1
    <3>3. \A h \in Gens : root'[h] => status'[h] = "live"
      BY <1>1, <2>2, <3>1
    <3>4. DestroyedOnce'
      BY <1>1, <2>4, <3>2, <3>3 DEF DestroyedOnce, Queued, Once
    <3>5. CurrentExists' /\ DyingEndsShell'
      BY <2>1, <2>4, <3>1 DEF SafeInv, CurrentExists, DyingEndsShell
    <3> QED
      BY <3>4, <3>5 DEF SafeInv
  <2>5. TypeOK
    BY DEF SafeInv
  <2> QED
    BY <1>1, <1>4, <2>3, <2>4, <2>5, QuitEffect
<1> QED
  BY <1>3, <1>4

\* Every step keeps the invariant.
LEMMA NextSafe ==
    ASSUME SafeInv, TypeOK', [Next]_vars
    PROVE  SafeInv'
<1>1. CASE Environment
  <2>1. EditFrame
    BY <1>1 DEF Environment, Write, Create, Remove
  <2> QED
    BY <2>1, SafeFrame DEF EditFrame, genVars
<1>2. CASE Watchers
  <2>1. EventFrame
    BY <1>2 DEF Watchers, OnFileChanged, OnFileRemoved, OnDirectoryChanged, FileEvent
  <2> QED
    BY <2>1, SafeFrame DEF EventFrame, genVars
<1>3. CASE ReloadRead \/ LoadFails
  BY <1>3, SafeFrame DEF ReloadRead, LoadFails, genVars
<1>4. ASSUME NEW n \in Gens, NEW quits \in BOOLEAN, LoadSucceeds(n, quits)
      PROVE  SafeInv'
  BY <1>4, LoadSucceedsSafe
<1>5. ASSUME NEW hard \in BOOLEAN, Reload(hard)
      PROVE  SafeInv'
  BY <1>5, SafeFrame DEF Reload, genVars
<1>6. ASSUME NEW on \in BOOLEAN, SetWatchFiles(on)
      PROVE  SafeInv'
  BY <1>6, SafeFrame DEF SetWatchFiles, genVars
<1>7. CASE RootDestroyed
  BY <1>7, RootDestroyedSafe
<1>8. CASE QuitFromQml
  BY <1>8, QuitSafe DEF QuitFromQml
<1>9. ASSUME NEW popup \in BOOLEAN, Kill(popup)
      PROVE  SafeInv'
  <2>1. CASE \E g \in Gens : g \in Live /\ Quit(g)
    BY <2>1, QuitSafe
  <2>2. CASE running' = FALSE /\ UNCHANGED <<disk, scanVars, watchVars, genVars, current,
                                             setting, loading, rejected, edits, calls>>
    BY <2>2, SafeFrame DEF genVars
  <2> QED
    BY <1>9, <2>1, <2>2, KillQuits
<1>10. CASE UNCHANGED vars
  BY <1>10, SafeFrame DEF vars, genVars
<1> QED
  BY <1>1, <1>2, <1>3, <1>4, <1>5, <1>6, <1>7, <1>8, <1>9, <1>10
     DEF Next, ReloadLoad, Terminated

\* WatchesOnlyIfSet, during a reload as well: it is inductive, the property
\* itself is not.
WatchesSet == \A g \in Gens : status[g] = "live" /\ watcher[g] => setting

\* A step that begins a reload, or leaves the setting alone, and makes neither
\* a watcher nor a generation.
LEMMA WatchFrame ==
    ASSUME WatchesSet, setting => setting',
           \A g \in Gens : status'[g] = "live" /\ watcher'[g] => status[g] = "live" /\ watcher[g]
    PROVE  WatchesSet'
BY DEF WatchesSet

\* Dropping a watcher makes none.
LEMMA DropWatcherWatch ==
    ASSUME TypeOK, NEW g \in Gens, DropWatcher(g)
    PROVE  \A h \in Gens : watcher'[h] => watcher[h] /\ h # g
BY DEF DropWatcher, TypeOK

\* No step makes a live generation watch files against the setting.
LEMMA NextWatch ==
    ASSUME SafeInv, SafeInv', WatchesSet, [Next]_vars
    PROVE  WatchesSet'
<1>0. TypeOK /\ \A g \in Gens : status[g] = "live" => g = current
  BY DEF SafeInv, CurrentExists
<1>1. CASE Environment
  <2>1. UNCHANGED <<status, watcher, setting>>
    BY <1>1 DEF Environment, Write, Create, Remove, EditFrame, genVars
  <2> QED
    BY <2>1, WatchFrame
<1>2. ASSUME NEW hard, ReloadScan(hard)
      PROVE  setting => setting'
  BY <1>2 DEF ReloadScan
<1>3. CASE Watchers
  <2>1. UNCHANGED <<status, watcher>> /\ (setting => setting')
    BY <1>2, <1>3
       DEF Watchers, OnFileChanged, OnFileRemoved, OnDirectoryChanged, FileEvent, EventFrame,
           genVars, FilesChanged
  <2> QED
    BY <2>1, WatchFrame
<1>4. CASE ReloadRead
  BY <1>4, WatchFrame DEF ReloadRead, genVars, watchVars
<1>5. CASE LoadFails
  <2>1. UNCHANGED <<status, setting>>
    BY <1>5 DEF LoadFails, genVars
  <2>2. \A g \in Gens : watcher'[g] => watcher[g]
    <3>1. \/ watcher' = watcher
          \/ watcher[current] /\ watcher' = [watcher EXCEPT ![current] = TRUE]
      BY <1>5 DEF LoadFails, NewWatcher, watchVars
    <3> QED
      BY <1>0, <3>1 DEF TypeOK
  <2> QED
    BY <2>1, <2>2, WatchFrame
<1>6. ASSUME NEW n \in Gens, NEW quits \in BOOLEAN, LoadSucceeds(n, quits)
      PROVE  WatchesSet'
  <2>1. \A g \in Gens : status'[g] = "live" => g = n
    BY <1>6 DEF LoadSucceeds, SafeInv, CurrentExists
  <2>2. watcher'[n] = setting'
    BY <1>0, <1>6 DEF LoadSucceeds
  <2> QED
    BY <2>1, <2>2 DEF WatchesSet
<1>7. ASSUME NEW hard \in BOOLEAN, Reload(hard)
      PROVE  WatchesSet'
  BY <1>2, <1>7, WatchFrame DEF Reload, genVars, watchVars
<1>8. ASSUME NEW on \in BOOLEAN, SetWatchFiles(on)
      PROVE  WatchesSet'
  <2>1. setting' = on /\ status' = status
    BY <1>8 DEF SetWatchFiles, genVars
  <2>2. CASE on = TRUE
    BY <2>1, <2>2 DEF WatchesSet
  <2>3. CASE on = FALSE
    <3>1. \A g \in Gens : status[g] = "live" => ~watcher'[g]
      <4> SUFFICES ASSUME NEW g \in Gens, status[g] = "live"
                   PROVE  ~watcher'[g]
        OBVIOUS
      <4>1. g = current /\ current # 0
        BY <1>0, BoundsAssumption DEF Gens
      <4>2. SetWatchingFiles(g, FALSE)
        BY <1>8, <2>3, <4>1 DEF SetWatchFiles
      <4> QED
        BY <1>0, <4>2 DEF SetWatchingFiles, DropWatcher, watchVars, TypeOK
    <3> QED
      BY <2>1, <3>1 DEF WatchesSet
  <2> QED
    BY <2>2, <2>3
<1>9. CASE RootDestroyed
  <2>1. PICK g \in Gens : DropWatcher(g) /\ status' = [status EXCEPT ![g] = "freed"]
    BY <1>0, <1>9, HeadTailProperties DEF RootDestroyed, TypeOK
  <2>2. setting' = setting /\ \A h \in Gens : watcher'[h] => watcher[h] /\ h # g
    BY <1>0, <1>9, <2>1, DropWatcherWatch DEF RootDestroyed
  <2> QED
    BY <1>0, <2>1, <2>2, WatchFrame DEF TypeOK
<1>10. ASSUME NEW g \in Gens, Quit(g)
       PROVE  WatchesSet'
  <2>1. setting' = setting
    BY <1>10 DEF Quit
  <2>2. CASE status[g] = "dying"
    BY <1>10, <2>1, <2>2, WatchFrame DEF Quit, watchVars
  <2>3. CASE status[g] # "dying"
    <3>1. /\ \A h \in Gens : watcher'[h] => watcher[h] /\ h # g
          /\ \E later : status' = [status EXCEPT ![g] = later]
      BY <1>0, <1>10, <2>3, QuitEffect, DropWatcherWatch
    <3> QED
      BY <1>0, <2>1, <3>1, WatchFrame DEF TypeOK
  <2> QED
    BY <2>2, <2>3
<1>11. CASE UNCHANGED <<status, watcher, setting>>
  BY <1>11, WatchFrame
<1>12. ASSUME NEW popup \in BOOLEAN, Kill(popup)
       PROVE  WatchesSet'
  BY <1>10, <1>11, <1>12, KillQuits DEF genVars, watchVars
<1> QED
  BY <1>1, <1>3, <1>4, <1>5, <1>6, <1>7, <1>8, <1>9, <1>10, <1>11, <1>12
     DEF Next, ReloadLoad, QuitFromQml, Live, Terminated, vars, genVars, watchVars

\* Generations are destroyed once, the shell has one for as long as it runs,
\* and live ones watch files only if they should, for any configuration.
THEOREM ReloadSafe == Spec => [](DestroyedOnce /\ CurrentExists /\ WatchesOnlyIfSet)
<1>1. Init => SafeInv /\ WatchesSet
  BY InitSafe DEF Init, WatchesSet
<1>2. TypeOK /\ TypeOK' /\ SafeInv /\ WatchesSet /\ [Next]_vars => SafeInv' /\ WatchesSet'
  BY NextSafe, NextWatch
<1>3. SafeInv /\ WatchesSet => DestroyedOnce /\ CurrentExists /\ WatchesOnlyIfSet
  BY DEF SafeInv, WatchesSet, WatchesOnlyIfSet
<1> QED
  BY <1>1, <1>2, <1>3, ReloadTypeCorrect, PTL DEF Spec

-----------------------------------------------------------------------------
(* postReload, SoftPostReloadAfterDrop.                                    *)

Rootless(g) == loaded[g][Root] \in NoObject

\* Roots are deleted in the order of the reloads; one that comes before an
\* older one has quit, and the shell ends with it.
InTurn(s, ends) == \A i, j \in DOMAIN s : i < j => s[i] < s[j] \/ ends[s[i]]

\* Generations are numbered as they are made, and those to come are blank.
Numbered ==
    \A g \in Gens : /\ status[g] = "unused" <=> g > current
                    /\ status[g] = "unused" => ~posted[g] /\ after[g] = 0

\* A live generation has its root if its configuration creates one, and a
\* generation waits for the one before it.
RootsSet == \A g \in Gens : status[g] = "live" /\ ~root[g] => Rootless(g)
Replaces == \A g \in Gens : after[g] \in {0, g - 1}

AllGone ==
    \A g \in Gens : posted[g] /\ after[g] # 0 =>
        /\ status[after[g]] = "freed"
        /\ ~Rootless(after[g]) => \A h \in 1 .. g - 1 : status[h] = "freed"

PostInv ==
    running => /\ Numbered
               /\ RootsSet
               /\ Replaces
               /\ InTurn(deferred, terminate)
               /\ AllGone

\* A newcomer at the end of the queue is in turn if it is younger than those
\* that do not end the shell.
LEMMA ConcatInTurn ==
    ASSUME NEW s \in Seq(Gens), NEW x \in Gens, NEW ends, InTurn(s, ends),
           \A g \in Gens : Queued(s, g) => g < x \/ ends[g]
    PROVE  InTurn(s \o <<x>>, ends)
<1> DEFINE t == s \o <<x>>
<1>1. /\ Len(s) \in Nat
      /\ DOMAIN s = 1 .. Len(s)
      /\ DOMAIN t = 1 .. Len(s) + 1
      /\ \A i \in 1 .. Len(s) : t[i] = s[i] /\ s[i] \in Gens
      /\ t[Len(s) + 1] = x
  <2>1. <<x>> \in Seq(Gens) /\ Len(<<x>>) = 1 /\ <<x>>[1] = x
    OBVIOUS
  <2>2. /\ t \in Seq(Gens)
        /\ Len(t) = Len(s) + 1
        /\ \A i \in 1 .. Len(s) + 1 : t[i] = IF i <= Len(s) THEN s[i] ELSE <<x>>[i - Len(s)]
    BY <2>1, ConcatProperties
  <2>3. Len(s) \in Nat /\ DOMAIN s = 1 .. Len(s) /\ DOMAIN t = 1 .. Len(t)
    BY <2>2, LenProperties
  <2>4. (Len(s) + 1) - Len(s) = 1 /\ ~(Len(s) + 1 <= Len(s)) /\ Len(s) + 1 \in 1 .. Len(s) + 1
    BY <2>3
  <2>5. \A i \in 1 .. Len(s) : i \in 1 .. Len(s) + 1 /\ i <= Len(s) /\ s[i] \in Gens
    BY <2>3, ElementOfSeq
  <2> HIDE DEF t
  <2> QED
    BY <2>1, <2>2, <2>3, <2>4, <2>5
<1> HIDE DEF t
<1>2. ASSUME NEW i \in DOMAIN t, NEW j \in DOMAIN t, i < j
      PROVE  t[i] < t[j] \/ ends[t[i]]
  <2>1. i \in 1 .. Len(s) /\ (j \in 1 .. Len(s) \/ j = Len(s) + 1)
    BY <1>1, <1>2
  <2>2. CASE j \in 1 .. Len(s)
    BY <1>1, <1>2, <2>1, <2>2 DEF InTurn
  <2>3. CASE j = Len(s) + 1
    <3>1. Queued(s, s[i]) /\ s[i] \in Gens
      BY <1>1, <2>1 DEF Queued
    <3> QED
      BY <1>1, <2>1, <2>3, <3>1
  <2> QED
    BY <2>1, <2>2, <2>3
<1> QED
  BY <1>2 DEF InTurn, t

\* What is left of a queue in turn is in turn, and those behind its head are
\* younger unless the head ends the shell.
LEMMA TailInTurn ==
    ASSUME NEW s \in Seq(Gens), s # <<>>, NEW ends, InTurn(s, ends)
    PROVE  /\ InTurn(Tail(s), ends)
           /\ \A g \in Gens : Queued(s, g) /\ g # Head(s) => Head(s) < g \/ ends[Head(s)]
<1>1. /\ Len(s) \in Nat \ {0}
      /\ DOMAIN s = 1 .. Len(s)
      /\ Tail(s) \in Seq(Gens)
      /\ DOMAIN Tail(s) = 1 .. Len(s) - 1
      /\ \A i \in 1 .. Len(s) - 1 : Tail(s)[i] = s[i + 1]
      /\ Head(s) = s[1]
  BY HeadTailProperties, LenProperties, EmptySeq
<1>2. InTurn(Tail(s), ends)
  <2> SUFFICES ASSUME NEW i \in DOMAIN Tail(s), NEW j \in DOMAIN Tail(s), i < j
               PROVE  Tail(s)[i] < Tail(s)[j] \/ ends[Tail(s)[i]]
    BY DEF InTurn
  <2>1. i + 1 \in DOMAIN s /\ j + 1 \in DOMAIN s /\ i + 1 < j + 1
    BY <1>1
  <2> QED
    BY <1>1, <2>1 DEF InTurn
<1>3. ASSUME NEW g \in Gens, Queued(s, g), g # Head(s)
      PROVE  Head(s) < g \/ ends[Head(s)]
  <2>1. PICK j \in DOMAIN s : s[j] = g
    BY <1>3 DEF Queued
  <2>2. 1 \in DOMAIN s /\ 1 < j
    BY <1>1, <1>3, <2>1
  <2> QED
    BY <1>1, <2>1, <2>2 DEF InTurn
<1> QED
  BY <1>2, <1>3

\* The first generation waits for none.
LEMMA InitPost == Init => PostInv
<1> SUFFICES ASSUME Init PROVE PostInv
  OBVIOUS
<1>1. /\ \A g \in Gens : g # 1 <=> g > 1
      /\ \A g \in Gens : status[g] = IF g = 1 THEN "live" ELSE "unused"
      /\ \A g \in Gens : posted[g] = (g = 1) /\ after[g] = 0
      /\ current = 1
  BY BoundsAssumption DEF Gens, Init
<1>2. Numbered
  BY <1>1 DEF Numbered
<1>3. RootsSet /\ Replaces /\ AllGone
  BY DEF Init, RootsSet, Replaces, AllGone
<1>4. InTurn(deferred, terminate)
  BY DEF Init, InTurn
<1> QED
  BY <1>2, <1>3, <1>4 DEF PostInv

\* The invariant speaks of these variables, which other handlers leave alone.
LEMMA PostFrame ==
    ASSUME PostInv, UNCHANGED <<genVars, current, loaded>>, running' => running
    PROVE  PostInv'
<1> SUFFICES ASSUME running' PROVE PostInv'
  BY DEF PostInv
<1>1. UNCHANGED <<status, root, after, posted, terminate, deferred>>
  BY DEF genVars
<1>2. Numbered' /\ RootsSet' /\ Replaces' /\ AllGone'
  BY <1>1 DEF PostInv, Numbered, RootsSet, Rootless, Replaces, AllGone
<1>3. InTurn(deferred, terminate)'
  BY <1>1 DEF PostInv, InTurn
<1> QED
  BY <1>2, <1>3 DEF PostInv

\* A reload that succeeds starts the next generation, which waits for the one
\* it replaces; one without a root goes on the spot and is not waited for.
LEMMA LoadSucceedsPost ==
    ASSUME SafeInv, SafeInv', PostInv, running',
           NEW n \in Gens, NEW quits \in BOOLEAN, LoadSucceeds(n, quits)
    PROVE  PostInv'
<1> DEFINE ends == status[current] = "live"
           one == IF quits THEN <<n>> ELSE <<>>
           two == IF ends /\ root[current] THEN <<current>> ELSE <<>>
<1>1. /\ status[n] = "unused" /\ n # current /\ current \in Gens
      /\ status' = [g \in Gens |->
             IF g = n THEN IF quits THEN "dying" ELSE "live"
             ELSE IF g = current /\ ends THEN IF root[g] THEN "dying" ELSE "freed"
             ELSE status[g]]
      /\ deferred' = deferred \o one \o two
      /\ current' = n
      /\ terminate' = [terminate EXCEPT ![n] = quits]
  BY LoadEffect
<1>2. /\ Numbered /\ RootsSet /\ Replaces /\ InTurn(deferred, terminate) /\ AllGone
      /\ TypeOK
      /\ \A g \in Gens : status[g] = "live" => g = current
      /\ \A g \in Gens : root[g] => status[g] = "live"
      /\ \A g \in Gens : status[g] = "dying" <=> Queued(deferred, g)
  BY DestroyedOnceQueued DEF SafeInv, CurrentExists, PostInv, LoadSucceeds
<1>3. /\ \A g \in Gens : g \in Nat /\ g >= 1
      /\ MaxGen \in Nat
  BY BoundsAssumption DEF Gens
<1>4. n = current + 1
  <2>1. n > current /\ \A m \in 1 .. n - 1 : status[m] # "unused"
    BY <1>1, <1>2 DEF Numbered, LoadSucceeds
  <2>2. ASSUME n > current + 1
        PROVE  FALSE
    <3>1. current + 1 \in 1 .. n - 1 /\ current + 1 \in Gens /\ current + 1 > current
      BY <1>1, <1>3, <2>2 DEF Gens
    <3> QED
      BY <1>2, <2>1, <3>1 DEF Numbered
  <2> QED
    BY <1>1, <1>3, <2>1, <2>2
<1>5. /\ \A g \in Gens : loaded'[g] = IF g = n THEN loading.files ELSE loaded[g]
      /\ root'[n] = (loading.files[Root] \notin NoObject /\ ~quits)
  BY <1>1, <1>2 DEF LoadSucceeds, TypeOK
<1>6. /\ \A g \in Gens : g # n => after'[g] = after[g]
      /\ after'[n] \in {0, current}
  BY <1>1, <1>2 DEF Numbered, LoadSucceeds, TypeOK
<1>7. /\ \A g \in Gens : g # n => posted'[g] = posted[g]
      /\ posted'[n] /\ after'[n] # 0 => ends /\ ~root[current]
  <2> DEFINE live == IF current # 0 /\ ends THEN {current} ELSE {}
             rootSet == [g \in Gens |-> IF g = n THEN loading.files[Root] \notin NoObject /\ ~quits
                                        ELSE root[g] /\ g \notin live]
  <2>1. live = IF ends THEN {current} ELSE {}
    BY <1>1, <1>3
  <2>2. \/ after' = after /\ posted' = PostReload(posted, rootSet, n)
        \/ /\ {g \in live : ~root[g]} # {}
           /\ posted' = PostAfter(posted, rootSet, current, after')
        \/ posted' = posted
    BY <1>1, <1>3 DEF LoadSucceeds
  <2>3. \A g \in Gens : g # n => ~rootSet[g]
    BY <1>2, <2>1
  <2>4. ~posted[n] /\ after[n] = 0
    BY <1>1, <1>2 DEF Numbered
  <2>5. {g \in live : ~root[g]} # {} => ends /\ ~root[current]
    BY <2>1
  <2> HIDE DEF live, rootSet, ends
  <2>6. CASE after' = after /\ posted' = PostReload(posted, rootSet, n)
    BY <1>2, <2>4, <2>6 DEF PostReload, TypeOK
  <2>7. CASE /\ {g \in live : ~root[g]} # {}
             /\ posted' = PostAfter(posted, rootSet, current, after')
    BY <1>2, <2>3, <2>5, <2>7 DEF PostAfter, TypeOK
  <2>8. CASE posted' = posted
    BY <2>4, <2>8
  <2> QED
    BY <2>2, <2>6, <2>7, <2>8
<1>8. Numbered'
  <2> SUFFICES ASSUME NEW g \in Gens
               PROVE  /\ status'[g] = "unused" <=> g > n
                      /\ status'[g] = "unused" => ~posted'[g] /\ after'[g] = 0
    BY <1>1 DEF Numbered
  <2>1. CASE g = n
    BY <1>1, <1>3, <2>1
  <2>2. CASE g # n
    <3>1. status'[g] = "unused" <=> status[g] = "unused"
      BY <1>1, <2>2
    <3>2. g > n <=> g > current
      BY <1>1, <1>3, <1>4, <2>2
    <3> QED
      BY <1>2, <1>6, <1>7, <2>2, <3>1, <3>2 DEF Numbered
  <2> QED
    BY <2>1, <2>2
<1>9. RootsSet'
  <2> SUFFICES ASSUME NEW g \in Gens, status'[g] = "live", ~root'[g]
               PROVE  loaded'[g][Root] \in NoObject
    BY DEF RootsSet, Rootless
  <2>1. g = n /\ ~quits
    BY <1>1, <1>2
  <2> QED
    BY <1>5, <2>1
<1>10. Replaces'
  <2>1. current = n - 1
    BY <1>1, <1>3, <1>4
  <2> QED
    BY <1>2, <1>6, <2>1 DEF Replaces
<1>11. InTurn(deferred, terminate)'
  <2>1. /\ deferred \in Seq(Gens) /\ ~Queued(deferred, n)
        /\ \A g \in Gens : Queued(deferred, g) => g <= current
    BY <1>1, <1>2, <1>3 DEF TypeOK, Numbered
  <2>2. \A g \in Gens : terminate'[g] = IF g = n THEN quits ELSE terminate[g]
    BY <1>1, <1>2 DEF TypeOK
  <2>3. InTurn(deferred, terminate')
    <3> SUFFICES ASSUME NEW i \in DOMAIN deferred, NEW j \in DOMAIN deferred, i < j
                 PROVE  deferred[i] < deferred[j] \/ terminate'[deferred[i]]
      BY DEF InTurn
    <3>1. deferred[i] \in Gens /\ deferred[i] # n
      BY <2>1, ElementOfSeq, LenProperties DEF Queued
    <3> QED
      BY <1>2, <2>2, <3>1 DEF InTurn
  <2> DEFINE s == deferred \o one
  <2>4. /\ s \in Seq(Gens) /\ InTurn(s, terminate')
        /\ \A g \in Gens : Queued(s, g) <=> Queued(deferred, g) \/ (quits /\ g = n)
    <3>1. CASE quits = TRUE
      <4>1. \A g \in Gens : Queued(deferred, g) => g < n \/ terminate'[g]
        BY <1>3, <1>4, <1>1, <2>1
      <4>2. Once(deferred) /\ s = deferred \o <<n>>
        BY <3>1, DestroyedOnceQueued DEF SafeInv
      <4>3. InTurn(deferred \o <<n>>, terminate')
        BY <2>1, <2>3, <4>1, ConcatInTurn
      <4> QED
        BY <2>1, <3>1, <4>2, <4>3, ConcatOnce
    <3>2. CASE quits = FALSE
      <4>1. s = deferred
        BY <2>1, <3>2, ConcatEmptySeq
      <4> QED
        BY <2>1, <2>3, <3>2, <4>1
    <3> QED
      BY <3>1, <3>2
  <2>5. InTurn(s \o two, terminate')
    <3>1. CASE ends /\ root[current]
      <4>1. \A g \in Gens : Queued(s, g) => g < current \/ terminate'[g]
        <5> SUFFICES ASSUME NEW g \in Gens, Queued(s, g)
                     PROVE  g < current \/ terminate'[g]
          OBVIOUS
        <5>1. CASE Queued(deferred, g)
          <6>1. g # current
            BY <1>2, <3>1, <5>1
          <6> QED
            BY <1>1, <1>3, <2>1, <5>1, <6>1
        <5>2. CASE quits /\ g = n
          BY <2>2, <5>2
        <5> QED
          BY <2>4, <5>1, <5>2
      <4>2. two = <<current>>
        BY <3>1
      <4>3. InTurn(s \o <<current>>, terminate')
        <5> HIDE DEF s
        <5> QED
          BY <1>1, <2>4, <4>1, ConcatInTurn
      <4> QED
        BY <4>2, <4>3
    <3>2. CASE ~(ends /\ root[current])
      <4>1. s \o two = s
        BY <2>4, <3>2, ConcatEmptySeq
      <4> QED
        BY <2>4, <4>1
    <3> QED
      BY <3>1, <3>2
  <2>6. deferred' = s \o two
    BY <1>1
  <2> HIDE DEF s, two
  <2> QED
    BY <2>5, <2>6
<1>12. AllGone'
  <2>1. \A h \in Gens : status[h] = "freed" => status'[h] = "freed"
    BY <1>1
  <2> SUFFICES ASSUME NEW g \in Gens, posted'[g], after'[g] # 0
               PROVE  /\ status'[after'[g]] = "freed"
                      /\ loaded'[after'[g]][Root] \notin NoObject
                             => \A h \in 1 .. g - 1 : status'[h] = "freed"
    BY DEF AllGone, Rootless
  <2>2. CASE g = n
    <3>1. after'[g] = current /\ ends /\ ~root[current]
      BY <1>6, <1>7, <2>2
    <3>2. status'[current] = "freed"
      BY <1>1, <3>1
    <3>3. loaded'[current][Root] \in NoObject
      BY <1>1, <1>2, <1>5, <3>1 DEF RootsSet, Rootless
    <3> QED
      BY <3>1, <3>2, <3>3
  <2>3. CASE g # n
    <3>1. posted[g] /\ after'[g] = after[g] /\ after[g] # 0
      BY <1>6, <1>7, <2>3
    <3>2. after[g] \in Gens
      BY <1>2, <3>1, <1>3 DEF TypeOK, Gens
    <3>3. status[after[g]] = "freed" /\ after[g] # n
      BY <1>1, <1>2, <3>1, <3>2 DEF AllGone
    <3>4. loaded'[after[g]] = loaded[after[g]]
      BY <1>5, <3>2, <3>3
    <3>5. \A h \in 1 .. g - 1 : h \in Gens
      BY <1>3 DEF Gens
    <3> QED
      BY <1>2, <2>1, <3>1, <3>2, <3>3, <3>4, <3>5 DEF AllGone, Rootless
  <2> QED
    BY <2>2, <2>3
<1> QED
  BY <1>8, <1>9, <1>10, <1>11, <1>12 DEF PostInv

\* The root that is deleted is that of the oldest generation left, or of one
\* that ends the shell.
LEMMA RootDestroyedPost ==
    ASSUME SafeInv, SafeInv', PostInv, running', RootDestroyed
    PROVE  PostInv'
<1>1. /\ Numbered /\ RootsSet /\ Replaces /\ InTurn(deferred, terminate) /\ AllGone
      /\ TypeOK /\ deferred \in Seq(Gens) /\ Once(deferred) /\ deferred # <<>>
      /\ \A g \in Gens : status[g] = "live" => g = current
      /\ \A g \in Gens : root[g] => status[g] = "live"
      /\ \A g \in Gens : status[g] = "dying" <=> Queued(deferred, g)
      /\ DyingEndsShell
  BY DestroyedOnceQueued DEF SafeInv, TypeOK, CurrentExists, PostInv, RootDestroyed
<1>2. PICK k : k = Head(deferred)
  OBVIOUS
<1>3. /\ k \in Gens /\ status[k] = "dying"
      /\ \A g \in Gens : Queued(deferred, g) /\ g # k => k < g \/ terminate[k]
      /\ InTurn(Tail(deferred), terminate)
  BY <1>1, <1>2, TailOnce, TailInTurn
<1>4. /\ status' = [status EXCEPT ![k] = "freed"]
      /\ posted' = PostAfter(posted, root, k, after)
      /\ current' = IF current = k THEN 0 ELSE current
      /\ ~terminate[k]
      /\ deferred' = Tail(deferred)
      /\ UNCHANGED <<root, after, terminate, loaded>>
  BY <1>2 DEF RootDestroyed, scanVars
<1>5. MaxGen \in Nat /\ \A g \in Gens : g \in Nat /\ g >= 1
  BY BoundsAssumption DEF Gens
<1>6. k # current /\ current' = current /\ current \in 0 .. MaxGen
  BY <1>1, <1>3, <1>4, <1>5 DEF DyingEndsShell, TypeOK
<1>7. \A g \in Gens : status'[g] = IF g = k THEN "freed" ELSE status[g]
  BY <1>1, <1>4 DEF TypeOK
<1>8. \A g \in Gens : posted'[g] => posted[g] \/ (after[g] = k /\ root[g])
  BY <1>4 DEF PostAfter
<1>9. Numbered'
  <2> SUFFICES ASSUME NEW g \in Gens
               PROVE  /\ status'[g] = "unused" <=> g > current
                      /\ status'[g] = "unused" => ~posted'[g] /\ after[g] = 0
    BY <1>4, <1>6 DEF Numbered
  <2>1. status'[g] = "unused" <=> status[g] = "unused"
    BY <1>3, <1>7
  <2>2. status[g] = "unused" => ~root[g]
    BY <1>1
  <2> QED
    BY <1>1, <1>8, <2>1, <2>2 DEF Numbered
<1>10. RootsSet' /\ Replaces'
  BY <1>1, <1>3, <1>4, <1>7 DEF RootsSet, Rootless, Replaces
<1>11. InTurn(deferred, terminate)'
  BY <1>3, <1>4
<1>12. \A h \in Gens : h <= k => status'[h] = "freed"
  <2> SUFFICES ASSUME NEW h \in Gens, h < k
               PROVE  status[h] = "freed"
    BY <1>3, <1>5, <1>7
  <2>1. k <= current
    BY <1>1, <1>3, <1>5, <1>6 DEF Numbered
  <2>2. h < current
    BY <1>3, <1>5, <1>6, <2>1
  <2>3. status[h] # "unused"
    BY <1>1, <1>5, <1>6, <2>2 DEF Numbered
  <2>4. status[h] # "live"
    BY <1>1, <1>5, <1>6, <2>2
  <2>5. status[h] # "dying"
    BY <1>1, <1>3, <1>4, <1>5
  <2> QED
    BY <1>1, <2>3, <2>4, <2>5 DEF TypeOK
<1>13. AllGone'
  <2> SUFFICES ASSUME NEW g \in Gens, posted'[g], after[g] # 0
               PROVE  /\ status'[after[g]] = "freed"
                      /\ ~Rootless(after[g]) => \A h \in 1 .. g - 1 : status'[h] = "freed"
    BY <1>4 DEF AllGone, Rootless
  <2>1. after[g] = g - 1 /\ after[g] \in Gens /\ \A h \in 1 .. g - 1 : h \in Gens
    BY <1>1, <1>5 DEF Replaces, Gens
  <2>2. CASE posted[g]
    <3>1. \A h \in Gens : status[h] = "freed" => status'[h] = "freed"
      BY <1>7
    <3>2. /\ status[after[g]] = "freed"
          /\ ~Rootless(after[g]) => \A h \in 1 .. g - 1 : status[h] = "freed"
      BY <1>1, <2>2 DEF AllGone
    <3> QED
      BY <2>1, <3>1, <3>2
  <2>3. CASE after[g] = k
    <3>1. \A h \in 1 .. g - 1 : h <= k
      BY <1>5, <2>1, <2>3
    <3> QED
      BY <1>7, <1>12, <2>1, <2>3, <3>1
  <2> QED
    BY <1>8, <2>2, <2>3
<1> QED
  BY <1>9, <1>10, <1>11, <1>13 DEF PostInv

\* A generation that quits is the youngest, or waits already.
LEMMA QuitPost ==
    ASSUME SafeInv, SafeInv', PostInv, running', running, NEW g \in Live, Quit(g)
    PROVE  PostInv'
<1>1. /\ Numbered /\ RootsSet /\ Replaces /\ InTurn(deferred, terminate) /\ AllGone
      /\ TypeOK /\ deferred \in Seq(Gens) /\ g \in Gens
      /\ \A h \in Gens : status[h] = "live" => h = current
      /\ \A h \in Gens : status[h] = "dying" <=> Queued(deferred, h)
  BY DestroyedOnceQueued DEF SafeInv, TypeOK, CurrentExists, PostInv, Live
<1>2. /\ UNCHANGED <<after, loaded>>
      /\ \A h \in Gens : terminate[h] => terminate'[h]
  BY <1>1 DEF Quit, scanVars, TypeOK
<1>3. InTurn(deferred, terminate')
  <2> SUFFICES ASSUME NEW i \in DOMAIN deferred, NEW j \in DOMAIN deferred, i < j
               PROVE  deferred[i] < deferred[j] \/ terminate'[deferred[i]]
    BY DEF InTurn
  <2>1. deferred[i] \in Gens
    BY <1>1, ElementOfSeq, LenProperties
  <2> QED
    BY <1>1, <1>2, <2>1 DEF InTurn
<1>4. CASE status[g] = "dying"
  <2>1. UNCHANGED <<status, root, deferred, current, posted>>
    BY <1>4 DEF Quit
  <2>2. Numbered' /\ RootsSet' /\ Replaces' /\ AllGone'
    BY <1>1, <1>2, <2>1 DEF Numbered, RootsSet, Rootless, Replaces, AllGone
  <2> QED
    BY <1>3, <2>1, <2>2 DEF PostInv
<1>5. CASE status[g] # "dying"
  <2>1. status[g] = "live" /\ g = current
    BY <1>1, <1>5 DEF Live
  <2>2. /\ status' = [status EXCEPT ![g] = "dying"]
        /\ deferred' = Append(deferred, g)
        /\ UNCHANGED <<current, posted>>
        /\ root' = [root EXCEPT ![g] = FALSE]
    BY <1>1, <1>5, QuitEffect
  <2>3. /\ \A h \in Gens : status'[h] = IF h = g THEN "dying" ELSE status[h]
        /\ \A h \in Gens : h # g => root'[h] = root[h]
    BY <1>1, <2>2 DEF TypeOK
  <2>4. Numbered'
    BY <1>1, <1>2, <2>1, <2>2, <2>3 DEF Numbered
  <2>5. RootsSet' /\ Replaces'
    BY <1>1, <1>2, <2>3 DEF RootsSet, Rootless, Replaces
  <2>6. InTurn(deferred, terminate)'
    <3>1. \A h \in Gens : Queued(deferred, h) => h < g
      <4> SUFFICES ASSUME NEW h \in Gens, status[h] = "dying"
                   PROVE  h < g
        BY <1>1
      <4>1. ~(h > g) /\ h # g
        BY <1>1, <1>5, <2>1 DEF Numbered
      <4> QED
        BY <1>1, <4>1, BoundsAssumption DEF Gens
    <3>2. Append(deferred, g) = deferred \o <<g>>
      BY <1>1, AppendIsConcat
    <3> QED
      BY <1>1, <1>3, <2>2, <3>1, <3>2, ConcatInTurn
  <2>7. AllGone'
    <3> SUFFICES ASSUME NEW h \in Gens, posted[h], after[h] # 0
                 PROVE  /\ status'[after[h]] = "freed"
                        /\ ~Rootless(after[h]) => \A o \in 1 .. h - 1 : status'[o] = "freed"
      BY <1>2, <2>2 DEF AllGone, Rootless
    <3>1. after[h] \in Gens /\ \A o \in 1 .. h - 1 : o \in Gens
      BY <1>1, BoundsAssumption DEF Replaces, Gens
    <3>2. \A o \in Gens : status[o] = "freed" => status'[o] = "freed"
      BY <2>1, <2>3
    <3> QED
      BY <1>1, <3>1, <3>2 DEF AllGone
  <2> QED
    BY <2>4, <2>5, <2>6, <2>7 DEF PostInv
<1> QED
  BY <1>4, <1>5

\* Every step keeps the order.
LEMMA NextPost ==
    ASSUME SafeInv, SafeInv', PostInv, [Next]_vars
    PROVE  PostInv'
<1>1. CASE Environment
  <2>1. UNCHANGED <<genVars, current, loaded, running>>
    BY <1>1 DEF Environment, Write, Create, Remove, EditFrame, scanVars
  <2> QED
    BY <2>1, PostFrame
<1>2. CASE Watchers
  <2>1. UNCHANGED <<genVars, current, loaded, running>>
    BY <1>2 DEF Watchers, OnFileChanged, OnFileRemoved, OnDirectoryChanged, FileEvent,
                EventFrame, scanVars
  <2> QED
    BY <2>1, PostFrame
<1>3. CASE ReloadRead \/ LoadFails
  <2>1. UNCHANGED <<genVars, current, loaded, running>>
    BY <1>3 DEF ReloadRead, LoadFails, scanVars
  <2> QED
    BY <2>1, PostFrame
<1>4. ASSUME NEW n \in Gens, NEW quits \in BOOLEAN, LoadSucceeds(n, quits)
      PROVE  PostInv'
  <2>1. CASE ~running'
    BY <2>1 DEF PostInv
  <2> QED
    BY <1>4, <2>1, LoadSucceedsPost
<1>5. ASSUME NEW hard \in BOOLEAN, Reload(hard)
      PROVE  PostInv'
  BY <1>5, PostFrame DEF Reload, scanVars
<1>6. ASSUME NEW on \in BOOLEAN, SetWatchFiles(on)
      PROVE  PostInv'
  BY <1>6, PostFrame DEF SetWatchFiles, scanVars
<1>7. CASE RootDestroyed
  <2>1. CASE ~running'
    BY <2>1 DEF PostInv
  <2> QED
    BY <1>7, <2>1, RootDestroyedPost
<1>8. ASSUME running, NEW g \in Live, Quit(g)
      PROVE  PostInv'
  <2>1. CASE ~running'
    BY <2>1 DEF PostInv
  <2> QED
    BY <1>8, <2>1, QuitPost
<1>9. CASE QuitFromQml
  BY <1>8, <1>9 DEF QuitFromQml
<1>10. ASSUME NEW popup \in BOOLEAN, Kill(popup)
       PROVE  PostInv'
  <2>1. running
    BY <1>10 DEF Kill
  <2>2. CASE \E g \in Gens : g \in Live /\ Quit(g)
    BY <1>8, <2>1, <2>2
  <2>3. CASE running' = FALSE
    BY <2>3 DEF PostInv
  <2> QED
    BY <1>10, <2>2, <2>3, KillQuits
<1>11. CASE UNCHANGED vars
  BY <1>11, PostFrame DEF vars, scanVars
<1> QED
  BY <1>1, <1>2, <1>3, <1>4, <1>5, <1>6, <1>7, <1>9, <1>10, <1>11
     DEF Next, ReloadLoad, Terminated

\* After a soft reload postReload runs once every earlier tree is gone, for
\* any configuration, in whatever order reloads, quits and deletions come.
THEOREM ReloadPostsAfterDrop == Spec => []SoftPostReloadAfterDrop
<1>1. Init => SafeInv /\ PostInv
  BY InitSafe, InitPost
<1>2. TypeOK /\ TypeOK' /\ SafeInv /\ PostInv /\ [Next]_vars => SafeInv' /\ PostInv'
  BY NextSafe, NextPost
<1>3. PostInv => SoftPostReloadAfterDrop
  BY DEF PostInv, AllGone, Rootless, SoftPostReloadAfterDrop
<1> QED
  BY <1>1, <1>2, <1>3, ReloadTypeCorrect, PTL DEF Spec
=============================================================================
