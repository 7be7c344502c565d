------------------------------- MODULE Reload -------------------------------
(***************************************************************************)
(* Configuration reload: RootWrapper (core/rootwrapper.cpp), the engine    *)
(* generations it replaces (core/generation.cpp) and the file watcher each *)
(* generation owns.                                                        *)
(*                                                                         *)
(* Everything in the shell runs on one thread; an action is one handler    *)
(* run to completion.  Other processes write the configuration meanwhile,  *)
(* so reloadGraph is cut where that shows: it reads the files to hash them *)
(* (ReloadScan), the QML engine reads them again to load them (ReloadRead) *)
(* and at the end they are watched (LoadFails, LoadSucceeds).              *)
(***************************************************************************)
EXTENDS Naturals, Sequences, FiniteSets

CONSTANTS
    Files,        (* the files of the configuration                          *)
    Root,         (* the file the shell was started with, shell.qml          *)
    Contents,     (* what a file may hold                                    *)
    Holds,        (* for a file, which of the contents                       *)
    Empty,        (* the content of a truncated file                         *)
    Absent,       (* in place of a content: the file does not exist          *)
    Imports,      (* for a content of Root, the files it needs               *)
    ScanBad,      (* contents the scanner rejects                            *)
    Broken,       (* contents the QML engine rejects                         *)
    NoObject,     (* contents of Root that compile, but create no object     *)
    Quiet,        (* contents of Root that set watchFiles to false           *)
    MaxGen,       (* bound: generations created in one life of the process   *)
    MaxEdits,     (* bound: changes made to the files                        *)
    MaxCalls,     (* bound: Quickshell.reload() and assignments to watchFiles *)
    Saves         (* how files change: a subset of SaveModes                 *)

\* Files are written in place, or replaced by another file, and any of it may
\* happen while reloadGraph runs.
SaveModes == {"write", "replace", "while loading"}

ASSUME FilesAssumption == /\ Root \in Files
                          /\ Empty \in Contents
                          /\ Absent \notin Contents
ASSUME ContentsAssumption == /\ Holds \in [Files -> SUBSET Contents]
                             /\ Imports \in [Contents -> SUBSET Files]
                             /\ ScanBad \subseteq Contents
                             /\ Broken \subseteq Contents
                             /\ NoObject \subseteq Contents
                             /\ Quiet \subseteq Contents
ASSUME BoundsAssumption == /\ MaxGen \in Nat \ {0}
                           /\ MaxEdits \in Nat
                           /\ MaxCalls \in Nat
                           /\ Saves \subseteq SaveModes

VARIABLES
    disk,       (* the files, as other processes left them                   *)
    status,     (* of a generation: unused, live, dying (destroy() has run,  *)
                (* its root waits in the event loop to be deleted) or freed  *)
    root,       (* EngineGeneration::root is set                             *)
    hash,       (* scanner.fileHashes: the content a file had when read      *)
    scanned,    (* scanner.scannedFiles                                      *)
    extra,      (* extraWatchedFiles                                         *)
    loaded,     (* history: the files as the QML engine loaded them          *)
    watcher,    (* there is a QFileSystemWatcher                             *)
    watched,    (* watcher->files()                                          *)
    deleted,    (* deletedWatchedFiles                                       *)
    changed,    (* fileChanged events the watcher has not delivered          *)
    removed,    (* those of files that are gone                              *)
    dirty,      (* a directoryChanged event is not delivered                 *)
    after,      (* the generation whose `destroyed` runs our postReload      *)
    posted,     (* postReload has fired firePostReload                       *)
    terminate,  (* shouldTerminate                                           *)
    deferred,   (* posted DeferredDelete events of roots, in order           *)
    current,    (* RootWrapper::generation, or 0                             *)
    setting,    (* QuickshellSettings::mWatchFiles                           *)
    loading,    (* the reloadGraph in progress, or Idle                      *)
    rejected,   (* history: the files of which the last scan, which found an *)
                (* error, was the first to learn                             *)
    running,    (* the event loop has not been told to exit                  *)
    edits,      (* counts changes of the files, for the bound                *)
    calls       (* counts calls made by QML, for the bound                   *)

scanVars  == <<hash, scanned, extra, loaded>>
watchVars == <<watcher, watched, deleted, changed, removed, dirty>>
genVars   == <<status, root, after, posted, terminate, deferred>>
vars == <<disk, scanVars, watchVars, genVars, current, setting, loading, rejected,
          running, edits, calls>>

Gens == 1 .. MaxGen
Live == {g \in Gens : status[g] \in {"live", "dying"}}   \* g_generations aside
NoFiles == [f \in Files |-> Absent]
Idle == [step |-> "idle", hard |-> FALSE, scanned |-> {}, hash |-> NoFiles,
         files |-> NoFiles]

-----------------------------------------------------------------------------
(* Reading the configuration.                                              *)

\* The files the scanner visits: the root file, and the existing files of
\* the directories it imports.
Reach(d) == {Root} \cup
            (IF d[Root] = Absent THEN {} ELSE {f \in Imports[d[Root]] : d[f] # Absent})

\* QmlScanner::readAndHashFile over the visited files; a file that cannot be
\* opened has no hash.
Hashes(d, fs) == [f \in Files |-> IF f \in fs THEN d[f] ELSE Absent]

ScanFails(d) == \E f \in Reach(d) : d[f] \in ScanBad

\* QQmlComponent::isReady(): everything the root file needs is there and sound.
Ready(d) == /\ d[Root] \notin Broken \cup {Absent, Empty}
            /\ \A f \in Imports[d[Root]] : d[f] \notin Broken \cup {Absent, Empty}

\* hasFileContentChanged: an unknown or unreadable file counts as changed.
ContentChanged(g, f) == \/ hash[g][f] = Absent
                        \/ disk[f] # hash[g][f]

-----------------------------------------------------------------------------
(* Destruction, EngineGeneration::destroy.                                 *)

\* The watcher of g is disconnected: the events it had not delivered are lost.
DropWatcher(g) ==
    /\ watcher' = [watcher EXCEPT ![g] = FALSE]
    /\ watched' = [watched EXCEPT ![g] = {}]
    /\ changed' = [changed EXCEPT ![g] = {}]
    /\ removed' = [removed EXCEPT ![g] = {}]
    /\ dirty'   = [dirty EXCEPT ![g] = FALSE]
    /\ UNCHANGED deleted

\* A watcher that is let go of stays connected until the event loop deletes
\* it: what it has not delivered may come late, or not at all.
LetGo(g) ==
    \E late \in SUBSET changed[g], gone \in SUBSET removed[g], moved \in {FALSE, dirty[g]} :
        /\ changed' = [changed EXCEPT ![g] = late]
        /\ removed' = [removed EXCEPT ![g] = gone]
        /\ dirty'   = [dirty EXCEPT ![g] = moved]

\* Variant: the files a failed reload picked up are not watched.
NewWatcherWithoutExtra(g, fs) ==
    /\ watcher' = [watcher EXCEPT ![g] = TRUE]
    /\ watched' = [watched EXCEPT ![g] = {f \in scanned[g] : disk[f] # Absent}]
    /\ LetGo(g)
    /\ UNCHANGED deleted

\* A new watcher, after the last one was let go of, on everything g has scanned
\* that exists.
NewWatcher(g, fs) ==
    /\ watcher' = [watcher EXCEPT ![g] = TRUE]
    /\ watched' = [watched EXCEPT ![g] = {f \in fs : disk[f] # Absent}]
    /\ LetGo(g)
    /\ UNCHANGED deleted

\* setWatchingFiles
SetWatchingFiles(g, on) ==
    IF on = watcher[g] THEN UNCHANGED watchVars
    ELSE IF on THEN NewWatcher(g, scanned[g] \cup extra[g])
    ELSE /\ watcher' = [watcher EXCEPT ![g] = FALSE]
         /\ watched' = [watched EXCEPT ![g] = {}]
         /\ LetGo(g)
         /\ UNCHANGED deleted

\* EngineGeneration::postReload of h: nothing once the root is gone.
PostReload(post, rootSet, h) ==
    IF rootSet[h] THEN [post EXCEPT ![h] = TRUE] ELSE post

\* Variants: any generation's end, or none's, lets the waiting ones go on.
PostAfterAny(post, rootSet, g, waits) ==
    [h \in Gens |-> IF waits[h] # 0 /\ rootSet[h] THEN TRUE ELSE post[h]]

\* What `destroyed` of g runs: postReload of the generation that replaced g.
PostAfter(post, rootSet, g, waits) ==
    [h \in Gens |-> IF waits[h] = g /\ rootSet[h] THEN TRUE ELSE post[h]]

-----------------------------------------------------------------------------
Init ==
    /\ disk \in [Files -> Contents] /\ \A f \in Files : disk[f] \in Holds[f]
    /\ Ready(disk) /\ ~ScanFails(disk)
    /\ disk[Root] \notin NoObject \cup Quiet
    \* RootWrapper's constructor has run reloadGraph(true).
    /\ status = [g \in Gens |-> IF g = 1 THEN "live" ELSE "unused"]
    /\ root = [g \in Gens |-> g = 1]
    /\ scanned = [g \in Gens |-> IF g = 1 THEN Reach(disk) ELSE {}]
    /\ hash = [g \in Gens |-> IF g = 1 THEN Hashes(disk, Reach(disk))
                              ELSE NoFiles]
    /\ extra = [g \in Gens |-> {}]
    /\ loaded = [g \in Gens |-> IF g = 1 THEN disk ELSE NoFiles]
    /\ watcher = [g \in Gens |-> g = 1]
    /\ watched = [g \in Gens |-> IF g = 1 THEN Reach(disk) ELSE {}]
    /\ deleted = [g \in Gens |-> {}]
    /\ changed = [g \in Gens |-> {}]
    /\ removed = [g \in Gens |-> {}]
    /\ dirty = [g \in Gens |-> FALSE]
    /\ after = [g \in Gens |-> 0]
    /\ posted = [g \in Gens |-> g = 1]
    /\ terminate = [g \in Gens |-> FALSE]
    /\ deferred = <<>>
    /\ current = 1
    /\ setting = TRUE
    /\ loading = Idle
    /\ rejected = {}
    /\ running = TRUE
    /\ edits = 0
    /\ calls = 0

-----------------------------------------------------------------------------
(* Other processes change the files.  inotify queues an event for every    *)
(* watcher that has the file (or, for a new file, its directory).          *)

MayEdit == /\ running
           /\ edits < MaxEdits
           /\ loading = Idle \/ "while loading" \in Saves
           /\ edits' = edits + 1

EditFrame == UNCHANGED <<scanVars, genVars, current, setting, loading, rejected, running,
                         calls>>

\* Write a file in place; an editor may truncate it first.
Write(f, c) ==
    /\ "write" \in Saves
    /\ MayEdit
    /\ disk[f] \notin {Absent, c}
    /\ disk' = [disk EXCEPT ![f] = c]
    /\ changed' = [g \in Gens |-> IF f \in watched[g] THEN changed[g] \cup {f} ELSE changed[g]]
    /\ UNCHANGED <<watcher, watched, deleted, removed, dirty>>
    /\ EditFrame

\* Delete a file: its watch goes with it.
Remove(f) ==
    /\ "replace" \in Saves
    /\ MayEdit
    /\ disk[f] # Absent
    /\ disk' = [disk EXCEPT ![f] = Absent]
    /\ removed' = [g \in Gens |-> IF f \in watched[g] THEN removed[g] \cup {f} ELSE removed[g]]
    /\ changed' = [g \in Gens |-> changed[g] \ {f}]
    /\ watched' = [g \in Gens |-> watched[g] \ {f}]
    /\ dirty' = [g \in Gens |-> watcher[g] \/ dirty[g]]
    /\ UNCHANGED <<watcher, deleted>>
    /\ EditFrame

\* Create a file, as an editor does that saves by replacing.
Create(f, c) ==
    /\ "replace" \in Saves
    /\ MayEdit
    /\ disk[f] = Absent
    /\ disk' = [disk EXCEPT ![f] = c]
    /\ dirty' = [g \in Gens |-> watcher[g] \/ dirty[g]]
    /\ UNCHANGED <<watcher, watched, deleted, changed, removed>>
    /\ EditFrame

-----------------------------------------------------------------------------
(* RootWrapper::reloadGraph.                                               *)

\* The part that scans.  Settings are reset first; scan errors end it, and what
\* it has found is forgotten.
ReloadScan(hard) ==
    /\ loading = Idle
    /\ status[MaxGen] = "unused"      \* bound
    /\ setting' = (current # 0 \/ setting)
    /\ rejected' = IF ScanFails(disk) /\ current # 0
                   THEN Reach(disk) \ (scanned[current] \cup extra[current]) ELSE {}
    /\ loading' = IF ScanFails(disk) THEN Idle
                  ELSE [step |-> "scanned", hard |-> hard, scanned |-> Reach(disk),
                        hash |-> Hashes(disk, Reach(disk)), files |-> NoFiles]

\* The QML engine reads the files.
ReloadRead ==
    /\ running /\ loading.step = "scanned"
    /\ loading' = [loading EXCEPT !.step = "read", !.files = disk]
    /\ UNCHANGED <<disk, scanVars, watchVars, genVars, current, setting, rejected, running,
                   edits, calls>>

\* The end of it, when the component is not ready: the new generation
\* is destroyed at once and the running one watches what the scan found.
LoadFails ==
    /\ running /\ loading.step = "read"
    /\ ~Ready(loading.files)
    /\ loading' = Idle
    /\ IF current = 0
       THEN UNCHANGED <<scanVars, watchVars>>
       ELSE LET new == loading.scanned \ scanned[current]
            IN /\ extra' = [extra EXCEPT ![current] = new]
               /\ hash' = [hash EXCEPT ![current] =
                              [f \in Files |-> IF f \in new /\ disk[f] # Absent
                                               THEN disk[f] ELSE @[f]]]
               /\ IF watcher[current] THEN NewWatcher(current, scanned[current] \cup new)
                  ELSE UNCHANGED watchVars
               /\ UNCHANGED <<scanned, loaded>>
    /\ UNCHANGED <<disk, genVars, current, setting, rejected, running, edits, calls>>

\* The end of it, when the component is ready.  quits: a reload handler
\* of the new configuration calls Qt.quit().
LoadSucceeds(n, quits) ==
    LET old     == current
        config  == loading.files
        hard    == loading.hard
        created == config[Root] \notin NoObject
        dies    == IF quits THEN {n} ELSE {}
        ends    == IF old # 0 /\ status[old] = "live" THEN {old} ELSE {}
        freed   == {g \in ends : ~root[g]}     \* never used, deleted on the spot
        queued  == {g \in ends : root[g]}
        rootSet == [g \in Gens |-> IF g = n THEN created /\ ~quits
                                   ELSE root[g] /\ g \notin ends]
        waits   == IF hard \/ old = 0 THEN after ELSE [after EXCEPT ![n] = old]
        watches == IF config[Root] \in Quiet THEN FALSE ELSE setting
    IN /\ running /\ loading.step = "read"
       /\ Ready(config)
       /\ status[n] = "unused" /\ \A m \in 1 .. n - 1 : status[m] # "unused"
       /\ quits => created
       /\ setting' = watches
       /\ root' = rootSet
       /\ after' = waits
       /\ status' = [g \in Gens |-> IF g \in freed THEN "freed"
                                    ELSE IF g \in dies \cup queued THEN "dying"
                                    ELSE IF g = n THEN "live" ELSE status[g]]
       /\ terminate' = [terminate EXCEPT ![n] = quits]
       /\ deferred' = deferred \o (IF quits THEN <<n>> ELSE <<>>)
                               \o (IF queued # {} THEN <<old>> ELSE <<>>)
       /\ posted' = IF hard \/ old = 0 THEN PostReload(posted, rootSet, n)
                    ELSE IF freed # {} THEN PostAfter(posted, rootSet, old, waits)
                    ELSE posted
       /\ running' = ~\E g \in freed : terminate[g]
       /\ scanned' = [scanned EXCEPT ![n] = loading.scanned]
       /\ hash' = [hash EXCEPT ![n] = loading.hash]
       /\ loaded' = [loaded EXCEPT ![n] = config]
       \* The old generation loses its watcher; the new one, even when it has
       \* just quit, gets one if files are to be watched.
       /\ LET lost == ends \cup {n} \cup (IF watches THEN {} ELSE {old})
              off(v, none) == [g \in Gens |-> IF g \in lost THEN none ELSE v[g]]
              w == {f \in loading.scanned : disk[f] # Absent}
          IN /\ watcher' = [off(watcher, FALSE) EXCEPT ![n] = watches]
             /\ watched' = [off(watched, {}) EXCEPT ![n] = IF watches THEN w ELSE {}]
             /\ changed' = off(changed, {})
             /\ removed' = off(removed, {})
             /\ dirty' = off(dirty, FALSE)
       /\ current' = n
       /\ loading' = Idle
       /\ UNCHANGED <<disk, extra, deleted, rejected, edits, calls>>

ReloadLoad ==
    \/ ReloadRead
    \/ LoadFails
    \/ \E n \in Gens, quits \in BOOLEAN : LoadSucceeds(n, quits)

\* Quickshell.reload(hard), called by the QML of any generation that is left.
Reload(hard) ==
    /\ running
    /\ Live # {} /\ calls < MaxCalls
    /\ calls' = calls + 1
    /\ ReloadScan(hard)
    /\ UNCHANGED <<disk, scanVars, watchVars, genVars, current, running, edits>>

-----------------------------------------------------------------------------
(* Watcher events.  filesChanged reaches reloadGraph from the generation   *)
(* RootWrapper is connected to, which is the current one.                  *)

FilesChanged(g) == IF g = current THEN ReloadScan(FALSE) ELSE UNCHANGED <<setting, loading, rejected>>

EventFrame == UNCHANGED <<disk, scanVars, genVars, current, running, edits, calls>>

\* onFileChanged is called with f, by the watcher of g or by one it has let go.
FileEvent(g, f) ==
    /\ running /\ loading = Idle
    /\ g \in Live /\ f \in changed[g] \cup removed[g]
    /\ changed' = [changed EXCEPT ![g] = @ \ {f}]
    /\ removed' = [removed EXCEPT ![g] = @ \ {f}]
    /\ UNCHANGED <<watcher, watched, dirty>>
    /\ EventFrame

\* onFileChanged, for a file that the watcher of g has.
OnFileChanged(g, f) ==
    /\ FileEvent(g, f)
    /\ f \in watched[g]
    /\ IF disk[f] # Empty /\ ContentChanged(g, f)
       THEN FilesChanged(g)
       ELSE UNCHANGED <<setting, loading, rejected>>
    /\ UNCHANGED deleted

\* onFileChanged, for a file that it has dropped, because the file is gone, or
\* never had; without a watcher the event is ignored.
OnFileRemoved(g, f) ==
    /\ FileEvent(g, f)
    /\ f \notin watched[g]
    /\ deleted' = IF watcher[g] THEN [deleted EXCEPT ![g] = @ \cup {f}] ELSE deleted
    /\ UNCHANGED <<setting, loading, rejected>>

\* onDirectoryChanged: a deleted file is back with another content.  The file
\* is not watched again.  Whether there is a watcher is not asked.
OnDirectoryChanged(g) ==
    /\ running /\ loading = Idle
    /\ g \in Live /\ dirty[g] /\ removed[g] = {}
    /\ dirty' = [dirty EXCEPT ![g] = FALSE]
    /\ IF \E f \in deleted[g] : disk[f] # Absent /\ ContentChanged(g, f)
       THEN FilesChanged(g)
       ELSE UNCHANGED <<setting, loading, rejected>>
    /\ UNCHANGED <<watcher, watched, deleted, changed, removed>>
    /\ EventFrame

\* QuickshellSettings::setWatchFiles, from QML; RootWrapper::onWatchFilesChanged.
SetWatchFiles(on) ==
    /\ running /\ loading = Idle
    /\ Live # {} /\ calls < MaxCalls
    /\ on # setting
    /\ setting' = on
    /\ calls' = calls + 1
    /\ IF current # 0 THEN SetWatchingFiles(current, on) ELSE UNCHANGED watchVars
    /\ UNCHANGED <<disk, scanVars, genVars, current, loading, rejected, running, edits>>

-----------------------------------------------------------------------------
(* The end of a generation.                                                *)

\* Variants: RootWrapper is not told; shouldTerminate is not looked at.
RootDestroyedUnnoticed ==
    /\ running /\ loading = Idle
    /\ deferred # <<>>
    /\ LET g == Head(deferred)
       IN /\ status' = [status EXCEPT ![g] = "freed"]
          /\ posted' = PostAfter(posted, root, g, after)
          /\ current' = current
          /\ running' = ~terminate[g]
          /\ DropWatcher(g)
    /\ deferred' = Tail(deferred)
    /\ UNCHANGED <<disk, scanVars, root, after, terminate, setting, loading, rejected,
                   edits, calls>>

RootDestroyedRunsOn ==
    /\ running /\ loading = Idle
    /\ deferred # <<>>
    /\ LET g == Head(deferred)
       IN /\ status' = [status EXCEPT ![g] = "freed"]
          /\ posted' = PostAfter(posted, root, g, after)
          /\ current' = IF current = g THEN 0 ELSE current
          /\ running' = running
          /\ DropWatcher(g)
    /\ deferred' = Tail(deferred)
    /\ UNCHANGED <<disk, scanVars, root, after, terminate, setting, loading, rejected,
                   edits, calls>>

\* The root's `destroyed`: the engine and the generation go, the generation
\* that replaced it runs postReload, and the process exits if asked to.
RootDestroyed ==
    /\ running /\ loading = Idle
    /\ deferred # <<>>
    /\ LET g == Head(deferred)
       IN /\ status' = [status EXCEPT ![g] = "freed"]
          /\ posted' = PostAfter(posted, root, g, after)
          /\ current' = IF current = g THEN 0 ELSE current
          /\ running' = ~terminate[g]
          /\ DropWatcher(g)
    /\ deferred' = Tail(deferred)
    /\ UNCHANGED <<disk, scanVars, root, after, terminate, setting, loading, rejected,
                   edits, calls>>

\* Variant: destroy() does not see that it has run already.
QuitTwice(g) ==
    /\ terminate' = [terminate EXCEPT ![g] = TRUE]
    /\ DropWatcher(g)
    /\ root' = [root EXCEPT ![g] = FALSE]
    /\ status' = [status EXCEPT ![g] = "dying"]
    /\ deferred' = Append(deferred, g)
    /\ UNCHANGED <<disk, scanVars, after, posted, current, setting, loading, rejected,
                   running, edits, calls>>

\* EngineGeneration::quit and exit, from the QML of g or from the shell.
Quit(g) ==
    /\ terminate' = [terminate EXCEPT ![g] = TRUE]
    /\ IF status[g] = "dying"
       THEN UNCHANGED <<status, root, deferred, running, current, posted, watchVars>>
       ELSE /\ DropWatcher(g)
            /\ root' = [root EXCEPT ![g] = FALSE]
            /\ IF root[g]
               THEN /\ status' = [status EXCEPT ![g] = "dying"]
                    /\ deferred' = Append(deferred, g)
                    /\ UNCHANGED <<running, current, posted>>
               ELSE /\ status' = [status EXCEPT ![g] = "freed"]
                    /\ current' = IF current = g THEN 0 ELSE current
                    /\ posted' = PostAfter(posted, root, g, after)
                    /\ running' = FALSE
                    /\ UNCHANGED deferred
    /\ UNCHANGED <<disk, scanVars, after, setting, loading, rejected, edits, calls>>

QuitFromQml ==
    /\ running /\ loading = Idle
    /\ \E g \in Live : Quit(g)

\* currentGeneration(): the only generation there is, or null.  The popup that
\* reports a reload is a generation too, for as long as it is shown.
OnlyGeneration(popup) == IF ~popup /\ Cardinality(Live) = 1
                         THEN CHOOSE g \in Live : TRUE ELSE 0

\* IpcKillCommand::exec
Kill(popup) ==
    /\ running /\ loading = Idle
    /\ IF OnlyGeneration(popup) # 0 THEN Quit(OnlyGeneration(popup))
       ELSE /\ running' = FALSE
            /\ UNCHANGED <<disk, scanVars, watchVars, genVars, current, setting, loading,
                           rejected, edits, calls>>

-----------------------------------------------------------------------------
Terminated == ~running /\ UNCHANGED vars

Environment ==
    \/ \E f \in Files : \E c \in Holds[f] : Write(f, c) \/ Create(f, c)
    \/ \E f \in Files : Remove(f)

Watchers ==
    \E g \in Gens : \/ \E f \in Files : OnFileChanged(g, f) \/ OnFileRemoved(g, f)
                    \/ OnDirectoryChanged(g)

Next ==
    \/ Environment
    \/ Watchers
    \/ ReloadLoad
    \/ \E hard \in BOOLEAN : Reload(hard)
    \/ \E on \in BOOLEAN : SetWatchFiles(on)
    \/ RootDestroyed
    \/ QuitFromQml
    \/ \E popup \in BOOLEAN : Kill(popup)
    \/ Terminated

\* The event loop goes on delivering events, and a handler that began ends.
Fairness ==
    /\ WF_vars(ReloadLoad)
    /\ WF_vars(RootDestroyed)
    /\ \A g \in Gens, f \in Files : WF_vars(OnFileChanged(g, f) \/ OnFileRemoved(g, f))
    /\ \A g \in Gens : WF_vars(OnDirectoryChanged(g))

Spec == Init /\ [][Next]_vars
FairSpec == Spec /\ Fairness

-----------------------------------------------------------------------------
(* Correctness.                                                            *)

MaybeFiles == [Files -> Contents \cup {Absent}]

TypeOK ==
    /\ disk \in MaybeFiles
    /\ status \in [Gens -> {"unused", "live", "dying", "freed"}]
    /\ root \in [Gens -> BOOLEAN]
    /\ hash \in [Gens -> MaybeFiles]
    /\ loaded \in [Gens -> MaybeFiles]
    /\ scanned \in [Gens -> SUBSET Files]
    /\ extra \in [Gens -> SUBSET Files]
    /\ watcher \in [Gens -> BOOLEAN]
    /\ watched \in [Gens -> SUBSET Files]
    /\ deleted \in [Gens -> SUBSET Files]
    /\ changed \in [Gens -> SUBSET Files]
    /\ removed \in [Gens -> SUBSET Files]
    /\ dirty \in [Gens -> BOOLEAN]
    /\ after \in [Gens -> 0 .. MaxGen]
    /\ posted \in [Gens -> BOOLEAN]
    /\ terminate \in [Gens -> BOOLEAN]
    /\ deferred \in Seq(Gens)
    /\ current \in 0 .. MaxGen
    /\ setting \in BOOLEAN
    /\ loading \in [step : {"idle", "scanned", "read"}, hard : BOOLEAN,
                   scanned : SUBSET Files, hash : MaybeFiles, files : MaybeFiles]
    /\ rejected \in SUBSET Files
    /\ running \in BOOLEAN
    /\ edits \in 0 .. MaxEdits
    /\ calls \in 0 .. MaxCalls

\* The root of a generation is deleted once: a generation waits in the event
\* loop exactly when destroy() has run on it, and it waits there once.
DestroyedOnce ==
    /\ \A g \in Gens : status[g] = "dying" <=> \E i \in DOMAIN deferred : deferred[i] = g
    /\ \A i, j \in DOMAIN deferred : deferred[i] = deferred[j] => i = j
    /\ \A g \in Gens : root[g] => status[g] = "live"

\* RootWrapper never keeps a generation that is gone, a running shell always
\* has one, and every generation it has replaced is on its way out.
CurrentExists ==
    /\ current # 0 => status[current] \in {"live", "dying"}
    /\ current = 0 => ~running
    /\ \A g \in Gens : status[g] = "live" => g = current

\* PostReloadHook, core/reload.hpp:121: "Hook that runs after the old widget
\* tree is dropped during a reload".  After a soft reload of a shell that goes
\* on it waits for the generation it replaced, and as roots are deleted in the
\* order of reloads for every earlier one too; unless the one it replaced had
\* created no object, and is deleted on the spot while others wait.
SoftPostReloadAfterDrop ==
    running => \A g \in Gens : posted[g] /\ after[g] # 0 =>
        /\ status[after[g]] = "freed"
        /\ loaded[after[g]][Root] \notin NoObject => \A h \in 1 .. g - 1 : status[h] = "freed"

\* A live generation watches files only while the setting says so.
WatchesOnlyIfSet ==
    \A g \in Gens : status[g] = "live" /\ watcher[g] /\ loading = Idle => setting

\* The files the configuration on disk is made of, and whether the running
\* generation was made of the same.
Stale == LET used == {Root} \cup Imports[disk[Root]]
         IN \E f \in used : loaded[current][f] # disk[f]

Sound == Ready(disk) /\ ~ScanFails(disk)

\* A sound configuration on disk is, in the end, the one that runs (watchFiles,
\* core/qmlglobal.hpp:29), if the last reload did not end with an error of the
\* scanner: the files it was the first to learn of are not watched then, whereas
\* those that the QML engine rejects are (rootwrapper.cpp:94 and :121).
ReloadsOnChange ==
    (running /\ setting /\ Sound /\ Stale /\ rejected = {})
        ~> (~running \/ ~setting \/ ~Sound \/ ~Stale \/ rejected # {})

\* A generation asked to quit takes the process down, whatever replaced it.
QuitTerminates == \A g \in Gens : terminate[g] ~> ~running

=============================================================================
