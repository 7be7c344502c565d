------------------------------ MODULE FileView ------------------------------
(***************************************************************************)
(* FileView (io/fileview.cpp): the text of a file, read and written by     *)
(* operations on the threads of a pool or, blocking, on the main thread.   *)
(*                                                                         *)
(* The main thread owns the view; a thread owns its operation and the file *)
(* while it runs.  Waiting for an operation takes its results at once, and *)
(* an operation that is told to stop has written its file, or not.  A file *)
(* that is written in part counts as empty.                                *)
(***************************************************************************)
EXTENDS Naturals, Sequences

CONSTANTS
    Paths,          (* of files, in directories that exist                   *)
    NoPath,         (* the empty path                                        *)
    Texts,          (* that files hold, the empty one among them             *)
    Empty,
    Absent,         (* what a file that does not exist holds                 *)
    NoText,         (* nothing was asked for                                 *)
    CareSets,       (* what can be counted on: some subsets of Cares         *)
    MaxOps,         (* bound: operations of the pool                         *)
    MaxCalls,       (* bound: calls of QML that change the view              *)
    MaxEdits        (* bound: edits of files by others                       *)

\* files: they can be written, others leave them alone during operations, and
\*        remove none before the view is told that it was made.
\* handlers: those of the view's signals set no text.
\* texts: none is set before the file is loaded, or after an edit that is still
\*        to be told or never is; and none during a save that is empty, the one
\*        that the view shows, or to be saved blocking.
\* reloads: the view loads in advance, watches from the start or not at all,
\*          and reloads when told of a change.
Cares == {"files", "handlers", "texts", "reloads"}

ASSUME ConstantsAssumption == /\ NoPath \notin Paths
                              /\ Empty \in Texts /\ {Absent, NoText} \cap Texts = {}
                              /\ CareSets \subseteq SUBSET Cares
                              /\ MaxOps \in Nat /\ MaxCalls \in Nat /\ MaxEdits \in Nat

VARIABLES
    main,           (* view: the members of FileView; ops: the operations in *)
                    (* the order they were started; disk: what files hold;   *)
                    (* watcher: none, or watching the directory, or the file *)
                    (* too; notices: the changes it has to tell of; asked:   *)
                    (* the text last set for each file, a history that is    *)
                    (* kept where files can be written, until others edit it *)
    care,           (* what can be counted on, one of CareSets               *)
    calls, edits    (* count calls and edits, for the bounds                 *)

vars == <<main, care, calls, edits>>

Text(content) == IF content = Absent THEN Empty ELSE content

\* FileViewState
State(path, data, error) == [path |-> path, data |-> data, error |-> error]

Operation(kind, path, data, atomic) ==
    [kind |-> kind, phase |-> "queued", state |-> State(path, data, FALSE),
     cancel |-> FALSE, connected |-> TRUE, atomic |-> atomic]

Idle(m) == \A i \in DOMAIN m.ops : m.ops[i].phase = "gone"
LiveIs(m, kind) == m.view.live # 0 /\ m.ops[m.view.live].kind = kind

-----------------------------------------------------------------------------
(* FileViewReader and FileViewWriter: what the threads do.                 *)

\* FileViewReader::read
Read(m, path) == State(path, Text(m.disk[path]), m.disk[path] = Absent)

\* A write may fail where it creates directories, opens or writes the file.
Failures == IF "files" \in care THEN {FALSE} ELSE BOOLEAN

\* The watcher sees that a file is written to or, by a rename, a new file.
Written(m, path, content, renamed) ==
    LET new == renamed \/ m.disk[path] = Absent \/ content = Absent
        sees == path = m.view.target /\ m.watcher # "none"
    IN  [m EXCEPT !.disk[path] = content,
                  !.watcher = IF sees /\ new THEN "directory" ELSE @,
                  !.notices = IF ~sees THEN @
                              ELSE @ \cup (IF m.watcher = "file" THEN {"file"} ELSE {})
                                     \cup (IF new THEN {"directory"} ELSE {})]

\* The ends an operation may come to, with what the file holds then.  A write
\* that is told to stop has written or not, and an atomic one that cannot be
\* committed does not say that it failed.
Ends(m, op) ==
    LET p == op.state.path
        torn == IF op.atomic THEN m.disk[p] ELSE Empty
        left == IF op.phase = "opened" THEN torn ELSE m.disk[p]
        fails == "files" \notin care
        Happens(error, content) ==
            \/ ~error /\ content = op.state.data
            \/ /\ IF error THEN fails ELSE op.cancel \/ (fails /\ op.atomic)
               /\ content \in {left, torn}
    IN  CASE op.phase = "ended" -> {[state |-> op.state, content |-> m.disk[p]]}
          [] op.phase # "ended" /\ op.kind = "read" ->
                {[state |-> Read(m, p), content |-> m.disk[p]]}
          [] OTHER ->
                {[state |-> State(p, op.state.data, o[1]), content |-> o[2]] :
                 o \in {o \in BOOLEAN \X (Texts \cup {Absent}) : Happens(o[1], o[2])}}

\* The file is written, if it is, as r says.
Leave(m, op, r) == IF op.kind = "read" \/ op.phase = "ended" THEN m
                   ELSE IF r.content = m.disk[r.state.path] /\ r.content # op.state.data THEN m
                   ELSE Written(m, r.state.path, r.content, op.atomic)

-----------------------------------------------------------------------------
(* The methods of FileView, as what they make of the state m of main.      *)

\* updateState.
UpdateState(m, state) ==
    [m EXCEPT !.view.path = state.path, !.view.data = state.data, !.view.prepared = TRUE]

\* What operationFinished and waitForJob do with the live operation, but for
\* letting go of it.
TakeState(m) ==
    LET op == m.ops[m.view.live]
    IN  [UpdateState(m, op.state) EXCEPT !.view.write = Empty]

\* The pool is given an operation, whose done is connected.
Start(m, kind, data, atomic) ==
    [m EXCEPT !.ops = Append(@, Operation(kind, m.view.target, data, atomic)),
              !.view.live = Len(m.ops) + 1]

\* Variant: what is to be written is looked up after it was blanked.
SaveLate(m, cancelled) ==
    IF m.view.target = NoPath THEN {[m EXCEPT !.view.write = Empty]}
    ELSE {Start(c, "write", c.view.write, atomic) : c \in cancelled, atomic \in BOOLEAN}

\* saveAsync, whose cancelAsync leaves one of cancelled: waiting for a write
\* blanks what is to be written.
SaveAsync(m, cancelled) ==
    IF m.view.target = NoPath THEN {[m EXCEPT !.view.write = Empty]}
    ELSE {Start(c, "write", m.view.write, atomic) : c \in cancelled, atomic \in BOOLEAN}

\* saveSync: where a write that was under way is waited for, nothing is left
\* to be written but the empty text.
SaveSync(m, cancelled) ==
    IF m.view.target = NoPath THEN {[m EXCEPT !.view.write = Empty]}
    ELSE LET Saves(c, atomic) ==
                LET op == Operation("write", c.view.target, c.view.write, atomic)
                IN  {[UpdateState(Leave(c, op, r), r.state)
                      EXCEPT !.view.write = Empty] : r \in Ends(c, op)}
         IN  UNION {Saves(c, atomic) : c \in cancelled, atomic \in BOOLEAN}

\* setData and setText: the text is to be written,
ToWrite(m, text) ==
    [m EXCEPT !.view.write = text,
              !.asked = IF m.view.target = NoPath \/ "files" \notin care THEN @
                        ELSE [@ EXCEPT ![m.view.target] = text]]

\* and is, with blockWrites or not, after a cancelAsync that leaves one of
\* cancelled.  Nothing is done about the text that is to be written already or,
\* if there is none, the one the view shows.
SetAfter(m, text, cancelled) ==
    LET shown == IF m.view.write = Empty THEN m.view.data ELSE m.view.write
        n == ToWrite(m, text)
    IN  IF shown = text THEN {[m EXCEPT !.asked = n.asked]}
        ELSE SaveAsync(n, cancelled)
             \cup (IF "texts" \in care /\ LiveIs(m, "write") THEN {} ELSE SaveSync(n, cancelled))

\* cancelAsync while the state of the live operation is being told of: a writer
\* is waited for and its state taken once more.  Its path is `former`, the one
\* the view had before, for which it was swapped when it was moved to the view.
CancelAmid(m, former) ==
    LET i == m.view.live
        op == m.ops[i]
        c == IF op.kind = "read" THEN m
             ELSE [UpdateState(m, State(former, op.state.data, op.state.error))
                   EXCEPT !.view.write = Empty]
    IN  {[c EXCEPT !.ops[i].cancel = TRUE, !.ops[i].connected = FALSE, !.view.live = 0]}

\* The handlers of the signals of operationFinished and waitForJob, of which one
\* may set a text.  That comes before the live operation is let go of, whichever
\* it is by then.  (The handlers of the signals at the end of loadSync and
\* saveSync do what QML may do in its next step.)
Handlers(m, former) ==
    {[h EXCEPT !.view.live = 0] :
     h \in {m} \cup (IF "handlers" \in care THEN {}
                     ELSE UNION {SetAfter(m, t, CancelAmid(ToWrite(m, t), former)) : t \in Texts})}

\* waitForJob: the live operation, which is disconnected, comes to an end.
WaitForJob(m) ==
    IF m.view.live = 0 THEN {m}
    ELSE LET i == m.view.live
             Waited(r) == [Leave(m, m.ops[i], r) EXCEPT
                           !.ops[i].phase = "ended", !.ops[i].connected = FALSE,
                           !.ops[i].state = r.state]
         IN  UNION {Handlers(TakeState(Waited(r)), m.view.path) : r \in Ends(m, m.ops[i])}

\* Variant: a writer is disowned as a reader is.
CancelAndDisown(m) ==
    IF m.view.live = 0 THEN {m}
    ELSE {[m EXCEPT !.ops[m.view.live].cancel = TRUE, !.ops[m.view.live].connected = FALSE,
                    !.view.live = 0]}

\* cancelAsync: a reader is disowned, a writer is waited for.
CancelAsync(m) ==
    IF m.view.live = 0 THEN {m}
    ELSE LET i == m.view.live
         IN  IF LiveIs(m, "read")
             THEN {[m EXCEPT !.ops[i].cancel = TRUE, !.ops[i].connected = FALSE, !.view.live = 0]}
             ELSE WaitForJob([m EXCEPT !.ops[i].cancel = TRUE])

LoadAsync(m) ==
    IF m.view.live # 0 /\ m.view.inFlight = m.view.target THEN {m}
    ELSE {LET n == [c EXCEPT !.view.inFlight = m.view.target]
          IN  IF m.view.target = NoPath THEN UpdateState(n, State(NoPath, Empty, FALSE))
              ELSE Start(n, "read", Empty, FALSE) : c \in CancelAsync(m)}

LoadSync(m) ==
    IF m.view.target = NoPath THEN {UpdateState(m, State(NoPath, Empty, FALSE))}
    ELSE IF m.view.live # 0 THEN WaitForJob(m)
    ELSE {UpdateState(m, Read(m, m.view.target))}

SetText(m, text) == SetAfter(m, text, CancelAsync(ToWrite(m, text)))

\* Variant: only the file is watched.
WatchFileOnly(m) ==
    [m EXCEPT !.notices = {},
              !.watcher = IF m.view.target = NoPath \/ ~m.view.watch \/ m.disk[m.view.target] = Absent
                          THEN "none" ELSE "file"]

\* updateWatchedFiles: a new watcher has nothing to tell of.
UpdateWatchedFiles(m) ==
    [m EXCEPT !.notices = {},
              !.watcher = IF m.view.target = NoPath \/ ~m.view.watch THEN "none"
                          ELSE IF m.disk[m.view.target] = Absent THEN "directory" ELSE "file"]

\* updatePath, which preloads or not.
UpdatePath(m) ==
    LET n == [m EXCEPT !.view.prepared = FALSE]
        loads == IF m.view.target = NoPath THEN {UpdateState(n, State(NoPath, Empty, FALSE))}
                 ELSE LoadAsync(n) \cup (IF "reloads" \in care THEN {} ELSE {n})
    IN  {UpdateWatchedFiles(l) : l \in loads}

-----------------------------------------------------------------------------
(* The steps.                                                              *)

Init == /\ \E disk \in [Paths -> Texts \cup {Absent}] :
            main = [view |-> [target |-> NoPath, inFlight |-> NoPath, path |-> NoPath,
                              data |-> Empty, write |-> Empty, live |-> 0, prepared |-> FALSE,
                              watch |-> FALSE],
                    ops |-> <<>>, disk |-> disk, watcher |-> "none", notices |-> {},
                    asked |-> [p \in Paths |-> NoText]]
        /\ care \in CareSets
        /\ calls = 0 /\ edits = 0

Becomes(states) == main' \in {m \in states : Len(m.ops) <= MaxOps}

Calls(states) == /\ calls < MaxCalls /\ calls' = calls + 1
                 /\ Becomes(states) /\ UNCHANGED <<care, edits>>

Runs(states) == Becomes(states) /\ UNCHANGED <<care, calls, edits>>

\* A write that is not atomic has opened the file, which empties it.
WriterOpens(i) ==
    LET op == main.ops[i]
    IN  /\ op.phase = "queued" /\ op.kind = "write" /\ ~op.atomic /\ ~op.cancel
        /\ Runs({[Written(main, op.state.path, Empty, FALSE) EXCEPT !.ops[i].phase = "opened"]})

OperationRuns(i) ==
    LET op == main.ops[i]
    IN  /\ op.phase \in {"queued", "opened"}
        /\ Runs({[Leave(main, op, r) EXCEPT !.ops[i].phase = "ended", !.ops[i].state = r.state,
                                       !.ops[i].atomic = FALSE, !.ops[i].cancel = FALSE] :
                 r \in Ends(main, op)})

Gone == [Operation("read", NoPath, Empty, FALSE) EXCEPT !.phase = "gone"]

\* The main thread is told that an operation has finished, and deletes it.
OperationFinished(i) ==
    /\ main.ops[i].phase = "ended"
    /\ Runs({[m EXCEPT !.ops[i] = Gone] :
             m \in IF main.ops[i].connected /\ main.view.live = i
                   THEN Handlers(TakeState(main), main.view.path)
                   ELSE {main}})

\* Variant: what is under way is left to itself.
SetPathAtOnce(path) == path # main.view.target
                       /\ Calls(UpdatePath([main EXCEPT !.view.target = path]))

SetPath(path) ==
    /\ path # main.view.target
    /\ Calls(UNION {UpdatePath([m EXCEPT !.view.target = path]) :
                    m \in IF LiveIs(main, "write") THEN WaitForJob(main) ELSE CancelAsync(main)})

Reload == main.view.target # NoPath /\ Calls(UpdatePath(main))

QmlSetsText(text) ==
    /\ "texts" \in care =>
        /\ main.view.prepared /\ main.notices = {} /\ (main.view.watch \/ edits = 0)
        /\ LiveIs(main, "write") => text \notin {Empty, main.view.data}
    /\ Calls(SetText(main, text))

\* data and text load what is not prepared, blocking or not.
QmlReads == ~main.view.prepared /\ Runs(LoadSync(main) \cup LoadAsync(main))

QmlWaits == main.view.live # 0 /\ Runs(WaitForJob(main))

\* setPreload
Preloads == ~main.view.prepared /\ "reloads" \notin care /\ Calls(LoadAsync(main))

WatchChanges(watch) ==
    /\ watch # main.view.watch
    /\ "reloads" \in care => main.view.target = NoPath
    /\ Calls({UpdateWatchedFiles([main EXCEPT !.view.watch = watch])})

\* The handler of fileChanged reloads or, if that cannot be counted on, does
\* not.
FileChangedHandler(m) == UpdatePath(m) \cup (IF "reloads" \in care THEN {} ELSE {m})

Rewatch(m) == IF m.disk[m.view.target] = Absent THEN m ELSE [m EXCEPT !.watcher = "file"]

OnWatchedFileChanged ==
    /\ "file" \in main.notices
    /\ Runs(FileChangedHandler(Rewatch([main EXCEPT !.notices = @ \ {"file"}])))

OnWatchedDirectoryChanged ==
    /\ "directory" \in main.notices
    /\ LET m == [main EXCEPT !.notices = @ \ {"directory"}]
       IN  Runs(IF m.watcher = "file" \/ m.disk[m.view.target] = Absent THEN {m}
                ELSE FileChangedHandler(Rewatch(m)))

\* Others write to a file, put one in its place or remove it.
OthersEdit(path, content) ==
    /\ edits < MaxEdits /\ edits' = edits + 1
    /\ "files" \in care => Idle(main) /\ (content = Absent => main.notices = {})
    /\ content = Absent => main.disk[path] # Absent
    /\ \E renamed \in BOOLEAN :
        main' = [Written(main, path, content, renamed) EXCEPT !.asked[path] = NoText]
    /\ UNCHANGED <<care, calls>>

PoolNext == \E i \in DOMAIN main.ops : WriterOpens(i) \/ OperationRuns(i)

QmlNext == \/ \E path \in Paths \cup {NoPath} : SetPath(path)
           \/ \E text \in Texts : QmlSetsText(text)
           \/ Reload \/ QmlReads \/ QmlWaits \/ Preloads
           \/ \E watch \in BOOLEAN : WatchChanges(watch)

Next == \/ PoolNext \/ QmlNext
        \/ \E i \in DOMAIN main.ops : OperationFinished(i)
        \/ OnWatchedFileChanged \/ OnWatchedDirectoryChanged
        \/ \E path \in Paths, content \in Texts \cup {Absent} : OthersEdit(path, content)

Spec == Init /\ [][Next]_vars

-----------------------------------------------------------------------------
TypeOK ==
    /\ main.view \in [target : Paths \cup {NoPath}, inFlight : Paths \cup {NoPath},
                      path : Paths \cup {NoPath}, data : Texts, write : Texts,
                      live : 0..Len(main.ops), prepared : BOOLEAN, watch : BOOLEAN]
    /\ main.ops \in Seq([kind : {"read", "write"}, phase : {"queued", "opened", "ended", "gone"},
                         state : [path : Paths \cup {NoPath}, data : Texts, error : BOOLEAN],
                         cancel : BOOLEAN, connected : BOOLEAN, atomic : BOOLEAN])
    /\ main.disk \in [Paths -> Texts \cup {Absent}]
    /\ main.watcher \in {"none", "directory", "file"}
    /\ main.notices \subseteq {"file", "directory"}
    /\ main.asked \in [Paths -> Texts \cup {NoText}]
    /\ care \subseteq Cares /\ calls \in 0..MaxCalls /\ edits \in 0..MaxEdits

\* What the view waits for is of its path and, while no handler of its own
\* signals sets a text, so is what it counts as loaded, in whatever order paths
\* are set and operations end: no late result of another file is shown as that
\* of this one (fileview.cpp:359, :469).
ResultsAreOfPath ==
    /\ main.view.live # 0 => main.ops[main.view.live].state.path = main.view.target
    /\ "handlers" \in care /\ main.view.prepared => main.view.path = main.view.target

\* While no handler of its own signals sets a text, the view never starts an
\* operation in the middle of a write: a write that is under way is the live
\* operation (fileview.cpp:351: "We don't want to start a read or write
\* operation in the middle of a write").
OneWriter ==
    "handlers" \in care =>
        \A i \in DOMAIN main.ops :
            main.ops[i].kind = "write" /\ main.ops[i].phase \in {"queued", "opened"}
            => main.view.live = i

Kept == \A p \in Paths : main.asked[p] # NoText => Text(main.disk[p]) = main.asked[p]

\* If QML sets texts with care, then the last one set is what the file holds
\* when nothing is under way any more, whichever saves and loads were cancelled
\* on the way (fileview.cpp:326, :565).
SetIsKept == care = Cares /\ Idle(main) => Kept

\* QML that reloads a file that it watches whenever it is told of a change
\* shows what the file holds when there is nothing more to tell
\* (fileview.hpp:214, fileview.cpp:504, :537, :546).
Fresh ==
    /\ {"files", "handlers", "reloads"} \subseteq care
    /\ Idle(main) /\ main.notices = {} /\ main.view.prepared
    /\ main.view.watch /\ main.view.target # NoPath
    => main.view.data = Text(main.disk[main.view.target])

\* What fileview.hpp:317 says: "Sets the content of the file specified by @@path
\* as text."  The files can be written, and no handler interferes.
LastSetIsWritten == {"files", "handlers"} \subseteq care /\ Idle(main)
                    /\ main.view.path \in Paths /\ main.asked[main.view.path] # Empty => Kept

=============================================================================
