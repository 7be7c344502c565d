------------------------------ MODULE Process -------------------------------
(***************************************************************************)
(* Process (io/process.cpp), the QProcess it owns while one runs, and the  *)
(* parsers of its output streams (io/datastream.cpp).                      *)
(*                                                                         *)
(* The shell is one thread; an action is one handler run to completion,    *)
(* except those that signal to QML more than once, onFinished above all:   *)
(* they are cut after each signal, since QML may call the process again    *)
(* from there.  `at` is the signal that QML is handling.                   *)
(***************************************************************************)
EXTENDS Naturals, Sequences, SequencesExt

CONSTANTS
    Bytes,        (* what processes write                                    *)
    Marker,       (* SplitParser.splitMarker                                 *)
    NoCommand,    (* the empty command                                       *)
    Commands,     (* the other commands                                      *)
    Missing,      (* commands that cannot be executed                        *)
    Parsers,      (* which parsers the streams have at first                 *)
    NewParsers,   (* the kinds of parser that QML may put in their place     *)
    MaxBytes,     (* bound: bytes a process writes                           *)
    MaxCalls      (* bound: calls made by QML                                *)

Streams == {"stdout", "stderr"}

\* No parser, a SplitParser, and StdioCollectors with and without waitForEnd.
Kinds == {"none", "split", "collect", "live"}

ASSUME ConstantsAssumption == /\ Marker \in Seq(Bytes) \ {<<>>}
                              /\ Missing \subseteq Commands
                              /\ NoCommand \notin Commands
                              /\ Parsers \subseteq [Streams -> Kinds]
                              /\ NewParsers \subseteq Kinds
                              /\ MaxBytes \in Nat
                              /\ MaxCalls \in Nat

VARIABLES
    child,      (* the QProcess: phase, what it runs and whether it was told *)
                (* to end; its phase is none when `process` is null          *)
    target,     (* targetRunning                                             *)
    command,    (* mCommand                                                  *)
    post,       (* isPostReload                                              *)
    parser,     (* mStdoutParser and mStderrParser                           *)
    buffer,     (* stdoutBuffer and stderrBuffer                             *)
    pipe,       (* what was written and is not read                          *)
    open,       (* the read channel is open                                  *)
    at,         (* the signal that QML is handling, or idle                  *)
    written,    (* history: what the last process to be started wrote        *)
    heard,      (* history: what parsers made of it, since it was started    *)
    whole,      (* history: QML has let the stream go its way                *)
    knows,      (* history: `running` and `processId` as QML was last told   *)
    failed,     (* history: the last start failed                            *)
    calls       (* counts calls made by QML, for the bound                   *)

streamVars == <<buffer, pipe, open>>
history    == <<written, heard, whole, knows, failed>>
vars == <<child, target, command, post, parser, streamVars, at, history, calls>>

NoChild == [phase |-> "none", runs |-> NoCommand, told |-> FALSE]
IsRunning == child.phase # "none"
Nothing == [s \in Streams |-> <<>>]

-----------------------------------------------------------------------------
(* The parsers.                                                            *)

MarkerAt(data, i) == SubSeq(data, i + 1, i + Len(Marker)) = Marker

\* Where the marker is found, as offsets in data, if one looks from offset
\* `from`: what follows a marker at once is passed over.
Cuts(data, from) ==
    LET cut[i \in 0 .. Len(data) + 1] ==
            IF i + Len(Marker) > Len(data) THEN <<>>
            ELSE IF MarkerAt(data, i) THEN <<i>> \o cut[i + Len(Marker) + 1]
            ELSE cut[i + 1]
    IN  cut[from]

\* Variant: a marker that came in two pieces is not looked for.
SplitFrom(data, blen, start) ==
    LET cuts == Cuts(data, blen)
        begin(k) == IF k = 1 THEN start ELSE cuts[k - 1] + Len(Marker)
    IN  [reads |-> [k \in DOMAIN cuts |-> SubSeq(data, begin(k) + 1, cuts[k])],
         rest  |-> SubSeq(data, begin(Len(cuts) + 1) + 1, Len(data))]

\* SplitParser::parseBytes for data of which blen bytes were in the buffer,
\* the first read beginning at offset start.
Split(data, blen, start) ==
    LET keep == Len(Marker) - 1
        cuts == Cuts(data, blen - (IF blen < keep THEN blen ELSE keep))
        begin(k) == IF k = 1 THEN start ELSE cuts[k - 1] + Len(Marker)
    IN  [reads |-> [k \in DOMAIN cuts |-> SubSeq(data, begin(k) + 1, cuts[k])],
         rest  |-> SubSeq(data, begin(Len(cuts) + 1) + 1, Len(data))]

\* parseBytes of the parser of a kind; a StdioCollector's text is the whole
\* of what was heard.
ParseBytes(kind, had, incoming, old, start) ==
    IF kind = "split"
    THEN LET split == Split(old \o incoming, Len(old), start)
         IN  [heard |-> had \o split.reads, buffer |-> split.rest]
    ELSE [heard |-> IF kind = "live" THEN <<old \o incoming>> ELSE had,
          buffer |-> old \o incoming]

\* streamEnded of the parser of a kind.
StreamEnded(kind, had, rest) ==
    CASE kind = "split"   -> IF rest = <<>> THEN had ELSE Append(had, rest)
      [] kind = "collect" -> <<rest>>
      [] OTHER            -> had

\* Whether QML hears of it: `read`, or `streamFinished`.
EndIsTold(s) == \/ parser[s] = "split" /\ buffer[s] # <<>>
                \/ parser[s] \in {"collect", "live"}

-----------------------------------------------------------------------------
Init ==
    /\ child = NoChild
    /\ target = FALSE
    /\ command = NoCommand
    /\ post = FALSE
    /\ parser \in Parsers
    /\ buffer = Nothing /\ pipe = Nothing
    /\ open = [s \in Streams |-> FALSE]
    /\ at = "idle"
    /\ written = Nothing /\ heard = Nothing
    /\ whole = [s \in Streams |-> FALSE]
    /\ knows = [running |-> FALSE, pid |-> FALSE]
    /\ failed = FALSE
    /\ calls = 0

-----------------------------------------------------------------------------
(* Starting.                                                               *)

\* startProcessIfReady, with targetRunning and mCommand as they are by then.
\* It clears both buffers, also that of a stream whose end is yet to be told.
StartIfReady(wanted, cmd, ready) ==
    IF IsRunning \/ ~ready \/ ~wanted \/ cmd = NoCommand
    THEN /\ target' = wanted
         /\ UNCHANGED <<child, streamVars, whole>>
    ELSE /\ target' = FALSE
         /\ child' = [phase |-> "starting", runs |-> cmd, told |-> FALSE]
         /\ buffer' = Nothing /\ pipe' = Nothing
         /\ open' = [s \in Streams |-> parser[s] # "none"]
         /\ whole' = IF at = "stdout" THEN [whole EXCEPT !["stderr"] = FALSE] ELSE whole

\* What QML may do: now, or in the handler of a signal.
Call ==
    /\ at \notin {"silent", "stderr silent"}
    /\ calls < MaxCalls
    /\ calls' = calls + 1

CallFrame == UNCHANGED <<parser, at, written, heard, knows, failed>>

\* setRunning(true)
Run ==
    /\ Call
    /\ StartIfReady(TRUE, command, post)
    /\ UNCHANGED <<command, post>>
    /\ CallFrame

\* setRunning(false)
Stop ==
    /\ Call
    /\ target' = FALSE
    /\ child' = IF IsRunning THEN [child EXCEPT !.told = TRUE] ELSE child
    /\ UNCHANGED <<command, post, streamVars, whole>>
    /\ CallFrame

\* setCommand
SetCommand(c) ==
    /\ Call
    /\ c # command
    /\ command' = c
    /\ StartIfReady(target, c, post)
    /\ UNCHANGED post
    /\ CallFrame

\* exec: setRunning(false), setCommand, and setRunning(true) if there is one.
Exec(c) ==
    /\ Call
    /\ command' = c
    /\ IF IsRunning
       THEN /\ target' = (c # NoCommand)
            /\ child' = [child EXCEPT !.told = TRUE]
            /\ UNCHANGED <<streamVars, whole>>
       ELSE StartIfReady(c # NoCommand, c, post)
    /\ UNCHANGED post
    /\ CallFrame

\* PostReloadHook::postReload
PostReload ==
    /\ ~post /\ at = "idle"
    /\ post' = TRUE
    /\ StartIfReady(target, command, TRUE)
    /\ UNCHANGED <<command, calls>>
    /\ CallFrame

-----------------------------------------------------------------------------
(* The parsers are set.                                                    *)

\* setStdoutParser and setStderrParser.  A new parser is given what is in the
\* buffer, as both the buffer and what comes in.
SetParser(s, kind) ==
    /\ Call
    /\ kind # parser[s]
    /\ LET cuts == parser[s] # "none" /\ IsRunning
           kept == IF cuts THEN <<>> ELSE buffer[s]
       IN  /\ open' = [open EXCEPT ![s] = @ /\ ~cuts]
           /\ pipe' = [pipe EXCEPT ![s] = IF cuts THEN <<>> ELSE @]
           /\ IF kind # "none" /\ kept # <<>>
              THEN LET parsed == ParseBytes(kind, heard[s], kept, kept, Len(kept))
                   IN  /\ heard' = [heard EXCEPT ![s] = parsed.heard]
                       /\ buffer' = [buffer EXCEPT ![s] = parsed.buffer]
              ELSE /\ buffer' = [buffer EXCEPT ![s] = kept]
                   /\ UNCHANGED heard
    /\ parser' = [parser EXCEPT ![s] = kind]
    /\ whole' = [whole EXCEPT ![s] = FALSE]
    /\ UNCHANGED <<child, target, command, post, at, written, knows, failed>>

\* onStdoutParserDestroyed and onStderrParserDestroyed: the channel stays open.
ParserDestroyed(s) ==
    /\ Call /\ at = "idle"
    /\ parser[s] # "none"
    /\ parser' = [parser EXCEPT ![s] = "none"]
    /\ whole' = [whole EXCEPT ![s] = FALSE]
    /\ UNCHANGED <<child, target, command, post, streamVars, at, written, heard,
                   knows, failed>>

-----------------------------------------------------------------------------
(* The process, as the system has it.  What it does while a handler runs   *)
(* the shell sees afterwards.                                              *)

SystemFrame == UNCHANGED <<target, command, post, parser, buffer, open, at, heard,
                           whole, knows, failed, calls>>

ChildWrites(s, b) ==
    /\ at = "idle" /\ child.phase = "running" /\ open[s]
    /\ Len(written["stdout"]) + Len(written["stderr"]) < MaxBytes
    /\ written' = [written EXCEPT ![s] = Append(@, b)]
    /\ pipe' = [pipe EXCEPT ![s] = Append(@, b)]
    /\ UNCHANGED child
    /\ SystemFrame

ChildEnds ==
    /\ at = "idle" /\ child.phase = "running"
    /\ child' = [child EXCEPT !.phase = "ended"]
    /\ UNCHANGED <<written, pipe>>
    /\ SystemFrame

-----------------------------------------------------------------------------
(* The handlers of QProcess.                                               *)

\* onStarted: nothing changes between its three signals.
OnStarted ==
    /\ at = "idle" /\ child.phase = "starting" /\ child.runs \notin Missing
    /\ child' = [child EXCEPT !.phase = "running"]
    /\ knows' = [running |-> TRUE, pid |-> TRUE]
    /\ at' = "started"
    /\ failed' = FALSE
    /\ written' = Nothing /\ heard' = Nothing
    /\ whole' = [s \in Streams |-> open[s] /\ parser[s] # "none"]
    /\ UNCHANGED <<target, command, post, parser, streamVars, calls>>

\* Variant: runningChanged is not emitted either.
OnErrorUntold ==
    /\ at = "idle" /\ child.phase = "starting" /\ child.runs \in Missing
    /\ child' = NoChild
    /\ at' = "failed"
    /\ failed' = TRUE
    /\ UNCHANGED <<target, command, post, parser, streamVars, written, heard, whole, knows,
                   calls>>

\* onErrorOccurred: FailedToStart.  processIdChanged is not emitted, and
\* targetRunning is not looked at.
OnErrorOccurred ==
    /\ at = "idle" /\ child.phase = "starting" /\ child.runs \in Missing
    /\ child' = NoChild
    /\ knows' = [knows EXCEPT !.running = FALSE]
    /\ at' = "failed"
    /\ failed' = TRUE
    /\ UNCHANGED <<target, command, post, parser, streamVars, written, heard, whole, calls>>

\* onStdoutReadyRead and onStderrReadyRead
OnReadyRead(s) ==
    /\ at = "idle" /\ child.phase \in {"running", "ended"}
    /\ pipe[s] # <<>> /\ open[s] /\ parser[s] # "none"
    /\ LET parsed == ParseBytes(parser[s], heard[s], pipe[s], buffer[s], 0)
       IN  /\ heard' = [heard EXCEPT ![s] = parsed.heard]
           /\ buffer' = [buffer EXCEPT ![s] = parsed.buffer]
    /\ pipe' = [pipe EXCEPT ![s] = <<>>]
    /\ UNCHANGED <<child, target, command, post, parser, open, at, written, whole,
                   knows, failed, calls>>

FinishFrame == UNCHANGED <<command, post, parser, pipe, open, written, failed, calls>>

\* onFinished: `process` is null before anything is told.  QProcess has told
\* of all there was to read.
OnFinished ==
    /\ at = "idle" /\ child.phase = "ended"
    /\ \A s \in Streams : open[s] /\ parser[s] # "none" => pipe[s] = <<>>
    /\ child' = NoChild
    /\ heard' = [heard EXCEPT !["stdout"] = StreamEnded(parser["stdout"], @, buffer["stdout"])]
    /\ at' = IF EndIsTold("stdout") THEN "stdout" ELSE "silent"
    /\ UNCHANGED <<target, buffer, whole, knows>>
    /\ FinishFrame

\* Variant: the buffers are cleared before the second stream is told.
FinishStderrCleared ==
    /\ at \in {"stdout", "silent"}
    /\ heard' = [heard EXCEPT !["stderr"] = StreamEnded(parser["stderr"], @, <<>>)]
    /\ at' = "stderr"
    /\ UNCHANGED <<child, target, buffer, whole, knows>>
    /\ FinishFrame

FinishStderr ==
    /\ at \in {"stdout", "silent"}
    /\ heard' = [heard EXCEPT !["stderr"] = StreamEnded(parser["stderr"], @, buffer["stderr"])]
    /\ at' = IF EndIsTold("stderr") THEN "stderr" ELSE "stderr silent"
    /\ UNCHANGED <<child, target, buffer, whole, knows>>
    /\ FinishFrame

\* The buffers are cleared and `exited` is emitted.
FinishExited ==
    /\ at \in {"stderr", "stderr silent"}
    /\ buffer' = Nothing
    /\ at' = "exited"
    /\ UNCHANGED <<child, target, heard, whole, knows>>
    /\ FinishFrame

FinishRunningChanged ==
    /\ at = "exited"
    /\ knows' = [knows EXCEPT !.running = IsRunning]
    /\ at' = "running"
    /\ UNCHANGED <<child, target, buffer, heard, whole>>
    /\ FinishFrame

FinishProcessIdChanged ==
    /\ at = "running"
    /\ knows' = [knows EXCEPT !.pid = IsRunning]
    /\ at' = "pid"
    /\ UNCHANGED <<child, target, buffer, heard, whole>>
    /\ FinishFrame

\* Variant: a start is only looked for when QML asks for it.
FinishStops ==
    /\ at = "pid"
    /\ at' = "idle"
    /\ UNCHANGED <<child, target, command, post, parser, streamVars, history, calls>>

\* The last line of onFinished, for `running = false; running = true`.
FinishStart ==
    /\ at = "pid"
    /\ StartIfReady(target, command, post)
    /\ at' = "idle"
    /\ UNCHANGED <<command, post, parser, written, heard, knows, failed, calls>>

\* onStarted and onErrorOccurred return.
Return ==
    /\ at \in {"started", "failed"}
    /\ at' = "idle"
    /\ UNCHANGED <<child, target, command, post, parser, streamVars, history, calls>>

-----------------------------------------------------------------------------
Qml ==
    \/ Run
    \/ Stop
    \/ \E c \in Commands \cup {NoCommand} : SetCommand(c) \/ Exec(c)
    \/ \E s \in Streams : \/ \E kind \in NewParsers : SetParser(s, kind)
                          \/ ParserDestroyed(s)

System == ChildEnds \/ \E s \in Streams, b \in Bytes : ChildWrites(s, b)

Finish ==
    \/ OnFinished
    \/ FinishStderr
    \/ FinishExited
    \/ FinishRunningChanged
    \/ FinishProcessIdChanged
    \/ FinishStart

Started == OnStarted \/ OnErrorOccurred \/ Return

Next ==
    \/ Qml
    \/ System
    \/ PostReload
    \/ Started
    \/ Finish
    \/ \E s \in Streams : OnReadyRead(s)

\* The event loop goes on, and a process that was told to end does.
Fairness ==
    /\ WF_vars(Started)
    /\ WF_vars(Finish)
    /\ \A s \in Streams : WF_vars(OnReadyRead(s))
    /\ WF_vars(child.told /\ ChildEnds)

Spec == Init /\ [][Next]_vars
FairSpec == Spec /\ Fairness

-----------------------------------------------------------------------------
(* Correctness.                                                            *)

TypeOK ==
    /\ child \in [phase : {"none", "starting", "running", "ended"},
                  runs : Commands \cup {NoCommand}, told : BOOLEAN]
    /\ target \in BOOLEAN /\ post \in BOOLEAN /\ failed \in BOOLEAN
    /\ command \in Commands \cup {NoCommand}
    /\ parser \in [Streams -> Kinds]
    /\ buffer \in [Streams -> Seq(Bytes)]
    /\ pipe \in [Streams -> Seq(Bytes)]
    /\ written \in [Streams -> Seq(Bytes)]
    /\ heard \in [Streams -> Seq(Seq(Bytes))]
    /\ open \in [Streams -> BOOLEAN] /\ whole \in [Streams -> BOOLEAN]
    /\ at \in {"idle", "started", "failed", "stdout", "silent", "stderr", "stderr silent",
               "exited", "running", "pid"}
    /\ knows \in [running : BOOLEAN, pid : BOOLEAN]
    /\ calls \in 0 .. MaxCalls

\* What was heard, with the marker between one read and the next.
Joined(reads) ==
    LET upTo[k \in 0 .. Len(reads)] ==
            CASE k = 0 -> <<>>
              [] k = 1 -> reads[1]
              [] OTHER -> upTo[k - 1] \o Marker \o reads[k]
    IN  upTo[Len(reads)]

\* StdioCollector, io/datastream.hpp:96: "collects all process output"; and
\* SplitParser, io/datastream.hpp:62: "read(s) is emitted once per delimited
\* chunk of the stream".  When `exited` is emitted, what a process wrote to a
\* stream is what its parser made of it, and no read holds a marker, wherever
\* the pieces were cut, except one that follows another marker at once; unless
\* QML set the parser meanwhile, or started the process anew from the signal for
\* the end of stdout.
AllHeard ==
    at = "exited" =>
        \A s \in Streams : whole[s] =>
            /\ \/ written[s] = Joined(heard[s])
               \/ parser[s] = "split" /\ written[s] = Joined(heard[s]) \o Marker
            /\ parser[s] = "split" =>
                   \A k \in DOMAIN heard[s] :
                       \A i \in 1 .. Len(heard[s][k]) - Len(Marker) : ~MarkerAt(heard[s][k], i)

\* Bindings to `running` and `processId` hold what is so whenever the shell is
\* idle, whichever handlers started and stopped the process; except that a
\* process is known to run when it has started, and one that could not leaves
\* its pid.
QmlKnows ==
    at = "idle" =>
        /\ child.phase = "none" => ~knows.running /\ (knows.pid => failed)
        /\ child.phase \in {"running", "ended"} => knows.running /\ knows.pid

\* `running = false; running = true`, and exec: a start that was asked for
\* comes when the process that runs has ended, from whichever handler it was
\* asked; unless that one could not be started, or QML changed its mind.
StartsAnew ==
    (target /\ post /\ command # NoCommand /\ (~IsRunning \/ child.told))
        ~> (~target \/ command = NoCommand \/ failed)

=============================================================================
