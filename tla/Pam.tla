-------------------------------- MODULE Pam ---------------------------------
(***************************************************************************)
(* PamContext, PamConversation and its subprocess (services/pam): an       *)
(* authentication that runs in a process of its own, since PAM cannot be   *)
(* aborted, and speaks with the shell over two pipes.                      *)
(*                                                                         *)
(* A context has one conversation at a time; those it let go of exist, and *)
(* watch their pipe, until the event loop deletes them.                    *)
(*                                                                         *)
(* The names of the formulas begin with Pam: SubprocessProofs extends this *)
(* module and Process.                                                     *)
(***************************************************************************)
EXTENDS Naturals, Sequences

CONSTANTS
    MaxConvs,       (* bound: conversations                                  *)
    MaxMessages,    (* bound: messages of a subprocess                       *)
    MaxResponses    (* bound: responses that QML gives                       *)

ASSUME PamAssumption == MaxConvs \in Nat /\ MaxMessages \in Nat /\ MaxResponses \in Nat

VARIABLES
    context,        (* the members of PamContext                             *)
    convs,          (* the conversations, in the order they were made        *)
    children,       (* their subprocesses                                    *)
    told,           (* history: what the context told of each conversation   *)
    responses,      (* counts the responses, for the bound                   *)
    patient         (* when patient, QML responds once to each prompt        *)

pamVars == <<context, convs, children, told, responses, patient>>

\* PamIpcExitCode, the codes that stand for an error being one.
Codes == {"Success", "Failed", "MaxTries", "Error"}

Info == [kind |-> "info", n |-> 0]
Prompt(n) == [kind |-> "prompt", n |-> n]
Exit(code) == [kind |-> code, n |-> 0]

\* PamConversation, with what is in the pipe from its subprocess and to it.
Conversation(pid) == [exists |-> TRUE, connected |-> TRUE, pid |-> pid, watches |-> pid # "none",
                      in |-> <<>>, out |-> <<>>]

Child == [phase |-> "runs", sent |-> 0, prompt |-> 0, code |-> "none", mixed |-> FALSE]

Active == context.conv # 0

-----------------------------------------------------------------------------
(* The subprocess: PAM sends what it likes, and waits for a response to a  *)
(* prompt.  A response is numbered by the prompt that QML was shown.       *)

Runs(i) == i \in DOMAIN children /\ children[i].phase = "runs"

ShellOnly == UNCHANGED <<context, told, responses, patient>>

ChildSays(i, message) ==
    /\ Runs(i) /\ children[i].sent < MaxMessages
    /\ LET n == children[i].sent + 1
           said == IF message = "info" THEN Info ELSE Prompt(n)
       IN  /\ convs' = [convs EXCEPT ![i].in = Append(@, said)]
           /\ children' = [children EXCEPT ![i].sent = n,
                ![i].prompt = IF message = "info" THEN @ ELSE n,
                ![i].phase = IF message = "info" THEN @ ELSE "waits"]
    /\ ShellOnly

ChildReads(i) ==
    /\ i \in DOMAIN children /\ children[i].phase = "waits" /\ convs[i].out # <<>>
    /\ children' = [children EXCEPT ![i].phase = "runs", ![i].prompt = 0,
                                    ![i].mixed = @ \/ Head(convs[i].out) # children[i].prompt]
    /\ convs' = [convs EXCEPT ![i].out = Tail(@)]
    /\ ShellOnly

\* exec returns and sendCode sends what PAM decided.
ChildExits(i, code) ==
    /\ Runs(i)
    /\ children' = [children EXCEPT ![i].phase = "exited", ![i].code = code]
    /\ convs' = [convs EXCEPT ![i].in = Append(@, Exit(code))]
    /\ ShellOnly

\* A module of PAM crashes.
ChildCrashes(i) ==
    /\ i \in DOMAIN children /\ children[i].phase \in {"runs", "waits"}
    /\ children' = [children EXCEPT ![i].phase = "exited"]
    /\ UNCHANGED convs /\ ShellOnly

-----------------------------------------------------------------------------
(* PamContext and PamConversation.  A state m of the main thread's work    *)
(* holds the context, the conversations, their children and what was told. *)

Main == [context |-> context, convs |-> convs, children |-> children, told |-> told]

Becomes(states) == \E m \in states : /\ context' = m.context /\ convs' = m.convs
                                     /\ children' = m.children /\ told' = m.told

\* kill and waitpid: the child is gone, and childPid 0.  With a pid of -1 every
\* process is killed, and waited for whichever of the children is the first.
Kill(m, i) ==
    LET killed == IF m.convs[i].pid = "own" THEN {i}
                  ELSE {j \in DOMAIN m.children : m.children[j].phase \notin {"none", "reaped"}}
        Phase(j) == IF j \notin killed THEN m.children[j].phase
                    ELSE IF \A k \in killed : j <= k THEN "reaped" ELSE "exited"
    IN  IF m.convs[i].pid = "none" THEN m
        ELSE [m EXCEPT !.convs[i].pid = "none",
                       !.children = [j \in DOMAIN @ |-> [@[j] EXCEPT !.phase = Phase(j)]]]

\* Variant: that a response is required is not reset.
AbortStale(m) ==
    IF m.context.conv = 0 THEN m
    ELSE [m EXCEPT !.context.target = FALSE, !.context.conv = 0,
                   !.convs[m.context.conv].connected = FALSE]

\* The conversation is let go of, to be deleted later.
AbortConversation(m) ==
    IF m.context.conv = 0 THEN m
    ELSE [m EXCEPT !.context.target = FALSE, !.context.conv = 0, !.context.required = 0,
                   !.convs[m.context.conv].connected = FALSE]

\* onCompleted and onError, if the conversation is connected: the context lets
\* go of its conversation and completes.
Completes(m, i, result) ==
    IF ~m.convs[i].connected THEN m
    ELSE [AbortConversation(m) EXCEPT !.told[i] = Append(@, result)]

\* Variant: nobody is told.
InternalErrorSilent(m, i) == IF m.convs[i].pid = "none" THEN m ELSE Kill(m, i)

\* internalError
InternalError(m, i) ==
    IF m.convs[i].pid = "none" THEN m ELSE Completes(Kill(m, i), i, "Error")

\* startConversation, for a configuration or a user that do not exist, and
\* for one that do.  start makes the subprocess, or no pipes, which is an error,
\* or cannot fork, which is taken for a subprocess whose pid is -1.
StartConversation(m) ==
    IF ~m.context.post \/ m.context.conv # 0 THEN {m}
    ELSE LET i == Len(m.convs) + 1
             Made(pid) == [m EXCEPT !.context.conv = i, !.convs = Append(@, Conversation(pid)),
                                    !.children = Append(@, [Child EXCEPT !.phase =
                                        CASE pid = "own" -> "runs" [] pid = "every" -> "none"
                                          [] OTHER -> "reaped"]),
                                    !.told = Append(@, <<>>)]
         IN  {[m EXCEPT !.context.target = FALSE], Made("own"), Made("every"),
              Completes(Made("none"), i, "Error")}

MainOnly == UNCHANGED <<responses, patient>>

ComponentComplete ==
    /\ ~context.post
    /\ LET m == [Main EXCEPT !.context.post = TRUE]
       IN  /\ context.target => Len(convs) < MaxConvs
           /\ Becomes(IF context.target THEN StartConversation(m) ELSE {m})
    /\ MainOnly

\* setActive, start and abort.
SetActive(active) ==
    /\ active # context.target
    /\ active => Len(convs) < MaxConvs
    /\ LET m == [Main EXCEPT !.context.target = active]
       IN  Becomes(IF active THEN StartConversation(m) ELSE {AbortConversation(m)})
    /\ MainOnly

\* respond: a subprocess that is gone cannot be written to.  That QML has
\* responded is not remembered.
Respond ==
    /\ Active /\ context.required # 0 /\ responses < MaxResponses
    /\ patient => context.answered # context.required
    /\ LET i == context.conv
           m == [Main EXCEPT !.context.answered = context.required]
       IN  Becomes({IF convs[i].pid # "own" \/ children[i].phase \notin {"runs", "waits"}
                    THEN InternalError(m, i)
                    ELSE [m EXCEPT !.convs[i].out = Append(@, context.required)]})
    /\ responses' = responses + 1 /\ UNCHANGED patient

\* onMessage of the conversation and of the context.  At the end of the pipe
\* is an internal error.
Message(m, i, message) ==
    IF ~m.convs[i].connected THEN m
    ELSE [m EXCEPT !.context.required = message.n, !.context.answered = 0]

\* The subprocess exits after it has sent its code, and is waited for.
Exited(m, i, code) ==
    [Completes(m, i, code) EXCEPT !.convs[i].pid = "none", !.children[i].phase = "reaped"]

OnMessage(i) ==
    /\ i \in DOMAIN convs /\ convs[i].exists /\ convs[i].watches
    /\ \/ convs[i].in # <<>>
       \/ children[i].phase \notin {"runs", "waits"}
    /\ LET message == Head(convs[i].in)
           m == [Main EXCEPT !.convs[i].in = Tail(@)]
       IN  Becomes({IF convs[i].in = <<>> THEN InternalError(Main, i)
                    ELSE IF message.kind \in {"info", "prompt"} THEN Message(m, i, message)
                    ELSE Exited(m, i, message.kind)})
    /\ MainOnly

\* Variant: the subprocess is left to itself.
DestroyOnly(i) ==
    /\ i \in DOMAIN convs /\ convs[i].exists /\ i # context.conv
    /\ convs' = [convs EXCEPT ![i].exists = FALSE]
    /\ UNCHANGED <<context, children, told>> /\ MainOnly

\* The event loop deletes what deleteLater was called on; the destructor
\* aborts.
Destroy(i) ==
    /\ i \in DOMAIN convs /\ convs[i].exists /\ i # context.conv
    /\ Becomes({[Kill(Main, i) EXCEPT !.convs[i].exists = FALSE]})
    /\ MainOnly

PamInit == /\ context = [post |-> FALSE, target |-> FALSE, conv |-> 0, required |-> 0, answered |-> 0]
           /\ convs = <<>> /\ children = <<>> /\ told = <<>> /\ responses = 0
           /\ patient \in BOOLEAN

ChildNext == \E i \in DOMAIN children :
    \/ \E message \in {"info", "prompt"} : ChildSays(i, message)
    \/ ChildReads(i) \/ ChildCrashes(i)
    \/ \E code \in Codes : ChildExits(i, code)

PamNext == \/ ChildNext \/ ComponentComplete \/ Respond
           \/ \E active \in BOOLEAN : SetActive(active)
           \/ \E i \in DOMAIN convs : OnMessage(i) \/ Destroy(i)

\* The event loop runs: what is in a pipe is read, and what is to be deleted is.
PamFairness == \A i \in 1..MaxConvs : WF_pamVars(OnMessage(i)) /\ WF_pamVars(Destroy(i))

PamSpec == PamInit /\ [][PamNext]_pamVars /\ PamFairness

-----------------------------------------------------------------------------
PamTypeOK ==
    /\ context \in [post : BOOLEAN, target : BOOLEAN, conv : 0..Len(convs),
                    required : 0..MaxMessages, answered : 0..MaxMessages]
    /\ convs \in Seq([exists : BOOLEAN, connected : BOOLEAN, pid : {"none", "own", "every"},
                     watches : BOOLEAN,
                     in : Seq([kind : {"info", "prompt"} \cup Codes, n : 0..MaxMessages]),
                     out : Seq(0..MaxMessages)])
    /\ children \in Seq([phase : {"none", "runs", "waits", "exited", "reaped"}, sent : 0..MaxMessages,
                        prompt : 0..MaxMessages, code : Codes \cup {"none"}, mixed : BOOLEAN])
    /\ told \in Seq(Seq(Codes))
    /\ Len(children) = Len(convs) /\ Len(told) = Len(convs) /\ Len(convs) <= MaxConvs
    /\ responses \in 0..MaxResponses /\ patient \in BOOLEAN

\* A process is killed only by the conversation that made it, and only once:
\* a conversation has a pid as long as its subprocess was not waited for, after
\* which the pid may be that of another process, and none is left running by
\* a conversation that was deleted, provided that no fork has failed
\* (conversation.cpp:39, :63, :109).
PidIsOfChild == \/ \E i \in DOMAIN children : children[i].phase = "none"
                \/ \A i \in DOMAIN convs : (convs[i].pid = "own")
                                           = (convs[i].exists /\ children[i].phase # "reaped")

\* QML that responds once to each prompt it is shown never answers one prompt
\* with what was meant for another, though the conversation may have been
\* aborted and begun anew in between (qml.cpp:115, :121).
ResponsesMatch == patient => \A i \in DOMAIN children : ~children[i].mixed

\* The context does not stay active when its subprocess is gone, whether that
\* said why or crashed (conversation.cpp:89, :131, qml.cpp:203).
ConversationEnds == \A i \in 1..MaxConvs :
    (context.conv = i /\ children[i].phase = "exited") ~> context.conv # i

=============================================================================
