------------------------------- MODULE Polkit -------------------------------
(***************************************************************************)
(* The polkit agent (services/polkit): PolkitAgentImpl with its queue, its *)
(* active flow and its registration; the AuthFlows, each with a session of *)
(* polkit's helper; the PolkitAgents of QML, which share the one impl; and *)
(* polkitd, which makes requests, takes them back and registers agents.    *)
(*                                                                         *)
(* A flow is named by its request.  A request does not enter the queue for *)
(* longer than its own call: a second one becomes the active flow at once, *)
(* and the end of any flow is taken for the end of the active one.         *)
(***************************************************************************)
EXTENDS Naturals, Sequences, SequencesExt

CONSTANTS
    MaxRequests,    (* bound: requests polkitd makes                         *)
    Agents,         (* the PolkitAgents QML may create                       *)
    NoAgent,
    Generation,     (* of the engine an agent belongs to                     *)
    Path,           (* the path of an agent                                  *)
    NoPath,
    MaxSessions,    (* bound: sessions of a flow                             *)
    MaxAnswers      (* bound: answers given for a flow that has completed    *)

ASSUME ConstantsAssumption == /\ MaxRequests \in Nat
                              /\ NoAgent \notin Agents
                              /\ Generation \in [Agents -> Nat]
                              /\ \A a \in Agents : Path[a] # NoPath
                              /\ MaxSessions \in Nat \ {0}
                              /\ MaxAnswers \in Nat

VARIABLES
    auth,           (* the queue, the active flow, the flows, the requests   *)
                    (* that name only netgroups, and the answers to each     *)
    impl,           (* PolkitAgentImpl::instance; its number counts impls    *)
    agents,         (* the PolkitAgents                                      *)
    registering,    (* the registrations under way                           *)
    served,         (* the agent registered with polkitd                     *)
    asked,          (* the requests polkitd has made                         *)
    withdrawn,      (* those it has taken back                               *)
    patient,        (* what others are like: when patient, polkitd makes one *)
                    (* request at a time, QML uses the flow of its agent and *)
                    (* does not cancel it when told of a failure, and agents *)
                    (* come and go one to a generation, with no registration *)
                    (* under way                                             *)
    outcome         (* "undefined" once freed memory was used                *)

vars == <<auth, impl, agents, registering, served, asked, withdrawn, patient, outcome>>

\* Requests are numbered in the order they are made.
Requests == 1..MaxRequests
NoRequest == 0

Paths == {Path[a] : a \in Agents}
None == [impl |-> 0, path |-> NoPath]

\* The members of AuthFlow: the number of sessions so far, whether the current
\* one has still to tell of its end, whether a response is required, and what
\* is said of the outcome.
NoFlow == [state |-> "none", impl |-> 0, sessions |-> 0, running |-> FALSE,
           required |-> FALSE, cancelled |-> FALSE, completed |-> FALSE,
           successful |-> FALSE, failed |-> FALSE]

NewFlow == [NoFlow EXCEPT !.state = "alive", !.impl = impl.number, !.sessions = 1,
                          !.running = TRUE]

Exists(r) == auth.flows[r].state \in {"alive", "deleting"}
Open(r)   == Exists(r) /\ ~auth.flows[r].completed

-----------------------------------------------------------------------------
(* The methods of PolkitAgentImpl and AuthFlow, as functions of s == auth. *)

\* AuthRequest::complete and AuthRequest::cancel: the task of GLib returns.
Return(s, r, result) == [s EXCEPT !.answers[r] = Append(@, result)]

\* Variant: a request that cannot be shown is dropped.
ActivateOrDrop(s) ==
    IF s.queue = <<>> THEN s
    ELSE LET r == Head(s.queue)
             t == [s EXCEPT !.queue = Tail(@)]
         IN  IF r \in s.netgroups THEN t
             ELSE [t EXCEPT !.active = r, !.flows[r] = NewFlow]

\* activateAuthenticationRequest.
Activate(s) ==
    IF s.queue = <<>> THEN s
    ELSE LET r == Head(s.queue)
             t == [s EXCEPT !.queue = Tail(@)]
         IN  IF r \in s.netgroups THEN Return(t, r, "cancelled")
             ELSE [t EXCEPT !.active = r, !.flows[r] = NewFlow]

Initiate(s, r) ==
    LET t == [s EXCEPT !.queue = Append(@, r)]
    IN  IF Len(t.queue) = 1 THEN Activate(t) ELSE t

\* Variant: the flow is deleted and stays the active one.
FinishKeeps(s) == IF s.active = NoRequest THEN s
                  ELSE Activate([s EXCEPT !.flows[s.active].state = "deleting"])

\* finishAuthenticationRequest: whichever flow has completed, the active one
\* is deleted.
Finish(s) ==
    IF s.active = NoRequest THEN s
    ELSE LET t == [s EXCEPT !.flows[s.active].state = "deleting"]
         IN  IF t.queue # <<>> THEN Activate(t) ELSE [t EXCEPT !.active = NoRequest]

\* The session has ended, bIsCompleted = true, which an impl that still exists
\* is told of unless it was set before.
SetCompleted(s, r, successful) ==
    LET t == [s EXCEPT !.flows[r].completed = TRUE, !.flows[r].successful = successful,
                       !.flows[r].running = FALSE]
    IN  IF s.flows[r].completed \/ s.flows[r].impl # impl.number THEN t ELSE Finish(t)

\* setupSession
SetUp(s, r) == [s EXCEPT !.flows[r].sessions = @ + 1, !.flows[r].running = TRUE]

\* cancelFromAgent and cancelAuthenticationRequest: the session tells of its
\* end at once, if it has not done so.
CancelFlow(s, r) ==
    LET t == [s EXCEPT !.flows[r].cancelled = TRUE]
    IN  Return(IF t.flows[r].running THEN SetCompleted(t, r, FALSE) ELSE t, r, "cancelled")

\* AuthFlow::completed(false), unless the flow was cancelled: QML is told, and
\* may cancel the flow, whose session has already told of its end.
Fail(s, r, cancels) ==
    LET t == [s EXCEPT !.flows[r].failed = TRUE, !.flows[r].running = FALSE]
    IN  SetUp(IF cancels THEN CancelFlow(t, r) ELSE t, r)

Completed(s, r, gained, cancels) ==
    IF gained THEN Return(SetCompleted(s, r, TRUE), r, "granted")
    ELSE IF s.flows[r].cancelled THEN SetCompleted(s, r, FALSE)
    ELSE Fail(s, r, cancels)

\* Variant: the active flow is deleted without an answer.
DeleteAllRequests(s) ==
    IF s.active = NoRequest THEN [s EXCEPT !.queue = <<>>] ELSE Finish([s EXCEPT !.queue = <<>>])

CancelAllRequests(s) ==
    LET t == [s EXCEPT !.queue = <<>>,
                       !.answers = [r \in Requests |->
                           IF r \in ToSet(s.queue) THEN Append(@[r], "cancelled") ELSE @[r]]]
    IN  IF t.active = NoRequest THEN t ELSE CancelFlow(t, t.active)

CancelAuthentication(s, r) ==
    IF s.active = r THEN CancelFlow(s, r)
    ELSE IF r \in ToSet(s.queue)
    THEN Return([s EXCEPT !.queue = SelectSeq(@, LAMBDA q : q # r)], r, "cancelled")
    ELSE s

-----------------------------------------------------------------------------
Init ==
    /\ auth = [queue |-> <<>>, active |-> NoRequest, netgroups |-> {},
               flows |-> [r \in Requests |-> NoFlow], answers |-> [r \in Requests |-> <<>>]]
    /\ impl = [number |-> 1, agent |-> NoAgent, path |-> NoPath,
               registered |-> FALSE, handle |-> FALSE]
    /\ agents = [a \in Agents |-> "none"]
    /\ registering = <<>>
    /\ served = None
    /\ asked = {} /\ withdrawn = {}
    /\ patient \in BOOLEAN
    /\ outcome = "defined"

(* The agents of QML.                                                      *)

\* qs_polkit_agent_unregister.
Unregister == served' = IF impl.handle THEN None ELSE served

Register(path) == registering' = Append(registering, [impl |-> impl.number, path |-> path])

CreateImpl(a) ==
    /\ impl' = [impl EXCEPT !.agent = a, !.path = Path[a]]
    /\ Register(Path[a])
    /\ UNCHANGED <<auth, served>>

\* Variant: the agent of the old path stays registered.
ChangePathOnly(a) ==
    /\ auth' = CancelAllRequests(auth)
    /\ UNCHANGED served
    /\ impl' = [impl EXCEPT !.agent = a, !.path = Path[a], !.registered = FALSE, !.handle = FALSE]
    /\ Register(Path[a])

\* setPath with a path that differs.
ChangePath(a) ==
    /\ auth' = CancelAllRequests(auth)
    /\ Unregister
    /\ impl' = [impl EXCEPT !.agent = a, !.path = Path[a], !.registered = FALSE, !.handle = FALSE]
    /\ Register(Path[a])

\* PolkitAgent::componentComplete and tryTakeoverOrCreate.  An agent of a
\* generation that has an agent already stays without an impl.
AgentCompletes(a) ==
    /\ outcome = "defined" /\ agents[a] = "none"
    /\ \A b \in Agents : agents[b] # "none" => Generation[b] <= Generation[a]
    /\ patient => /\ registering = <<>>
                  /\ \A b \in Agents : agents[b] # "none" => Generation[b] # Generation[a]
    /\ agents' = [agents EXCEPT ![a] = "alive"]
    /\ IF impl.agent = NoAgent THEN CreateImpl(a)
       ELSE IF Generation[impl.agent] = Generation[a]
       THEN UNCHANGED <<auth, impl, registering, served>>
       ELSE IF impl.path = Path[a]
       THEN impl' = [impl EXCEPT !.agent = a] /\ UNCHANGED <<auth, registering, served>>
       ELSE ChangePath(a)
    /\ UNCHANGED <<asked, withdrawn, patient, outcome>>

\* The number is that of the next impl.
NextImpl == [number |-> impl.number + 1, agent |-> NoAgent, path |-> NoPath,
             registered |-> FALSE, handle |-> FALSE]

\* ~PolkitAgent and onEndOfQmlAgent, with ~PolkitAgentImpl.
AgentEnds(a) ==
    /\ outcome = "defined" /\ agents[a] = "alive" /\ (patient => registering = <<>>)
    /\ agents' = [agents EXCEPT ![a] = "gone"]
    /\ IF impl.agent = a
       THEN /\ auth' = CancelAllRequests(auth)
            /\ IF impl.registered THEN Unregister ELSE UNCHANGED served
            /\ impl' = NextImpl
       ELSE UNCHANGED <<auth, impl, served>>
    /\ UNCHANGED <<registering, asked, withdrawn, patient, outcome>>

\* qs_polkit_agent_register_cb: there is no session, or polkitd refuses (it
\* has an agent for the session already, or another reason), or it succeeds.
\* The listener of an impl that is gone calls it all the same.
RegisterEnds ==
    /\ outcome = "defined"
    /\ \E i \in DOMAIN registering :
        /\ registering' = RemoveAt(registering, i)
        /\ IF registering[i].impl # impl.number
           THEN outcome' = "undefined" /\ UNCHANGED <<impl, served>>
           ELSE /\ UNCHANGED outcome
                /\ \/ UNCHANGED <<impl, served>>
                   \/ impl' = [impl EXCEPT !.handle = FALSE] /\ UNCHANGED served
                   \/ /\ served = None
                      /\ served' = registering[i]
                      /\ impl' = [impl EXCEPT !.handle = TRUE, !.registered = TRUE]
    /\ UNCHANGED <<auth, agents, asked, withdrawn, patient>>

-----------------------------------------------------------------------------
(* polkitd, through the listener.                                          *)

\* initiate_authentication.
PolkitAsks(r) ==
    /\ outcome = "defined" /\ served # None /\ asked = 1..(r - 1)
    /\ patient => \A q \in asked : auth.answers[q] # <<>>
    /\ asked' = asked \cup {r}
    /\ IF served.impl # impl.number THEN outcome' = "undefined" /\ UNCHANGED auth
       ELSE /\ \E netgroups \in {{}, {r}} :
                   auth' = Initiate([auth EXCEPT !.netgroups = @ \cup netgroups], r)
            /\ UNCHANGED outcome
    /\ UNCHANGED <<impl, agents, registering, served, withdrawn, patient>>

\* authentication_cancelled_cb, for a request that was not answered.  The
\* handler is connected for good: it uses the request, and the impl, though
\* they are gone.
PolkitWithdraws(r) ==
    /\ outcome = "defined" /\ r \in asked \ withdrawn /\ auth.answers[r] = <<>>
    /\ withdrawn' = withdrawn \cup {r}
    /\ IF auth.flows[r].state = "freed" \/ auth.flows[r].impl # impl.number
       THEN outcome' = "undefined" /\ UNCHANGED auth
       ELSE auth' = CancelAuthentication(auth, r) /\ UNCHANGED outcome
    /\ UNCHANGED <<impl, agents, registering, served, asked, patient>>

-----------------------------------------------------------------------------
(* The flows: the helper, QML and the event loop.                          *)

Flow(r) ==
    /\ outcome = "defined" /\ Exists(r)
    /\ UNCHANGED <<impl, agents, registering, served, asked, withdrawn, patient, outcome>>

\* QML finds a flow at its agent, or keeps it for as long as it exists.
Held(r) == Flow(r) /\ (patient => auth.active = r)

MayAnswer(r) == auth.flows[r].completed => Len(auth.answers[r]) < MaxAnswers      \* bound

Running(r) == auth.flows[r].running

HelperAsks(r) == Flow(r) /\ Running(r) /\ auth' = [auth EXCEPT !.flows[r].required = TRUE]

\* A session that ends without success is followed by another.
HelperEnds(r, gained) ==
    /\ Flow(r) /\ Running(r)
    /\ gained \/ auth.flows[r].cancelled \/ auth.flows[r].sessions < MaxSessions
    /\ MayAnswer(r)
    /\ \E cancels \in BOOLEAN :
        /\ cancels => ~patient
        /\ auth' = Completed(auth, r, gained, cancels)

QmlSubmits(r) == Held(r) /\ auth' = [auth EXCEPT !.flows[r].required = FALSE]

\* setSelectedIdentity: the session is cancelled, which counts as a failure and
\* sets up another, and then one more is set up in its place; on a flow that
\* has completed only that one.
QmlSelects(r) ==
    /\ Held(r) /\ auth.flows[r].sessions + 2 <= MaxSessions
    /\ MayAnswer(r)
    /\ \E cancels \in BOOLEAN :
        /\ cancels => ~patient
        /\ auth' = SetUp(IF Running(r) THEN Completed(auth, r, FALSE, cancels) ELSE auth, r)

QmlCancels(r) == Held(r) /\ MayAnswer(r) /\ auth' = CancelFlow(auth, r)

\* The event loop deletes a flow, and ~AuthFlow its request.
DeleteFlow(r) ==
    /\ outcome = "defined" /\ auth.flows[r].state = "deleting"
    /\ auth' = [auth EXCEPT !.flows[r] = [NoFlow EXCEPT !.state = "freed"]]
    /\ UNCHANGED <<impl, agents, registering, served, asked, withdrawn, patient, outcome>>

-----------------------------------------------------------------------------
Next ==
    \/ \E a \in Agents : AgentCompletes(a) \/ AgentEnds(a)
    \/ RegisterEnds
    \/ \E r \in Requests :
        \/ PolkitAsks(r)
        \/ PolkitWithdraws(r)
        \/ HelperAsks(r)
        \/ \E gained \in BOOLEAN : HelperEnds(r, gained)
        \/ QmlSubmits(r)
        \/ QmlSelects(r)
        \/ QmlCancels(r)
        \/ DeleteFlow(r)

\* Someone who is asked gives up in the end, if not authenticated before.
Fairness == WF_vars(patient /\ \E r \in Requests : QmlCancels(r) \/ HelperEnds(r, TRUE))

Spec == Init /\ [][Next]_vars /\ Fairness

-----------------------------------------------------------------------------
(* Properties.                                                             *)

\* Type invariant of the agent, its flows and its registrations.
TypeOK ==
    /\ auth \in
           [queue : Seq(Requests), active : Requests \cup {NoRequest},
            netgroups : SUBSET asked,
            flows : [Requests ->
                [state : {"none", "alive", "deleting", "freed"}, impl : Nat,
                 sessions : 0..MaxSessions, running : BOOLEAN, required : BOOLEAN,
                 cancelled : BOOLEAN, completed : BOOLEAN, successful : BOOLEAN,
                 failed : BOOLEAN]],
            answers : [Requests -> Seq({"granted", "cancelled"})]]
    /\ impl \in [number : Nat, agent : Agents \cup {NoAgent}, path : Paths \cup {NoPath},
                 registered : BOOLEAN, handle : BOOLEAN]
    /\ agents \in [Agents -> {"none", "alive", "gone"}]
    /\ registering \in Seq([impl : Nat, path : Paths])
    /\ served \in [impl : Nat, path : Paths \cup {NoPath}]
    /\ asked \subseteq Requests /\ withdrawn \subseteq asked
    /\ patient \in BOOLEAN /\ outcome \in {"defined", "undefined"}

\* The flow that agents show is one that still waits for its outcome and that
\* nothing has begun to delete, in whatever order flows end (agentimpl.cpp:165).
ActiveIsOpen ==
    auth.active # NoRequest => auth.flows[auth.active].state = "alive" /\ Open(auth.active)

\* polkitd sends requests to no agent but the one there is, at the path it has,
\* whatever took over, failed to register or ended before; agents come and go
\* with no registration under way here (agentimpl.cpp:86, listener.cpp:135).
ServedIsLive ==
    patient /\ served # None =>
        /\ served = [impl |-> impl.number, path |-> impl.path]
        /\ impl.registered /\ impl.handle
        /\ impl.agent # NoAgent /\ agents[impl.agent] = "alive"

\* No request goes with its flow before it is answered, and no freed memory is
\* used, as long as requests are made one at a time, and agents come and go one
\* to a generation and with no registration under way (flow.cpp:43).
AnsweredBeforeFreed ==
    patient => /\ outcome = "defined"
               /\ \A r \in Requests : auth.flows[r].state = "freed" => auth.answers[r] # <<>>

Promise == INSTANCE PolkitPromise WITH answers <- auth.answers

\* Each request is answered once, if not made amid another (agentimpl.cpp:109).
KeepsPromise == Promise!Spec

=============================================================================
