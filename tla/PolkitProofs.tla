---------------------------- MODULE PolkitProofs ----------------------------
(***************************************************************************)
(* Proofs about Polkit, for any number of requests, agents and sessions:   *)
(* its types, that the flow that is shown is an open one, that no request  *)
(* goes unanswered with its flow, and that each step is one PolkitPromise  *)
(* allows.                                                                 *)
(*                                                                         *)
(* The methods of the agent and its flows are functions of s, what auth    *)
(* is amid a handler.  The queue is empty whenever one of them is called   *)
(* (Rests), so a lemma on each says what it makes of the flows and the     *)
(* answers, and the actions follow.                                        *)
(***************************************************************************)
EXTENDS Polkit, SequenceTheorems, TLAPS

Results == {"granted", "cancelled"}

Flows == [state : {"none", "alive", "deleting", "freed"}, impl : Nat,
          sessions : 0..MaxSessions, running : BOOLEAN, required : BOOLEAN,
          cancelled : BOOLEAN, completed : BOOLEAN, successful : BOOLEAN, failed : BOOLEAN]

Auths == [queue : Seq(Requests), active : Requests \cup {NoRequest},
          netgroups : SUBSET Requests, flows : [Requests -> Flows],
          answers : [Requests -> Seq(Results)]]

Impls == [number : Nat, agent : Agents \cup {NoAgent}, path : Paths \cup {NoPath},
          registered : BOOLEAN, handle : BOOLEAN]

Registrations == [impl : Nat, path : Paths]

\* Nothing waits in the queue, and the flow shown is an open one of this impl,
\* whose session has yet to tell of its end.
Rests(s) ==
    /\ s \in Auths
    /\ s.queue = <<>>
    /\ s.active # NoRequest => /\ s.flows[s.active].state = "alive"
                               /\ ~s.flows[s.active].completed /\ s.flows[s.active].running
                               /\ s.flows[s.active].impl = impl.number

RunsIn(s, r) == s.flows[r].state \in {"alive", "deleting"} /\ s.flows[r].running

\* A request has no flow and no answer before it is made.
AskedFirst(s, made) ==
    /\ s.netgroups \subseteq made
    /\ \A r \in Requests : r \in made \/ (s.flows[r].state = "none" /\ s.answers[r] = <<>>)

\* With one request at a time, the one that waits for its answer is shown, and
\* no other has a session that runs.
Single(s, made) ==
    /\ \A r \in made : s.answers[r] = <<>> => s.active = r
    /\ s.active # NoRequest => /\ s.answers[s.active] = <<>>
                               /\ ~s.flows[s.active].cancelled
    /\ \A r \in Requests : RunsIn(s, r) => s.active = r

\* With agents one to a generation and no registration under way when they
\* come and go, polkitd knows the impl there is at the path it has, or none.
Serving == [impl |-> impl.number, path |-> impl.path]

RegistersOnce ==
    /\ Len(registering) <= 1
    /\ registering # <<>> => served = None /\ registering[1] = Serving
    /\ served # None => impl.registered /\ impl.handle /\ served = Serving
    /\ impl.agent = NoAgent => served = None /\ registering = <<>>
    /\ impl.agent # NoAgent => agents[impl.agent] = "alive"

IInv ==
    /\ Rests(auth)
    /\ AskedFirst(auth, asked)
    /\ impl \in Impls
    /\ agents \in [Agents -> {"none", "alive", "gone"}]
    /\ registering \in Seq(Registrations)
    /\ served \in [impl : Nat, path : Paths \cup {NoPath}]
    /\ asked \subseteq Requests /\ withdrawn \subseteq asked
    /\ patient \in BOOLEAN /\ outcome \in {"defined", "undefined"}
    /\ patient => Single(auth, asked) /\ RegistersOnce /\ outcome = "defined"

LEMMA NoRequestIsNone == NoRequest \notin Requests /\ Requests \subseteq Nat
  BY ConstantsAssumption DEF NoRequest, Requests

-----------------------------------------------------------------------------
(* The fields of auth, one by one.                                         *)

LEMMA SetQueue ==
    ASSUME NEW s \in Auths, NEW queue \in Seq(Requests)
    PROVE  LET t == [s EXCEPT !.queue = queue]
           IN  /\ t \in Auths
               /\ t.queue = queue /\ t.active = s.active /\ t.netgroups = s.netgroups
               /\ t.flows = s.flows /\ t.answers = s.answers
  <1>1. [s EXCEPT !.queue = queue] \in Auths
    BY DEF Auths
  <1> QED
    BY <1>1 DEF Auths

LEMMA SetActive ==
    ASSUME NEW s \in Auths, NEW r \in Requests \cup {NoRequest}
    PROVE  LET t == [s EXCEPT !.active = r]
           IN  /\ t \in Auths
               /\ t.queue = s.queue /\ t.active = r /\ t.netgroups = s.netgroups
               /\ t.flows = s.flows /\ t.answers = s.answers
  <1>1. [s EXCEPT !.active = r] \in Auths
    BY DEF Auths
  <1> QED
    BY <1>1 DEF Auths

LEMMA SetNetgroups ==
    ASSUME NEW s \in Auths, NEW netgroups \in SUBSET Requests
    PROVE  LET t == [s EXCEPT !.netgroups = netgroups]
           IN  /\ t \in Auths
               /\ t.queue = s.queue /\ t.active = s.active /\ t.netgroups = netgroups
               /\ t.flows = s.flows /\ t.answers = s.answers
  <1>1. [s EXCEPT !.netgroups = netgroups] \in Auths
    BY DEF Auths
  <1> QED
    BY <1>1 DEF Auths

LEMMA SetAnswers ==
    ASSUME NEW s \in Auths, NEW answers \in [Requests -> Seq(Results)]
    PROVE  LET t == [s EXCEPT !.answers = answers]
           IN  /\ t \in Auths
               /\ t.queue = s.queue /\ t.active = s.active /\ t.netgroups = s.netgroups
               /\ t.flows = s.flows /\ t.answers = answers
  <1>1. [s EXCEPT !.answers = answers] \in Auths
    BY DEF Auths
  <1> QED
    BY <1>1 DEF Auths

LEMMA SetFlow ==
    ASSUME NEW s \in Auths, NEW r \in Requests, NEW flow \in Flows
    PROVE  LET t == [s EXCEPT !.flows = [s.flows EXCEPT ![r] = flow]]
           IN  /\ t \in Auths
               /\ t.queue = s.queue /\ t.active = s.active /\ t.netgroups = s.netgroups
               /\ t.answers = s.answers
               /\ \A q \in Requests : t.flows[q] = IF q = r THEN flow ELSE s.flows[q]
  <1> DEFINE flows == [s.flows EXCEPT ![r] = flow]
  <1>1. /\ flows \in [Requests -> Flows]
        /\ \A q \in Requests : flows[q] = IF q = r THEN flow ELSE s.flows[q]
    BY DEF Auths
  <1> HIDE DEF flows
  <1>2. [s EXCEPT !.flows = flows] \in Auths
    BY <1>1 DEF Auths
  <1>3. LET t == [s EXCEPT !.flows = flows]
        IN  /\ t.queue = s.queue /\ t.active = s.active /\ t.netgroups = s.netgroups
            /\ t.answers = s.answers /\ t.flows = flows
    BY DEF Auths
  <1> QED
    BY <1>1, <1>2, <1>3 DEF flows

-----------------------------------------------------------------------------
(* The methods.                                                            *)

\* The flow of a new request fits.
LEMMA NewFlowFits ==
    ASSUME impl \in Impls
    PROVE  /\ NewFlow \in Flows
           /\ NewFlow.state = "alive" /\ ~NewFlow.completed /\ ~NewFlow.cancelled
           /\ NewFlow.running /\ NewFlow.impl = impl.number
  <1>1. 1 \in 0..MaxSessions /\ 0 \in 0..MaxSessions
    BY ConstantsAssumption
  <1>2. impl.number \in Nat
    BY DEF Impls
  <1>3. NoFlow \in Flows
    BY <1>1 DEF NoFlow, Flows
  <1>4. NewFlow \in Flows
    BY <1>1, <1>2, <1>3 DEF NewFlow, Flows
  <1>5. /\ NewFlow.state = "alive" /\ NewFlow.completed = NoFlow.completed
        /\ NewFlow.cancelled = NoFlow.cancelled /\ NewFlow.impl = impl.number
        /\ NewFlow.running
    BY <1>3 DEF NewFlow, Flows
  <1> QED
    BY <1>4, <1>5 DEF NoFlow

\* A result is added to the answers, and nothing else changes.
LEMMA ReturnIs ==
    ASSUME NEW s \in Auths, NEW r \in Requests, NEW result \in Results
    PROVE  LET t == Return(s, r, result)
           IN  /\ t \in Auths
               /\ t.queue = s.queue /\ t.active = s.active /\ t.netgroups = s.netgroups
               /\ t.flows = s.flows
               /\ t.answers = [s.answers EXCEPT ![r] = Append(@, result)]
               /\ \A q \in Requests : t.answers[q] = IF q = r THEN Append(s.answers[q], result)
                                                             ELSE s.answers[q]
  <1>1. Append(s.answers[r], result) \in Seq(Results)
    BY DEF Auths
  <1> QED
    BY <1>1 DEF Return, Auths

\* A request that is initiated is the active one, or refused.
LEMMA InitiateIs ==
    ASSUME NEW s, Rests(s), impl \in Impls, NEW r \in Requests
    PROVE  LET t == Initiate(s, r)
           IN  /\ r \in s.netgroups => t = Return(s, r, "cancelled")
               /\ r \notin s.netgroups =>
                    /\ t \in Auths
                    /\ t.queue = <<>> /\ t.active = r /\ t.netgroups = s.netgroups
                    /\ t.answers = s.answers
                    /\ \A q \in Requests : t.flows[q] = IF q = r THEN NewFlow ELSE s.flows[q]
  <1> DEFINE u == [s EXCEPT !.queue = <<r>>]
             v == [u EXCEPT !.queue = <<>>]
  <1>1. s \in Auths /\ s.queue = <<>>
    BY DEF Rests
  <1>2. Append(s.queue, r) = <<r>> /\ Len(<<r>>) = 1 /\ Head(<<r>>) = r /\ Tail(<<r>>) = <<>>
        /\ <<r>> # <<>>
    BY <1>1
  <1>3. u.queue = <<r>> /\ u.netgroups = s.netgroups /\ v = s
    BY <1>1 DEF Auths
  <1>4. Initiate(s, r) = Activate(u)
    BY <1>2, <1>3 DEF Initiate
  <1> DEFINE t == [s EXCEPT !.active = r]
             n == [t EXCEPT !.flows = [t.flows EXCEPT ![r] = NewFlow]]
  <1>5. Activate(u) = IF r \in s.netgroups THEN Return(s, r, "cancelled")
                      ELSE [s EXCEPT !.active = r, !.flows[r] = NewFlow]
    <2> HIDE DEF u
    <2>1. [u EXCEPT !.queue = Tail(@)] = s
      BY <1>2, <1>3
    <2> QED
      BY <1>2, <1>3, <2>1 DEF Activate
  <1>6. [s EXCEPT !.active = r, !.flows[r] = NewFlow] = n
    BY <1>1 DEF Auths
  <1>7. t \in Auths /\ t.queue = <<>> /\ t.active = r /\ t.netgroups = s.netgroups
        /\ t.answers = s.answers /\ t.flows = s.flows
    BY <1>1, SetActive
  <1> HIDE DEF t
  <1>8. /\ n \in Auths /\ n.queue = <<>> /\ n.active = r /\ n.netgroups = s.netgroups
        /\ n.answers = s.answers
        /\ \A q \in Requests : n.flows[q] = IF q = r THEN NewFlow ELSE s.flows[q]
    BY <1>7, SetFlow, NewFlowFits
  <1> HIDE DEF n
  <1> QED
    BY <1>4, <1>5, <1>6, <1>8

\* A member of a flow is assigned.
LEMMA Members ==
    ASSUME NEW s \in Auths, NEW r \in Requests, NEW value \in BOOLEAN
    PROVE  /\ [s EXCEPT !.flows[r].state = "deleting"] =
                [s EXCEPT !.flows = [s.flows EXCEPT ![r] = [s.flows[r] EXCEPT !.state = "deleting"]]]
           /\ [s EXCEPT !.flows[r].cancelled = TRUE] =
                [s EXCEPT !.flows = [s.flows EXCEPT ![r] = [s.flows[r] EXCEPT !.cancelled = TRUE]]]
           /\ [s EXCEPT !.flows[r].required = value] =
                [s EXCEPT !.flows = [s.flows EXCEPT ![r] = [s.flows[r] EXCEPT !.required = value]]]
  <1>1. [s EXCEPT !.flows[r].state = "deleting"] =
                [s EXCEPT !.flows = [s.flows EXCEPT ![r] = [s.flows[r] EXCEPT !.state = "deleting"]]]
    BY DEF Auths, Flows
  <1>2. [s EXCEPT !.flows[r].cancelled = TRUE] =
                [s EXCEPT !.flows = [s.flows EXCEPT ![r] = [s.flows[r] EXCEPT !.cancelled = TRUE]]]
    BY DEF Auths, Flows
  <1>3. [s EXCEPT !.flows[r].required = value] =
                [s EXCEPT !.flows = [s.flows EXCEPT ![r] = [s.flows[r] EXCEPT !.required = value]]]
    BY DEF Auths, Flows
  <1> QED
    BY <1>1, <1>2, <1>3

\* The active flow is deleted, and there is none.
LEMMA FinishIs ==
    ASSUME NEW s \in Auths, s.queue = <<>>
    PROVE  LET t == Finish(s)
           IN  /\ t \in Auths
               /\ t.queue = <<>> /\ t.active = NoRequest /\ t.netgroups = s.netgroups
               /\ t.answers = s.answers
               /\ \A q \in Requests : t.flows[q] = IF q = s.active
                                                  THEN [s.flows[q] EXCEPT !.state = "deleting"]
                                                  ELSE s.flows[q]
  <1>1. CASE s.active = NoRequest
    BY <1>1, NoRequestIsNone DEF Finish, Auths
  <1>2. CASE s.active # NoRequest
    <2>1. s.active \in Requests
      BY <1>2 DEF Auths
    <2>2. [s.flows[s.active] EXCEPT !.state = "deleting"] \in Flows
      <3>1. s.flows[s.active] \in Flows
        BY <2>1 DEF Auths
      <3> QED
        BY <3>1 DEF Flows
    <2> DEFINE flow == [s.flows[s.active] EXCEPT !.state = "deleting"]
               t == [s EXCEPT !.flows = [s.flows EXCEPT ![s.active] = flow]]
    <2>3. t = [s EXCEPT !.flows[s.active].state = "deleting"]
      BY <2>1, Members
    <2>4. /\ t \in Auths
          /\ t.queue = <<>> /\ t.active = s.active /\ t.netgroups = s.netgroups
          /\ t.answers = s.answers
          /\ \A q \in Requests : t.flows[q] = IF q = s.active THEN flow ELSE s.flows[q]
      BY <2>1, <2>2, SetFlow
    <2> HIDE DEF t
    <2>5. Finish(s) = [t EXCEPT !.active = NoRequest]
      BY <1>2, <2>3, <2>4 DEF Finish
    <2> QED
      BY <2>4, <2>5, SetActive
  <1> QED
    BY <1>1, <1>2

\* What a method called on the flow r may make of s: it may end what is shown,
\* and changes no flow but r otherwise.
Touches(s, t, r) ==
    /\ t \in Auths /\ t.queue = <<>> /\ t.netgroups = s.netgroups
    /\ t.active \in {s.active, NoRequest}
    /\ t.active = r => t.flows[r].completed = s.flows[r].completed
    /\ \A q \in Requests :
        /\ t.flows[q].state = IF q = s.active /\ t.active = NoRequest THEN "deleting"
                              ELSE s.flows[q].state
        /\ t.flows[q].impl = s.flows[q].impl
        /\ q # r => /\ t.flows[q].completed = s.flows[q].completed
                    /\ t.flows[q].cancelled = s.flows[q].cancelled
                    /\ t.flows[q].running = s.flows[q].running
                    /\ t.answers[q] = s.answers[q]

LEMMA TouchesTwice ==
    ASSUME NEW s \in Auths, NEW t, NEW u, NEW r \in Requests, Touches(s, t, r), Touches(t, u, r)
    PROVE  Touches(s, u, r)
  <1>1. u.active \in {s.active, NoRequest}
    BY DEF Touches
  <1>2. u.active = r => u.flows[r].completed = s.flows[r].completed
    BY NoRequestIsNone DEF Touches
  <1>3. ASSUME NEW q \in Requests
        PROVE  u.flows[q].state = IF q = s.active /\ u.active = NoRequest THEN "deleting"
                                  ELSE s.flows[q].state
    <2>1. q # NoRequest
      BY NoRequestIsNone
    <2>2. CASE q = s.active /\ t.active = NoRequest
      <3>1. t.flows[q].state = "deleting" /\ u.active = NoRequest
        BY <2>2 DEF Touches
      <3> QED
        BY <2>1, <2>2, <3>1 DEF Touches
    <2>3. CASE q = s.active /\ t.active # NoRequest
      <3>1. t.flows[q].state = s.flows[q].state /\ t.active = q
        BY <2>3 DEF Touches
      <3> QED
        BY <2>3, <3>1 DEF Touches
    <2>4. CASE q # s.active
      <3>1. t.flows[q].state = s.flows[q].state /\ t.active # q
        BY <2>1, <2>4 DEF Touches
      <3> QED
        BY <2>4, <3>1 DEF Touches
    <2> QED
      BY <2>2, <2>3, <2>4
  <1>4. ASSUME NEW q \in Requests
        PROVE  /\ u.flows[q].impl = s.flows[q].impl
               /\ q # r => /\ u.flows[q].completed = s.flows[q].completed
                           /\ u.flows[q].cancelled = s.flows[q].cancelled
                           /\ u.flows[q].running = s.flows[q].running
                           /\ u.answers[q] = s.answers[q]
    BY DEF Touches
  <1> QED
    BY <1>1, <1>2, <1>3, <1>4 DEF Touches

\* A flow is assigned as a whole, and goes on as it was but for r's own.
Assign(s, r, flow) == [s EXCEPT !.flows = [s.flows EXCEPT ![r] = flow]]

LEMMA AssignTouches ==
    ASSUME NEW s \in Auths, s.queue = <<>>, NEW r \in Requests, NEW flow \in Flows,
           flow.state = s.flows[r].state, flow.impl = s.flows[r].impl,
           flow.completed = s.flows[r].completed \/ s.active # r
    PROVE  LET t == Assign(s, r, flow)
           IN  /\ Touches(s, t, r)
               /\ t.flows[r] = flow /\ t.answers = s.answers /\ t.active = s.active
  <1> DEFINE t == Assign(s, r, flow)
  <1>1. /\ t \in Auths
        /\ t.queue = s.queue /\ t.active = s.active /\ t.netgroups = s.netgroups
        /\ t.answers = s.answers
        /\ \A q \in Requests : t.flows[q] = IF q = r THEN flow ELSE s.flows[q]
    BY SetFlow DEF Assign
  <1>2. s.active \in Requests \cup {NoRequest}
    BY DEF Auths
  <1> HIDE DEF t
  <1>3. Touches(s, t, r)
    BY <1>1, <1>2, NoRequestIsNone DEF Touches
  <1> QED
    BY <1>1, <1>3 DEF t

LEMMA ReturnTouches ==
    ASSUME NEW s \in Auths, s.queue = <<>>, NEW r \in Requests, NEW result \in Results
    PROVE  LET t == Return(s, r, result)
           IN  /\ Touches(s, t, r)
               /\ t.flows = s.flows /\ t.active = s.active
               /\ t.answers[r] = Append(s.answers[r], result)
  <1> DEFINE t == Return(s, r, result)
  <1> HIDE DEF t
  <1>1. /\ t \in Auths
        /\ t.queue = s.queue /\ t.active = s.active /\ t.netgroups = s.netgroups
        /\ t.flows = s.flows
        /\ \A q \in Requests : t.answers[q] = IF q = r THEN Append(s.answers[q], result)
                                                      ELSE s.answers[q]
    <2>1. Append(s.answers[r], result) \in Seq(Results)
      BY DEF Auths
    <2> QED
      BY <2>1 DEF t, Return, Auths
  <1>2. s.active \in Requests \cup {NoRequest}
    BY DEF Auths
  <1>3. Touches(s, t, r)
    BY <1>1, <1>2, NoRequestIsNone DEF Touches
  <1> QED
    BY <1>1, <1>3 DEF t

\* A session more.
LEMMA SetUpTouches ==
    ASSUME NEW s \in Auths, s.queue = <<>>, NEW r \in Requests,
           s.flows[r].sessions < MaxSessions
    PROVE  LET t == SetUp(s, r)
           IN  /\ Touches(s, t, r)
               /\ t.answers = s.answers /\ t.active = s.active
               /\ t.flows[r].sessions = s.flows[r].sessions + 1 /\ t.flows[r].running
               /\ t.flows[r].completed = s.flows[r].completed
               /\ t.flows[r].cancelled = s.flows[r].cancelled
  <1> DEFINE flow == [s.flows[r] EXCEPT !.sessions = @ + 1, !.running = TRUE]
             t == SetUp(s, r)
  <1>1. s.flows[r] \in Flows /\ s.flows[r].sessions + 1 \in 0..MaxSessions
    <2>1. s.flows[r] \in Flows
      BY DEF Auths
    <2> QED
      BY <2>1, ConstantsAssumption DEF Flows
  <1>2. flow \in Flows
    BY <1>1 DEF Flows
  <1>3. /\ flow.completed = s.flows[r].completed /\ flow.state = s.flows[r].state
        /\ flow.impl = s.flows[r].impl /\ flow.cancelled = s.flows[r].cancelled
        /\ flow.sessions = s.flows[r].sessions + 1 /\ flow.running
    BY <1>1 DEF Flows
  <1>4. t = Assign(s, r, flow)
    BY DEF Auths, Flows, SetUp, Assign
  <1> HIDE DEF flow, t
  <1>5. /\ Touches(s, t, r)
        /\ t.flows[r] = flow /\ t.answers = s.answers /\ t.active = s.active
    BY <1>2, <1>3, <1>4, AssignTouches
  <1> QED
    BY <1>3, <1>5 DEF t

\* A flow that completes ends what is shown, if this impl still exists.
LEMMA SetCompletedTouches ==
    ASSUME NEW s \in Auths, s.queue = <<>>, NEW r \in Requests, NEW successful \in BOOLEAN,
           s.active = r => s.flows[r].impl = impl.number
    PROVE  LET t == SetCompleted(s, r, successful)
           IN  /\ Touches(s, t, r)
               /\ t.answers = s.answers
               /\ ~s.flows[r].completed /\ s.flows[r].impl = impl.number => t.active = NoRequest
               /\ t.flows[r].sessions = s.flows[r].sessions /\ ~t.flows[r].running
  <1> DEFINE flow == [s.flows[r] EXCEPT !.completed = TRUE, !.successful = successful,
                                        !.running = FALSE]
             t == Assign(s, r, flow)
             n == SetCompleted(s, r, successful)
  <1>1. s.flows[r] \in Flows
    BY DEF Auths
  <1>2. flow \in Flows
    BY <1>1 DEF Flows
  <1>3. /\ flow.completed /\ flow.state = s.flows[r].state /\ flow.impl = s.flows[r].impl
        /\ flow.sessions = s.flows[r].sessions /\ ~flow.running
    BY <1>1 DEF Flows
  <1>4. n = IF s.flows[r].completed \/ s.flows[r].impl # impl.number THEN t ELSE Finish(t)
    <2>1. [s EXCEPT !.flows[r].completed = TRUE, !.flows[r].successful = successful,
                    !.flows[r].running = FALSE] = t
      BY DEF Auths, Flows, Assign
    <2> HIDE DEF t
    <2> QED
      BY <2>1 DEF SetCompleted
  <1> HIDE DEF flow, n
  <1>5. CASE s.flows[r].completed \/ s.flows[r].impl # impl.number
    <2>1. s.flows[r].completed \in BOOLEAN /\ flow.completed \in BOOLEAN
      BY <1>1, <1>2 DEF Flows
    <2>2. flow.completed = s.flows[r].completed \/ s.active # r
      BY <1>3, <1>5, <2>1
    <2>3. /\ Touches(s, n, r)
          /\ n.flows[r] = flow /\ n.answers = s.answers /\ n.active = s.active
      <3>1. n = Assign(s, r, flow)
        BY <1>4, <1>5
      <3> QED
        BY <1>2, <1>3, <3>1, <2>2, AssignTouches
    <2> QED
      BY <1>3, <1>5, <2>3 DEF n
  <1>6. CASE ~s.flows[r].completed /\ s.flows[r].impl = impl.number
    <2>1. /\ t \in Auths /\ t.queue = <<>> /\ t.active = s.active /\ t.netgroups = s.netgroups
          /\ t.answers = s.answers
          /\ \A q \in Requests : t.flows[q] = IF q = r THEN flow ELSE s.flows[q]
      BY <1>2, SetFlow DEF Assign
    <2> HIDE DEF t
    <2>2. \A q \in Requests : t.flows[q] \in Flows
      BY <2>1 DEF Auths
    <2>3. n = Finish(t)
      BY <1>4, <1>6
    <2>4. /\ n \in Auths /\ n.queue = <<>> /\ n.active = NoRequest /\ n.netgroups = s.netgroups
          /\ n.answers = s.answers
          /\ \A q \in Requests : n.flows[q] = IF q = s.active
                                             THEN [t.flows[q] EXCEPT !.state = "deleting"]
                                             ELSE t.flows[q]
      BY <2>1, <2>3, FinishIs
    <2>5. \A q \in Requests :
            /\ n.flows[q].state = IF q = s.active THEN "deleting" ELSE t.flows[q].state
            /\ n.flows[q].impl = t.flows[q].impl
            /\ n.flows[q].completed = t.flows[q].completed
            /\ n.flows[q].cancelled = t.flows[q].cancelled
            /\ n.flows[q].running = t.flows[q].running
            /\ n.flows[q].sessions = t.flows[q].sessions
      BY <2>2, <2>4 DEF Flows
    <2>6. Touches(s, n, r)
      BY <1>3, <2>1, <2>4, <2>5, NoRequestIsNone DEF Touches
    <2>7. n.flows[r].sessions = s.flows[r].sessions /\ ~n.flows[r].running
      BY <1>3, <2>1, <2>5
    <2> QED
      BY <2>4, <2>6, <2>7 DEF n
  <1> QED
    BY <1>5, <1>6

\* A flow that is cancelled has its request answered, and ends if its session
\* was yet to do so.
LEMMA CancelFlowTouches ==
    ASSUME NEW s \in Auths, s.queue = <<>>, NEW r \in Requests,
           s.active = r => s.flows[r].impl = impl.number
    PROVE  LET t == CancelFlow(s, r)
           IN  /\ Touches(s, t, r)
               /\ t.answers[r] = Append(s.answers[r], "cancelled")
               /\ s.flows[r].running /\ ~s.flows[r].completed /\ s.flows[r].impl = impl.number =>
                    t.active = NoRequest
               /\ t.flows[r].sessions = s.flows[r].sessions /\ ~t.flows[r].running
  <1> DEFINE flow == [s.flows[r] EXCEPT !.cancelled = TRUE]
             t == [s EXCEPT !.flows[r].cancelled = TRUE]
             u == IF t.flows[r].running THEN SetCompleted(t, r, FALSE) ELSE t
             n == Return(u, r, "cancelled")
  <1>1. CancelFlow(s, r) = n
    BY Zenon DEF CancelFlow
  <1>2. s.flows[r] \in Flows
    BY DEF Auths
  <1>3. flow \in Flows
    BY <1>2 DEF Flows
  <1>4. /\ flow.completed = s.flows[r].completed /\ flow.state = s.flows[r].state
        /\ flow.impl = s.flows[r].impl /\ flow.running = s.flows[r].running
        /\ flow.sessions = s.flows[r].sessions
    BY <1>2 DEF Flows
  <1>5. t = Assign(s, r, flow)
    BY Members DEF Assign
  <1> HIDE DEF flow, t
  <1>6. /\ Touches(s, t, r)
        /\ t.flows[r] = flow /\ t.answers = s.answers /\ t.active = s.active
    BY <1>3, <1>4, <1>5, AssignTouches
  <1>7. t \in Auths /\ t.queue = <<>> /\ FALSE \in BOOLEAN
    BY <1>6 DEF Touches
  <1>8. /\ Touches(s, u, r) /\ u.answers = s.answers
        /\ s.flows[r].running /\ ~s.flows[r].completed /\ s.flows[r].impl = impl.number =>
             u.active = NoRequest
        /\ u.flows[r].sessions = s.flows[r].sessions /\ ~u.flows[r].running
    <2>1. CASE t.flows[r].running
      <3>1. u = SetCompleted(t, r, FALSE)
        BY <2>1
      <3> HIDE DEF u
      <3>2. /\ Touches(t, u, r)
            /\ u.answers = t.answers
            /\ ~t.flows[r].completed /\ t.flows[r].impl = impl.number => u.active = NoRequest
            /\ u.flows[r].sessions = t.flows[r].sessions /\ ~u.flows[r].running
        BY <1>4, <1>6, <1>7, <3>1, SetCompletedTouches
      <3>3. Touches(s, u, r)
        BY <1>6, <3>2, TouchesTwice
      <3> QED
        BY <1>4, <1>6, <3>2, <3>3
    <2>2. CASE ~t.flows[r].running
      BY <1>4, <1>6, <2>2
    <2> QED
      BY <2>1, <2>2
  <1> HIDE DEF u
  <1>9. "cancelled" \in Results /\ u \in Auths /\ u.queue = <<>>
    BY <1>8 DEF Results, Touches
  <1>10. /\ Touches(u, n, r)
         /\ n.flows = u.flows /\ n.active = u.active
         /\ n.answers[r] = Append(u.answers[r], "cancelled")
    BY <1>9, ReturnTouches
  <1> HIDE DEF n
  <1>11. Touches(s, n, r)
    BY <1>8, <1>10, TouchesTwice
  <1> QED
    BY <1>1, <1>8, <1>10, <1>11

\* A failed flow goes on with a session more; what is shown stays.
LEMMA FailTouches ==
    ASSUME NEW s \in Auths, s.queue = <<>>, NEW r \in Requests, NEW cancels \in BOOLEAN,
           s.flows[r].sessions < MaxSessions,
           s.active = r => s.flows[r].impl = impl.number
    PROVE  LET t == Fail(s, r, cancels)
           IN  /\ Touches(s, t, r)
               /\ t.flows[r].sessions = s.flows[r].sessions + 1 /\ t.flows[r].running
               /\ ~cancels => /\ t.answers = s.answers /\ t.active = s.active
                              /\ t.flows[r].cancelled = s.flows[r].cancelled
  <1> DEFINE flow == [s.flows[r] EXCEPT !.failed = TRUE, !.running = FALSE]
             t == [s EXCEPT !.flows[r].failed = TRUE, !.flows[r].running = FALSE]
             u == IF cancels THEN CancelFlow(t, r) ELSE t
             n == SetUp(u, r)
  <1>1. Fail(s, r, cancels) = n
    BY Zenon DEF Fail
  <1>2. s.flows[r] \in Flows
    BY DEF Auths
  <1>3. flow \in Flows
    BY <1>2 DEF Flows
  <1>4. /\ flow.completed = s.flows[r].completed /\ flow.state = s.flows[r].state
        /\ flow.impl = s.flows[r].impl /\ flow.sessions = s.flows[r].sessions
        /\ flow.cancelled = s.flows[r].cancelled
    BY <1>2 DEF Flows
  <1>5. t = Assign(s, r, flow)
    BY DEF Auths, Flows, Assign
  <1> HIDE DEF flow, t
  <1>6. /\ Touches(s, t, r)
        /\ t.flows[r] = flow /\ t.answers = s.answers /\ t.active = s.active
    BY <1>3, <1>4, <1>5, AssignTouches
  <1>7. t \in Auths /\ t.queue = <<>>
    BY <1>6 DEF Touches
  <1>8. /\ Touches(s, u, r) /\ u.flows[r].sessions = s.flows[r].sessions
        /\ ~cancels => /\ u.answers = s.answers /\ u.active = s.active
                       /\ u.flows[r].cancelled = s.flows[r].cancelled
    <2>1. CASE cancels
      <3>1. u = CancelFlow(t, r)
        BY <2>1
      <3> HIDE DEF u
      <3>2. Touches(t, u, r) /\ u.flows[r].sessions = t.flows[r].sessions
        BY <1>4, <1>6, <1>7, <3>1, CancelFlowTouches
      <3> QED
        BY <1>4, <1>6, <2>1, <3>2, TouchesTwice
    <2>2. CASE ~cancels
      BY <1>4, <1>6, <2>2
    <2> QED
      BY <2>1, <2>2
  <1> HIDE DEF u
  <1>9. u \in Auths /\ u.queue = <<>> /\ u.flows[r].sessions < MaxSessions
    BY <1>8 DEF Touches
  <1>10. /\ Touches(u, n, r)
         /\ n.answers = u.answers /\ n.active = u.active
         /\ n.flows[r].sessions = u.flows[r].sessions + 1 /\ n.flows[r].running
         /\ n.flows[r].cancelled = u.flows[r].cancelled
    BY <1>9, SetUpTouches
  <1> HIDE DEF n
  <1>11. Touches(s, n, r)
    BY <1>8, <1>10, TouchesTwice
  <1> QED
    BY <1>1, <1>8, <1>10, <1>11

\* The session has told of its end.
LEMMA CompletedTouches ==
    ASSUME NEW s \in Auths, s.queue = <<>>, NEW r \in Requests, NEW gained \in BOOLEAN,
           NEW cancels \in BOOLEAN,
           gained \/ s.flows[r].cancelled \/ s.flows[r].sessions < MaxSessions,
           s.active = r => s.flows[r].impl = impl.number
    PROVE  LET t == Completed(s, r, gained, cancels)
           IN  /\ Touches(s, t, r)
               /\ t.flows[r].sessions \in {s.flows[r].sessions, s.flows[r].sessions + 1}
               /\ gained => t.answers[r] = Append(s.answers[r], "granted") /\ ~t.flows[r].running
               /\ ~s.flows[r].completed /\ s.flows[r].impl = impl.number =>
                    t.active = NoRequest \/ t.flows[r].running
               /\ gained /\ ~s.flows[r].completed /\ s.flows[r].impl = impl.number =>
                    t.active = NoRequest
               /\ ~gained /\ ~s.flows[r].cancelled /\ ~cancels =>
                    /\ t.answers = s.answers /\ t.active = s.active
                    /\ ~t.flows[r].cancelled /\ t.flows[r].running
  <1>1. CASE gained
    <2> DEFINE t == SetCompleted(s, r, TRUE)
               n == Return(t, r, "granted")
    <2>1. Completed(s, r, gained, cancels) = n
      BY <1>1 DEF Completed
    <2>2. TRUE \in BOOLEAN
      OBVIOUS
    <2>3. /\ Touches(s, t, r) /\ t.answers = s.answers
          /\ ~s.flows[r].completed /\ s.flows[r].impl = impl.number => t.active = NoRequest
          /\ t.flows[r].sessions = s.flows[r].sessions /\ ~t.flows[r].running
      BY <2>2, SetCompletedTouches
    <2> HIDE DEF t
    <2>4. "granted" \in Results /\ t \in Auths /\ t.queue = <<>>
      BY <2>3 DEF Results, Touches
    <2>5. /\ Touches(t, n, r)
          /\ n.flows = t.flows /\ n.active = t.active
          /\ n.answers[r] = Append(t.answers[r], "granted")
      BY <2>4, ReturnTouches
    <2> HIDE DEF n
    <2>6. Touches(s, n, r)
      BY <2>3, <2>5, TouchesTwice
    <2> QED
      BY <1>1, <2>1, <2>3, <2>5, <2>6
  <1>2. CASE ~gained /\ s.flows[r].cancelled
    <2>1. Completed(s, r, gained, cancels) = SetCompleted(s, r, FALSE)
      BY <1>2 DEF Completed
    <2>2. FALSE \in BOOLEAN
      OBVIOUS
    <2> DEFINE t == SetCompleted(s, r, FALSE)
    <2>3. /\ Touches(s, t, r)
          /\ ~s.flows[r].completed /\ s.flows[r].impl = impl.number => t.active = NoRequest
          /\ t.flows[r].sessions = s.flows[r].sessions
      BY <2>2, SetCompletedTouches
    <2> HIDE DEF t
    <2> QED
      BY <1>2, <2>1, <2>3 DEF t
  <1>3. CASE ~gained /\ ~s.flows[r].cancelled
    <2>1. Completed(s, r, gained, cancels) = Fail(s, r, cancels)
      BY <1>3 DEF Completed
    <2> QED
      BY <1>3, <2>1, FailTouches
  <1> QED
    BY <1>1, <1>2, <1>3

-----------------------------------------------------------------------------
(* The invariant after a method.                                           *)

\* One request that waited for an answer has got it.
Answers(t) == \E r \in asked, result \in Results :
                /\ auth.answers[r] = <<>>
                /\ t.answers = [auth.answers EXCEPT ![r] = Append(@, result)]

\* What auth may become: it rests, and a patient step answers one request, if any.
Keeps(t) ==
    /\ Rests(t)
    /\ AskedFirst(t, asked)
    /\ patient => Single(t, asked) /\ (t.answers = auth.answers \/ Answers(t))

\* What is known of a flow that exists.
LEMMA FlowFacts ==
    ASSUME IInv, NEW r \in Requests, auth.flows[r].state # "none" \/ auth.active = r
    PROVE  /\ auth \in Auths /\ auth.queue = <<>> /\ auth.active \in Requests \cup {NoRequest}
           /\ auth.answers \in [Requests -> Seq(Results)]
           /\ r \in asked /\ asked \subseteq Requests
           /\ auth.active = r => /\ ~auth.flows[r].completed /\ auth.flows[r].impl = impl.number
                                 /\ auth.flows[r].running
           /\ auth.active # NoRequest => auth.active \in asked
  <1>1. /\ auth \in Auths /\ auth.queue = <<>> /\ auth.active \in Requests \cup {NoRequest}
        /\ auth.answers \in [Requests -> Seq(Results)] /\ asked \subseteq Requests
    BY DEF IInv, Rests, Auths
  <1>2. auth.active = r => /\ ~auth.flows[r].completed /\ auth.flows[r].impl = impl.number
                           /\ auth.flows[r].running /\ auth.flows[r].state = "alive"
    BY NoRequestIsNone DEF IInv, Rests
  <1>3. r \in asked
    BY <1>2 DEF IInv, AskedFirst
  <1>4. auth.active # NoRequest => auth.active \in asked
    BY <1>1 DEF IInv, Rests, AskedFirst
  <1> QED
    BY <1>1, <1>2, <1>3, <1>4

\* A method rests.
LEMMA TouchesRests ==
    ASSUME IInv, NEW r \in Requests, auth.flows[r].state # "none" \/ auth.active = r,
           NEW t, Touches(auth, t, r), t.active = r => t.flows[r].running
    PROVE  Rests(t) /\ AskedFirst(t, asked)
  <1>1. Rests(t)
    <2> SUFFICES ASSUME t.active # NoRequest
                 PROVE  /\ t.flows[t.active].state = "alive"
                        /\ ~t.flows[t.active].completed /\ t.flows[t.active].running
                        /\ t.flows[t.active].impl = impl.number
      BY DEF Touches, Rests
    <2>1. t.active = auth.active /\ auth.active \in Requests
      BY FlowFacts DEF Touches
    <2>2. /\ auth.flows[auth.active].state = "alive"
          /\ ~auth.flows[auth.active].completed /\ auth.flows[auth.active].running
          /\ auth.flows[auth.active].impl = impl.number
      BY <2>1 DEF IInv, Rests
    <2> QED
      BY <2>1, <2>2 DEF Touches
  <1>2. AskedFirst(t, asked)
    <2>1. t.netgroups \subseteq asked
      BY DEF IInv, AskedFirst, Touches
    <2>2. ASSUME NEW q \in Requests, q \notin asked
          PROVE  t.flows[q].state = "none" /\ t.answers[q] = <<>>
      <3>1. q # r /\ q # auth.active
        BY <2>2, FlowFacts, NoRequestIsNone
      <3>2. auth.flows[q].state = "none" /\ auth.answers[q] = <<>>
        BY <2>2 DEF IInv, AskedFirst
      <3> QED
        BY <3>1, <3>2 DEF Touches
    <2> QED
      BY <2>1, <2>2 DEF AskedFirst
  <1> QED
    BY <1>1, <1>2

\* Nobody is patient.
LEMMA ImpatientKeeps ==
    ASSUME IInv, NEW r \in Requests, auth.flows[r].state # "none" \/ auth.active = r,
           NEW t, Touches(auth, t, r), t.active = r => t.flows[r].running, ~patient
    PROVE  Keeps(t)
  BY TouchesRests DEF Keeps

\* The flow that is shown ends with an answer.
LEMMA EndKeeps ==
    ASSUME IInv, NEW r \in Requests, auth.active = r, NEW t, Touches(auth, t, r),
           t.active = NoRequest, ~t.flows[r].running,
           NEW result \in Results, t.answers[r] = Append(auth.answers[r], result)
    PROVE  Keeps(t)
  <1>1. Rests(t) /\ AskedFirst(t, asked)
    BY TouchesRests, NoRequestIsNone
  <1>2. ASSUME patient PROVE Single(t, asked) /\ Answers(t)
    <2>1. Single(auth, asked)
      BY <1>2 DEF IInv
    <2>2. auth.answers[r] = <<>>
      BY <2>1, NoRequestIsNone DEF Single
    <2>3. Append(auth.answers[r], result) # <<>>
      BY FlowFacts, AppendProperties
    <2>4. t.answers \in [Requests -> Seq(Results)]
      BY DEF Touches, Auths
    <2>5. t.answers = [auth.answers EXCEPT ![r] = Append(@, result)]
      <3>1. \A q \in Requests : q # r => t.answers[q] = auth.answers[q]
        BY DEF Touches
      <3>2. auth.answers \in [Requests -> Seq(Results)]
        BY FlowFacts
      <3> QED
        BY <2>4, <3>1, <3>2
    <2>6. Answers(t)
      BY <2>2, <2>5, FlowFacts DEF Answers
    <2>7. \A q \in asked : t.answers[q] # <<>>
      BY <2>1, <2>3, FlowFacts DEF Single, Touches
    <2>8. ASSUME NEW q \in Requests PROVE ~RunsIn(t, q)
      <3>1. CASE q = r
        BY <3>1 DEF RunsIn
      <3>2. CASE q # r
        <4>1. ~RunsIn(auth, q)
          BY <2>1, <3>2 DEF Single
        <4> QED
          BY <3>2, <4>1 DEF RunsIn, Touches
      <3> QED
        BY <3>1, <3>2
    <2> QED
      BY <2>6, <2>7, <2>8 DEF Single
  <1> QED
    BY <1>1, <1>2 DEF Keeps

\* The flow that is shown goes on.
LEMMA GoOnKeeps ==
    ASSUME IInv, NEW r \in Requests, auth.active = r, NEW t, Touches(auth, t, r),
           t.active = r, t.flows[r].running, ~t.flows[r].cancelled, t.answers = auth.answers
    PROVE  Keeps(t)
  <1>1. Rests(t) /\ AskedFirst(t, asked)
    BY TouchesRests
  <1>2. ASSUME patient PROVE Single(t, asked)
    <2>1. Single(auth, asked)
      BY <1>2 DEF IInv
    <2>2. ASSUME NEW q \in Requests, RunsIn(t, q) PROVE q = r
      <3>1. CASE q # r
        <4>1. RunsIn(auth, q)
          BY <2>2, <3>1, NoRequestIsNone DEF RunsIn, Touches
        <4> QED
          BY <2>1, <4>1 DEF Single
      <3> QED
        BY <3>1
    <2> QED
      BY <2>1, <2>2, FlowFacts, NoRequestIsNone DEF Single
  <1> QED
    BY <1>1, <1>2 DEF Keeps

\* The flow that is shown, when patient, is not cancelled.
LEMMA ShownGoesOn ==
    ASSUME IInv, NEW r \in Requests, patient, auth.active = r
    PROVE  ~auth.flows[r].cancelled
  BY NoRequestIsNone DEF IInv, Single

\* The flow that is shown is open.
LEMMA ActiveOpen ==
    ASSUME IInv, auth.active # NoRequest
    PROVE  auth.active \in Requests /\ auth.flows[auth.active].state = "alive"
  BY DEF IInv, Rests, Auths

\* auth may stay as it is.
LEMMA SameKeeps ==
    ASSUME IInv
    PROVE  Keeps(auth)
  BY DEF IInv, Keeps

LEMMA CancelFlowKeeps ==
    ASSUME IInv, NEW r \in Requests, auth.flows[r].state # "none" \/ auth.active = r,
           patient => auth.active = r
    PROVE  Keeps(CancelFlow(auth, r)) /\ (auth.active = r => CancelFlow(auth, r).active = NoRequest)
  <1> DEFINE t == CancelFlow(auth, r)
  <1>1. /\ Touches(auth, t, r)
        /\ t.answers[r] = Append(auth.answers[r], "cancelled")
        /\ auth.active = r => t.active = NoRequest
        /\ ~t.flows[r].running
    BY FlowFacts, CancelFlowTouches
  <1>2. "cancelled" \in Results
    BY DEF Results
  <1> HIDE DEF t
  <1>3. CASE patient
    BY <1>1, <1>2, <1>3, EndKeeps DEF t
  <1>4. CASE ~patient
    <2>1. t.active # r
      BY <1>1, NoRequestIsNone DEF Touches
    <2> QED
      BY <1>1, <1>4, <2>1, ImpatientKeeps DEF t
  <1> QED
    BY <1>3, <1>4

LEMMA CancelAllRequestsKeeps ==
    ASSUME IInv
    PROVE  /\ Keeps(CancelAllRequests(auth))
           /\ CancelAllRequests(auth).active = NoRequest
  <1> DEFINE answers == [r \in Requests |-> IF r \in ToSet(auth.queue)
                                           THEN Append(auth.answers[r], "cancelled")
                                           ELSE auth.answers[r]]
             t == [auth EXCEPT !.queue = <<>>, !.answers = answers]
  <1>1. auth \in Auths /\ auth.queue = <<>> /\ auth.answers \in [Requests -> Seq(Results)]
    BY DEF IInv, Rests, Auths
  <1>2. ToSet(auth.queue) = {}
    BY <1>1 DEF ToSet
  <1>3. answers = auth.answers
    BY <1>1, <1>2
  <1>4. t = auth
    <2> HIDE DEF answers
    <2> QED
      BY <1>1, <1>3 DEF Auths
  <1>5. CancelAllRequests(auth) = IF t.active = NoRequest THEN t ELSE CancelFlow(t, t.active)
    BY Zenon DEF CancelAllRequests
  <1> HIDE DEF t
  <1>6. CancelAllRequests(auth) = IF auth.active = NoRequest THEN auth
                                  ELSE CancelFlow(auth, auth.active)
    BY <1>4, <1>5
  <1>7. CASE auth.active = NoRequest
    BY <1>6, <1>7, SameKeeps
  <1>8. CASE auth.active # NoRequest
    BY <1>6, <1>8, ActiveOpen, CancelFlowKeeps
  <1> QED
    BY <1>7, <1>8

LEMMA CancelAuthenticationKeeps ==
    ASSUME IInv, NEW r \in Requests
    PROVE  Keeps(CancelAuthentication(auth, r))
  <1>1. ToSet(auth.queue) = {}
    BY DEF IInv, Rests, ToSet
  <1>2. CancelAuthentication(auth, r) = IF auth.active = r THEN CancelFlow(auth, r) ELSE auth
    BY <1>1 DEF CancelAuthentication
  <1>3. CASE auth.active = r
    BY <1>2, <1>3, CancelFlowKeeps
  <1>4. CASE auth.active # r
    BY <1>2, <1>4, SameKeeps
  <1> QED
    BY <1>3, <1>4

-----------------------------------------------------------------------------
(* The actions: each keeps the invariant and the promise.                  *)

Allowed == [Promise!Next]_(Promise!vars)

\* What is left to show of an action that lets a method change auth.
LEMMA KeepsGood ==
    ASSUME IInv, Keeps(auth'), UNCHANGED <<asked, patient>>,
           impl'.number = impl.number \/ auth'.active = NoRequest
    PROVE  /\ Rests(auth)' /\ AskedFirst(auth, asked)'
           /\ patient => Single(auth, asked)'
           /\ Allowed
  <1>1. Rests(auth)'
    BY DEF Keeps, Rests
  <1>2. AskedFirst(auth, asked)' /\ (patient => Single(auth, asked)')
    BY DEF Keeps, AskedFirst, Single, RunsIn
  <1>3. Allowed
    <2>1. CASE ~patient
      BY <2>1 DEF Allowed, Promise!Next
    <2>2. CASE patient /\ auth'.answers = auth.answers
      BY <2>2 DEF Allowed, Promise!vars
    <2>3. CASE patient /\ Answers(auth')
      <3>1. PICK r \in asked, result \in Results :
                /\ auth.answers[r] = <<>>
                /\ auth'.answers = [auth.answers EXCEPT ![r] = Append(@, result)]
        BY <2>3 DEF Answers
      <3>2. r \in Requests
        BY DEF IInv
      <3>3. Promise!Answer(r)
        BY <3>1 DEF Promise!Answer, Promise!Outcomes, Results
      <3> QED
        BY <3>2, <3>3 DEF Allowed, Promise!Next
    <2> QED
      BY <2>1, <2>2, <2>3 DEF Keeps
  <1> QED
    BY <1>1, <1>2, <1>3

\* The flows: an action that changes only auth.
LEMMA OnlyAuthGood ==
    ASSUME IInv, Keeps(auth'),
           UNCHANGED <<impl, agents, registering, served, asked, withdrawn, patient, outcome>>
    PROVE  IInv' /\ Allowed
  <1>1. /\ Rests(auth)' /\ AskedFirst(auth, asked)'
        /\ patient => Single(auth, asked)'
        /\ Allowed
    BY KeepsGood
  <1>2. patient => RegistersOnce'
    BY DEF IInv, RegistersOnce, Serving
  <1> QED
    BY <1>1, <1>2 DEF IInv

LEMMA HelperAsksGood ==
    ASSUME IInv, NEW r \in Requests, HelperAsks(r) \/ QmlSubmits(r)
    PROVE  IInv' /\ Allowed
  <1>1. PICK value \in BOOLEAN : auth' = [auth EXCEPT !.flows[r].required = value]
    <2>1. CASE HelperAsks(r)
      BY <2>1 DEF HelperAsks
    <2>2. CASE QmlSubmits(r)
      BY <2>2 DEF QmlSubmits
    <2> QED
      BY <2>1, <2>2
  <1>2. UNCHANGED <<impl, agents, registering, served, asked, withdrawn, patient, outcome>>
    BY DEF HelperAsks, QmlSubmits, Held, Flow
  <1> DEFINE flow == [auth.flows[r] EXCEPT !.required = value]
  <1>3. auth \in Auths /\ auth.active \in Requests \cup {NoRequest}
    BY DEF IInv, Rests, Auths
  <1>4. auth' = [auth EXCEPT !.flows = [auth.flows EXCEPT ![r] = flow]]
    BY <1>1, <1>3, Members
  <1>5. /\ flow \in Flows
        /\ flow.state = auth.flows[r].state /\ flow.impl = auth.flows[r].impl
        /\ flow.completed = auth.flows[r].completed /\ flow.cancelled = auth.flows[r].cancelled
        /\ flow.running = auth.flows[r].running
    <2>1. auth.flows[r] \in Flows
      BY <1>3 DEF Auths
    <2>2. flow \in Flows
      BY <2>1 DEF Flows
    <2> QED
      BY <2>1, <2>2 DEF Flows
  <1> HIDE DEF flow
  <1>6. /\ auth' \in Auths
        /\ auth'.queue = auth.queue /\ auth'.active = auth.active
        /\ auth'.netgroups = auth.netgroups /\ auth'.answers = auth.answers
        /\ \A q \in Requests : auth'.flows[q] = IF q = r THEN flow ELSE auth.flows[q]
    BY <1>3, <1>4, <1>5, SetFlow
  <1>7. Keeps(auth')
    <2>1. Rests(auth')
      BY <1>3, <1>5, <1>6 DEF IInv, Rests
    <2>2. AskedFirst(auth', asked)
      BY <1>5, <1>6 DEF IInv, AskedFirst
    <2>3. patient => Single(auth', asked)
      BY <1>3, <1>5, <1>6 DEF IInv, Single, RunsIn
    <2> QED
      BY <1>6, <2>1, <2>2, <2>3 DEF Keeps
  <1> QED
    BY <1>2, <1>7, OnlyAuthGood

LEMMA HelperEndsGood ==
    ASSUME IInv, NEW r \in Requests, NEW gained \in BOOLEAN, HelperEnds(r, gained)
    PROVE  IInv' /\ Allowed
  <1>1. PICK cancels \in BOOLEAN : /\ cancels => ~patient
                                   /\ auth' = Completed(auth, r, gained, cancels)
    BY DEF HelperEnds
  <1>2. auth.flows[r].state # "none" /\ (patient => auth.active = r)
    BY DEF HelperEnds, Flow, Exists, Running, IInv, Single, RunsIn
  <1>3. gained \/ auth.flows[r].cancelled \/ auth.flows[r].sessions < MaxSessions
    BY DEF HelperEnds
  <1>4. /\ Touches(auth, auth', r)
        /\ gained => auth'.answers[r] = Append(auth.answers[r], "granted") /\ ~auth'.flows[r].running
        /\ ~auth.flows[r].completed /\ auth.flows[r].impl = impl.number =>
             auth'.active = NoRequest \/ auth'.flows[r].running
        /\ gained /\ ~auth.flows[r].completed /\ auth.flows[r].impl = impl.number =>
             auth'.active = NoRequest
        /\ ~gained /\ ~auth.flows[r].cancelled /\ ~cancels =>
             /\ auth'.answers = auth.answers /\ auth'.active = auth.active
             /\ ~auth'.flows[r].cancelled /\ auth'.flows[r].running
    BY <1>1, <1>2, <1>3, FlowFacts, CompletedTouches
  <1>5. Keeps(auth')
    <2>1. CASE ~patient
      <3>1. auth'.active = r => auth'.flows[r].running
        BY <1>2, <1>4, FlowFacts, NoRequestIsNone DEF Touches
      <3> QED
        BY <1>2, <1>4, <2>1, <3>1, ImpatientKeeps
    <2>2. CASE patient /\ gained
      <3>1. "granted" \in Results
        BY DEF Results
      <3> QED
        BY <1>2, <1>4, <2>2, <3>1, FlowFacts, EndKeeps
    <2>3. CASE patient /\ ~gained
      BY <1>1, <1>2, <1>4, <2>3, ShownGoesOn, GoOnKeeps
    <2> QED
      BY <2>1, <2>2, <2>3
  <1> QED
    BY <1>5, OnlyAuthGood DEF HelperEnds, Flow

LEMMA QmlSelectsGood ==
    ASSUME IInv, NEW r \in Requests, QmlSelects(r)
    PROVE  IInv' /\ Allowed
  <1>1. PICK cancels \in BOOLEAN :
            /\ cancels => ~patient
            /\ auth' = SetUp(IF Running(r) THEN Completed(auth, r, FALSE, cancels) ELSE auth, r)
    BY DEF QmlSelects
  <1> DEFINE s == IF Running(r) THEN Completed(auth, r, FALSE, cancels) ELSE auth
  <1>2. /\ auth.flows[r].state # "none" /\ (patient => auth.active = r)
        /\ auth.flows[r].sessions + 2 <= MaxSessions
    BY DEF QmlSelects, Held, Flow, Exists
  <1>3. /\ auth.flows[r].sessions \in Nat /\ MaxSessions \in Nat
        /\ auth \in Auths /\ auth.queue = <<>>
    BY FlowFacts, <1>2, ConstantsAssumption DEF Auths, Flows
  <1>4. auth.flows[r].sessions < MaxSessions /\ auth.flows[r].sessions + 1 < MaxSessions
    BY <1>2, <1>3
  <1>5. FALSE \in BOOLEAN /\ (auth.active = r => auth.flows[r].impl = impl.number)
    BY <1>2, FlowFacts
  <1>6. /\ ~Running(r) \/ Touches(auth, s, r)
        /\ s.flows[r].sessions < MaxSessions
        /\ patient => /\ s.answers = auth.answers /\ s.active = auth.active
                      /\ ~s.flows[r].cancelled
    <2>1. CASE Running(r)
      <3>1. PICK gained \in BOOLEAN : ~gained /\ s = Completed(auth, r, gained, cancels)
        BY <2>1
      <3> HIDE DEF s
      <3>2. /\ Touches(auth, s, r)
            /\ s.flows[r].sessions \in {auth.flows[r].sessions, auth.flows[r].sessions + 1}
            /\ ~auth.flows[r].cancelled /\ ~cancels =>
                 s.answers = auth.answers /\ s.active = auth.active /\ ~s.flows[r].cancelled
        BY <1>3, <1>4, <1>5, <3>1, CompletedTouches
      <3> QED
        BY <1>1, <1>2, <1>4, <3>2, ShownGoesOn
    <2>2. CASE ~Running(r)
      <3>1. s = auth
        BY <2>2
      <3> HIDE DEF s
      <3> QED
        BY <1>2, <1>4, <2>2, <3>1, ShownGoesOn
    <2> QED
      BY <2>1, <2>2
  <1>7. s \in Auths /\ s.queue = <<>>
    BY <1>3, <1>6 DEF Touches
  <1>8. s = auth \/ Touches(auth, s, r)
    BY <1>6
  <1> HIDE DEF s
  <1>9. /\ Touches(s, auth', r)
        /\ auth'.answers = s.answers /\ auth'.active = s.active
        /\ auth'.flows[r].running
        /\ auth'.flows[r].cancelled = s.flows[r].cancelled
    <2>1. auth' = SetUp(s, r)
      BY <1>1 DEF s
    <2> QED
      BY <1>6, <1>7, <2>1, SetUpTouches
  <1>10. Touches(auth, auth', r)
    BY <1>3, <1>8, <1>9, TouchesTwice
  <1>11. Keeps(auth')
    <2>1. CASE patient
      BY <1>2, <1>6, <1>9, <1>10, <2>1, GoOnKeeps
    <2>2. CASE ~patient
      BY <1>2, <1>9, <1>10, <2>2, ImpatientKeeps
    <2> QED
      BY <2>1, <2>2
  <1> QED
    BY <1>11, OnlyAuthGood DEF QmlSelects, Held, Flow

LEMMA QmlCancelsGood ==
    ASSUME IInv, NEW r \in Requests, QmlCancels(r)
    PROVE  IInv' /\ Allowed
  <1>1. /\ auth.flows[r].state # "none" /\ (patient => auth.active = r)
        /\ auth' = CancelFlow(auth, r)
    BY DEF QmlCancels, Held, Flow, Exists
  <1> QED
    BY <1>1, CancelFlowKeeps, OnlyAuthGood DEF QmlCancels, Held, Flow

\* A flow that is being deleted is not shown.
LEMMA DeleteFlowGood ==
    ASSUME IInv, NEW r \in Requests, DeleteFlow(r)
    PROVE  IInv' /\ Allowed
  <1> DEFINE flow == [NoFlow EXCEPT !.state = "freed"]
  <1>1. auth \in Auths /\ auth.active \in Requests \cup {NoRequest}
    BY DEF IInv, Rests, Auths
  <1>2. auth' = [auth EXCEPT !.flows = [auth.flows EXCEPT ![r] = flow]]
    BY <1>1 DEF DeleteFlow, Auths
  <1>3. flow \in Flows /\ flow.state = "freed"
    <2>1. NoFlow \in Flows
      BY ConstantsAssumption DEF NoFlow, Flows
    <2>2. flow \in Flows
      BY <2>1 DEF Flows
    <2> QED
      BY <2>1, <2>2 DEF Flows
  <1> HIDE DEF flow
  <1>4. /\ auth' \in Auths
        /\ auth'.queue = auth.queue /\ auth'.active = auth.active
        /\ auth'.netgroups = auth.netgroups /\ auth'.answers = auth.answers
        /\ \A q \in Requests : auth'.flows[q] = IF q = r THEN flow ELSE auth.flows[q]
    BY <1>1, <1>2, <1>3, SetFlow
  <1>5. auth.flows[r].state = "deleting"
    BY DEF DeleteFlow
  <1>6. auth.active # r
    BY <1>5, NoRequestIsNone DEF IInv, Rests
  <1>7. r \in asked
    BY <1>5 DEF IInv, AskedFirst
  <1>8. Keeps(auth')
    <2>1. Rests(auth')
      BY <1>1, <1>4, <1>6 DEF IInv, Rests
    <2>2. AskedFirst(auth', asked)
      BY <1>4, <1>7 DEF IInv, AskedFirst
    <2>3. patient => Single(auth', asked)
      BY <1>1, <1>3, <1>4, <1>6 DEF IInv, Single, RunsIn
    <2> QED
      BY <1>4, <2>1, <2>2, <2>3 DEF Keeps
  <1> QED
    BY <1>8, OnlyAuthGood DEF DeleteFlow

\* polkitd takes back a request: its flow, when patient, is the one shown.
LEMMA PolkitWithdrawsGood ==
    ASSUME IInv, NEW r \in Requests, PolkitWithdraws(r)
    PROVE  IInv' /\ Allowed
  <1> DEFINE lost == auth.flows[r].state = "freed" \/ auth.flows[r].impl # impl.number
  <1>1. /\ r \in asked /\ auth.answers[r] = <<>>
        /\ withdrawn' = withdrawn \cup {r}
        /\ UNCHANGED <<impl, agents, registering, served, asked, patient>>
    BY DEF PolkitWithdraws
  <1>2. Keeps(auth')
    BY SameKeeps, CancelAuthenticationKeeps DEF PolkitWithdraws
  <1>3. /\ Rests(auth)' /\ AskedFirst(auth, asked)'
        /\ patient => Single(auth, asked)'
        /\ Allowed
    BY <1>1, <1>2, KeepsGood
  <1>4. ASSUME patient PROVE ~lost
    <2>1. auth.active = r
      BY <1>1, <1>4 DEF IInv, Single
    <2> QED
      BY <2>1, NoRequestIsNone DEF IInv, Rests
  <1>5. outcome' \in {"defined", "undefined"} /\ (patient => outcome' = "defined")
    BY <1>4 DEF PolkitWithdraws, IInv
  <1>6. patient => RegistersOnce'
    BY <1>1 DEF IInv, RegistersOnce, Serving
  <1>7. withdrawn' \subseteq asked
    BY <1>1 DEF IInv
  <1> QED
    BY <1>1, <1>3, <1>5, <1>6, <1>7 DEF IInv

\* A request that is made has no flow and no answer yet; when patient, no
\* other flow is shown.
LEMMA PolkitAsksGood ==
    ASSUME IInv, NEW r \in Requests, PolkitAsks(r)
    PROVE  IInv' /\ Allowed
  <1>1. /\ r \notin asked /\ asked' = asked \cup {r} /\ served # None
        /\ UNCHANGED <<impl, agents, registering, served, withdrawn, patient>>
    BY DEF PolkitAsks, Requests
  <1>2. /\ auth \in Auths /\ auth.active \in Requests \cup {NoRequest}
        /\ auth.answers \in [Requests -> Seq(Results)]
        /\ auth.flows[r].state = "none" /\ auth.answers[r] = <<>>
        /\ impl \in Impls
    BY <1>1 DEF IInv, Rests, Auths, AskedFirst
  <1>3. ASSUME patient PROVE /\ auth.active = NoRequest /\ served.impl = impl.number
                              /\ \A q \in asked : auth.answers[q] # <<>>
    <2>1. \A q \in asked : auth.answers[q] # <<>>
      BY <1>3 DEF PolkitAsks
    <2>2. auth.active # NoRequest => auth.active \in asked
      BY <1>2 DEF IInv, Rests, AskedFirst
    <2> QED
      BY <1>1, <1>3, <2>1, <2>2 DEF IInv, Single, RegistersOnce, Serving
  <1>4. outcome' \in {"defined", "undefined"} /\ (patient => outcome' = "defined")
    BY <1>3 DEF PolkitAsks, IInv
  <1>5. CASE served.impl # impl.number
    <2>1. auth' = auth /\ ~patient
      BY <1>3, <1>5 DEF PolkitAsks
    <2>2. Rests(auth)' /\ AskedFirst(auth, asked)'
      BY <1>1, <2>1 DEF IInv, Rests, AskedFirst
    <2>3. Allowed
      BY <2>1 DEF Allowed, Promise!Next
    <2> QED
      BY <1>1, <1>4, <2>1, <2>2, <2>3 DEF IInv
  <1>6. CASE served.impl = impl.number
    <2>1. PICK netgroups \in {{}, {r}} :
              auth' = Initiate([auth EXCEPT !.netgroups = @ \cup netgroups], r)
      BY <1>6 DEF PolkitAsks
    <2> DEFINE s == [auth EXCEPT !.netgroups = auth.netgroups \cup netgroups]
    <2>2. /\ s \in Auths
          /\ s.queue = auth.queue /\ s.active = auth.active
          /\ s.netgroups = auth.netgroups \cup netgroups
          /\ s.flows = auth.flows /\ s.answers = auth.answers
      <3>1. auth.netgroups \cup netgroups \in SUBSET Requests
        BY <1>2, <2>1 DEF Auths
      <3> QED
        BY <1>2, <3>1, SetNetgroups
    <2>3. auth' = Initiate(s, r)
      BY <2>1
    <2> HIDE DEF s
    <2>4. Rests(s)
      BY <2>2 DEF IInv, Rests
    <2>5. s.netgroups \subseteq asked'
      BY <1>1, <2>1, <2>2 DEF IInv, AskedFirst
    <2>6. CASE r \in s.netgroups
      <3>1. auth' = Return(s, r, "cancelled") /\ "cancelled" \in Results
        BY <1>2, <2>3, <2>4, <2>6, InitiateIs DEF Results
      <3>2. /\ auth' \in Auths
            /\ auth'.queue = s.queue /\ auth'.active = s.active /\ auth'.netgroups = s.netgroups
            /\ auth'.flows = s.flows
            /\ auth'.answers = [auth.answers EXCEPT ![r] = Append(@, "cancelled")]
            /\ \A q \in Requests : auth'.answers[q] = IF q = r THEN Append(auth.answers[q], "cancelled")
                                                     ELSE auth.answers[q]
        BY <2>2, <3>1, ReturnIs
      <3>3. Append(auth.answers[r], "cancelled") = <<"cancelled">> /\ <<"cancelled">> # <<>>
        BY <1>2
      <3>4. Rests(auth)'
        BY <1>1, <2>4, <3>2 DEF Rests
      <3>5. AskedFirst(auth, asked)'
        BY <1>1, <2>2, <2>5, <3>2 DEF IInv, AskedFirst
      <3>6. patient => Single(auth, asked)'
        BY <1>1, <1>2, <1>3, <2>2, <3>2, <3>3 DEF IInv, Single, RunsIn
      <3>7. auth'.answers = [auth.answers EXCEPT ![r] = <<"cancelled">>]
        BY <3>2, <3>3
      <3>8. Promise!Ask(r)
        BY <1>1, <3>7 DEF Promise!Ask
      <3> QED
        BY <1>1, <1>4, <3>4, <3>5, <3>6, <3>8 DEF IInv, Allowed, Promise!Next, RegistersOnce, Serving
    <2>7. CASE r \notin s.netgroups
      <3>1. /\ auth' \in Auths
            /\ auth'.queue = <<>> /\ auth'.active = r /\ auth'.netgroups = s.netgroups
            /\ auth'.answers = auth.answers
            /\ \A q \in Requests : auth'.flows[q] = IF q = r THEN NewFlow ELSE auth.flows[q]
        BY <1>2, <2>2, <2>3, <2>4, <2>7, InitiateIs
      <3>2. Rests(auth)'
        BY <1>1, <1>2, <3>1, NewFlowFits, NoRequestIsNone DEF Rests
      <3>3. AskedFirst(auth, asked)'
        BY <1>1, <2>5, <3>1 DEF IInv, AskedFirst
      <3>4. ASSUME patient PROVE Single(auth, asked)'
        <4>1. \A q \in asked' : auth'.answers[q] = <<>> => q = r
          BY <1>1, <1>3, <3>1, <3>4
        <4>2. auth'.answers[r] = <<>> /\ ~auth'.flows[r].cancelled
          BY <1>2, <3>1, NewFlowFits
        <4>3. \A q \in Requests : RunsIn(auth', q) => q = r
          BY <1>3, <3>1, <3>4, NoRequestIsNone DEF IInv, Single, RunsIn
        <4> QED
          BY <3>1, <4>1, <4>2, <4>3 DEF Single, RunsIn
      <3>5. Promise!Ask(r)
        BY <1>1, <3>1 DEF Promise!Ask
      <3> QED
        BY <1>1, <1>4, <3>2, <3>3, <3>4, <3>5 DEF IInv, Allowed, Promise!Next, RegistersOnce, Serving
    <2> QED
      BY <2>6, <2>7
  <1> QED
    BY <1>5, <1>6

-----------------------------------------------------------------------------
(* The agents and their registrations.                                     *)

\* A registration less leaves registrations.
LEMMA RemoveAtFacts ==
    ASSUME NEW S, NEW s \in Seq(S), NEW i \in DOMAIN s
    PROVE  RemoveAt(s, i) \in Seq(S) /\ (Len(s) = 1 => RemoveAt(s, i) = <<>>)
  <1>1. i \in 1..Len(s) /\ Len(s) \in Nat
    OBVIOUS
  <1>2. SubSeq(s, 1, i - 1) \in Seq(S) /\ SubSeq(s, i + 1, Len(s)) \in Seq(S)
    BY <1>1, SubSeqProperties
  <1>3. ASSUME Len(s) = 1 PROVE RemoveAt(s, i) = <<>>
    <2>1. i = 1
      BY <1>1, <1>3
    <2>2. SubSeq(s, 1, 0) = <<>> /\ SubSeq(s, 2, 1) = <<>>
      BY SubSeqEmpty
    <2> QED
      BY <1>3, <2>1, <2>2 DEF RemoveAt
  <1> QED
    BY <1>2, <1>3, ConcatProperties DEF RemoveAt

LEMMA PathFacts ==
    ASSUME NEW a \in Agents
    PROVE  Path[a] \in Paths
  BY DEF Paths

\* What an action of the agents shows of itself.
LEMMA AgentsGood ==
    ASSUME IInv, Keeps(auth'), UNCHANGED <<asked, withdrawn, patient, outcome>>,
           impl'.number = impl.number \/ auth'.active = NoRequest,
           impl' \in Impls, agents' \in [Agents -> {"none", "alive", "gone"}],
           registering' \in Seq(Registrations),
           served' \in [impl : Nat, path : Paths \cup {NoPath}],
           patient => RegistersOnce'
    PROVE  IInv' /\ Allowed
  <1>1. /\ Rests(auth)' /\ AskedFirst(auth, asked)'
        /\ patient => Single(auth, asked)'
        /\ Allowed
    BY KeepsGood
  <1> QED
    BY <1>1 DEF IInv

LEMMA NoneFits == None \in [impl : Nat, path : Paths \cup {NoPath}]
  BY DEF None

\* A registration that is begun.
LEMMA RegisterFacts ==
    ASSUME IInv, NEW path \in Paths
    PROVE  LET new == Append(registering, [impl |-> impl.number, path |-> path])
           IN  /\ new \in Seq(Registrations)
               /\ registering = <<>> =>
                    Len(new) = 1 /\ new # <<>> /\ new[1] = [impl |-> impl.number, path |-> path]
  <1> DEFINE one == [impl |-> impl.number, path |-> path]
  <1>1. one \in Registrations /\ one.impl = impl.number
    BY DEF IInv, Impls, Registrations
  <1>2. registering \in Seq(Registrations)
    BY DEF IInv
  <1> HIDE DEF one
  <1>3. Append(registering, one) \in Seq(Registrations)
    BY <1>1, <1>2
  <1>4. ASSUME registering = <<>>
        PROVE  /\ Len(Append(registering, one)) = 1 /\ Append(registering, one) # <<>>
               /\ Append(registering, one)[1] = one
    BY <1>1, <1>2, <1>4
  <1> QED
    BY <1>1, <1>3, <1>4 DEF one

LEMMA CreateImplGood ==
    ASSUME IInv, NEW a \in Agents, AgentCompletes(a), impl.agent = NoAgent
    PROVE  IInv' /\ Allowed
  <1>1. /\ impl' = [impl EXCEPT !.agent = a, !.path = Path[a]]
        /\ registering' = Append(registering, [impl |-> impl.number, path |-> Path[a]])
        /\ auth' = auth /\ served' = served
        /\ agents' = [agents EXCEPT ![a] = "alive"]
        /\ UNCHANGED <<asked, withdrawn, patient, outcome>>
    BY DEF AgentCompletes, CreateImpl, Register
  <1>2. /\ impl' \in Impls
        /\ impl'.number = impl.number /\ impl'.agent = a /\ impl'.path = Path[a]
    <2>1. impl' \in Impls
      BY <1>1, PathFacts DEF IInv, Impls
    <2> QED
      BY <1>1, <2>1 DEF IInv, Impls
  <1>3. registering' \in Seq(Registrations)
    BY <1>1, PathFacts, RegisterFacts
  <1>4. ASSUME patient PROVE RegistersOnce'
    <2>1. registering = <<>> /\ served = None
      BY <1>4 DEF IInv, RegistersOnce, Serving
    <2>2. Len(registering') = 1 /\ registering'[1] = Serving'
      BY <1>1, <1>2, <2>1, PathFacts, RegisterFacts DEF Serving
    <2>3. a # NoAgent /\ agents'[a] = "alive"
      BY <1>1, ConstantsAssumption DEF IInv
    <2> QED
      BY <1>1, <1>2, <2>1, <2>2, <2>3 DEF RegistersOnce, Serving, None
  <1>5. Keeps(auth')
    BY <1>1, SameKeeps
  <1>6. agents' \in [Agents -> {"none", "alive", "gone"}]
    BY <1>1 DEF IInv
  <1> QED
    BY <1>1, <1>2, <1>3, <1>4, <1>5, <1>6, AgentsGood DEF IInv

\* unregister leaves polkitd with no agent, or with the one it had.
LEMMA UnregisterFacts ==
    ASSUME IInv, Unregister
    PROVE  /\ served' \in [impl : Nat, path : Paths \cup {NoPath}]
           /\ patient => served' = None
  <1>1. served' \in [impl : Nat, path : Paths \cup {NoPath}]
    BY NoneFits DEF IInv, Unregister
  <1>2. ASSUME patient PROVE served' = None
    BY <1>2 DEF IInv, RegistersOnce, Serving, Unregister
  <1> QED
    BY <1>1, <1>2

LEMMA ChangePathGood ==
    ASSUME IInv, NEW a \in Agents, AgentCompletes(a), impl.agent # NoAgent,
           Generation[impl.agent] # Generation[a], impl.path # Path[a]
    PROVE  IInv' /\ Allowed
  <1>1. /\ impl' = [impl EXCEPT !.agent = a, !.path = Path[a], !.registered = FALSE, !.handle = FALSE]
        /\ registering' = Append(registering, [impl |-> impl.number, path |-> Path[a]])
        /\ auth' = CancelAllRequests(auth) /\ Unregister
        /\ agents' = [agents EXCEPT ![a] = "alive"]
        /\ UNCHANGED <<asked, withdrawn, patient, outcome>>
        /\ patient => registering = <<>>
    BY DEF AgentCompletes, ChangePath, Register
  <1>2. /\ impl' \in Impls
        /\ impl'.number = impl.number /\ impl'.agent = a /\ impl'.path = Path[a]
    <2>1. impl' \in Impls
      BY <1>1, PathFacts DEF IInv, Impls
    <2> QED
      BY <1>1, <2>1 DEF IInv, Impls
  <1>3. registering' \in Seq(Registrations)
    BY <1>1, PathFacts, RegisterFacts
  <1>4. ASSUME patient PROVE RegistersOnce'
    <2>1. served' = None
      BY <1>1, <1>4, UnregisterFacts
    <2>2. Len(registering') = 1 /\ registering'[1] = Serving'
      BY <1>1, <1>2, <1>4, PathFacts, RegisterFacts DEF Serving
    <2>3. a # NoAgent /\ agents'[a] = "alive"
      BY <1>1, ConstantsAssumption DEF IInv
    <2> QED
      BY <1>1, <1>2, <2>1, <2>2, <2>3 DEF RegistersOnce, Serving, None
  <1>5. Keeps(auth')
    BY <1>1, CancelAllRequestsKeeps
  <1>6. agents' \in [Agents -> {"none", "alive", "gone"}]
    BY <1>1 DEF IInv
  <1> QED
    BY <1>1, <1>2, <1>3, <1>4, <1>5, <1>6, UnregisterFacts, AgentsGood

LEMMA AgentCompletesGood ==
    ASSUME IInv, NEW a \in Agents, AgentCompletes(a)
    PROVE  IInv' /\ Allowed
  <1>1. /\ agents' = [agents EXCEPT ![a] = "alive"]
        /\ UNCHANGED <<asked, withdrawn, patient, outcome>>
    BY DEF AgentCompletes
  <1>2. agents' \in [Agents -> {"none", "alive", "gone"}]
    BY <1>1 DEF IInv
  <1>3. CASE impl.agent = NoAgent
    BY <1>3, CreateImplGood
  <1>4. CASE impl.agent # NoAgent /\ Generation[impl.agent] = Generation[a]
    <2>1. UNCHANGED <<auth, impl, registering, served>>
      BY <1>4 DEF AgentCompletes
    <2>2. ASSUME patient PROVE RegistersOnce'
      <3>1. agents'[impl.agent] = agents[impl.agent] \/ agents'[impl.agent] = "alive"
        BY <1>1, <1>4, <2>1 DEF IInv, Impls
      <3> QED
        BY <2>1, <2>2, <3>1 DEF IInv, RegistersOnce, Serving, None
    <2>3. Keeps(auth')
      BY <2>1, SameKeeps
    <2> QED
      BY <1>1, <1>2, <2>1, <2>2, <2>3, AgentsGood DEF IInv
  <1>5. CASE /\ impl.agent # NoAgent /\ Generation[impl.agent] # Generation[a]
             /\ impl.path = Path[a]
    <2>1. impl' = [impl EXCEPT !.agent = a] /\ UNCHANGED <<auth, registering, served>>
      BY <1>5 DEF AgentCompletes
    <2>2. impl' \in Impls
      BY <2>1 DEF IInv, Impls
    <2>3. /\ impl'.number = impl.number /\ impl'.agent = a
          /\ impl'.registered = impl.registered /\ impl'.handle = impl.handle
          /\ impl'.path = impl.path
      BY <2>1 DEF IInv, Impls
    <2>4. a # NoAgent /\ agents'[a] = "alive"
      BY <1>1, ConstantsAssumption DEF IInv
    <2>5. patient => RegistersOnce'
      BY <2>1, <2>3, <2>4 DEF IInv, RegistersOnce, Serving, None
    <2>6. Keeps(auth')
      BY <2>1, SameKeeps
    <2> QED
      BY <1>1, <1>2, <2>1, <2>2, <2>3, <2>5, <2>6, AgentsGood DEF IInv
  <1>6. CASE /\ impl.agent # NoAgent /\ Generation[impl.agent] # Generation[a]
             /\ impl.path # Path[a]
    BY <1>6, ChangePathGood
  <1> QED
    BY <1>3, <1>4, <1>5, <1>6

LEMMA AgentEndsGood ==
    ASSUME IInv, NEW a \in Agents, AgentEnds(a)
    PROVE  IInv' /\ Allowed
  <1>1. /\ agents' = [agents EXCEPT ![a] = "gone"] /\ registering' = registering
        /\ UNCHANGED <<asked, withdrawn, patient, outcome>>
        /\ patient => registering = <<>>
    BY DEF AgentEnds
  <1>2. agents' \in [Agents -> {"none", "alive", "gone"}]
    BY <1>1 DEF IInv
  <1>3. CASE impl.agent # a
    <2>1. UNCHANGED <<auth, impl, served>>
      BY <1>3 DEF AgentEnds
    <2>2. ASSUME patient PROVE RegistersOnce'
      <3>1. agents'[impl.agent] = agents[impl.agent] \/ impl.agent = NoAgent
        BY <1>1, <1>3, <2>1 DEF IInv, Impls
      <3> QED
        BY <1>1, <2>1, <2>2, <3>1 DEF IInv, RegistersOnce, Serving, None
    <2>3. Keeps(auth')
      BY <2>1, SameKeeps
    <2> QED
      BY <1>1, <1>2, <2>1, <2>2, <2>3, AgentsGood DEF IInv
  <1>4. CASE impl.agent = a
    <2>1. /\ auth' = CancelAllRequests(auth) /\ impl' = NextImpl
          /\ IF impl.registered THEN Unregister ELSE UNCHANGED served
      BY <1>4 DEF AgentEnds
    <2>2. impl' \in Impls
      BY <2>1 DEF NextImpl, IInv, Impls
    <2>3. served' \in [impl : Nat, path : Paths \cup {NoPath}]
      BY <2>1, UnregisterFacts DEF IInv
    <2>4. ASSUME patient PROVE RegistersOnce'
      <3>1. served' = None
        <4>1. CASE impl.registered
          BY <2>1, <2>4, <4>1, UnregisterFacts
        <4>2. CASE ~impl.registered
          BY <2>1, <2>4, <4>2 DEF IInv, RegistersOnce, Serving
        <4> QED
          BY <4>1, <4>2
      <3>2. registering' = <<>> /\ Len(registering') = 0
        BY <1>1, <2>4
      <3>3. impl'.agent = NoAgent
        BY <2>1 DEF NextImpl
      <3> QED
        BY <3>1, <3>2, <3>3 DEF RegistersOnce, Serving, None
    <2>5. Keeps(auth') /\ auth'.active = NoRequest
      BY <2>1, CancelAllRequestsKeeps
    <2>6. registering' \in Seq(Registrations)
      BY <1>1 DEF IInv
    <2> QED
      BY <1>1, <1>2, <2>2, <2>3, <2>4, <2>5, <2>6, AgentsGood
  <1> QED
    BY <1>3, <1>4

LEMMA OnlyOne ==
    ASSUME NEW n \in Nat, n <= 1, NEW k \in 1..n
    PROVE  n = 1 /\ k = 1
  OBVIOUS

\* A registration that ends is of the impl there is, when patient.
LEMMA RegisterEndsGood ==
    ASSUME IInv, RegisterEnds
    PROVE  IInv' /\ Allowed
  <1>1. PICK i \in DOMAIN registering :
        /\ registering' = RemoveAt(registering, i)
        /\ IF registering[i].impl # impl.number
           THEN outcome' = "undefined" /\ UNCHANGED <<impl, served>>
           ELSE /\ UNCHANGED outcome
                /\ \/ UNCHANGED <<impl, served>>
                   \/ impl' = [impl EXCEPT !.handle = FALSE] /\ UNCHANGED served
                   \/ /\ served = None
                      /\ served' = registering[i]
                      /\ impl' = [impl EXCEPT !.handle = TRUE, !.registered = TRUE]
    BY DEF RegisterEnds
  <1>2. UNCHANGED <<auth, agents, asked, withdrawn, patient>>
    BY DEF RegisterEnds
  <1>3. registering[i] \in Registrations /\ i \in 1..Len(registering)
    BY <1>1, ElementOfSeq DEF IInv
  <1>4. registering' \in Seq(Registrations) /\ (Len(registering) = 1 => registering' = <<>>)
    BY <1>1, RemoveAtFacts DEF IInv
  <1>5. impl' \in Impls
    BY <1>1 DEF IInv, Impls
  <1>6. /\ impl'.number = impl.number /\ impl'.agent = impl.agent /\ impl'.path = impl.path
        /\ impl'.handle \in BOOLEAN /\ impl'.registered \in BOOLEAN
    BY <1>1 DEF IInv, Impls
  <1>7. served' \in [impl : Nat, path : Paths \cup {NoPath}]
    BY <1>1, <1>3 DEF IInv, Registrations
  <1>8. ASSUME patient
        PROVE  outcome' = "defined" /\ RegistersOnce'
    <2>1. RegistersOnce
      BY <1>8 DEF IInv
    <2>2. Len(registering) \in Nat
      BY DEF IInv
    <2>3. Len(registering) = 1 /\ registering # <<>> /\ i = 1
      <3>1. i \in 1..Len(registering) /\ Len(registering) <= 1
        BY <1>3, <2>1 DEF RegistersOnce, Serving
      <3>2. Len(registering) = 1 /\ i = 1
        BY <2>2, <3>1, OnlyOne
      <3> QED
        BY <3>2
    <2>4. served = None /\ registering[i] = Serving /\ registering[i].impl = impl.number
      BY <2>1, <2>3 DEF RegistersOnce, Serving
    <2>5. registering' = <<>> /\ Len(registering') = 0
      BY <1>4, <2>3
    <2>6. outcome' = "defined"
      BY <1>1, <1>8, <2>4 DEF IInv
    <2>7. impl.agent # NoAgent
      BY <2>1, <2>3 DEF RegistersOnce, Serving
    <2>8. served' # None => impl'.registered /\ impl'.handle /\ served' = Serving'
      BY <1>1, <1>6, <2>4 DEF IInv, Impls, Serving
    <2> QED
      BY <1>2, <1>6, <2>1, <2>5, <2>6, <2>7, <2>8 DEF RegistersOnce, Serving, None
  <1>9. outcome' \in {"defined", "undefined"}
    BY <1>1 DEF IInv
  <1>10. Keeps(auth')
    BY <1>2, SameKeeps
  <1>11. /\ Rests(auth)' /\ AskedFirst(auth, asked)'
         /\ patient => Single(auth, asked)'
         /\ Allowed
    BY <1>2, <1>6, <1>10, KeepsGood
  <1> QED
    BY <1>2, <1>4, <1>5, <1>7, <1>8, <1>9, <1>11 DEF IInv

-----------------------------------------------------------------------------
(* The theorems.                                                           *)

LEMMA InvInit == Init => IInv /\ Promise!Init
  <1> SUFFICES ASSUME Init PROVE IInv /\ Promise!Init
    OBVIOUS
  <1>1. NoFlow \in Flows /\ NoFlow.state = "none"
    BY ConstantsAssumption DEF NoFlow, Flows
  <1>2. /\ auth \in Auths /\ auth.queue = <<>> /\ auth.active = NoRequest
        /\ auth.netgroups = {} /\ asked = {} /\ withdrawn = {}
        /\ \A r \in Requests : auth.flows[r] = NoFlow /\ auth.answers[r] = <<>>
    BY <1>1 DEF Init, Auths
  <1>3. Rests(auth) /\ AskedFirst(auth, asked) /\ Single(auth, asked)
    BY <1>1, <1>2 DEF Rests, AskedFirst, Single, RunsIn
  <1>4. impl \in Impls /\ impl.agent = NoAgent /\ registering = <<>> /\ served = None
    BY DEF Init, Impls
  <1>5. RegistersOnce
    BY <1>4 DEF RegistersOnce, Serving
  <1>6. Promise!Init
    BY DEF Init, Promise!Init
  <1> QED
    BY <1>2, <1>3, <1>4, <1>5, <1>6, NoneFits DEF Init, IInv

LEMMA InvStep == IInv /\ [Next]_vars => IInv' /\ Allowed
  <1> SUFFICES ASSUME IInv, [Next]_vars PROVE IInv' /\ Allowed
    OBVIOUS
  <1>1. CASE \E a \in Agents : AgentCompletes(a) \/ AgentEnds(a)
    BY <1>1, AgentCompletesGood, AgentEndsGood
  <1>2. CASE RegisterEnds
    BY <1>2, RegisterEndsGood
  <1>3. CASE \E r \in Requests : PolkitAsks(r) \/ PolkitWithdraws(r)
    BY <1>3, PolkitAsksGood, PolkitWithdrawsGood
  <1>4. CASE \E r \in Requests : HelperAsks(r) \/ QmlSubmits(r)
    BY <1>4, HelperAsksGood
  <1>5. CASE \E r \in Requests, gained \in BOOLEAN : HelperEnds(r, gained)
    BY <1>5, HelperEndsGood
  <1>6. CASE \E r \in Requests : QmlSelects(r) \/ QmlCancels(r) \/ DeleteFlow(r)
    BY <1>6, QmlSelectsGood, QmlCancelsGood, DeleteFlowGood
  <1>7. CASE UNCHANGED vars
    BY <1>7, SameKeeps, OnlyAuthGood DEF vars
  <1> QED
    BY <1>1, <1>2, <1>3, <1>4, <1>5, <1>6, <1>7 DEF Next

\* Each variable keeps its type, whatever requests, agents and QML do: no
\* method finds a request in the queue that it does not know (agentimpl.cpp:109).
THEOREM PolkitTypeCorrect == Spec => []TypeOK
  <1>1. IInv => TypeOK
    BY DEF IInv, TypeOK, Rests, AskedFirst, Auths, Flows, Impls, Registrations, Results
  <1> QED
    BY <1>1, InvInit, InvStep, PTL DEF Spec

\* The flow that agents show waits for its outcome, in whatever order flows end
\* and impls follow each other (agentimpl.cpp:165).
THEOREM PolkitShowsOpen == Spec => []ActiveIsOpen
  <1>1. IInv => ActiveIsOpen
    BY DEF IInv, Rests, ActiveIsOpen, Open, Exists
  <1> QED
    BY <1>1, InvInit, InvStep, PTL DEF Spec

\* polkitd asks no agent but the one there is, at the path it has, as long as
\* agents come and go with no registration under way (agentimpl.cpp:86).
THEOREM PolkitServesLive == Spec => []ServedIsLive
  <1>1. IInv => ServedIsLive
    <2> SUFFICES ASSUME IInv, patient, served # None
                 PROVE  /\ served = Serving /\ impl.registered /\ impl.handle
                        /\ impl.agent # NoAgent /\ agents[impl.agent] = "alive"
      BY DEF ServedIsLive, Serving
    <2> QED
      BY DEF IInv, RegistersOnce
  <1> QED
    BY <1>1, InvInit, InvStep, PTL DEF Spec

\* With one request at a time each is answered before its flow goes, and
\* nothing that is gone is used (flow.cpp:43, listener.cpp:193).
THEOREM PolkitAnswers == Spec => []AnsweredBeforeFreed
  <1>1. IInv => AnsweredBeforeFreed
    <2> SUFFICES ASSUME IInv, patient, NEW r \in Requests, auth.flows[r].state = "freed"
                 PROVE  auth.answers[r] # <<>>
      BY DEF IInv, AnsweredBeforeFreed
    <2>1. r \in asked
      BY DEF IInv, AskedFirst
    <2>2. auth.active # r
      BY NoRequestIsNone DEF IInv, Rests
    <2> QED
      BY <2>1, <2>2 DEF IInv, Single
  <1> QED
    BY <1>1, InvInit, InvStep, PTL DEF Spec

\* Each step asks, answers a request that has no answer yet, or changes nothing
\* that polkitd sees: no request of a patient behaviour is answered twice
\* (agentimpl.cpp:109, flow.cpp:144).
THEOREM PolkitKeepsPromise == Spec => Promise!Safe
  <1>1. Init => Promise!Init
    BY InvInit
  <1>2. IInv /\ [Next]_vars => [Promise!Next]_(Promise!vars)
    BY InvStep DEF Allowed
  <1> QED
    BY <1>1, <1>2, InvInit, InvStep, PTL DEF Spec, Promise!Safe

=============================================================================
