------------------------------- MODULE Greetd -------------------------------
(***************************************************************************)
(* The greeter's session with greetd: GreetdConnection                     *)
(* (services/greetd/connection.cpp), the QML that drives it and the greetd *)
(* daemon, which answers requests one at a time and in order.              *)
(*                                                                         *)
(* The connection numbers neither requests nor answers, so what an answer  *)
(* means depends on the state the client is in when it arrives.            *)
(***************************************************************************)
EXTENDS Naturals, Sequences

CONSTANTS
    Users,          (* user names QML may log in                             *)
    NoUser,         (* the empty user name                                   *)
    Errors,         (* error types greetd may answer with                    *)
    Cancels,        (* QML may cancel a session                              *)
    Drops,          (* greetd may close the connection                       *)
    MaxCalls,       (* bound: calls made by QML                              *)
    MaxQuestions    (* bound: questions asked by PAM                         *)

ASSUME ConstantsAssumption == /\ NoUser \notin Users
                              /\ Errors \subseteq {"auth_error", "error"}
                              /\ {Cancels, Drops} \subseteq BOOLEAN
                              /\ MaxCalls \in Nat
                              /\ MaxQuestions \in Nat

VARIABLES
    conn,       (* the members of GreetdConnection, and what it has written  *)
    socket,     (* QLocalSocket: connecting, connected or lost               *)
    responses,  (* what greetd has answered and the client has not read      *)
    session,    (* greetd's session: its phase and its user                  *)
    patient,    (* what QML is like: a patient one creates a session only if *)
                (* there is none and responds only amid one, and both only   *)
                (* when all that was sent is answered                        *)
    restarted,  (* history: OnAlreadyConfigured has run                      *)
    outcome,    (* of launch(): the shell goes on, has quit, or has crashed  *)
    calls,      (* counts QML's calls, for the bound                         *)
    questions   (* counts PAM's questions, for the bound                     *)

vars == <<conn, socket, responses, session, patient, restarted, outcome, calls,
          questions>>

States == {"Inactive", "Authenticating", "ReadyToLaunch", "Launching", "Launched"}
Phases == {"none", "asking", "failed", "ready", "started"}

Create(u) == [type |-> "create_session", user |-> u]
Post      == [type |-> "post_auth_message_response", user |-> NoUser]
Cancel    == [type |-> "cancel_session", user |-> NoUser]
Start     == [type |-> "start_session", user |-> NoUser]

RequestTypes == {"create_session", "post_auth_message_response", "cancel_session",
                 "start_session"}
ResponseTypes == {"success", "auth_error", "error", "already", "question", "notice"}

-----------------------------------------------------------------------------
(* GreetdConnection's methods, as functions of its members c.              *)

Send(c, request) == [c EXCEPT !.sent = Append(@, request)]

SetInactive(c) == [c EXCEPT !.target = FALSE, !.required = FALSE, !.state = "Inactive"]

\* The setter's own call, for a user that is unset, ends at its first return.
SetActive(c, active) ==
    IF socket # "connected" \/ active = (c.state # "Inactive")
    THEN [c EXCEPT !.target = active]
    ELSE IF ~active THEN SetInactive(Send(c, Cancel))
    ELSE IF c.user = NoUser THEN [c EXCEPT !.target = FALSE]
    ELSE [Send(c, Create(c.user)) EXCEPT !.target = TRUE, !.state = "Authenticating"]

\* Variant: the user is set when the session is already being created.
CreateSessionThenUser(c, u) == [SetActive(c, TRUE) EXCEPT !.user = u]

CreateSession(c, u) == SetActive([c EXCEPT !.user = u], TRUE)

CancelSession(c) == SetActive(c, FALSE)

Respond(c) == IF c.required THEN [Send(c, Post) EXCEPT !.required = FALSE]
              ELSE c

Launch(c, exit) == IF c.state = "ReadyToLaunch"
                   THEN [Send(c, Start) EXCEPT !.state = "Launching", !.exit = exit]
                   ELSE c

\* What QML may call, at a time of its own or from a signal handler.
Answered == conn.sent = <<>> /\ responses = <<>>

Calls == [do : {"respond"}, user : {NoUser}]
         \cup [do : {"launch", "launch and stay"}, user : {NoUser}]
         \cup (IF Cancels THEN [do : {"cancel"}, user : {NoUser}] ELSE {})
         \cup [do : {"create"}, user : Users]

Nothing == [do |-> "nothing", user |-> NoUser]

Apply(c, call) ==
    CASE call.do = "nothing"         -> c
      [] call.do = "respond"         -> Respond(c)
      [] call.do = "launch"          -> Launch(c, TRUE)
      [] call.do = "launch and stay" -> Launch(c, FALSE)
      [] call.do = "cancel"          -> CancelSession(c)
      [] call.do = "create"          -> CreateSession(c, call.user)

\* A handler of a signal that the connection emits amid its own work.
Handlers == {Nothing} \cup {call \in Calls : calls < MaxCalls /\ (patient => call.do \notin {"create", "respond"})}

CountCall(handlers) ==
    calls' = calls + (IF \E call \in handlers : call # Nothing THEN 1 ELSE 0)

-----------------------------------------------------------------------------
Init ==
    /\ conn = [state |-> "Inactive", target |-> FALSE, required |-> FALSE, exit |-> FALSE,
               user |-> NoUser, sent |-> <<>>]
    /\ socket = "connecting"
    /\ responses = <<>>
    /\ session = [phase |-> "none", user |-> NoUser]
    /\ patient \in BOOLEAN
    /\ restarted = FALSE
    /\ outcome = "runs"
    /\ calls = 0
    /\ questions = 0

\* QML calls a method of the Greetd singleton.
QmlCalls ==
    /\ outcome = "runs" /\ calls < MaxCalls
    /\ \E call \in Calls :
        /\ patient /\ call.do \in {"create", "respond"} => Answered
        /\ patient /\ call.do = "create" => conn.state = "Inactive"
        /\ patient /\ call.do = "respond" => conn.state = "Authenticating"
        /\ conn' = Apply(conn, call)
    /\ calls' = calls + 1
    /\ UNCHANGED <<socket, responses, session, patient, restarted, outcome, questions>>

\* Variant: what QML asked for before is forgotten.
OnSocketConnectedOnly ==
    /\ outcome = "runs" /\ socket = "connecting"
    /\ socket' = "connected"
    /\ UNCHANGED <<conn, responses, session, patient, restarted, outcome, calls, questions>>

\* onSocketConnected: a session asked for meanwhile is created now.
OnSocketConnected ==
    /\ outcome = "runs" /\ socket = "connecting"
    /\ socket' = "connected"
    /\ conn' = IF ~conn.target THEN conn
               ELSE IF conn.user = NoUser THEN [conn EXCEPT !.target = FALSE]
               ELSE [Send(conn, Create(conn.user)) EXCEPT !.state = "Authenticating"]
    /\ UNCHANGED <<responses, session, patient, restarted, outcome, calls, questions>>

-----------------------------------------------------------------------------
(* GreetdConnection::onSocketReady, once for every message.                *)

Receive(type) ==
    /\ outcome = "runs" /\ socket = "connected"
    /\ responses # <<>> /\ Head(responses) = type
    /\ responses' = Tail(responses)
    /\ restarted' = (restarted \/ type = "already")
    /\ UNCHANGED <<socket, session, patient, questions>>

\* Variant: any success is taken as authentication.
OnAnySuccess ==
    /\ Receive("success")
    /\ conn' = [conn EXCEPT !.state = "ReadyToLaunch"]
    /\ UNCHANGED <<outcome, calls>>

\* "success" while Authenticating.
OnAuthenticated ==
    /\ Receive("success")
    /\ conn.state = "Authenticating"
    /\ conn' = [conn EXCEPT !.state = "ReadyToLaunch"]
    /\ UNCHANGED <<outcome, calls>>

\* "success" while Launching.  The generation that quits is the only one
\* there is: with another, such as the reload popup's, there is none.
OnLaunched ==
    /\ Receive("success")
    /\ conn.state = "Launching"
    /\ \E handler \in Handlers :
        /\ conn' = Apply([conn EXCEPT !.state = "Launched"], handler)
        /\ CountCall({handler})
        /\ \E onlyGeneration \in BOOLEAN :
            outcome' = IF ~conn'.exit THEN "runs"
                       ELSE IF onlyGeneration THEN "quits" ELSE "crashes"

\* "success" in any other state is unexpected.
OnUnexpected ==
    /\ Receive("success")
    /\ conn.state \notin {"Authenticating", "Launching"}
    /\ conn' = SetActive(conn, FALSE)
    /\ UNCHANGED <<outcome, calls>>

\* Variant: start again without cancelling.
OnAlreadyConfiguredRetry ==
    /\ Receive("already")
    /\ conn' = SetActive(SetInactive(conn), TRUE)
    /\ UNCHANGED <<outcome, calls>>

\* "a session is already being configured": cancel it, start again.
OnAlreadyConfigured ==
    /\ Receive("already")
    /\ \E changed \in Handlers :
        /\ LET cancelled == SetActive(conn, FALSE)
               handled == IF conn.state = "Inactive" THEN cancelled
                          ELSE Apply(cancelled, changed)
           IN conn' = SetActive(handled, TRUE)
        /\ CountCall({changed})
    /\ UNCHANGED outcome

\* "auth_error": handlers run for authFailure and, once the session is
\* cancelled, for stateChanged; the session is then set inactive again.
OnAuthFailure ==
    /\ Receive("auth_error")
    /\ \E failed, changed \in Handlers :
        /\ LET told == Apply(conn, failed)
               cancelled == SetActive(told, FALSE)
               handled == IF told.state = "Inactive" THEN cancelled
                          ELSE Apply(cancelled, changed)
           IN conn' = SetInactive(handled)
        /\ CountCall({failed, changed})
    /\ UNCHANGED outcome

\* Any other error ends the session without cancelling it.
OnError ==
    /\ Receive("error")
    /\ \E handler \in Handlers :
        /\ conn' = SetInactive(Apply(conn, handler))
        /\ CountCall({handler})
    /\ UNCHANGED outcome

\* A question: the answer is QML's.
OnQuestion ==
    /\ Receive("question")
    /\ conn' = [conn EXCEPT !.required = TRUE]
    /\ UNCHANGED <<outcome, calls>>

\* Variant: a message that asks nothing is not answered.
OnNoticeUnanswered ==
    /\ Receive("notice")
    /\ \E handler \in Handlers :
        /\ conn' = Apply([conn EXCEPT !.required = FALSE], handler)
        /\ CountCall({handler})
    /\ UNCHANGED outcome

\* An information or error message: it is answered once the handler is done.
OnNotice ==
    /\ Receive("notice")
    /\ \E handler \in Handlers :
        /\ conn' = Send(Apply([conn EXCEPT !.required = FALSE], handler), Post)
        /\ CountCall({handler})
    /\ UNCHANGED outcome

OnSocketReady ==
    \/ OnAuthenticated
    \/ OnLaunched
    \/ OnUnexpected
    \/ OnAlreadyConfigured
    \/ OnAuthFailure
    \/ OnError
    \/ OnQuestion
    \/ OnNotice

-----------------------------------------------------------------------------
(* greetd.                                                                 *)

Serve(type) ==
    /\ outcome = "runs" /\ socket = "connected"
    /\ conn.sent # <<>> /\ Head(conn.sent).type = type
    /\ conn' = [conn EXCEPT !.sent = Tail(@)]
    /\ UNCHANGED <<socket, patient, restarted, outcome, calls>>

Reply(type) == responses' = Append(responses, type)

\* PAM goes on with a session of user u: it asks, is content, or fails.
Authenticate(u) ==
    \/ /\ questions < MaxQuestions
       /\ questions' = questions + 1
       /\ session' = [phase |-> "asking", user |-> u]
       /\ Reply("question") \/ Reply("notice")
    \/ /\ session' = [phase |-> "ready", user |-> u]
       /\ Reply("success")
       /\ UNCHANGED questions
    \/ /\ session' = [phase |-> "failed", user |-> u]
       /\ \E e \in Errors : Reply(e)
       /\ UNCHANGED questions

ServeCreate ==
    /\ Serve("create_session")
    /\ IF session.phase \in {"none", "started"} THEN Authenticate(Head(conn.sent).user)
       ELSE UNCHANGED <<session, questions>> /\ Reply("already")

ServePost ==
    /\ Serve("post_auth_message_response")
    /\ IF session.phase = "asking" THEN Authenticate(session.user)
       ELSE UNCHANGED <<session, questions>> /\ Reply("error")

ServeCancel ==
    /\ Serve("cancel_session")
    /\ session' = IF session.phase = "started" THEN session
                  ELSE [phase |-> "none", user |-> NoUser]
    /\ Reply("success")
    /\ UNCHANGED questions

ServeStart ==
    /\ Serve("start_session")
    /\ session' = IF session.phase = "ready" THEN [session EXCEPT !.phase = "started"]
                  ELSE session
    /\ Reply(IF session.phase = "ready" THEN "success" ELSE "error")
    /\ UNCHANGED questions

\* greetd goes away.  Nothing is connected to the socket's error signal, so
\* the client does nothing.
Disconnect ==
    /\ Drops /\ outcome = "runs" /\ socket = "connected"
    /\ socket' = "lost"
    /\ UNCHANGED <<conn, responses, session, patient, restarted, outcome, calls,
                   questions>>

GreetdServes ==
    \/ ServeCreate
    \/ ServePost
    \/ ServeCancel
    \/ ServeStart

Next ==
    \/ QmlCalls
    \/ OnSocketConnected
    \/ OnSocketReady
    \/ GreetdServes
    \/ Disconnect

\* The event loop reads what arrives, and greetd answers what it is asked.
Spec == Init /\ [][Next]_vars
FairSpec == Spec /\ WF_vars(OnSocketConnected) /\ WF_vars(OnSocketReady)
                 /\ WF_vars(GreetdServes)

-----------------------------------------------------------------------------
(* Correctness.                                                            *)

SomeUser == Users \cup {NoUser}

TypeOK ==
    /\ conn \in [state : States, target : BOOLEAN, required : BOOLEAN, exit : BOOLEAN,
                 user : SomeUser,
                 sent : Seq([type : RequestTypes, user : SomeUser])]
    /\ socket \in {"connecting", "connected", "lost"}
    /\ responses \in Seq(ResponseTypes)
    /\ session \in [phase : Phases, user : SomeUser]
    /\ {patient, restarted} \subseteq BOOLEAN
    /\ outcome \in {"runs", "quits", "crashes"}
    /\ calls \in 0 .. MaxCalls
    /\ questions \in 0 .. MaxQuestions

\* Greetd.readyToLaunch, services/greetd/qml.hpp:83: "Authentication has
\* finished successfully and greetd can now launch a session".
ReadyIsAuthenticated ==
    conn.state = "ReadyToLaunch" /\ socket = "connected" => session.phase = "ready"

\* What that comes to in the code: true for a patient QML, until a session is
\* found to be configured already and is restarted.
PatientReadyIsAuthenticated == patient /\ ~restarted => ReadyIsAuthenticated

\* Greetd.user, services/greetd/qml.hpp:22, is "The currently authenticating
\* user" for greetd too: createSession changes it even if it creates nothing.
PatientUserIsCurrent ==
    patient /\ conn.state # "Inactive" /\ socket = "connected" /\ Answered
        /\ session.phase # "none"
        => session.user = conn.user

\* Greeter and greetd do not wait for each other: when greetd's session awaits
\* an answer and nothing is on its way, a greeter that authenticates has been
\* asked for one, whatever it called and whichever session was cancelled or
\* begun anew meanwhile (connection.cpp:232: a message that asks nothing has to
\* be answered too).
NobodyWaits ==
    conn.state = "Authenticating" /\ session.phase = "asking" /\ Answered => conn.required

\* A session asked for before the socket was up is created when it is.
TargetReached ==
    (socket = "connecting" /\ conn.target) ~> (conn.state = "Authenticating" \/ ~conn.target)

\* greetd's answers are all consumed, and none leads to an endless exchange.
Quiesces == (calls = MaxCalls) ~> (Answered \/ outcome # "runs" \/ socket # "connected")
=============================================================================
