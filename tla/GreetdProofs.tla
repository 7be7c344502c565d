---------------------------- MODULE GreetdProofs ----------------------------
(***************************************************************************)
(* Proofs about Greetd, for any users and bounds: its types, and that a    *)
(* patient greeter and greetd agree on who is authenticated, and that they *)
(* never wait for each other.                                              *)
(*                                                                         *)
(* Agreement does not follow from itself.  That a greeter which is ready   *)
(* has a session that is ready holds because of all that is on its way:    *)
(* InStep says, for each state of the connection, which request or answer  *)
(* that can be.                                                            *)
(***************************************************************************)
EXTENDS Greetd, TLAPS

Requests == [type : RequestTypes, user : SomeUser]

Conn == [state : States, target : BOOLEAN, required : BOOLEAN, exit : BOOLEAN,
         user : SomeUser, sent : Seq(Requests)]

-----------------------------------------------------------------------------
(* The requests, and the methods.                                          *)

\* Every request that the client makes is one.
LEMMA RequestTyped ==
    /\ \A u \in SomeUser : Create(u) \in Requests
    /\ {Post, Cancel, Start} \subseteq Requests
  BY DEF Create, Post, Cancel, Start, Requests, RequestTypes, SomeUser

\* sendRequest.
LEMMA SendTyped ==
    ASSUME NEW c \in Conn, NEW r \in Requests
    PROVE  /\ Send(c, r) \in Conn
           /\ \A f \in {"state", "user", "required", "target", "exit"} : Send(c, r)[f] = c[f]
  BY DEF Send, Conn

\* setInactive.
LEMMA SetInactiveTyped ==
    ASSUME NEW c \in Conn
    PROVE  SetInactive(c) \in Conn
  BY DEF SetInactive, Conn, States

\* setActive.
LEMMA SetActiveTyped ==
    ASSUME NEW c \in Conn, NEW active \in BOOLEAN
    PROVE  SetActive(c, active) \in Conn
  <1>1. /\ [c EXCEPT !.target = active] \in Conn
        /\ [c EXCEPT !.target = FALSE] \in Conn
    BY DEF Conn
  <1>2. SetInactive(Send(c, Cancel)) \in Conn
    BY RequestTyped, SendTyped, SetInactiveTyped
  <1>3. [Send(c, Create(c.user)) EXCEPT !.target = TRUE, !.state = "Authenticating"] \in Conn
    <2>1. c.user \in SomeUser
      BY DEF Conn
    <2>2. Send(c, Create(c.user)) \in Conn
      BY <2>1, RequestTyped, SendTyped
    <2> QED
      BY <2>2 DEF Conn, States
  <1> QED
    BY <1>1, <1>2, <1>3, Zenon DEF SetActive

\* createSession.
LEMMA CreateSessionTyped ==
    ASSUME NEW c \in Conn, NEW u \in SomeUser
    PROVE  CreateSession(c, u) \in Conn
  <1>1. [c EXCEPT !.user = u] \in Conn
    BY DEF Conn
  <1> QED
    BY <1>1, SetActiveTyped DEF CreateSession

\* respond.
LEMMA RespondTyped ==
    ASSUME NEW c \in Conn
    PROVE  Respond(c) \in Conn
  <1>1. Send(c, Post) \in Conn
    BY RequestTyped, SendTyped
  <1>2. [Send(c, Post) EXCEPT !.required = FALSE] \in Conn
    BY <1>1 DEF Conn
  <1> QED
    BY <1>2 DEF Respond

\* launch.
LEMMA LaunchTyped ==
    ASSUME NEW c \in Conn, NEW exit \in BOOLEAN
    PROVE  Launch(c, exit) \in Conn
  <1>1. Send(c, Start) \in Conn
    BY RequestTyped, SendTyped
  <1>2. [Send(c, Start) EXCEPT !.state = "Launching", !.exit = exit] \in Conn
    BY <1>1 DEF Conn, States
  <1> QED
    BY <1>2 DEF Launch

Deeds == {"nothing", "respond", "launch", "launch and stay", "cancel", "create"}

\* A call, and the call that is none.
LEMMA CallTyped ==
    ASSUME NEW call \in Calls \cup {Nothing}
    PROVE  call.do \in Deeds /\ call.user \in SomeUser
  <1>1. Nothing \in [do : Deeds, user : SomeUser]
    BY DEF Nothing, Deeds, SomeUser
  <1>2. [do : {"respond"}, user : {NoUser}] \subseteq [do : Deeds, user : SomeUser]
    BY DEF Deeds, SomeUser
  <1>3. [do : {"launch", "launch and stay"}, user : {NoUser}] \subseteq [do : Deeds, user : SomeUser]
    BY DEF Deeds, SomeUser
  <1>4. (IF Cancels THEN [do : {"cancel"}, user : {NoUser}] ELSE {})
            \subseteq [do : Deeds, user : SomeUser]
    BY DEF Deeds, SomeUser
  <1>5. [do : {"create"}, user : Users] \subseteq [do : Deeds, user : SomeUser]
    BY DEF Deeds, SomeUser
  <1>6. call \in [do : Deeds, user : SomeUser]
    BY <1>1, <1>2, <1>3, <1>4, <1>5, Zenon DEF Calls
  <1> QED
    BY <1>6

\* Whatever QML calls, or a handler of its own does.
LEMMA ApplyTyped ==
    ASSUME NEW c \in Conn, NEW call \in Calls \cup {Nothing}
    PROVE  Apply(c, call) \in Conn
  <1>1. call.user \in SomeUser
    BY CallTyped
  <1>2. call.do \in Deeds
    BY CallTyped
  <1>3. CASE call.do = "nothing"
    BY <1>3 DEF Apply
  <1>4. CASE call.do = "respond"
    BY <1>4, RespondTyped DEF Apply
  <1>5. CASE call.do = "launch"
    BY <1>5, LaunchTyped DEF Apply
  <1>6. CASE call.do = "launch and stay"
    BY <1>6, LaunchTyped DEF Apply
  <1>7. CASE call.do = "cancel"
    BY <1>7, SetActiveTyped DEF Apply, CancelSession
  <1>8. CASE call.do = "create"
    BY <1>8, <1>1, CreateSessionTyped DEF Apply
  <1> QED
    BY <1>2, <1>3, <1>4, <1>5, <1>6, <1>7, <1>8 DEF Deeds

\* A handler is a call or nothing, and is counted within the bound.
LEMMA HandlerTyped ==
    ASSUME TypeOK, NEW h \in Handlers
    PROVE  h \in Calls \cup {Nothing}
  BY DEF Handlers

LEMMA CountTyped ==
    ASSUME TypeOK, NEW hs \in SUBSET Handlers, CountCall(hs)
    PROVE  calls' \in 0 .. MaxCalls
  <1>1. MaxCalls \in Nat /\ calls \in 0 .. MaxCalls
    BY ConstantsAssumption DEF TypeOK
  <1>2. CASE \E call \in hs : call # Nothing
    <2>1. PICK call \in hs : call # Nothing
      BY <1>2
    <2>2. call \in Handlers
      BY <2>1
    <2>3. calls < MaxCalls
      BY <2>1, <2>2 DEF Handlers
    <2> QED
      BY <1>1, <1>2, <2>3 DEF CountCall
  <1>3. CASE ~ \E call \in hs : call # Nothing
    BY <1>1, <1>3 DEF CountCall
  <1> QED
    BY <1>2, <1>3
-----------------------------------------------------------------------------
(* The steps.  Each changes a few of the variables.                        *)

LEMMA TypeInit == Init => TypeOK
  <1> SUFFICES ASSUME Init PROVE TypeOK
    OBVIOUS
  <1>1. conn \in Conn
    BY DEF Init, Conn, States, SomeUser, Requests
  <1>2. 0 \in 0 .. MaxCalls /\ 0 \in 0 .. MaxQuestions
    BY ConstantsAssumption
  <1>3. session \in [phase : Phases, user : SomeUser]
    BY DEF Init, Phases, SomeUser
  <1>4. {patient, restarted} \subseteq BOOLEAN
    BY Zenon DEF Init
  <1> QED
    BY <1>1, <1>2, <1>3, <1>4 DEF Init, TypeOK, Conn, Requests

\* A handler of a message takes it, and leaves the rest to what it does.
LEMMA ReceiveTyped ==
    ASSUME TypeOK, NEW type \in ResponseTypes, Receive(type),
           conn' \in Conn, outcome' \in {"runs", "quits", "crashes"}, calls' \in 0 .. MaxCalls
    PROVE  TypeOK'
  <1>1. responses' \in Seq(ResponseTypes)
    BY DEF TypeOK, Receive
  <1>2. restarted' \in BOOLEAN
    BY Zenon DEF Receive
  <1>3. patient' \in BOOLEAN
    BY DEF TypeOK, Receive
  <1> QED
    BY <1>1, <1>2, <1>3 DEF TypeOK, Receive, Conn, Requests

\* onSocketReady, for each type of message.
LEMMA OnSocketReadyTyped == TypeOK /\ OnSocketReady => TypeOK'
  <1> SUFFICES ASSUME TypeOK, OnSocketReady PROVE TypeOK'
    OBVIOUS
  <1>a. conn \in Conn /\ outcome \in {"runs", "quits", "crashes"} /\ calls \in 0 .. MaxCalls
    BY DEF TypeOK, Conn, Requests
  <1>1. CASE OnAuthenticated
    <2>1. conn' \in Conn
      BY <1>1, <1>a DEF OnAuthenticated, Conn, States
    <2> QED
      BY <1>1, <2>1, <1>a, ReceiveTyped DEF OnAuthenticated, ResponseTypes
  <1>2. CASE OnLaunched
    <2>1. PICK handler \in Handlers :
            /\ conn' = Apply([conn EXCEPT !.state = "Launched"], handler)
            /\ CountCall({handler})
      BY <1>2 DEF OnLaunched
    <2>2. [conn EXCEPT !.state = "Launched"] \in Conn
      BY <1>a DEF Conn, States
    <2>3. conn' \in Conn
      BY <2>1, <2>2, HandlerTyped, ApplyTyped
    <2>4. calls' \in 0 .. MaxCalls
      BY <2>1, CountTyped
    <2>5. outcome' \in {"runs", "quits", "crashes"}
      BY <1>2 DEF OnLaunched
    <2> QED
      BY <1>2, <2>3, <2>4, <2>5, ReceiveTyped DEF OnLaunched, ResponseTypes
  <1>3. CASE OnUnexpected
    <2>1. conn' \in Conn
      BY <1>3, <1>a, SetActiveTyped DEF OnUnexpected
    <2> QED
      BY <1>3, <2>1, <1>a, ReceiveTyped DEF OnUnexpected, ResponseTypes
  <1>4. CASE OnAlreadyConfigured
    <2>1. PICK changed \in Handlers :
            /\ conn' = SetActive(IF conn.state = "Inactive" THEN SetActive(conn, FALSE)
                                 ELSE Apply(SetActive(conn, FALSE), changed), TRUE)
            /\ CountCall({changed})
      BY <1>4 DEF OnAlreadyConfigured
    <2>2. SetActive(conn, FALSE) \in Conn
      BY <1>a, SetActiveTyped
    <2>3. Apply(SetActive(conn, FALSE), changed) \in Conn
      BY <2>2, HandlerTyped, ApplyTyped
    <2>4. conn' \in Conn
      BY <2>1, <2>2, <2>3, SetActiveTyped
    <2>5. calls' \in 0 .. MaxCalls
      BY <2>1, CountTyped
    <2> QED
      BY <1>4, <2>4, <2>5, <1>a, ReceiveTyped DEF OnAlreadyConfigured, ResponseTypes
  <1>5. CASE OnAuthFailure
    <2> DEFINE told(h) == Apply(conn, h)
    <2>1. PICK failed \in Handlers, changed \in Handlers :
            /\ conn' = SetInactive(IF told(failed).state = "Inactive"
                                   THEN SetActive(told(failed), FALSE)
                                   ELSE Apply(SetActive(told(failed), FALSE), changed))
            /\ CountCall({failed, changed})
      BY <1>5 DEF OnAuthFailure
    <2>2. told(failed) \in Conn
      BY <1>a, HandlerTyped, ApplyTyped
    <2>3. SetActive(told(failed), FALSE) \in Conn
      BY <2>2, SetActiveTyped
    <2>4. Apply(SetActive(told(failed), FALSE), changed) \in Conn
      BY <2>3, HandlerTyped, ApplyTyped
    <2>5. conn' \in Conn
      <3> HIDE DEF told
      <3> QED
        BY <2>1, <2>3, <2>4, SetInactiveTyped
    <2>6. calls' \in 0 .. MaxCalls
      BY <2>1, CountTyped
    <2> QED
      BY <1>5, <2>5, <2>6, <1>a, ReceiveTyped DEF OnAuthFailure, ResponseTypes
  <1>6. CASE OnError
    <2>1. PICK handler \in Handlers :
            /\ conn' = SetInactive(Apply(conn, handler))
            /\ CountCall({handler})
      BY <1>6 DEF OnError
    <2>2. conn' \in Conn
      BY <2>1, <1>a, HandlerTyped, ApplyTyped, SetInactiveTyped
    <2>3. calls' \in 0 .. MaxCalls
      BY <2>1, CountTyped
    <2> QED
      BY <1>6, <2>2, <2>3, <1>a, ReceiveTyped DEF OnError, ResponseTypes
  <1>7. CASE OnQuestion
    <2>1. conn' \in Conn
      BY <1>7, <1>a DEF OnQuestion, Conn
    <2> QED
      BY <1>7, <2>1, <1>a, ReceiveTyped DEF OnQuestion, ResponseTypes
  <1>8. CASE OnNotice
    <2>1. PICK handler \in Handlers :
            /\ conn' = Send(Apply([conn EXCEPT !.required = FALSE], handler), Post)
            /\ CountCall({handler})
      BY <1>8 DEF OnNotice
    <2>2. [conn EXCEPT !.required = FALSE] \in Conn
      BY <1>a DEF Conn
    <2>3. conn' \in Conn
      BY <2>1, <2>2, HandlerTyped, ApplyTyped, SendTyped, RequestTyped
    <2>4. calls' \in 0 .. MaxCalls
      BY <2>1, CountTyped
    <2> QED
      BY <1>8, <2>3, <2>4, <1>a, ReceiveTyped DEF OnNotice, ResponseTypes
  <1> QED
    BY <1>1, <1>2, <1>3, <1>4, <1>5, <1>6, <1>7, <1>8 DEF OnSocketReady

\* greetd takes a request and answers it.
LEMMA ServeTyped ==
    ASSUME TypeOK, NEW type, Serve(type),
           NEW answer \in ResponseTypes, Reply(answer),
           session' \in [phase : Phases, user : SomeUser], questions' \in 0 .. MaxQuestions
    PROVE  TypeOK'
  <1>1. conn' \in Conn
    <2>1. conn \in Conn /\ conn.sent \in Seq(Requests) /\ conn.sent # <<>>
      BY DEF TypeOK, Serve, Conn, Requests
    <2>2. Tail(conn.sent) \in Seq(Requests)
      BY <2>1
    <2>3. conn' = [conn EXCEPT !.sent = Tail(conn.sent)]
      BY DEF Serve
    <2> QED
      BY <2>1, <2>2, <2>3 DEF Conn
  <1>2. responses' \in Seq(ResponseTypes)
    BY DEF TypeOK, Reply
  <1> QED
    BY <1>1, <1>2 DEF TypeOK, Serve, Conn, Requests

\* PAM goes on: an answer, and a session of the user it was given.
LEMMA AuthenticateTyped ==
    ASSUME TypeOK, NEW u \in SomeUser, Authenticate(u)
    PROVE  /\ \E answer \in ResponseTypes : Reply(answer)
           /\ session' \in [phase : Phases, user : SomeUser]
           /\ questions' \in 0 .. MaxQuestions
  <1>1. \E answer \in ResponseTypes : Reply(answer)
    BY ConstantsAssumption DEF Authenticate, ResponseTypes
  <1>2. session' \in [phase : Phases, user : SomeUser]
    BY DEF Authenticate, Phases
  <1>3. questions' \in 0 .. MaxQuestions
    BY ConstantsAssumption DEF Authenticate, TypeOK
  <1> QED
    BY <1>1, <1>2, <1>3

LEMMA GreetdServesTyped == TypeOK /\ GreetdServes => TypeOK'
  <1> SUFFICES ASSUME TypeOK, GreetdServes PROVE TypeOK'
    OBVIOUS
  <1>a. /\ session \in [phase : Phases, user : SomeUser]
        /\ questions \in 0 .. MaxQuestions
        /\ conn.sent \in Seq(Requests)
    BY DEF TypeOK, Requests
  <1>b. {"success", "error", "already"} \subseteq ResponseTypes
    BY DEF ResponseTypes
  <1>1. CASE ServeCreate
    <2>1. CASE session.phase \in {"none", "started"}
      <3>1. Head(conn.sent).user \in SomeUser
        <4>1. conn.sent # <<>>
          BY <1>1 DEF ServeCreate, Serve
        <4>2. Head(conn.sent) \in Requests
          BY <4>1, <1>a
        <4> QED
          BY <4>2 DEF Requests
      <3>2. Authenticate(Head(conn.sent).user)
        BY <1>1, <2>1 DEF ServeCreate
      <3> QED
        BY <1>1, <3>1, <3>2, AuthenticateTyped, ServeTyped DEF ServeCreate
    <2>2. CASE session.phase \notin {"none", "started"}
      BY <1>1, <2>2, <1>a, <1>b, ServeTyped DEF ServeCreate
    <2> QED
      BY <2>1, <2>2
  <1>2. CASE ServePost
    <2>1. CASE session.phase = "asking"
      <3>1. session.user \in SomeUser
        BY <1>a
      <3>2. Authenticate(session.user)
        BY <1>2, <2>1 DEF ServePost
      <3> QED
        BY <1>2, <3>1, <3>2, AuthenticateTyped, ServeTyped DEF ServePost
    <2>2. CASE session.phase # "asking"
      BY <1>2, <2>2, <1>a, <1>b, ServeTyped DEF ServePost
    <2> QED
      BY <2>1, <2>2
  <1>3. CASE ServeCancel
    <2>1. session' \in [phase : Phases, user : SomeUser]
      BY <1>3, <1>a DEF ServeCancel, Phases, SomeUser
    <2> QED
      BY <1>3, <2>1, <1>a, <1>b, ServeTyped DEF ServeCancel
  <1>4. CASE ServeStart
    <2>1. session' \in [phase : Phases, user : SomeUser]
      BY <1>4, <1>a DEF ServeStart, Phases
    <2>2. \E answer \in {"success", "error"} : Reply(answer)
      BY <1>4 DEF ServeStart
    <2> QED
      BY <1>4, <2>1, <2>2, <1>a, <1>b, ServeTyped DEF ServeStart
  <1> QED
    BY <1>1, <1>2, <1>3, <1>4 DEF GreetdServes

LEMMA TypeStep == TypeOK /\ [Next]_vars => TypeOK'
  <1> SUFFICES ASSUME TypeOK, [Next]_vars PROVE TypeOK'
    OBVIOUS
  <1>a. conn \in Conn
    BY DEF TypeOK, Conn, Requests
  <1>1. CASE QmlCalls
    <2>1. PICK call \in Calls : conn' = Apply(conn, call)
      BY <1>1 DEF QmlCalls
    <2>2. conn' \in Conn
      BY <2>1, <1>a, ApplyTyped
    <2>3. calls' \in 0 .. MaxCalls
      BY <1>1, ConstantsAssumption DEF QmlCalls, TypeOK
    <2> QED
      BY <1>1, <2>2, <2>3 DEF QmlCalls, TypeOK, Conn, Requests
  <1>2. CASE OnSocketConnected
    <2>1. CASE conn.target /\ conn.user # NoUser
      <3>1. conn.user \in SomeUser
        BY <1>a DEF Conn
      <3>2. Send(conn, Create(conn.user)) \in Conn
        BY <3>1, <1>a, SendTyped, RequestTyped
      <3>3. conn' \in Conn
        BY <1>2, <2>1, <3>2 DEF OnSocketConnected, Conn, States
      <3> QED
        BY <1>2, <3>3 DEF OnSocketConnected, TypeOK, Conn, Requests
    <2>2. CASE ~(conn.target /\ conn.user # NoUser)
      <3>1. conn' \in Conn
        BY <1>2, <2>2, <1>a DEF OnSocketConnected, Conn
      <3> QED
        BY <1>2, <3>1 DEF OnSocketConnected, TypeOK, Conn, Requests
    <2> QED
      BY <2>1, <2>2
  <1>3. CASE OnSocketReady
    BY <1>3, OnSocketReadyTyped
  <1>4. CASE GreetdServes
    BY <1>4, GreetdServesTyped
  <1>5. CASE Disconnect
    BY <1>5 DEF Disconnect, TypeOK
  <1>6. CASE UNCHANGED vars
    BY <1>6 DEF vars, TypeOK
  <1> QED
    BY <1>1, <1>2, <1>3, <1>4, <1>5, <1>6 DEF Next

\* Whatever QML calls, also amid the handling of a message, and whatever greetd
\* answers or when it goes away, connection and session keep their types.
THEOREM GreetdTypeCorrect == Spec => []TypeOK
  <1>1. Init => TypeOK
    BY TypeInit
  <1>2. TypeOK /\ [Next]_vars => TypeOK'
    BY TypeStep
  <1> QED
    BY <1>1, <1>2, PTL DEF Spec
-----------------------------------------------------------------------------
(* A patient greeter and greetd, as long as no session was restarted.      *)

\* What an answer says of the session.
Fits(answer) == CASE answer = "success" -> session.phase = "ready"
                  [] answer \in {"question", "notice"} -> session.phase = "asking"
                  [] OTHER -> TRUE

Creating   == conn.sent = <<Create(conn.user)>> /\ responses = <<>>
Responding == conn.sent = <<Post>> /\ responses = <<>> /\ session.phase = "asking"
Replied    == conn.sent = <<>> /\ \E r \in ResponseTypes : responses = <<r>> /\ Fits(r)
Refused    == conn.sent = <<>> /\ responses = <<"already">>
Asked      == Answered /\ session.phase = "asking"
Starting   == conn.sent = <<Start>> /\ responses = <<>> /\ session.phase = "ready"
HasStarted == conn.sent = <<>> /\ responses = <<"success">> /\ session.phase = "started"

Same == session.user = conn.user

InStep ==
    /\ socket = "connecting" => Answered /\ conn.state = "Inactive"
    /\ socket = "connected" =>
        CASE conn.state = "Inactive"       -> TRUE
          [] conn.state = "Authenticating" -> \/ Creating
                                              \/ Refused
                                              \/ Same /\ (Responding \/ Replied \/ Asked)
          [] conn.state = "ReadyToLaunch"  -> Answered /\ Same /\ session.phase = "ready"
          [] conn.state = "Launching"      -> Same /\ (Starting \/ HasStarted)
          [] conn.state = "Launched"       -> Answered /\ Same

PatientInStep == patient /\ ~restarted => InStep

\* Queues of one.
LEMMA OneRequest ==
    ASSUME NEW r \in Requests
    PROVE  Append(<<>>, r) = <<r>> /\ Tail(<<r>>) = <<>> /\ Head(<<r>>) = r /\ <<r>> # <<>>
  OBVIOUS

LEMMA OneAnswer ==
    ASSUME NEW r \in ResponseTypes
    PROVE  Append(<<>>, r) = <<r>> /\ Tail(<<r>>) = <<>> /\ Head(<<r>>) = r /\ <<r>> # <<>>
  OBVIOUS

\* The members of the connection.
LEMMA ConnTyped == TypeOK => conn \in Conn /\ conn.state \in States /\ conn.user \in SomeUser
  BY DEF TypeOK, Conn, Requests

\* setActive(false) of a connection that has nothing to cancel, and of one that has.
LEMMA CancelEffect ==
    ASSUME NEW c \in Conn
    PROVE  LET d == SetActive(c, FALSE)
           IN  /\ d.user = c.user
               /\ d.state = c.state \/ d.state = "Inactive"
               /\ d.state = c.state => d.sent = c.sent
               /\ socket = "connected" => d.state = "Inactive"
               /\ socket # "connected" => d.state = c.state
  <1>1. CASE socket # "connected" \/ c.state = "Inactive"
    <2>1. SetActive(c, FALSE) = [c EXCEPT !.target = FALSE]
      BY <1>1 DEF SetActive
    <2> QED
      BY <1>1, <2>1 DEF Conn
  <1>2. CASE ~(socket # "connected" \/ c.state = "Inactive")
    <2>1. SetActive(c, FALSE) = SetInactive(Send(c, Cancel))
      BY <1>2 DEF SetActive
    <2>2. Send(c, Cancel) \in Conn /\ Send(c, Cancel).user = c.user
      BY SendTyped, RequestTyped
    <2> QED
      BY <1>2, <2>1, <2>2 DEF SetInactive, Conn
  <1> QED
    BY <1>1, <1>2

\* A handler of a patient QML, in a state in which launch() does nothing,
\* cancels or leaves things as they are.
LEMMA PatientHandler ==
    ASSUME TypeOK, patient, NEW h \in Handlers, NEW c \in Conn, c.state # "ReadyToLaunch"
    PROVE  Apply(c, h) = c \/ Apply(c, h) = SetActive(c, FALSE)
  <1>1. h \in Calls \cup {Nothing}
    BY HandlerTyped
  <1>2. h.do \in Deeds
    BY <1>1, CallTyped
  <1>3. h = Nothing \/ h.do \notin {"create", "respond"}
    BY DEF Handlers
  <1>4. Nothing.do = "nothing"
    BY DEF Nothing
  <1>5. h.do \in {"nothing", "launch", "launch and stay", "cancel"}
    BY <1>2, <1>3, <1>4 DEF Deeds
  <1> QED
    BY <1>5 DEF Apply, Launch, CancelSession

LEMMA InStepInit == Init => InStep
  BY DEF Init, InStep, Answered

\* QML calls: it asks for a session when there is none, answers what it was
\* asked, launches what is ready, or cancels.
LEMMA InStepQml == TypeOK /\ patient /\ InStep /\ QmlCalls => InStep'
  <1> SUFFICES ASSUME TypeOK, patient, InStep, QmlCalls PROVE InStep'
    OBVIOUS
  <1>a. conn \in Conn /\ conn.state \in States
    BY ConnTyped
  <1>b. UNCHANGED <<socket, responses, session>>
    BY DEF QmlCalls
  <1>0. PICK call \in Calls :
            /\ patient /\ call.do \in {"create", "respond"} => Answered
            /\ patient /\ call.do = "create" => conn.state = "Inactive"
            /\ patient /\ call.do = "respond" => conn.state = "Authenticating"
            /\ conn' = Apply(conn, call)
    BY DEF QmlCalls
  <1>c. call.do \in Deeds /\ call.user \in SomeUser
    BY CallTyped
  <1>1. CASE call.do = "nothing"
    <2>1. conn' = conn
      BY <1>0, <1>1 DEF Apply
    <2> QED
      BY <2>1, <1>b DEF InStep, Answered, Creating, Refused, Responding, Replied, Asked, Starting,
                        HasStarted, Same, Fits
  <1>2. CASE call.do = "respond"
    <2>1. Answered /\ conn.state = "Authenticating"
      BY <1>0, <1>2
    <2>2. conn' = Respond(conn)
      BY <1>0, <1>2 DEF Apply
    <2>3. CASE ~conn.required
      <3>1. conn' = conn
        BY <2>2, <2>3 DEF Respond
      <3> QED
        BY <3>1, <1>b DEF InStep, Answered, Creating, Refused, Responding, Replied, Asked,
                          Starting, HasStarted, Same, Fits
    <2>4. CASE conn.required
      <3>1. conn'.sent = Append(conn.sent, Post) /\ conn'.state = conn.state
            /\ conn'.user = conn.user
        BY <2>2, <2>4, <1>a DEF Respond, Send, Conn
      <3>2. conn'.sent = <<Post>>
        BY <3>1, <2>1, RequestTyped, OneRequest DEF Answered
      <3>3. socket # "connecting"
        BY <2>1 DEF InStep
      <3>4. socket = "connected" => Asked /\ Same
        BY <2>1 DEF InStep, Answered, Creating, Refused, Responding, Replied, Asked
      <3> QED
        BY <3>1, <3>2, <3>3, <3>4, <2>1, <1>b DEF InStep, Asked, Answered, Responding, Same
    <2> QED
      BY <2>3, <2>4
  <1>3. CASE call.do \in {"launch", "launch and stay"}
    <2>1. PICK exit \in BOOLEAN : conn' = Launch(conn, exit)
      BY <1>0, <1>3 DEF Apply
    <2>2. CASE conn.state # "ReadyToLaunch"
      <3>1. conn' = conn
        BY <2>1, <2>2 DEF Launch
      <3> QED
        BY <3>1, <1>b DEF InStep, Answered, Creating, Refused, Responding, Replied, Asked,
                          Starting, HasStarted, Same, Fits
    <2>3. CASE conn.state = "ReadyToLaunch"
      <3>1. conn'.sent = Append(conn.sent, Start) /\ conn'.state = "Launching"
            /\ conn'.user = conn.user
        BY <2>1, <2>3, <1>a DEF Launch, Send, Conn
      <3>2. socket # "connecting"
        BY <2>3 DEF InStep
      <3>3. socket = "connected" => conn.sent = <<>> /\ responses = <<>> /\ Same
                                    /\ session.phase = "ready"
        BY <2>3 DEF InStep, Answered
      <3>4. socket = "connected" => conn'.sent = <<Start>>
        BY <3>1, <3>3, RequestTyped, OneRequest
      <3> QED
        BY <3>1, <3>2, <3>3, <3>4, <1>b DEF InStep, Starting, Same
    <2> QED
      BY <2>2, <2>3
  <1>4. CASE call.do = "cancel"
    <2>1. conn' = SetActive(conn, FALSE)
      BY <1>0, <1>4 DEF Apply, CancelSession
    <2>2. CASE socket = "connected"
      BY <2>1, <2>2, <1>a, <1>b, CancelEffect DEF InStep
    <2>3. CASE socket # "connected"
      <3>1. conn'.state = conn.state /\ conn'.sent = conn.sent
        BY <2>1, <2>3, <1>a, CancelEffect
      <3> QED
        BY <3>1, <2>3, <1>b DEF InStep, Answered
    <2> QED
      BY <2>2, <2>3
  <1>5. CASE call.do = "create"
    <2> DEFINE c == [conn EXCEPT !.user = call.user]
    <2>1. Answered /\ conn.state = "Inactive" /\ conn' = SetActive(c, TRUE)
      BY <1>0, <1>5 DEF Apply, CreateSession
    <2>2. c \in Conn /\ c.state = "Inactive" /\ c.user = call.user /\ c.sent = conn.sent
      BY <1>a, <1>c, <2>1 DEF Conn
    <2>3. CASE socket # "connected" \/ call.user = NoUser
      <3>1. conn' = [c EXCEPT !.target = TRUE] \/ conn' = [c EXCEPT !.target = FALSE]
        BY <2>1, <2>2, <2>3 DEF SetActive
      <3>2. conn'.state = "Inactive" /\ conn'.sent = conn.sent
        <4> HIDE DEF c
        <4> QED
          BY <3>1, <2>2 DEF Conn
      <3> QED
        BY <3>2, <2>1, <1>b DEF InStep, Answered
    <2>4. CASE ~(socket # "connected" \/ call.user = NoUser)
      <3>1. conn' = [Send(c, Create(c.user)) EXCEPT !.target = TRUE, !.state = "Authenticating"]
        BY <2>1, <2>2, <2>4 DEF SetActive
      <3>2. Create(c.user) \in Requests
        BY <2>2, <1>c, RequestTyped
      <3>3. /\ conn'.state = "Authenticating" /\ conn'.user = c.user
            /\ conn'.sent = Append(c.sent, Create(c.user))
        <4> HIDE DEF c
        <4> QED
          BY <3>1, <3>2, <2>2 DEF Send, Conn
      <3>4. conn'.sent = <<Create(conn'.user)>>
        BY <3>2, <3>3, <2>1, <2>2, OneRequest DEF Answered
      <3> QED
        BY <3>3, <3>4, <2>1, <2>4, <1>b DEF InStep, Creating, Create, Answered
    <2> QED
      BY <2>3, <2>4
  <1> QED
    BY <1>c, <1>1, <1>2, <1>3, <1>4, <1>5 DEF Deeds

LEMMA InStepConnected == TypeOK /\ InStep /\ OnSocketConnected => InStep'
  <1> SUFFICES ASSUME TypeOK, InStep, OnSocketConnected PROVE InStep'
    OBVIOUS
  <1>a. conn \in Conn /\ conn.user \in SomeUser
    BY ConnTyped
  <1>b. /\ socket = "connecting" /\ socket' = "connected" /\ UNCHANGED <<responses, session>>
        /\ Answered /\ conn.state = "Inactive"
    BY DEF OnSocketConnected, InStep
  <1>1. CASE ~(conn.target /\ conn.user # NoUser)
    <2>1. conn'.state = "Inactive"
      BY <1>1, <1>a, <1>b DEF OnSocketConnected, Conn
    <2> QED
      BY <2>1, <1>b DEF InStep
  <1>2. CASE conn.target /\ conn.user # NoUser
    <2>1. conn' = [Send(conn, Create(conn.user)) EXCEPT !.state = "Authenticating"]
      BY <1>2 DEF OnSocketConnected
    <2>2. Create(conn.user) \in Requests
      BY <1>a, RequestTyped
    <2>3. /\ conn'.state = "Authenticating" /\ conn'.user = conn.user
          /\ conn'.sent = Append(conn.sent, Create(conn.user))
      BY <2>1, <2>2, <1>a DEF Send, Conn
    <2>4. conn'.sent = <<Create(conn'.user)>>
      BY <2>2, <2>3, <1>b, OneRequest DEF Answered
    <2> QED
      BY <2>3, <2>4, <1>b DEF InStep, Creating, Create, Answered
  <1> QED
    BY <1>1, <1>2

\* onSocketReady: what comes is the answer to the only request that was made,
\* unless the session was cancelled, which no answer brings back.
LEMMA InStepReady == TypeOK /\ patient /\ ~restarted' /\ InStep /\ OnSocketReady => InStep'
  <1> SUFFICES ASSUME TypeOK, patient, ~restarted', InStep, OnSocketReady PROVE InStep'
    OBVIOUS
  <1>a. conn \in Conn /\ conn.state \in States
    BY ConnTyped
  <1>b. /\ socket = "connected" /\ UNCHANGED <<socket, session>>
        /\ responses # <<>> /\ responses' = Tail(responses)
    BY DEF OnSocketReady, OnAuthenticated, OnLaunched, OnUnexpected, OnAlreadyConfigured,
           OnAuthFailure, OnError, OnQuestion, OnNotice, Receive
  <1>c. conn.state \in {"Inactive", "Authenticating", "Launching"}
    BY <1>a, <1>b DEF InStep, Answered, States
  \* In the states in which an answer counts it is the last one.
  <1>d. conn.state = "Authenticating" => conn.sent = <<>> /\ responses' = <<>>
    BY <1>b, OneAnswer DEF InStep, Creating, Refused, Responding, Replied, Asked, Answered,
                           ResponseTypes
  <1>e. conn.state = "Authenticating" /\ Head(responses) # "already"
            => Same /\ Fits(Head(responses))
    BY <1>b, OneAnswer DEF InStep, Creating, Refused, Responding, Replied, Asked, Answered,
                           ResponseTypes
  <1>f. conn.state = "Launching" => /\ Same /\ conn.sent = <<>>
                                    /\ responses = <<"success">> /\ responses' = <<>>
    BY <1>b, OneAnswer DEF InStep, Starting, HasStarted, ResponseTypes
  \* No answer matters to a connection that it leaves inactive.
  <1>g. conn'.state = "Inactive" => InStep'
    BY <1>b DEF InStep
  <1>1. CASE OnAuthenticated
    <2>1. conn.state = "Authenticating" /\ Head(responses) = "success"
      BY <1>1 DEF OnAuthenticated, Receive
    <2>2. session.phase = "ready" /\ Same
      BY <2>1, <1>e DEF Fits
    <2>3. conn'.state = "ReadyToLaunch" /\ conn'.user = conn.user /\ conn'.sent = conn.sent
      BY <1>1, <1>a DEF OnAuthenticated, Conn
    <2> QED
      BY <2>1, <2>2, <2>3, <1>b, <1>d DEF InStep, Answered, Same
  <1>2. CASE OnLaunched
    <2> DEFINE c == [conn EXCEPT !.state = "Launched"]
    <2>1. PICK h \in Handlers : conn' = Apply(c, h)
      BY <1>2 DEF OnLaunched
    <2>2. conn.state = "Launching"
      BY <1>2 DEF OnLaunched
    <2>3. c \in Conn /\ c.state = "Launched" /\ c.user = conn.user /\ c.sent = conn.sent
      BY <1>a DEF Conn, States
    <2>4. conn' = c \/ conn' = SetActive(c, FALSE)
      <3> HIDE DEF c
      <3> QED
        BY <2>1, <2>3, PatientHandler
    <2>5. CASE conn' = c
      BY <2>2, <2>3, <2>5, <1>b, <1>f DEF InStep, Answered, Same
    <2>6. CASE conn' = SetActive(c, FALSE)
      <3> HIDE DEF c
      <3> QED
        BY <2>3, <2>6, <1>b, <1>g, CancelEffect
    <2> QED
      BY <2>4, <2>5, <2>6
  <1>3. CASE OnUnexpected
    <2>1. conn' = SetActive(conn, FALSE)
      BY <1>3 DEF OnUnexpected
    <2> QED
      BY <2>1, <1>a, <1>b, <1>g, CancelEffect
  <1>4. CASE OnAlreadyConfigured
    BY <1>4 DEF OnAlreadyConfigured, Receive
  <1>5. CASE OnAuthFailure
    <2>1. PICK failed \in Handlers, changed \in Handlers :
            conn' = SetInactive(IF Apply(conn, failed).state = "Inactive"
                                THEN SetActive(Apply(conn, failed), FALSE)
                                ELSE Apply(SetActive(Apply(conn, failed), FALSE), changed))
      BY <1>5 DEF OnAuthFailure
    <2>2. Apply(conn, failed) \in Conn
      BY <1>a, HandlerTyped, ApplyTyped
    <2>3. SetActive(Apply(conn, failed), FALSE) \in Conn
      BY <2>2, SetActiveTyped
    <2>4. Apply(SetActive(Apply(conn, failed), FALSE), changed) \in Conn
      BY <2>3, HandlerTyped, ApplyTyped
    <2>5. PICK c \in Conn : conn' = SetInactive(c)
      BY <2>1, <2>3, <2>4
    <2> QED
      BY <2>5, <1>g DEF SetInactive, Conn
  <1>6. CASE OnError
    <2>1. PICK h \in Handlers : conn' = SetInactive(Apply(conn, h))
      BY <1>6 DEF OnError
    <2>2. Apply(conn, h) \in Conn
      BY <1>a, HandlerTyped, ApplyTyped
    <2> QED
      BY <2>1, <2>2, <1>g DEF SetInactive, Conn
  <1>7. CASE OnQuestion
    <2>1. Head(responses) = "question"
      BY <1>7 DEF OnQuestion, Receive
    <2>2. conn'.state = conn.state /\ conn'.user = conn.user /\ conn'.sent = conn.sent
      BY <1>7, <1>a DEF OnQuestion, Conn
    <2>3. conn.state # "Launching"
      BY <2>1, <1>f, OneAnswer DEF ResponseTypes
    <2>4. CASE conn.state = "Authenticating"
      <3>1. Same /\ session.phase = "asking"
        BY <2>1, <2>4, <1>e DEF Fits
      <3> QED
        BY <2>2, <2>4, <3>1, <1>b, <1>d DEF InStep, Asked, Answered, Same
    <2> QED
      BY <2>2, <2>3, <2>4, <1>c, <1>g
  <1>8. CASE OnNotice
    <2> DEFINE c == [conn EXCEPT !.required = FALSE]
    <2>1. PICK h \in Handlers : conn' = Send(Apply(c, h), Post)
      BY <1>8 DEF OnNotice
    <2>2. Head(responses) = "notice"
      BY <1>8 DEF OnNotice, Receive
    <2>3. conn.state # "Launching"
      BY <2>2, <1>f, OneAnswer DEF ResponseTypes
    <2>4. c \in Conn /\ c.state = conn.state /\ c.user = conn.user /\ c.sent = conn.sent
      BY <1>a DEF Conn
    <2> HIDE DEF c
    <2>5. Apply(c, h) = c \/ Apply(c, h) = SetActive(c, FALSE)
      BY <2>4, <1>c, PatientHandler
    <2>6. Apply(c, h) \in Conn
      BY <2>4, HandlerTyped, ApplyTyped
    <2>7. conn'.state = Apply(c, h).state
      BY <2>1, <2>6, SendTyped, RequestTyped
    <2>8. CASE Apply(c, h) = SetActive(c, FALSE)
      BY <2>4, <2>7, <2>8, <1>b, <1>g, CancelEffect
    <2>9. CASE Apply(c, h) = c
      <3>1. CASE conn.state = "Authenticating"
        <4>1. Same /\ session.phase = "asking"
          BY <2>2, <3>1, <1>e DEF Fits
        <4>2. /\ conn'.sent = Append(conn.sent, Post) /\ conn'.user = conn.user
          BY <2>1, <2>4, <2>9 DEF Send, Conn
        <4>3. conn'.sent = <<Post>>
          BY <4>2, <3>1, <1>d, RequestTyped, OneRequest
        <4> QED
          BY <2>4, <2>7, <2>9, <3>1, <4>1, <4>2, <4>3, <1>b, <1>d DEF InStep, Responding, Same
      <3> QED
        BY <2>3, <2>4, <2>7, <2>9, <3>1, <1>c, <1>g
    <2> QED
      BY <2>5, <2>8, <2>9
  <1> QED
    BY <1>1, <1>2, <1>3, <1>4, <1>5, <1>6, <1>7, <1>8 DEF OnSocketReady

\* PAM's answer fits the session.
LEMMA AuthenticateFits ==
    ASSUME NEW u, Authenticate(u), responses = <<>>
    PROVE  /\ session'.user = u
           /\ \E r \in ResponseTypes : responses' = <<r>> /\ Fits(r)'
  <1>1. CASE Reply("success") /\ session' = [phase |-> "ready", user |-> u]
    BY <1>1, OneAnswer DEF Reply, Fits, ResponseTypes
  <1>2. CASE /\ Reply("question") \/ Reply("notice")
             /\ session' = [phase |-> "asking", user |-> u]
    BY <1>2, OneAnswer DEF Reply, Fits, ResponseTypes
  <1>3. CASE /\ \E e \in Errors : Reply(e)
             /\ session' = [phase |-> "failed", user |-> u]
    BY <1>3, ConstantsAssumption, OneAnswer DEF Reply, Fits, ResponseTypes
  <1> QED
    BY <1>1, <1>2, <1>3 DEF Authenticate

\* greetd serves the only request there is, unless the session was cancelled.
LEMMA InStepServed == TypeOK /\ InStep /\ GreetdServes => InStep'
  <1> SUFFICES ASSUME TypeOK, InStep, GreetdServes PROVE InStep'
    OBVIOUS
  <1>a. conn \in Conn /\ conn.state \in States /\ conn.user \in SomeUser
    BY ConnTyped
  <1>b. /\ socket = "connected" /\ socket' = socket
        /\ conn.sent # <<>> /\ conn' = [conn EXCEPT !.sent = Tail(conn.sent)]
    BY DEF GreetdServes, ServeCreate, ServePost, ServeCancel, ServeStart, Serve
  <1>c. conn'.state = conn.state /\ conn'.user = conn.user /\ conn'.sent = Tail(conn.sent)
    BY <1>a, <1>b DEF Conn
  <1>d. \/ conn.state = "Inactive"
        \/ conn.state = "Authenticating" /\ (Creating \/ (Same /\ Responding))
        \/ conn.state = "Launching" /\ Same /\ Starting
    BY <1>a, <1>b DEF InStep, Answered, Refused, Replied, Asked, HasStarted, States
  <1>e. /\ Head(<<Create(conn.user)>>).type = "create_session"
        /\ Head(<<Create(conn.user)>>).user = conn.user
        /\ Head(<<Post>>).type = "post_auth_message_response"
        /\ Head(<<Start>>).type = "start_session"
    BY DEF Create, Post, Start
  <1>f. /\ Tail(<<Create(conn.user)>>) = <<>> /\ Tail(<<Post>>) = <<>> /\ Tail(<<Start>>) = <<>>
    BY <1>a, RequestTyped, OneRequest
  <1>1. CASE conn.state = "Inactive"
    BY <1>1, <1>b, <1>c DEF InStep
  <1>2. CASE conn.state = "Authenticating" /\ Creating
    <2>1. ServeCreate /\ conn'.sent = <<>> /\ responses = <<>>
      BY <1>2, <1>c, <1>e, <1>f DEF GreetdServes, ServeCreate, ServePost, ServeCancel, ServeStart,
                                   Serve, Creating
    <2>2. CASE Authenticate(conn.user)
      BY <2>1, <2>2, <1>2, <1>b, <1>c, AuthenticateFits DEF InStep, Same, Replied
    <2>3. CASE Reply("already")
      BY <2>1, <2>3, <1>2, <1>b, <1>c, OneAnswer DEF InStep, Refused, Reply, ResponseTypes
    <2> QED
      BY <2>1, <2>2, <2>3, <1>2, <1>e DEF ServeCreate, Creating
  <1>3. CASE conn.state = "Authenticating" /\ Same /\ Responding
    <2>1. ServePost /\ conn'.sent = <<>> /\ responses = <<>> /\ session.phase = "asking"
      BY <1>3, <1>c, <1>e, <1>f DEF GreetdServes, ServeCreate, ServePost, ServeCancel, ServeStart,
                                   Serve, Responding
    <2>2. Authenticate(session.user)
      BY <2>1 DEF ServePost
    <2> QED
      BY <2>1, <2>2, <1>3, <1>b, <1>c, AuthenticateFits DEF InStep, Same, Replied
  <1>4. CASE conn.state = "Launching" /\ Same /\ Starting
    <2>1. ServeStart /\ conn'.sent = <<>> /\ responses = <<>> /\ session.phase = "ready"
      BY <1>4, <1>c, <1>e, <1>f DEF GreetdServes, ServeCreate, ServePost, ServeCancel, ServeStart,
                                   Serve, Starting
    <2>2. session' = [session EXCEPT !.phase = "started"] /\ Reply("success")
      BY <2>1 DEF ServeStart
    <2>3. session'.phase = "started" /\ session'.user = session.user
      BY <2>2 DEF TypeOK
    <2>4. responses' = <<"success">>
      BY <2>1, <2>2, OneAnswer DEF Reply, ResponseTypes
    <2> QED
      BY <2>1, <2>3, <2>4, <1>4, <1>b, <1>c DEF InStep, HasStarted, Same
  <1> QED
    BY <1>d, <1>1, <1>2, <1>3, <1>4

\* Neither a QML's patience nor a restarted session is ever taken back.
LEMMA PatienceStays == [Next]_vars /\ patient' /\ ~restarted' => patient /\ ~restarted
  <1> SUFFICES ASSUME [Next]_vars PROVE patient' /\ ~restarted' => patient /\ ~restarted
    OBVIOUS
  <1>1. CASE QmlCalls
    BY <1>1 DEF QmlCalls
  <1>2. CASE OnSocketConnected
    BY <1>2 DEF OnSocketConnected
  <1>3. CASE OnSocketReady
    <2>1. \E type \in ResponseTypes : Receive(type)
      BY <1>3 DEF OnSocketReady, OnAuthenticated, OnLaunched, OnUnexpected, OnAlreadyConfigured,
                  OnAuthFailure, OnError, OnQuestion, OnNotice, ResponseTypes
    <2>2. PICK type : Receive(type)
      BY <2>1
    <2>3. patient' = patient /\ restarted' = (restarted \/ type = "already")
      BY <2>2 DEF Receive
    <2> QED
      BY <2>3, Zenon
  <1>4. CASE GreetdServes
    BY <1>4 DEF GreetdServes, ServeCreate, ServePost, ServeCancel, ServeStart, Serve
  <1>5. CASE Disconnect
    BY <1>5 DEF Disconnect
  <1>6. CASE UNCHANGED vars
    BY <1>6 DEF vars
  <1> QED
    BY <1>1, <1>2, <1>3, <1>4, <1>5, <1>6 DEF Next

\* No step takes a patient greeter out of step with greetd.
LEMMA PatientStep == TypeOK /\ PatientInStep /\ [Next]_vars => PatientInStep'
  <1> SUFFICES ASSUME TypeOK, PatientInStep, [Next]_vars, patient', ~restarted' PROVE InStep'
    BY DEF PatientInStep
  <1>a. patient /\ ~restarted
    BY PatienceStays
  <1>b. InStep
    BY <1>a DEF PatientInStep
  <1>1. CASE QmlCalls
    BY <1>1, <1>a, <1>b, InStepQml
  <1>2. CASE OnSocketConnected
    BY <1>2, <1>b, InStepConnected
  <1>3. CASE OnSocketReady
    BY <1>3, <1>a, <1>b, InStepReady
  <1>4. CASE GreetdServes
    BY <1>4, <1>b, InStepServed
  <1>5. CASE Disconnect
    BY <1>5 DEF Disconnect, InStep
  <1>6. CASE UNCHANGED vars
    BY <1>6, <1>b DEF vars, InStep, Answered, Creating, Refused, Responding, Replied, Asked,
                      Starting, HasStarted, Same, Fits
  <1> QED
    BY <1>1, <1>2, <1>3, <1>4, <1>5, <1>6 DEF Next

\* What the client and greetd have between them is what they agree on.
LEMMA InStepAgrees == TypeOK /\ PatientInStep => PatientReadyIsAuthenticated
  BY DEF PatientInStep, InStep, Answered, PatientReadyIsAuthenticated, ReadyIsAuthenticated

\* When a patient QML sees readyToLaunch, greetd's session is one it would
\* start: no answer to an earlier request is taken for the answer to a later
\* one, although connection.cpp tells them apart by its state only.
THEOREM GreetdAgrees == Spec => []PatientReadyIsAuthenticated
  <1>1. Init => PatientInStep
    BY InStepInit DEF PatientInStep
  <1> QED
    BY <1>1, PatientStep, InStepAgrees, GreetdTypeCorrect, PTL DEF Spec
-----------------------------------------------------------------------------
(* The user of a patient greeter, restarted sessions included.             *)

CreatesOwn(c) == \A i \in DOMAIN c.sent :
                    c.sent[i].type = "create_session" => c.sent[i].user = c.user
Coming(c)     == \E i \in DOMAIN c.sent : c.sent[i].type = "create_session"
Restarting    == \E i \in DOMAIN responses : responses[i] = "already"

\* A session of another user is about to make way for one of this user.
OneUser ==
    /\ CreatesOwn(conn)
    /\ socket = "connecting" => Answered /\ conn.state = "Inactive"
    /\ socket = "connected" /\ conn.state # "Inactive" /\ session.phase # "none"
            => Same \/ Coming(conn) \/ Restarting

PatientOneUser == patient => OneUser

\* What d may have become of c without a new session.
GoesOn(c, d) ==
    /\ d \in Conn /\ d.user = c.user
    /\ CreatesOwn(c) => CreatesOwn(d)
    /\ Coming(c) => Coming(d)
    /\ d.state # "Inactive" => c.state # "Inactive"
    /\ socket = "connecting" /\ c.state = "Inactive" => d.sent = c.sent

LEMMA GoesOnTwice ==
    ASSUME NEW c, NEW d, NEW e, GoesOn(c, d), GoesOn(d, e)
    PROVE  GoesOn(c, e)
  BY DEF GoesOn

\* A request at the end of what is sent.
LEMMA SendMore ==
    ASSUME NEW c \in Conn, NEW r \in Requests
    PROVE  LET d == Send(c, r)
           IN  /\ d \in Conn /\ d.user = c.user /\ d.state = c.state
               /\ CreatesOwn(c) /\ (r.type = "create_session" => r.user = c.user) => CreatesOwn(d)
               /\ Coming(c) \/ r.type = "create_session" => Coming(d)
  <1>1. Send(c, r) \in Conn /\ Send(c, r).user = c.user /\ Send(c, r).state = c.state
    BY SendTyped
  <1>2. Send(c, r).sent = Append(c.sent, r) /\ c.sent \in Seq(Requests)
    BY DEF Send, Conn
  <1> DEFINE q == c.sent
             n == Append(q, r)
  <1>3. /\ Len(n) = Len(q) + 1 /\ Len(q) \in Nat /\ n[Len(q) + 1] = r
        /\ \A i \in 1..Len(q) : n[i] = q[i]
        /\ DOMAIN n = 1..Len(n) /\ DOMAIN q = 1..Len(q)
    BY <1>2
  <1> HIDE DEF n
  <1>4. /\ \A i \in DOMAIN n : (i \in DOMAIN q /\ n[i] = q[i]) \/ n[i] = r
        /\ \A i \in DOMAIN q : i \in DOMAIN n /\ n[i] = q[i]
        /\ Len(n) \in DOMAIN n /\ n[Len(n)] = r
    BY <1>3
  <1>5. ASSUME CreatesOwn(c), r.type = "create_session" => r.user = c.user
        PROVE  CreatesOwn(Send(c, r))
    BY <1>1, <1>2, <1>4, <1>5, Zenon DEF CreatesOwn, n
  <1>6. ASSUME Coming(c) \/ r.type = "create_session"
        PROVE  Coming(Send(c, r))
    BY <1>2, <1>4, <1>6, Zenon DEF Coming, n
  <1> QED
    BY <1>1, <1>5, <1>6

\* setInactive sends nothing.
LEMMA InactiveGoesOn ==
    ASSUME NEW c \in Conn
    PROVE  GoesOn(c, SetInactive(c)) /\ SetInactive(c).state = "Inactive"
  <1>1. /\ SetInactive(c) \in Conn
        /\ SetInactive(c).user = c.user /\ SetInactive(c).sent = c.sent
        /\ SetInactive(c).state = "Inactive"
    BY SetInactiveTyped DEF SetInactive, Conn
  <1> QED
    BY <1>1 DEF GoesOn, CreatesOwn, Coming

\* setActive(false).
LEMMA CancelGoesOn ==
    ASSUME NEW c \in Conn
    PROVE  GoesOn(c, SetActive(c, FALSE))
  <1>1. CASE socket # "connected" \/ c.state = "Inactive"
    <2>1. SetActive(c, FALSE) = [c EXCEPT !.target = FALSE]
      BY <1>1 DEF SetActive
    <2>2. /\ SetActive(c, FALSE) \in Conn
          /\ SetActive(c, FALSE).user = c.user /\ SetActive(c, FALSE).sent = c.sent
          /\ SetActive(c, FALSE).state = c.state
      BY <2>1, SetActiveTyped DEF Conn
    <2> QED
      BY <2>2 DEF GoesOn, CreatesOwn, Coming
  <1>2. CASE ~(socket # "connected" \/ c.state = "Inactive")
    <2>1. SetActive(c, FALSE) = SetInactive(Send(c, Cancel))
      BY <1>2 DEF SetActive
    <2>2. Cancel \in Requests /\ Cancel.type # "create_session"
      BY RequestTyped DEF Cancel
    <2>3. GoesOn(c, Send(c, Cancel))
      BY <1>2, <2>2, SendMore DEF GoesOn
    <2>4. GoesOn(Send(c, Cancel), SetInactive(Send(c, Cancel)))
      BY <2>2, SendMore, InactiveGoesOn
    <2> QED
      BY <2>1, <2>3, <2>4, GoesOnTwice
  <1> QED
    BY <1>1, <1>2

\* setActive(true) of a connection that is inactive.
LEMMA ActivateComes ==
    ASSUME NEW c \in Conn, c.state = "Inactive"
    PROVE  LET d == SetActive(c, TRUE)
           IN  /\ d \in Conn /\ d.user = c.user
               /\ CreatesOwn(c) => CreatesOwn(d)
               /\ d.state = "Inactive" \/ Coming(d)
               /\ socket = "connecting" => d.state = "Inactive" /\ d.sent = c.sent
  <1>0. SetActive(c, TRUE) \in Conn
    BY SetActiveTyped
  <1>1. CASE socket # "connected" \/ c.user = NoUser
    <2>1. SetActive(c, TRUE) = [c EXCEPT !.target = TRUE]
          \/ SetActive(c, TRUE) = [c EXCEPT !.target = FALSE]
      BY <1>1 DEF SetActive
    <2>2. /\ SetActive(c, TRUE).user = c.user /\ SetActive(c, TRUE).sent = c.sent
          /\ SetActive(c, TRUE).state = c.state
      BY <2>1 DEF Conn
    <2> QED
      BY <1>0, <2>2 DEF CreatesOwn
  <1>2. CASE ~(socket # "connected" \/ c.user = NoUser)
    <2> DEFINE d == Send(c, Create(c.user))
    <2>1. SetActive(c, TRUE) = [d EXCEPT !.target = TRUE, !.state = "Authenticating"]
      BY <1>2 DEF SetActive
    <2>2. Create(c.user) \in Requests
      BY RequestTyped DEF Conn
    <2>3. Create(c.user).type = "create_session" /\ Create(c.user).user = c.user
      BY DEF Create
    <2>4. d \in Conn /\ d.user = c.user /\ (CreatesOwn(c) => CreatesOwn(d)) /\ Coming(d)
      BY <2>2, <2>3, SendMore
    <2> HIDE DEF d
    <2>5. SetActive(c, TRUE).user = d.user /\ SetActive(c, TRUE).sent = d.sent
      BY <2>1, <2>4 DEF Conn
    <2> QED
      BY <1>0, <1>2, <2>4, <2>5 DEF CreatesOwn, Coming
  <1> QED
    BY <1>1, <1>2

\* launch, and respond.
LEMMA LaunchGoesOn ==
    ASSUME NEW c \in Conn, NEW exit \in BOOLEAN
    PROVE  GoesOn(c, Launch(c, exit))
  <1>1. CASE c.state # "ReadyToLaunch"
    <2>1. Launch(c, exit) = c
      BY <1>1 DEF Launch
    <2> QED
      BY <2>1 DEF GoesOn
  <1>2. CASE c.state = "ReadyToLaunch"
    <2> DEFINE d == Send(c, Start)
    <2>1. Launch(c, exit) = [d EXCEPT !.state = "Launching", !.exit = exit]
      BY <1>2 DEF Launch
    <2>2. Start \in Requests /\ Start.type # "create_session"
      BY RequestTyped DEF Start
    <2>3. /\ d \in Conn /\ d.user = c.user
          /\ CreatesOwn(c) => CreatesOwn(d)
          /\ Coming(c) => Coming(d)
      BY <2>2, SendMore
    <2> HIDE DEF d
    <2>4. Launch(c, exit).user = d.user /\ Launch(c, exit).sent = d.sent
      BY <2>1, <2>3 DEF Conn
    <2> QED
      BY <1>2, <2>3, <2>4, LaunchTyped DEF GoesOn, CreatesOwn, Coming
  <1> QED
    BY <1>1, <1>2

LEMMA RespondGoesOn ==
    ASSUME NEW c \in Conn, c.state # "Inactive"
    PROVE  GoesOn(c, Respond(c))
  <1>1. CASE ~c.required
    <2>1. Respond(c) = c
      BY <1>1 DEF Respond
    <2> QED
      BY <2>1 DEF GoesOn
  <1>2. CASE c.required
    <2> DEFINE d == Send(c, Post)
    <2>1. Respond(c) = [d EXCEPT !.required = FALSE]
      BY <1>2 DEF Respond
    <2>2. Post \in Requests /\ Post.type # "create_session"
      BY RequestTyped DEF Post
    <2>3. /\ d \in Conn /\ d.user = c.user
          /\ CreatesOwn(c) => CreatesOwn(d)
          /\ Coming(c) => Coming(d)
      BY <2>2, SendMore
    <2> HIDE DEF d
    <2>4. Respond(c).user = d.user /\ Respond(c).sent = d.sent
      BY <2>1, <2>3 DEF Conn
    <2> QED
      BY <2>3, <2>4, RespondTyped DEF GoesOn, CreatesOwn, Coming
  <1> QED
    BY <1>1, <1>2

\* Whatever is called that is not create or respond, and so by a patient handler.
LEMMA QuietGoesOn ==
    ASSUME NEW c \in Conn, NEW call \in Calls \cup {Nothing},
           call.do \in {"nothing", "launch", "launch and stay", "cancel"}
    PROVE  GoesOn(c, Apply(c, call))
  <1>1. CASE call.do = "nothing"
    BY <1>1 DEF Apply, GoesOn
  <1>2. CASE call.do = "launch"
    BY <1>2, LaunchGoesOn DEF Apply
  <1>3. CASE call.do = "launch and stay"
    BY <1>3, LaunchGoesOn DEF Apply
  <1>4. CASE call.do = "cancel"
    BY <1>4, CancelGoesOn DEF Apply, CancelSession
  <1> QED
    BY <1>1, <1>2, <1>3, <1>4

LEMMA HandlerGoesOn ==
    ASSUME TypeOK, patient, NEW h \in Handlers, NEW c \in Conn
    PROVE  GoesOn(c, Apply(c, h))
  <1>1. h.do \in Deeds
    BY HandlerTyped, CallTyped
  <1>2. h = Nothing \/ h.do \notin {"create", "respond"}
    BY DEF Handlers
  <1>3. Nothing.do = "nothing"
    BY DEF Nothing
  <1>4. h.do \in {"nothing", "launch", "launch and stay", "cancel"}
    BY <1>1, <1>2, <1>3 DEF Deeds
  <1> QED
    BY <1>4, HandlerTyped, QuietGoesOn

\* A step that goes on, and takes no word of a restart away.
LEMMA GoesOnKeeps ==
    ASSUME OneUser, GoesOn(conn, conn'), UNCHANGED <<socket, session>>,
           Restarting => Restarting', socket = "connecting" => responses' = responses
    PROVE  OneUser'
  <1>1. CreatesOwn(conn)'
    BY DEF OneUser, GoesOn, CreatesOwn
  <1>2. (socket = "connecting" => Answered /\ conn.state = "Inactive")'
    BY DEF OneUser, GoesOn, Answered
  <1>3. (socket = "connected" /\ conn.state # "Inactive" /\ session.phase # "none"
            => Same \/ Coming(conn) \/ Restarting)'
    BY DEF OneUser, GoesOn, Same, Coming
  <1> QED
    BY <1>1, <1>2, <1>3 DEF OneUser

LEMMA OneUserQml == TypeOK /\ patient /\ OneUser /\ QmlCalls => OneUser'
  <1> SUFFICES ASSUME TypeOK, patient, OneUser, QmlCalls PROVE OneUser'
    OBVIOUS
  <1>a. conn \in Conn /\ UNCHANGED <<socket, responses, session>>
    BY ConnTyped DEF QmlCalls
  <1>b. PICK call \in Calls :
            /\ call.do \in {"create", "respond"} => Answered
            /\ call.do = "create" => conn.state = "Inactive"
            /\ call.do = "respond" => conn.state = "Authenticating"
            /\ conn' = Apply(conn, call)
    BY DEF QmlCalls
  <1>c. call.do \in Deeds /\ call.user \in SomeUser
    BY CallTyped
  <1>d. Restarting => Restarting'
    BY <1>a DEF Restarting
  <1>1. CASE call.do \in {"nothing", "launch", "launch and stay", "cancel"}
    BY <1>1, <1>a, <1>b, <1>d, QuietGoesOn, GoesOnKeeps
  <1>2. CASE call.do = "respond"
    <2>1. GoesOn(conn, conn')
      BY <1>2, <1>a, <1>b, RespondGoesOn DEF Apply
    <2> QED
      BY <2>1, <1>a, <1>d, GoesOnKeeps
  <1>3. CASE call.do = "create"
    <2> DEFINE c == [conn EXCEPT !.user = call.user]
    <2>1. Answered /\ conn.state = "Inactive" /\ conn' = SetActive(c, TRUE)
      BY <1>3, <1>b DEF Apply, CreateSession
    <2>2. c \in Conn /\ c.state = "Inactive" /\ c.sent = <<>>
      BY <1>a, <1>c, <2>1 DEF Conn, Answered
    <2> HIDE DEF c
    <2>3. CreatesOwn(c)
      BY <2>2 DEF CreatesOwn
    <2>4. /\ CreatesOwn(conn') /\ (conn'.state = "Inactive" \/ Coming(conn'))
          /\ socket = "connecting" => conn'.state = "Inactive" /\ conn'.sent = <<>>
      BY <2>1, <2>2, <2>3, ActivateComes
    <2> QED
      BY <2>1, <2>4, <1>a DEF OneUser, Answered, CreatesOwn, Coming
  <1> QED
    BY <1>c, <1>1, <1>2, <1>3 DEF Deeds

LEMMA OneUserConnected == TypeOK /\ OneUser /\ OnSocketConnected => OneUser'
  <1> SUFFICES ASSUME TypeOK, OneUser, OnSocketConnected PROVE OneUser'
    OBVIOUS
  <1>a. conn \in Conn /\ conn.user \in SomeUser
    BY ConnTyped
  <1>b. socket' = "connected" /\ conn.state = "Inactive" /\ CreatesOwn(conn)
    BY DEF OnSocketConnected, OneUser
  <1>1. CASE ~(conn.target /\ conn.user # NoUser)
    <2>1. conn'.state = "Inactive" /\ conn'.user = conn.user /\ conn'.sent = conn.sent
      BY <1>1, <1>a, <1>b DEF OnSocketConnected, Conn
    <2> QED
      BY <2>1, <1>b DEF OneUser, CreatesOwn
  <1>2. CASE conn.target /\ conn.user # NoUser
    <2> DEFINE d == Send(conn, Create(conn.user))
    <2>1. conn' = [d EXCEPT !.state = "Authenticating"]
      BY <1>2 DEF OnSocketConnected
    <2>2. /\ Create(conn.user) \in Requests /\ Create(conn.user).type = "create_session"
          /\ Create(conn.user).user = conn.user
      BY <1>a, RequestTyped DEF Create
    <2>3. d \in Conn /\ CreatesOwn(d) /\ Coming(d)
      BY <1>a, <1>b, <2>2, SendMore
    <2> HIDE DEF d
    <2>4. conn'.sent = d.sent /\ conn'.user = d.user
      BY <2>1, <2>3 DEF Conn
    <2> QED
      BY <1>b, <2>3, <2>4 DEF OneUser, CreatesOwn, Coming
  <1> QED
    BY <1>1, <1>2

\* An answer that goes was not that a session is being configured.
LEMMA OtherAnswer ==
    ASSUME TypeOK, responses # <<>>, responses' = Tail(responses), Head(responses) # "already"
    PROVE  Restarting => Restarting'
  <1> SUFFICES ASSUME NEW i \in DOMAIN responses, responses[i] = "already" PROVE Restarting'
    BY DEF Restarting
  <1>1. responses \in Seq(ResponseTypes)
    BY DEF TypeOK
  <1>2. i # 1 /\ i \in 1..Len(responses) /\ Len(responses) \in Nat
    BY <1>1
  <1>3. i - 1 \in 1..Len(responses) - 1
    BY <1>2
  <1>4. DOMAIN responses' = 1..Len(responses) - 1 /\ responses'[i - 1] = responses[i]
    BY <1>1, <1>2, <1>3
  <1> QED
    BY <1>3, <1>4 DEF Restarting

\* A word of a restart asks for the session again; any other answer goes on, or
\* leaves the connection inactive.
LEMMA OneUserReady == TypeOK /\ patient /\ OneUser /\ OnSocketReady => OneUser'
  <1> SUFFICES ASSUME TypeOK, patient, OneUser, OnSocketReady PROVE OneUser'
    OBVIOUS
  <1>a. conn \in Conn
    BY ConnTyped
  <1>b. /\ socket = "connected" /\ UNCHANGED <<socket, session>>
        /\ responses # <<>> /\ responses' = Tail(responses)
    BY DEF OnSocketReady, OnAuthenticated, OnLaunched, OnUnexpected, OnAlreadyConfigured,
           OnAuthFailure, OnError, OnQuestion, OnNotice, Receive
  <1>c. ASSUME Head(responses) # "already", GoesOn(conn, conn')
        PROVE  OneUser'
    BY <1>b, <1>c, OtherAnswer, GoesOnKeeps
  <1>1. CASE OnAuthenticated
    <2>1. GoesOn(conn, conn')
      <3>1. /\ conn' \in Conn /\ conn'.user = conn.user /\ conn'.sent = conn.sent
            /\ conn.state # "Inactive"
        BY <1>1, <1>a DEF OnAuthenticated, Conn, States
      <3> QED
        BY <3>1 DEF GoesOn, CreatesOwn, Coming
    <2> QED
      BY <1>1, <1>c, <2>1 DEF OnAuthenticated, Receive
  <1>2. CASE OnLaunched
    <2> DEFINE c == [conn EXCEPT !.state = "Launched"]
    <2>1. PICK h \in Handlers : conn' = Apply(c, h)
      BY <1>2 DEF OnLaunched
    <2>2. conn.state = "Launching"
      BY <1>2 DEF OnLaunched
    <2>3. c \in Conn /\ c.user = conn.user /\ c.sent = conn.sent
      BY <1>a DEF Conn, States
    <2> HIDE DEF c
    <2>4. GoesOn(conn, c)
      BY <2>2, <2>3 DEF GoesOn, CreatesOwn, Coming
    <2>5. GoesOn(c, conn')
      BY <2>1, <2>3, HandlerGoesOn
    <2> QED
      BY <1>2, <1>c, <2>4, <2>5, GoesOnTwice DEF OnLaunched, Receive
  <1>3. CASE OnUnexpected
    BY <1>3, <1>a, <1>c, CancelGoesOn DEF OnUnexpected, Receive
  <1>4. CASE OnAlreadyConfigured
    <2> DEFINE d == SetActive(conn, FALSE)
    <2>1. PICK changed \in Handlers :
            conn' = SetActive(IF conn.state = "Inactive" THEN d ELSE Apply(d, changed), TRUE)
      BY <1>4 DEF OnAlreadyConfigured
    <2>2. d.state = "Inactive" /\ GoesOn(conn, d)
      BY <1>a, <1>b, CancelEffect, CancelGoesOn
    <2> HIDE DEF d
    <2>3. GoesOn(d, Apply(d, changed))
      BY <2>2, HandlerGoesOn DEF GoesOn
    <2>4. PICK c \in Conn : GoesOn(conn, c) /\ c.state = "Inactive" /\ conn' = SetActive(c, TRUE)
      <3>1. CASE conn.state = "Inactive"
        BY <3>1, <2>1, <2>2 DEF GoesOn
      <3>2. CASE conn.state # "Inactive"
        BY <3>2, <2>1, <2>2, <2>3, GoesOnTwice DEF GoesOn
      <3> QED
        BY <3>1, <3>2
    <2>5. CreatesOwn(conn') /\ (conn'.state = "Inactive" \/ Coming(conn'))
      BY <2>4, ActivateComes DEF GoesOn, OneUser
    <2> QED
      BY <2>5, <1>b DEF OneUser, CreatesOwn, Coming
  <1>5. CASE OnAuthFailure
    <2> DEFINE told(h) == Apply(conn, h)
    <2>1. PICK failed \in Handlers, changed \in Handlers :
            conn' = SetInactive(IF told(failed).state = "Inactive"
                                THEN SetActive(told(failed), FALSE)
                                ELSE Apply(SetActive(told(failed), FALSE), changed))
      BY <1>5 DEF OnAuthFailure
    <2>2. GoesOn(conn, told(failed)) /\ told(failed) \in Conn
      BY <1>a, HandlerGoesOn DEF GoesOn
    <2> HIDE DEF told
    <2>3. GoesOn(told(failed), SetActive(told(failed), FALSE))
      BY <2>2, CancelGoesOn
    <2>4. GoesOn(SetActive(told(failed), FALSE), Apply(SetActive(told(failed), FALSE), changed))
      BY <2>3, HandlerGoesOn DEF GoesOn
    <2>5. PICK c \in Conn : GoesOn(conn, c) /\ conn' = SetInactive(c)
      <3>1. GoesOn(conn, SetActive(told(failed), FALSE))
        BY <2>2, <2>3, GoesOnTwice
      <3>2. GoesOn(conn, Apply(SetActive(told(failed), FALSE), changed))
        BY <3>1, <2>4, GoesOnTwice
      <3> QED
        BY <3>1, <3>2, <2>1 DEF GoesOn
    <2> QED
      BY <1>5, <1>c, <2>5, InactiveGoesOn, GoesOnTwice DEF OnAuthFailure, Receive
  <1>6. CASE OnError
    <2>1. PICK h \in Handlers : conn' = SetInactive(Apply(conn, h))
      BY <1>6 DEF OnError
    <2>2. GoesOn(conn, Apply(conn, h)) /\ Apply(conn, h) \in Conn
      BY <1>a, HandlerGoesOn DEF GoesOn
    <2> QED
      BY <1>6, <1>c, <2>1, <2>2, InactiveGoesOn, GoesOnTwice DEF OnError, Receive
  <1>7. CASE OnQuestion
    <2>1. GoesOn(conn, conn')
      <3>1. /\ conn' \in Conn /\ conn'.user = conn.user /\ conn'.sent = conn.sent
            /\ conn'.state = conn.state
        BY <1>7, <1>a DEF OnQuestion, Conn
      <3> QED
        BY <3>1 DEF GoesOn, CreatesOwn, Coming
    <2> QED
      BY <1>7, <1>c, <2>1 DEF OnQuestion, Receive
  <1>8. CASE OnNotice
    <2> DEFINE c == [conn EXCEPT !.required = FALSE]
    <2>1. PICK h \in Handlers : conn' = Send(Apply(c, h), Post)
      BY <1>8 DEF OnNotice
    <2>2. c \in Conn /\ c.user = conn.user /\ c.sent = conn.sent /\ c.state = conn.state
      BY <1>a DEF Conn
    <2> HIDE DEF c
    <2>3. GoesOn(conn, c)
      BY <2>2 DEF GoesOn, CreatesOwn, Coming
    <2>4. GoesOn(c, Apply(c, h))
      BY <2>2, HandlerGoesOn
    <2>5. Post \in Requests /\ Post.type # "create_session"
      BY RequestTyped DEF Post
    <2>6. GoesOn(Apply(c, h), conn')
      BY <2>1, <2>4, <2>5, <1>b, SendMore DEF GoesOn
    <2> QED
      BY <1>8, <1>c, <2>3, <2>4, <2>6, GoesOnTwice DEF OnNotice, Receive
  <1> QED
    BY <1>1, <1>2, <1>3, <1>4, <1>5, <1>6, <1>7, <1>8 DEF OnSocketReady

\* What is left of the requests when the first is served.
LEMMA ServeFirst ==
    ASSUME TypeOK, OneUser, NEW type, Serve(type)
    PROVE  /\ socket = "connected" /\ UNCHANGED <<socket, patient>>
           /\ conn'.user = conn.user /\ conn'.state = conn.state
           /\ CreatesOwn(conn')
           /\ type # "create_session" /\ Coming(conn) => Coming(conn')
           /\ type = "create_session" => Head(conn.sent).user = conn.user
  <1> DEFINE q == conn.sent
  <1>1. /\ conn \in Conn /\ q \in Seq(Requests) /\ q # <<>> /\ Head(q).type = type
        /\ conn' = [conn EXCEPT !.sent = Tail(q)]
    BY ConnTyped DEF Serve, Conn
  <1>2. conn'.user = conn.user /\ conn'.state = conn.state /\ conn'.sent = Tail(q)
    BY <1>1 DEF Conn
  <1> HIDE DEF q
  <1>3. /\ \A i \in DOMAIN Tail(q) : i + 1 \in DOMAIN q /\ Tail(q)[i] = q[i + 1]
        /\ \A i \in DOMAIN q : i = 1 \/ (i - 1 \in DOMAIN Tail(q) /\ Tail(q)[i - 1] = q[i])
        /\ 1 \in DOMAIN q /\ q[1] = Head(q)
    BY <1>1
  <1>4. CreatesOwn(conn')
    BY <1>2, <1>3 DEF OneUser, CreatesOwn, q
  <1>5. type = "create_session" => Head(conn.sent).user = conn.user
    BY <1>1, <1>3 DEF OneUser, CreatesOwn, q
  <1>6. type # "create_session" /\ Coming(conn) => Coming(conn')
    <2> SUFFICES ASSUME type # "create_session",
                        NEW i \in DOMAIN q, q[i].type = "create_session"
                 PROVE  Coming(conn')
      BY DEF Coming, q
    <2>1. i # 1
      BY <1>1, <1>3
    <2>2. i - 1 \in DOMAIN Tail(q) /\ Tail(q)[i - 1] = q[i]
      BY <1>3, <2>1
    <2> QED
      BY <1>2, <2>2 DEF Coming
  <1> QED
    BY <1>2, <1>4, <1>5, <1>6 DEF Serve, q

\* An answer is added to those there are.
LEMMA ReplyKeeps ==
    ASSUME TypeOK, NEW answer \in ResponseTypes, Reply(answer)
    PROVE  /\ Restarting => Restarting'
           /\ answer = "already" => Restarting'
  <1>1. responses \in Seq(ResponseTypes) /\ responses' = Append(responses, answer)
    BY DEF TypeOK, Reply
  <1>2. /\ \A i \in DOMAIN responses : i \in DOMAIN responses' /\ responses'[i] = responses[i]
        /\ Len(responses') \in DOMAIN responses' /\ responses'[Len(responses')] = answer
    BY <1>1
  <1> QED
    BY <1>2 DEF Restarting

LEMMA OneUserServed == TypeOK /\ OneUser /\ GreetdServes => OneUser'
  <1> SUFFICES ASSUME TypeOK, OneUser, GreetdServes PROVE OneUser'
    OBVIOUS
  <1>a. {"success", "error", "already"} \subseteq ResponseTypes
    BY DEF ResponseTypes
  <1>b. session \in [phase : Phases, user : SomeUser]
    BY DEF TypeOK
  <1>c. ASSUME Same' \/ Coming(conn)' \/ Restarting' \/ session'.phase = "none",
               socket' = "connected", CreatesOwn(conn')
        PROVE  OneUser'
    BY <1>c DEF OneUser, CreatesOwn
  <1>1. CASE ServeCreate
    <2>1. /\ socket' = "connected" /\ conn'.user = conn.user /\ CreatesOwn(conn')
          /\ Head(conn.sent).user = conn.user
      BY <1>1, ServeFirst DEF ServeCreate
    <2>2. CASE session.phase \in {"none", "started"}
      <3>1. Authenticate(conn.user)
        BY <1>1, <2>1, <2>2 DEF ServeCreate
      <3>2. session'.user = conn.user
        BY <3>1 DEF Authenticate
      <3> QED
        BY <2>1, <3>2, <1>c DEF Same
    <2>3. CASE session.phase \notin {"none", "started"}
      BY <1>1, <2>1, <2>3, <1>a, <1>c, ReplyKeeps DEF ServeCreate
    <2> QED
      BY <2>2, <2>3
  <1>2. ASSUME NEW type, type # "create_session", Serve(type), Restarting => Restarting',
               session'.user = session.user /\ (session.phase # "none" \/ session' = session)
        PROVE  OneUser'
    <2>1. /\ socket = "connected" /\ socket' = "connected" /\ CreatesOwn(conn')
          /\ conn'.user = conn.user /\ conn'.state = conn.state
          /\ Coming(conn) => Coming(conn')
      BY <1>2, ServeFirst
    <2> QED
      BY <1>2, <2>1 DEF OneUser, Same, CreatesOwn, Coming
  <1>3. CASE ServePost
    <2>1. PICK answer \in ResponseTypes : Reply(answer)
      <3>1. CASE session.phase = "asking"
        BY <1>3, <3>1, <1>b, AuthenticateTyped DEF ServePost
      <3>2. CASE session.phase # "asking"
        BY <1>3, <3>2, <1>a DEF ServePost
      <3> QED
        BY <3>1, <3>2
    <2>2. session'.user = session.user /\ (session.phase # "none" \/ session' = session)
      BY <1>3 DEF ServePost, Authenticate
    <2> QED
      BY <1>3, <2>1, <2>2, <1>2, ReplyKeeps DEF ServePost
  <1>4. CASE ServeCancel
    <2>1. CASE session.phase = "started"
      BY <1>4, <2>1, <1>a, <1>2, ReplyKeeps DEF ServeCancel
    <2>2. CASE session.phase # "started"
      <3>1. session' = [phase |-> "none", user |-> NoUser]
        BY <1>4, <2>2 DEF ServeCancel
      <3>2. session'.phase = "none"
        BY <3>1
      <3>3. socket' = "connected" /\ CreatesOwn(conn')
        BY <1>4, ServeFirst DEF ServeCancel
      <3> QED
        BY <3>2, <3>3, <1>c
    <2> QED
      BY <2>1, <2>2
  <1>5. CASE ServeStart
    <2>1. session'.user = session.user /\ (session.phase # "none" \/ session' = session)
      BY <1>5, <1>b DEF ServeStart
    <2>2. \E answer \in {"success", "error"} : Reply(answer)
      BY <1>5 DEF ServeStart
    <2> QED
      BY <1>5, <2>1, <2>2, <1>a, <1>2, ReplyKeeps DEF ServeStart
  <1> QED
    BY <1>1, <1>3, <1>4, <1>5 DEF GreetdServes

LEMMA OneUserStep == TypeOK /\ PatientOneUser /\ [Next]_vars => PatientOneUser'
  <1> SUFFICES ASSUME TypeOK, PatientOneUser, [Next]_vars, patient' PROVE OneUser'
    BY DEF PatientOneUser
  <1>a. patient
    BY DEF Next, vars, QmlCalls, OnSocketConnected, OnSocketReady, OnAuthenticated, OnLaunched,
           OnUnexpected, OnAlreadyConfigured, OnAuthFailure, OnError, OnQuestion, OnNotice,
           Receive, GreetdServes, ServeCreate, ServePost, ServeCancel, ServeStart, Serve,
           Disconnect
  <1>b. OneUser
    BY <1>a DEF PatientOneUser
  <1>1. CASE QmlCalls
    BY <1>1, <1>a, <1>b, OneUserQml
  <1>2. CASE OnSocketConnected
    BY <1>2, <1>b, OneUserConnected
  <1>3. CASE OnSocketReady
    BY <1>3, <1>a, <1>b, OneUserReady
  <1>4. CASE GreetdServes
    BY <1>4, <1>b, OneUserServed
  <1>5. CASE Disconnect
    BY <1>5, <1>b DEF Disconnect, OneUser, CreatesOwn
  <1>6. CASE UNCHANGED vars
    BY <1>6, <1>b DEF vars, OneUser, CreatesOwn, Coming, Restarting, Answered, Same
  <1> QED
    BY <1>1, <1>2, <1>3, <1>4, <1>5, <1>6 DEF Next

\* When nothing is on its way, the session greetd has is of the user that the
\* client says is authenticating, also after a session was found to be
\* configured already and restarted (connection.cpp:207).
THEOREM GreetdUser == Spec => []PatientUserIsCurrent
  <1>1. Init => PatientOneUser
    BY DEF Init, PatientOneUser, OneUser, CreatesOwn, Answered
  <1>2. PatientOneUser => PatientUserIsCurrent
    BY DEF PatientOneUser, OneUser, PatientUserIsCurrent, Same, Coming, Restarting, Answered
  <1> QED
    BY <1>1, <1>2, OneUserStep, GreetdTypeCorrect, PTL DEF Spec
-----------------------------------------------------------------------------
(* Nobody waits for nobody.  A greeter that authenticates was asked, has   *)
(* sent something, or has something to read, and each of its methods keeps *)
(* that so.                                                                *)

\* c authenticates only with a prompt to answer or a request on its way.
Busy(c) == c.state = "Authenticating" => c.required \/ c.sent # <<>>

LEMMA SentIsBusy ==
    ASSUME NEW c \in Conn, NEW r \in Requests
    PROVE  Send(c, r) \in Conn /\ Send(c, r).sent # <<>>
  BY DEF Send, Conn

LEMMA InactiveIsBusy ==
    ASSUME NEW c \in Conn
    PROVE  SetInactive(c) \in Conn /\ Busy(SetInactive(c))
  BY SetInactiveTyped DEF SetInactive, Conn, Busy

\* setActive keeps it, and with false it begins it.
LEMMA ActivateIsBusy ==
    ASSUME NEW c \in Conn, NEW active \in BOOLEAN,
           Busy(c) \/ (socket = "connected" /\ ~active)
    PROVE  Busy(SetActive(c, active))
  <1>1. CASE socket # "connected" \/ active = (c.state # "Inactive")
    <2>1. SetActive(c, active) = [c EXCEPT !.target = active]
      BY <1>1, Zenon DEF SetActive
    <2>2. Busy(c)
      BY <1>1 DEF Busy
    <2> QED
      BY <2>1, <2>2 DEF Busy, Conn
  <1>2. CASE ~(socket # "connected" \/ active = (c.state # "Inactive")) /\ ~active
    <2>1. SetActive(c, active) = SetInactive(Send(c, Cancel))
      BY <1>2, Zenon DEF SetActive
    <2> QED
      BY <2>1, RequestTyped, SentIsBusy, InactiveIsBusy
  <1>3. CASE ~(socket # "connected" \/ active = (c.state # "Inactive")) /\ active
    <2>1. c.state = "Inactive"
      BY <1>3
    <2>2. CASE c.user = NoUser
      <3>1. SetActive(c, active) = [c EXCEPT !.target = FALSE]
        BY <1>3, <2>2, Zenon DEF SetActive
      <3> QED
        BY <2>1, <3>1 DEF Busy, Conn
    <2>3. CASE c.user # NoUser
      <3> DEFINE d == Send(c, Create(c.user))
      <3>1. SetActive(c, active) = [d EXCEPT !.target = TRUE, !.state = "Authenticating"]
        BY <1>3, <2>3, Zenon DEF SetActive
      <3>2. c.user \in SomeUser
        BY DEF Conn
      <3>3. d \in Conn /\ d.sent # <<>>
        BY <3>2, RequestTyped, SentIsBusy
      <3> HIDE DEF d
      <3> QED
        BY <3>1, <3>3 DEF Busy, Conn
    <2> QED
      BY <2>2, <2>3
  <1> QED
    BY <1>1, <1>2, <1>3, Zenon

\* Whatever QML calls keeps it.
LEMMA ApplyIsBusy ==
    ASSUME NEW c \in Conn, NEW call \in Calls \cup {Nothing}, Busy(c)
    PROVE  Busy(Apply(c, call))
  <1>1. call.user \in SomeUser /\ call.do \in Deeds
    BY CallTyped
  <1>2. CASE call.do = "nothing"
    BY <1>2 DEF Apply
  <1>3. CASE call.do = "respond"
    <2>1. Send(c, Post) \in Conn /\ Send(c, Post).sent # <<>>
      BY RequestTyped, SentIsBusy
    <2>2. Busy([Send(c, Post) EXCEPT !.required = FALSE])
      BY <2>1 DEF Busy, Conn
    <2> QED
      BY <1>3, <2>2 DEF Apply, Respond
  <1>4. CASE call.do \in {"launch", "launch and stay"}
    <2>1. \A exit \in BOOLEAN : Busy(Launch(c, exit))
      <3>1. Send(c, Start) \in Conn
        BY RequestTyped, SentIsBusy
      <3> QED
        BY <3>1 DEF Launch, Busy, Conn
    <2> QED
      BY <1>4, <2>1 DEF Apply
  <1>5. CASE call.do = "cancel"
    BY <1>5, ActivateIsBusy DEF Apply, CancelSession
  <1>6. CASE call.do = "create"
    <2>1. [c EXCEPT !.user = call.user] \in Conn /\ Busy([c EXCEPT !.user = call.user])
      BY <1>1 DEF Busy, Conn
    <2> QED
      BY <1>6, <2>1, ActivateIsBusy DEF Apply, CreateSession
  <1> QED
    BY <1>1, <1>2, <1>3, <1>4, <1>5, <1>6 DEF Deeds

\* A greeter that is told of something is busy then, or has been asked.
LEMMA ReceiverIsBusy == TypeOK /\ OnSocketReady => Busy(conn')
  <1> SUFFICES ASSUME TypeOK, OnSocketReady PROVE Busy(conn')
    OBVIOUS
  <1>a. conn \in Conn
    BY DEF TypeOK, Conn, Requests
  <1>b. socket = "connected"
    BY DEF OnSocketReady, OnAuthenticated, OnLaunched, OnUnexpected, OnAlreadyConfigured,
           OnAuthFailure, OnError, OnQuestion, OnNotice, Receive
  <1>1. CASE OnAuthenticated
    BY <1>1, <1>a DEF OnAuthenticated, Busy, Conn
  <1>2. CASE OnLaunched
    <2>1. PICK handler \in Handlers : conn' = Apply([conn EXCEPT !.state = "Launched"], handler)
      BY <1>2 DEF OnLaunched
    <2>2. /\ [conn EXCEPT !.state = "Launched"] \in Conn
          /\ Busy([conn EXCEPT !.state = "Launched"])
      BY <1>a DEF Conn, States, Busy
    <2> QED
      BY <2>1, <2>2, HandlerTyped, ApplyIsBusy
  <1>3. CASE OnUnexpected
    BY <1>3, <1>a, <1>b, ActivateIsBusy DEF OnUnexpected
  <1>4. CASE OnAlreadyConfigured
    <2>1. PICK changed \in Handlers :
            conn' = SetActive(IF conn.state = "Inactive" THEN SetActive(conn, FALSE)
                              ELSE Apply(SetActive(conn, FALSE), changed), TRUE)
      BY <1>4 DEF OnAlreadyConfigured
    <2>2. SetActive(conn, FALSE) \in Conn /\ Busy(SetActive(conn, FALSE))
      BY <1>a, <1>b, SetActiveTyped, ActivateIsBusy
    <2>3. /\ Apply(SetActive(conn, FALSE), changed) \in Conn
          /\ Busy(Apply(SetActive(conn, FALSE), changed))
      BY <2>2, HandlerTyped, ApplyTyped, ApplyIsBusy
    <2> QED
      BY <2>1, <2>2, <2>3, ActivateIsBusy
  <1>5. CASE OnAuthFailure
    <2> DEFINE told(h) == Apply(conn, h)
    <2>1. PICK failed \in Handlers, changed \in Handlers :
            conn' = SetInactive(IF told(failed).state = "Inactive"
                                THEN SetActive(told(failed), FALSE)
                                ELSE Apply(SetActive(told(failed), FALSE), changed))
      BY <1>5 DEF OnAuthFailure
    <2>2. told(failed) \in Conn
      BY <1>a, HandlerTyped, ApplyTyped
    <2>3. SetActive(told(failed), FALSE) \in Conn
      BY <2>2, SetActiveTyped
    <2>4. Apply(SetActive(told(failed), FALSE), changed) \in Conn
      BY <2>3, HandlerTyped, ApplyTyped
    <2> HIDE DEF told
    <2> QED
      BY <2>1, <2>3, <2>4, InactiveIsBusy
  <1>6. CASE OnError
    BY <1>6, <1>a, HandlerTyped, ApplyTyped, InactiveIsBusy DEF OnError
  <1>7. CASE OnQuestion
    BY <1>7, <1>a DEF OnQuestion, Busy, Conn
  <1>8. CASE OnNotice
    <2>1. PICK handler \in Handlers :
            conn' = Send(Apply([conn EXCEPT !.required = FALSE], handler), Post)
      BY <1>8 DEF OnNotice
    <2>2. [conn EXCEPT !.required = FALSE] \in Conn
      BY <1>a DEF Conn
    <2>3. conn'.sent # <<>>
      BY <2>1, <2>2, HandlerTyped, ApplyTyped, SentIsBusy, RequestTyped
    <2> QED
      BY <2>3 DEF Busy
  <1> QED
    BY <1>1, <1>2, <1>3, <1>4, <1>5, <1>6, <1>7, <1>8 DEF OnSocketReady

LEMMA NobodyWaitsStep == TypeOK /\ NobodyWaits /\ [Next]_vars => NobodyWaits'
  <1> SUFFICES ASSUME TypeOK, NobodyWaits, [Next]_vars PROVE NobodyWaits'
    OBVIOUS
  <1>a. conn \in Conn /\ responses \in Seq(ResponseTypes)
    BY DEF TypeOK, Conn, Requests
  <1>1. CASE QmlCalls
    <2>1. PICK call \in Calls : conn' = Apply(conn, call)
      BY <1>1 DEF QmlCalls
    <2>2. Busy(conn) => Busy(conn')
      BY <1>a, <2>1, ApplyIsBusy
    <2> QED
      BY <1>1, <2>2 DEF QmlCalls, NobodyWaits, Answered, Busy
  <1>2. CASE OnSocketConnected
    <2>1. \/ conn' = conn \/ conn' = [conn EXCEPT !.target = FALSE]
          \/ conn' = [Send(conn, Create(conn.user)) EXCEPT !.state = "Authenticating"]
      BY <1>2 DEF OnSocketConnected
    <2>2. Send(conn, Create(conn.user)) \in Conn /\ Send(conn, Create(conn.user)).sent # <<>>
      <3>1. conn.user \in SomeUser
        BY <1>a DEF Conn
      <3> QED
        BY <3>1, <1>a, RequestTyped, SentIsBusy
    <2>3. Busy(conn) => Busy(conn')
      BY <1>a, <2>1, <2>2 DEF Busy, Conn
    <2> QED
      BY <1>2, <2>3 DEF OnSocketConnected, NobodyWaits, Answered, Busy
  <1>3. CASE OnSocketReady
    BY <1>3, ReceiverIsBusy DEF NobodyWaits, Answered, Busy
  <1>4. CASE GreetdServes
    <2>1. responses' # <<>>
      BY <1>4, <1>a DEF GreetdServes, ServeCreate, ServePost, ServeCancel, ServeStart,
                        Authenticate, Reply
    <2> QED
      BY <2>1 DEF NobodyWaits, Answered
  <1>5. CASE Disconnect \/ UNCHANGED vars
    BY <1>5 DEF Disconnect, vars, NobodyWaits, Answered
  <1> QED
    BY <1>1, <1>2, <1>3, <1>4, <1>5 DEF Next

\* When greetd awaits an answer and nothing is on its way, a greeter that
\* authenticates has been asked for one, whatever QML calls
\* (connection.cpp:232).
THEOREM GreetdNobodyWaits == Spec => []NobodyWaits
  <1>1. Init => NobodyWaits
    BY DEF Init, NobodyWaits
  <1> QED
    BY <1>1, GreetdTypeCorrect, NobodyWaitsStep, PTL DEF Spec

=============================================================================
