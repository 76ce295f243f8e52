---------------------- MODULE PeerConnectionMeshProofs ----------------------
(***************************************************************************)
(* For every set of ids, every bound on the delayed messages and every set *)
(* of faults: the RTC_DCHECKs of peer_connection_mesh.cc hold, a client    *)
(* that was stopped stays out, one that is connected listens, and one that *)
(* was refused tries again; and the client implements MeshLink, which      *)
(* ConnCtrl uses in its place.                                             *)
(***************************************************************************)
EXTENDS PeerConnectionMesh, SequenceTheorems, TLAPS

\* What a request under way, and its answer, are for.  A message or a sign out
\* carries the id the client had, and so does its answer; only a connection that
\* carries a sign in, or has its answer, is open in SIGNING_IN.
Exchange ==
    /\ onconnect = NoRequest \/ onconnect[1] = "sign_in" \/ onconnect[2] \in Ids
    /\ reply.status = "ok" => reply.id \in Ids
    /\ state = "SIGNING_IN" /\ ctl = "open" => reply # NoReply

\* A client that is connected has an id.
HasId == state = "CONNECTED" => my_id # NoId

MeshInv ==
    TypeOK /\ Exchange /\ HasId /\ Assertions /\ Listening /\ LoggedOutStaysOut /\ RefusedRetried

\* The client starts with everything closed.
LEMMA InitMeshInv == Init => MeshInv
<1> SUFFICES ASSUME Init PROVE MeshInv
  OBVIOUS
<1>1. cb \in Seq(Callbacks)
  BY EmptySeq DEF Init
<1>2. TypeOK
  <2>1. 0 \in 0 .. MaxRetry
    BY MaxRetryAssumption
  <2>2. state \in States /\ ctl \in Sockets /\ hget \in Sockets /\ retry \in 0 .. MaxRetry
    BY <2>1 DEF Init, States, Sockets
  <2> QED BY <1>1, <2>2, ZenonT(30) DEF Init, TypeOK
<1>3. Exchange
  BY DEF Init, Exchange, NoReply, NoRequest
<1>4. HasId /\ Assertions /\ Listening /\ LoggedOutStaysOut /\ RefusedRetried
  BY DEF Init, HasId, Assertions, Listening, LoggedOutStaysOut, RefusedRetried, RetryArmed
<1> QED BY <1>2, <1>3, <1>4 DEF MeshInv

\* Nothing asked and nothing answered.
LEMMA NoAnswer ==
    /\ NoReply.status = "none" /\ NoReply.id = NoId
    /\ NoReply \notin Answers
    /\ NoRequest[1] = "" /\ NoRequest[2] = NoId
BY DEF NoReply, NoRequest, Answers

\* The lists of callbacks a handler makes.
LEMMA CallbackLists ==
    /\ <<>> \in Seq(Callbacks)
    /\ \A c \in Callbacks : <<c>> \in Seq(Callbacks)
    /\ \A s, t \in Seq(Callbacks) : s \o t \in Seq(Callbacks)
<1>1. <<>> \in Seq(Callbacks)
  BY EmptySeq
<1>2. \A c \in Callbacks : <<c>> \in Seq(Callbacks)
  OBVIOUS
<1>3. \A s, t \in Seq(Callbacks) : s \o t \in Seq(Callbacks)
  BY ConcatProperties
<1> QED BY <1>1, <1>2, <1>3

\* What keeps everything but cb, apart from cb.
LEMMA SameMesh ==
    ASSUME MeshInv, UNCHANGED <<client, reply, faults>>,
           srv_up' \in BOOLEAN, regs' \in SUBSET Ids, cb' \in Seq(Callbacks)
    PROVE  MeshInv'
BY DEF MeshInv, TypeOK, Exchange, HasId, Assertions, Listening, LoggedOutStaysOut,
       RefusedRetried, RetryArmed, client, is_logined

\* Close leaves nothing to go wrong, whoever calls it.
LEMMA CloseMesh ==
    ASSUME MeshInv, Close, sm_running' \in BOOLEAN, retry' \in 0 .. MaxRetry,
           wait_id' = wait_id, faults' = faults,
           srv_up' \in BOOLEAN, regs' \in SUBSET Ids, cb' \in Seq(Callbacks)
    PROVE  MeshInv'
<1>1. TypeOK'
  BY DEF Close, MeshInv, TypeOK, States, Sockets
<1>2. Exchange'
  BY NoAnswer DEF Close, Exchange
<1>3. HasId' /\ Assertions' /\ Listening' /\ LoggedOutStaysOut' /\ RefusedRetried'
  BY DEF Close, HasId, Assertions, Listening, LoggedOutStaysOut, RefusedRetried, RetryArmed
<1> QED BY <1>1, <1>2, <1>3 DEF MeshInv

\* DoConnect signs in anew, or closes; it is only called by a client that runs.
LEMMA DoConnectMesh ==
    ASSUME MeshInv, NEW ok \in BOOLEAN, DoConnect(ok), sm_running' = TRUE,
           retry' \in 0 .. MaxRetry, UNCHANGED <<srv_up, regs, wait_id, faults>>
    PROVE  MeshInv'
<1>1. cb' \in Seq(Callbacks)
  BY CallbackLists DEF DoConnect, Callbacks
<1>2. CASE ~ok
  <2>1. Close
    BY <1>2 DEF DoConnect, ConnectControlSocket
  <2> QED BY <1>1, <2>1, CloseMesh DEF MeshInv, TypeOK
<1>3. CASE ok
  <2>1. /\ ctl' = "connecting" /\ hget' = "closed"
        /\ onconnect' = <<"sign_in", NoId>>
        /\ state' = "SIGNING_IN"
        /\ my_id' \in Ids \cup {NoId}
        /\ reply' = NoReply
    BY <1>3 DEF DoConnect, ConnectControlSocket, MeshInv, TypeOK
  <2>2. TypeOK'
    BY <1>1, <2>1 DEF MeshInv, TypeOK, States, Sockets, Requests
  <2>3. Exchange'
    BY <2>1, NoAnswer DEF Exchange
  <2>4. onconnect'[1] # NoRequest[1]
    BY <2>1, NoAnswer
  <2>5. HasId' /\ Assertions' /\ Listening' /\ LoggedOutStaysOut' /\ RefusedRetried'
    BY <2>1, <2>4 DEF HasId, Assertions, Listening, LoggedOutStaysOut, RefusedRetried, RetryArmed
  <2> QED BY <2>2, <2>3, <2>5 DEF MeshInv
<1> QED BY <1>2, <1>3

\* Calls from the controller.
LEMMA UpperMesh == ASSUME MeshInv, Upper PROVE MeshInv'
<1>1. CASE StartLogin
  <2>1. PICK ok \in ConnectResults : DoConnect(ok)
    BY <1>1 DEF StartLogin
  <2>2. ok \in BOOLEAN
    BY DEF ConnectResults
  <2> QED BY <1>1, <2>1, <2>2, DoConnectMesh DEF StartLogin, MeshInv, TypeOK
<1>2. CASE StartLoginNoServer
  <2>1. cb' \in Seq(Callbacks)
    BY <1>2, CallbackLists DEF StartLoginNoServer, Callbacks
  <2>2. TypeOK'
    BY <1>2, <2>1 DEF StartLoginNoServer, server, MeshInv, TypeOK, States
  <2>3. Exchange'
    BY <1>2 DEF StartLoginNoServer, server, MeshInv, Exchange
  <2>4. HasId' /\ Assertions' /\ Listening' /\ LoggedOutStaysOut' /\ RefusedRetried'
    BY <1>2 DEF StartLoginNoServer, MeshInv, HasId, Assertions, Listening, LoggedOutStaysOut,
                RefusedRetried, RetryArmed
  <2> QED BY <2>2, <2>3, <2>4 DEF MeshInv
<1>3. CASE DisconnectFromServer
  <2>1. cb' \in Seq(Callbacks)
    BY <1>3, CallbackLists DEF DisconnectFromServer
  <2>2. CASE Close
    BY <1>3, <2>1, <2>2, CloseMesh DEF DisconnectFromServer, MeshInv, TypeOK
  <2>3. CASE ctl = "closed" /\ my_id = NoId /\ SignOut
    <3>1. /\ state' = "SIGNING_OUT" /\ hget' = "closed"
          /\ UNCHANGED <<my_id, ctl, onconnect, reply>>
      BY <2>3 DEF SignOut
    <3>2. TypeOK'
      BY <1>3, <2>1, <3>1 DEF DisconnectFromServer, MeshInv, TypeOK, States, Sockets
    <3>3. Exchange'
      BY <3>1 DEF MeshInv, Exchange
    <3> QED BY <3>1, <3>2, <3>3, <2>3 DEF MeshInv, HasId, Assertions, Listening,
                                  LoggedOutStaysOut, RefusedRetried, RetryArmed
  <2>4. CASE ctl = "closed" /\ my_id # NoId /\ SignOut /\ ~Close
    <3>1. /\ ctl' = "connecting" /\ hget' = "closed"
          /\ onconnect' = <<"sign_out", my_id>>
          /\ state' = "SIGNING_OUT" /\ my_id' = NoId /\ reply' = NoReply
      BY <2>4 DEF SignOut, ConnectControlSocket
    <3>2. my_id \in Ids
      BY <2>4 DEF MeshInv, TypeOK
    <3>3. TypeOK'
      BY <1>3, <2>1, <3>1, <3>2 DEF DisconnectFromServer, MeshInv, TypeOK, States, Sockets, Requests
    <3>4. Exchange'
      BY <3>1, <3>2, NoAnswer DEF Exchange
    <3>5. onconnect'[1] # NoRequest[1]
      BY <3>1, NoAnswer
    <3>6. HasId' /\ Assertions' /\ Listening' /\ LoggedOutStaysOut' /\ RefusedRetried'
      BY <3>1, <3>5 DEF HasId, Assertions, Listening, LoggedOutStaysOut, RefusedRetried, RetryArmed
    <3> QED BY <3>3, <3>4, <3>6 DEF MeshInv
  <2> QED BY <1>3, <2>2, <2>3, <2>4 DEF DisconnectFromServer, SignOut
<1>4. CASE SendToPeer
  <2>1. cb' \in Seq(Callbacks)
    BY <1>4, CallbackLists DEF SendToPeer
  <2>2. CASE Close
    BY <1>4, <2>1, <2>2, CloseMesh DEF SendToPeer, MeshInv, TypeOK
  <2>3. CASE ~Close
    <3>1. /\ ctl' = "connecting" /\ hget' = hget
          /\ onconnect' = <<"message", my_id>>
          /\ state = "CONNECTED" /\ state' = state /\ my_id' = my_id /\ reply' = NoReply
      BY <1>4, <2>3 DEF SendToPeer, ConnectControlSocket
    <3>2. my_id \in Ids
      BY <3>1 DEF MeshInv, HasId, TypeOK
    <3>3. TypeOK'
      BY <1>4, <2>1, <3>1, <3>2 DEF SendToPeer, MeshInv, TypeOK, States, Sockets, Requests
    <3>4. Exchange'
      BY <3>1, <3>2, NoAnswer DEF Exchange
    <3>5. onconnect'[1] # NoRequest[1]
      BY <3>1, NoAnswer
    <3>6. HasId' /\ Assertions' /\ Listening' /\ LoggedOutStaysOut' /\ RefusedRetried'
      BY <1>4, <3>1, <3>5 DEF SendToPeer, MeshInv, HasId, Assertions, Listening,
         LoggedOutStaysOut, RefusedRetried, RetryArmed
    <3> QED BY <3>3, <3>4, <3>6 DEF MeshInv
  <2> QED BY <2>2, <2>3
<1> QED BY <1>1, <1>2, <1>3, <1>4 DEF Upper

\* What the server answers.
LEMMA AnswerMesh ==
    ASSUME MeshInv, NEW request, NEW id, Answer(request, id),
           request = "message" \/ request = "sign_out" => id \in Ids
    PROVE  regs' \in SUBSET Ids /\ reply' \in Answers /\ (reply'.status = "ok" => reply'.id \in Ids)
<1>1. ASSUME NEW s \in {"ok", "busy", "error"}, NEW i \in Ids \cup {NoId}
      PROVE  /\ [status |-> s, id |-> i] \in Answers
             /\ [status |-> s, id |-> i].status = s
             /\ [status |-> s, id |-> i].id = i
  BY DEF Answers
<1>2. regs \in SUBSET Ids
  BY DEF MeshInv, TypeOK
<1> QED BY <1>1, <1>2 DEF Answer

\* A connection is made: the request goes out, and is answered.
LEMMA ConnectMesh == ASSUME MeshInv, OnConnect \/ OnConnectShort PROVE MeshInv'
<1>1. CASE OnConnect
  <2>1. cb' \in Seq(Callbacks)
    BY <1>1, CallbackLists DEF OnConnect
  <2>2. onconnect[1] = "message" \/ onconnect[1] = "sign_out" => onconnect[2] \in Ids
    BY NoAnswer DEF MeshInv, Exchange
  <2>3. regs' \in SUBSET Ids /\ reply' \in Answers /\ (reply'.status = "ok" => reply'.id \in Ids)
    BY <1>1, <2>2, AnswerMesh DEF OnConnect
  <2>4. TypeOK'
    BY <1>1, <2>1, <2>3 DEF OnConnect, MeshInv, TypeOK, Sockets
  <2>5. Exchange'
    BY <1>1, <2>3, NoAnswer DEF OnConnect, Exchange
  <2>6. HasId' /\ Assertions' /\ Listening' /\ LoggedOutStaysOut' /\ RefusedRetried'
    BY <1>1 DEF OnConnect, MeshInv, HasId, Assertions, Listening, LoggedOutStaysOut,
                RefusedRetried, RetryArmed
  <2> QED BY <2>4, <2>5, <2>6 DEF MeshInv
<1>2. CASE OnConnectShort
  <2>1. cb' \in Seq(Callbacks)
    BY <1>2, CallbackLists DEF OnConnectShort, Callbacks
  <2>2. TypeOK'
    BY <1>2, <2>1 DEF OnConnectShort, server, MeshInv, TypeOK, Sockets, States
  <2>3. Exchange'
    BY <1>2 DEF OnConnectShort, server, MeshInv, Exchange
  <2>4. HasId' /\ Assertions' /\ Listening' /\ LoggedOutStaysOut' /\ RefusedRetried'
    BY <1>2 DEF OnConnectShort, MeshInv, HasId, Assertions, Listening, LoggedOutStaysOut,
                RefusedRetried, RetryArmed
  <2> QED BY <2>2, <2>3, <2>4 DEF MeshInv
<1> QED BY <1>1, <1>2

\* An answer is read: a client that is refused closes everything, one that signs in
\* gets an id and opens its hanging GET.
LEMMA ReadMesh == ASSUME MeshInv, OnRead PROVE MeshInv'
<1>1. PICK close \in BOOLEAN : OnReadRefused(close) \/ OnReadAccepted(close)
  BY DEF OnRead
<1>2. Closing(close) \in Seq(Callbacks)
  BY CallbackLists DEF Closing, Callbacks
<1>3. CASE OnReadRefused(close)
  <2>1. PICK c \in {"Busy", "LoginFail"} : cb' = Closing(close) \o <<c>>
    BY <1>3 DEF OnReadRefused
  <2>2. cb' \in Seq(Callbacks)
    BY <1>2, <2>1, CallbackLists DEF Callbacks
  <2> QED BY <1>3, <2>2, CloseMesh DEF OnReadRefused, OnRead, MeshInv, TypeOK
<1>4. CASE OnReadAccepted(close)
  <2>1. cb' \in Seq(Callbacks)
    <3>1. PICK peers \in {<<>>, <<"PeerConnected">>} :
             cb' = Closing(close) \o (IF my_id = NoId THEN <<"SignedIn">> \o peers ELSE <<>>)
      BY <1>4 DEF OnReadAccepted
    <3>2. peers \in Seq(Callbacks) /\ <<"SignedIn">> \in Seq(Callbacks)
      BY CallbackLists DEF Callbacks
    <3>3. (IF my_id = NoId THEN <<"SignedIn">> \o peers ELSE <<>>) \in Seq(Callbacks)
      BY <3>2, CallbackLists
    <3> QED BY <1>2, <3>1, <3>3, CallbackLists
  <2>2. reply.id \in Ids /\ NoId \notin Ids
    BY <1>4, IdsAssumption DEF OnReadAccepted, MeshInv, Exchange
  <2>3. /\ my_id' \in Ids
        /\ ctl' \in {"closed", "open"} /\ reply' = NoReply
        /\ UNCHANGED <<onconnect, sm_running, retry, srv_up, regs, wait_id, faults>>
    BY <1>4, <2>2 DEF OnReadAccepted, OnRead, MeshInv, TypeOK
  <2>4. CASE state = "SIGNING_IN"
    <3>1. state' = "CONNECTED" /\ hget' \in {"connecting", "closed"}
      BY <1>4, <2>4 DEF OnReadAccepted, ConnectHangingGet
    <3>2. "sync" \notin faults => hget' = "connecting"
      BY <1>4, <2>4 DEF OnReadAccepted, ConnectHangingGet, ConnectResults
    <3>3. sm_running
      BY <2>4 DEF MeshInv, LoggedOutStaysOut
    <3>4. TypeOK'
      BY <2>1, <2>3, <3>1 DEF MeshInv, TypeOK, States, Sockets
    <3>5. Exchange'
      BY <2>3, <3>1, NoAnswer DEF MeshInv, Exchange
    <3>6. HasId' /\ Assertions' /\ Listening' /\ LoggedOutStaysOut' /\ RefusedRetried'
      BY <2>2, <2>3, <3>1, <3>2, <3>3 DEF HasId, Assertions, Listening, LoggedOutStaysOut,
                                          RefusedRetried, RetryArmed
    <3> QED BY <3>4, <3>5, <3>6 DEF MeshInv
  <2>5. CASE state # "SIGNING_IN"
    <3>1. UNCHANGED <<state, hget>>
      BY <1>4, <2>5 DEF OnReadAccepted
    <3>2. TypeOK'
      BY <2>1, <2>3, <3>1 DEF MeshInv, TypeOK, Sockets
    <3>3. Exchange'
      BY <2>3, <2>5, <3>1, NoAnswer DEF MeshInv, Exchange
    <3>4. HasId' /\ Assertions' /\ Listening' /\ LoggedOutStaysOut' /\ RefusedRetried'
      BY <2>2, <2>3, <2>5, <3>1 DEF MeshInv, HasId, Assertions, Listening, LoggedOutStaysOut,
                                    RefusedRetried, RetryArmed
    <3> QED BY <3>2, <3>3, <3>4 DEF MeshInv
  <2> QED BY <2>4, <2>5
<1> QED BY <1>1, <1>3, <1>4

\* A connection ends: refused, a retry is posted; done, the answer was read.
LEMMA OnCloseMesh == ASSUME MeshInv, OnCloseRefused \/ OnCloseError \/ OnCloseDone PROVE MeshInv'
<1>1. cb' \in Seq(Callbacks)
  BY CallbackLists DEF OnCloseRefused, OnCloseError, OnCloseDone, Callbacks
<1>2. /\ ctl' = "closed" /\ reply' \in {reply, NoReply}
      /\ retry' \in 0 .. MaxRetry
      /\ UNCHANGED <<state, my_id, sm_running, hget, onconnect, srv_up, regs, wait_id, faults>>
  BY MaxRetryAssumption DEF OnCloseRefused, OnCloseError, OnCloseDone, PostDelayed, server,
                            MeshInv, TypeOK
<1>3. TypeOK'
  BY <1>1, <1>2 DEF MeshInv, TypeOK, Sockets
<1>4. Exchange'
  BY <1>2, NoAnswer DEF MeshInv, Exchange
<1>5. HasId' /\ Assertions' /\ Listening' /\ LoggedOutStaysOut'
  BY <1>2 DEF MeshInv, HasId, Assertions, Listening, LoggedOutStaysOut
<1>6. RefusedRetried'
  <2>1. CASE OnCloseRefused
    <3>1. state = "SIGNING_IN" => sm_running
      BY DEF MeshInv, LoggedOutStaysOut
    <3>2. sm_running => retry' > 0
      BY <2>1, MaxRetryAssumption DEF OnCloseRefused, PostDelayed, MeshInv, TypeOK
    <3> QED BY <1>2, <3>1, <3>2 DEF RefusedRetried, RetryArmed
  <2>2. CASE OnCloseError
    BY <2>2 DEF OnCloseError, RefusedRetried
  <2>3. CASE OnCloseDone
    <3>1. state # "SIGNING_IN"
      BY <2>3 DEF OnCloseDone, MeshInv, Exchange, is_logined
    <3> QED BY <1>2, <3>1 DEF RefusedRetried, RetryArmed
  <2> QED BY <2>1, <2>2, <2>3
<1> QED BY <1>3, <1>4, <1>5, <1>6 DEF MeshInv

\* The hanging GET is only ever open in a client that is not signing in.
LEMMA HangingGetMesh == ASSUME MeshInv, HangingGetEvent PROVE MeshInv'
<1>1. CASE OnHangingGetConnect \/ OnHangingGetRead \/ OnHangingGetClose
  <2>1. cb' \in Seq(Callbacks)
    BY <1>1, CallbackLists DEF OnHangingGetConnect, OnHangingGetRead, OnHangingGetClose, Callbacks
  <2>2. hget # "closed" /\ state # "SIGNING_IN"
    BY <1>1 DEF OnHangingGetConnect, OnHangingGetRead, OnHangingGetClose, MeshInv, Assertions
  <2>3. /\ UNCHANGED <<state, my_id, sm_running, ctl, onconnect, retry, server, faults>>
        /\ wait_id' \in {wait_id, my_id}
    BY <1>1 DEF OnHangingGetConnect, OnHangingGetRead, OnHangingGetClose
  <2>4. /\ hget' \in Sockets
        /\ "sync" \notin faults /\ state = "CONNECTED" => hget' # "closed"
    BY <1>1 DEF OnHangingGetConnect, OnHangingGetRead, OnHangingGetClose, Reconnect,
                ConnectHangingGet, ConnectResults, Sockets
  <2>5. TypeOK'
    BY <2>1, <2>3, <2>4 DEF server, MeshInv, TypeOK
  <2>6. Exchange'
    BY <2>3 DEF server, MeshInv, Exchange
  <2>7. HasId' /\ Assertions' /\ Listening' /\ LoggedOutStaysOut' /\ RefusedRetried'
    BY <2>2, <2>3, <2>4 DEF MeshInv, HasId, Assertions, Listening, LoggedOutStaysOut,
                            RefusedRetried, RetryArmed
  <2> QED BY <2>5, <2>6, <2>7 DEF MeshInv
<1>2. CASE OnHangingGetRefused \/ OnHangingGetCloseRefused
  <2>1. cb' \in Seq(Callbacks)
    BY <1>2, CallbackLists DEF OnHangingGetRefused, OnHangingGetCloseRefused, Callbacks
  <2>2. retry' \in 0 .. MaxRetry
    BY <1>2, MaxRetryAssumption DEF OnHangingGetRefused, OnHangingGetCloseRefused, PostDelayed,
                                    MeshInv, TypeOK
  <2> QED BY <1>2, <2>1, <2>2, CloseMesh DEF OnHangingGetRefused, OnHangingGetCloseRefused,
                                             MeshInv, TypeOK
<1> QED BY <1>1, <1>2 DEF HangingGetEvent

\* A retry that a stopped client gets changes nothing: it is not signing in.
LEMMA OnMessageMesh == ASSUME MeshInv, OnMessage PROVE MeshInv'
<1>1. retry' \in 0 .. MaxRetry
  BY MaxRetryAssumption DEF OnMessage, MeshInv, TypeOK
<1>2. CASE sm_running
  <2>1. PICK ok \in ConnectResults : DoConnect(ok)
    BY <1>2 DEF OnMessage
  <2>2. ok \in BOOLEAN
    BY DEF ConnectResults
  <2>3. sm_running' = TRUE
    BY <1>2 DEF OnMessage, MeshInv, TypeOK
  <2> QED BY <1>1, <2>1, <2>2, <2>3, DoConnectMesh DEF OnMessage
<1>3. CASE ~sm_running
  <2>1. /\ cb' = <<>>
        /\ UNCHANGED <<state, my_id, ctl, hget, onconnect, reply>>
        /\ UNCHANGED <<sm_running, srv_up, regs, wait_id, faults>>
    BY <1>3 DEF OnMessage
  <2>2. state # "SIGNING_IN"
    BY <1>3 DEF MeshInv, LoggedOutStaysOut
  <2>3. TypeOK'
    BY <1>1, <2>1, CallbackLists DEF MeshInv, TypeOK
  <2> QED BY <2>1, <2>2, <2>3 DEF MeshInv, Exchange, HasId, Assertions, Listening,
                              LoggedOutStaysOut, RefusedRetried, RetryArmed
<1> QED BY <1>2, <1>3

\* Every step preserves the invariant.
LEMMA NextMeshInv == MeshInv /\ [Next]_vars => MeshInv'
<1> SUFFICES ASSUME MeshInv, [Next]_vars PROVE MeshInv'
  OBVIOUS
<1>1. CASE ControlEvent
  BY <1>1, ConnectMesh, ReadMesh, OnCloseMesh DEF ControlEvent
<1>2. CASE ServerStep
  <2>1. srv_up' \in BOOLEAN /\ regs' \in SUBSET Ids
    BY <1>2 DEF ServerStep, MeshInv, TypeOK
  <2> QED BY <1>2, <2>1, CallbackLists, SameMesh DEF ServerStep
<1>3. CASE UNCHANGED vars
  BY <1>3, SameMesh DEF vars, server, MeshInv, TypeOK
<1> QED BY <1>1, <1>2, <1>3, UpperMesh, HangingGetMesh, OnMessageMesh DEF Next

\* The client of the mesh keeps its invariant.
THEOREM Invariance == Spec => []MeshInv
BY InitMeshInv, NextMeshInv, PTL DEF Spec

\* Sockets, requests, answers and callbacks stay within their types.
THEOREM Types == Spec => []TypeOK
<1>1. MeshInv => TypeOK
  BY DEF MeshInv
<1> QED BY Invariance, <1>1, PTL

\* The RTC_DCHECKs of OnConnect and OnRead hold after any failure and reconnection.
THEOREM Asserted == Spec => []Assertions
<1>1. MeshInv => Assertions
  BY DEF MeshInv
<1> QED BY Invariance, <1>1, PTL

\* A connected client has an id and waits for notifications, or is about to.
THEOREM Hears == Spec => []Listening
<1>1. MeshInv => Listening
  BY DEF MeshInv
<1> QED BY Invariance, <1>1, PTL

\* After DisconnectFromServer no delayed message or late event signs in again.
THEOREM StaysOut == Spec => []LoggedOutStaysOut
<1>1. MeshInv => LoggedOutStaysOut
  BY DEF MeshInv
<1> QED BY Invariance, <1>1, PTL

\* A sign in whose connection was refused has a delayed message coming.
THEOREM Retried == Spec => []RefusedRetried
<1>1. MeshInv => RefusedRetried
  BY DEF MeshInv
<1> QED BY Invariance, <1>1, PTL

-----------------------------------------------------------------------------
(* The refinement of MeshLink.                                               *)

\* Without a short Send the hanging GET goes with the connection.
Waiting == "short" \notin faults => (hget # "closed" => state = "CONNECTED")

LinkInv == MeshInv /\ Waiting

\* A step of the link, and what takes it away in silence.
LinkStep == Link!Next /\ (Link!Vanish => "sync" \in faults)

LEMMA NextWaiting == ASSUME LinkInv, [Next]_vars PROVE Waiting'
<1> USE DEF LinkInv, Waiting
<1>0. TypeOK /\ Assertions
  BY DEF MeshInv
<1>1. CASE UNCHANGED vars
  BY <1>1 DEF vars, client
<1>2. CASE Upper
  <2>1. CASE StartLogin
    BY <2>1 DEF StartLogin, DoConnect, ConnectControlSocket, Close
  <2>2. CASE StartLoginNoServer
    BY <2>2 DEF StartLoginNoServer, is_logined
  <2>3. CASE DisconnectFromServer
    <3>1. hget' = "closed"
      BY <2>3 DEF DisconnectFromServer, SignOut, ConnectControlSocket, Close
    <3> QED BY <3>1
  <2>4. CASE SendToPeer
    BY <2>4 DEF SendToPeer, ConnectControlSocket, Close
  <2> QED BY <1>2, <2>1, <2>2, <2>3, <2>4 DEF Upper
<1>3. CASE ControlEvent
  <2>1. CASE OnConnect
    BY <2>1 DEF OnConnect
  <2>2. CASE OnConnectShort
    BY <2>2 DEF OnConnectShort
  <2>3. CASE OnRead
    BY <2>3 DEF OnRead, OnReadRefused, OnReadAccepted, Close, ConnectHangingGet
  <2>4. CASE OnCloseRefused \/ OnCloseError \/ OnCloseDone
    BY <2>4 DEF OnCloseRefused, OnCloseError, OnCloseDone
  <2> QED BY <1>3, <2>1, <2>2, <2>3, <2>4 DEF ControlEvent
<1>4. CASE HangingGetEvent
  <2>1. CASE OnHangingGetConnect \/ OnHangingGetRead \/ OnHangingGetClose
    BY <2>1 DEF OnHangingGetConnect, OnHangingGetRead, OnHangingGetClose
  <2>2. CASE OnHangingGetRefused \/ OnHangingGetCloseRefused
    BY <2>2 DEF OnHangingGetRefused, OnHangingGetCloseRefused, Close
  <2> QED BY <1>4, <2>1, <2>2 DEF HangingGetEvent
<1>5. CASE OnMessage
  BY <1>5 DEF OnMessage, DoConnect, ConnectControlSocket, Close
<1>6. CASE ServerStep
  BY <1>6 DEF ServerStep, client
<1> QED BY <1>1, <1>2, <1>3, <1>4, <1>5, <1>6 DEF Next

\* A callback before one, or two.
LEMMA OneBeforeOne == ASSUME NEW a, NEW b PROVE <<a>> \o <<b>> = <<a, b>>
<1> DEFINE S == {a, b}
           u == <<a>> \o <<b>>
<1>1. <<a>> \in Seq(S) /\ <<b>> \in Seq(S) /\ <<a, b>> \in Seq(S)
  OBVIOUS
<1>2. Len(<<a>>) = 1 /\ Len(<<b>>) = 1 /\ Len(<<a, b>>) = 2
  OBVIOUS
<1>3. u \in Seq(S) /\ Len(u) = 2 /\ \A i \in 1 .. 2 : u[i] = IF i <= 1 THEN <<a>>[i] ELSE <<b>>[i - 1]
  BY <1>1, <1>2, ConcatProperties
<1>4. u[1] = a /\ u[2] = b
  BY <1>3
<1> HIDE DEF u
<1>5. \A i \in 1 .. 2 : u[i] = <<a, b>>[i]
  BY <1>4
<1> QED BY <1>1, <1>2, <1>3, <1>5, SeqEqual DEF u

LEMMA OneBeforeTwo == ASSUME NEW a, NEW b, NEW c PROVE <<a>> \o <<b, c>> = <<a, b, c>>
<1> DEFINE S == {a, b, c}
           u == <<a>> \o <<b, c>>
<1>1. <<a>> \in Seq(S) /\ <<b, c>> \in Seq(S) /\ <<a, b, c>> \in Seq(S)
  OBVIOUS
<1>2. Len(<<a>>) = 1 /\ Len(<<b, c>>) = 2 /\ Len(<<a, b, c>>) = 3
  OBVIOUS
<1>3. u \in Seq(S) /\ Len(u) = 3
      /\ \A i \in 1 .. 3 : u[i] = IF i <= 1 THEN <<a>>[i] ELSE <<b, c>>[i - 1]
  BY <1>1, <1>2, ConcatProperties
<1>4. u[1] = a /\ u[2] = b /\ u[3] = c
  BY <1>3
<1> HIDE DEF u
<1>5. \A i \in 1 .. 3 : u[i] = <<a, b, c>>[i]
  BY <1>4
<1> QED BY <1>1, <1>2, <1>3, <1>5, SeqEqual DEF u

\* The end of a connection is told first, if it is.
LEMMA ClosingFirst ==
    ASSUME NEW close \in BOOLEAN, NEW s \in Seq(Callbacks)
    PROVE  Closing(close) \o s = IF close THEN <<"MessageSent">> \o s ELSE s
BY ConcatEmptySeq DEF Closing

\* What the lists of callbacks say.
LEMMA ReportsOf ==
    /\ cb' = <<>> => Reports' = <<>>
    /\ cb' = <<"MessageSent">> => Reports' = <<>>
    /\ \A c : c # "MessageSent" /\ cb' = <<c>> => Reports' = <<c>>
    /\ cb' # <<>> /\ Head(cb') # "MessageSent" => Reports' = cb'
    /\ Head(<<"SignedIn", "PeerConnected">>) = "SignedIn" /\ <<"SignedIn", "PeerConnected">> # <<>>
    /\ \A c : cb' = <<"MessageSent", c>> => Reports' = <<c>>
    /\ \A c, d : cb' = <<"MessageSent", c, d>> => Reports' = <<c, d>>
<1>1. /\ \A a : <<a>> # <<>> /\ Head(<<a>>) = a /\ Tail(<<a>>) = <<>>
      /\ \A a, b : <<a, b>> # <<>> /\ Head(<<a, b>>) = a /\ Tail(<<a, b>>) = <<b>>
      /\ \A a, b, c : <<a, b, c>> # <<>> /\ Head(<<a, b, c>>) = a /\ Tail(<<a, b, c>>) = <<b, c>>
  OBVIOUS
<1>2. Reports' = IF cb' # <<>> /\ Head(cb') = "MessageSent" THEN Tail(cb') ELSE cb'
  BY DEF Reports
<1>3. cb' = <<>> => Reports' = <<>>
  BY <1>2
<1>4. cb' = <<"MessageSent">> => Reports' = <<>>
  BY <1>1, <1>2, Zenon
<1>5. ASSUME NEW c, c # "MessageSent", cb' = <<c>> PROVE Reports' = <<c>>
  BY <1>1, <1>2, <1>5, Zenon
<1>6. cb' # <<>> /\ Head(cb') # "MessageSent" => Reports' = cb'
  BY <1>2
<1>7. ASSUME NEW c, cb' = <<"MessageSent", c>> PROVE Reports' = <<c>>
  BY <1>1, <1>2, <1>7, Zenon
<1>8. ASSUME NEW c, NEW d, cb' = <<"MessageSent", c, d>> PROVE Reports' = <<c, d>>
  <2>1. cb' # <<>> /\ Head(cb') = "MessageSent" /\ Tail(cb') = <<c, d>>
    BY <1>8
  <2> QED BY <1>2, <2>1
<1> QED BY <1>1, <1>3, <1>4, <1>5, <1>6, <1>7, <1>8

\* What a client that is, or becomes, something is to the controller.
LEMMA LinkOfState ==
    /\ state = "CONNECTED" <=> LinkOf = "on"
    /\ state = "SIGNING_IN" <=> LinkOf = "trying"
    /\ state' = "CONNECTED" <=> LinkOf' = "on"
    /\ state' = "SIGNING_IN" <=> LinkOf' = "trying"
    /\ LinkOf \in {"off", "trying", "on"} /\ LinkOf' \in {"off", "trying", "on"}
BY DEF LinkOf

\* A step that leaves the link alone, and tells nothing.
LEMMA QuietStep ==
    ASSUME UNCHANGED <<state, sm_running>>, cb' \in {<<>>, <<"MessageSent">>}
    PROVE  LinkStep
<1>1. Reports' = <<>> /\ LinkOf' = LinkOf
  BY ReportsOf DEF LinkOf
<1> QED BY <1>1 DEF LinkStep, Link!Next, Link!Quiet, Link!Vanish

\* A connection that is lost, while it was signed in or being so.
LEMMA LostStep ==
    ASSUME state \in {"CONNECTED", "SIGNING_IN"}, state' = "NOT_CONNECTED", sm_running' = sm_running,
           Reports' \in {<<"Busy">>, <<"LoginFail">>, <<"DisconnInd">>}
    PROVE  LinkStep
<1>1. LinkOf # "off" /\ LinkOf' = "off"
  BY DEF LinkOf
<1>2. Link!Lost
  BY <1>1 DEF Link!Lost, Link!Failures
<1>3. ~Link!Vanish
  BY DEF Link!Vanish
<1> QED BY <1>2, <1>3 DEF LinkStep, Link!Next

\* DoConnect has the client signing in, or tells that it cannot be.
LEMMA DoConnectReports ==
    ASSUME NEW ok \in BOOLEAN, DoConnect(ok)
    PROVE  /\ \/ LinkOf' = "trying" /\ Reports' = <<>>
              \/ LinkOf' = "off" /\ Reports' = <<"SignFailed">>
           /\ ~Link!Vanish
<1>1. CASE ok
  <2>1. state' = "SIGNING_IN" /\ cb' = <<>>
    BY <1>1 DEF DoConnect, ConnectControlSocket
  <2>2. LinkOf' = "trying" /\ Reports' = <<>>
    BY <2>1, ReportsOf, LinkOfState
  <2> QED BY <2>2 DEF Link!Vanish
<1>2. CASE ~ok
  <2>1. state' = "NOT_CONNECTED" /\ cb' = <<"SignFailed">>
    BY <1>2 DEF DoConnect, ConnectControlSocket, Close
  <2>2. LinkOf' = "off" /\ Reports' = <<"SignFailed">>
    BY <2>1, ReportsOf, LinkOfState
  <2> QED BY <2>2 DEF Link!Vanish
<1> QED BY <1>1, <1>2

(***************************************************************************)
(* The calls from above log in and out; a message keeps the link, or takes *)
(* it away when its Connect fails at once.                                 *)
(***************************************************************************)
LEMMA UpperLink == ASSUME LinkInv, Upper PROVE LinkStep
<1>0. ~is_logined => LinkOf = "off"
  BY DEF is_logined, LinkOf
<1>1. CASE StartLogin
  <2>1. PICK ok \in ConnectResults : DoConnect(ok)
    BY <1>1 DEF StartLogin
  <2>2. ok \in BOOLEAN
    BY DEF ConnectResults
  <2>3. Link!Login
    BY <1>0, <1>1, <2>1, <2>2, DoConnectReports DEF StartLogin, Link!Login
  <2> QED BY <2>1, <2>2, <2>3, DoConnectReports DEF LinkStep, Link!Next
<1>2. CASE StartLoginNoServer
  <2>1. state' = "NOT_CONNECTED" /\ cb' = <<"SignFailed">> /\ sm_running' = TRUE /\ LinkOf = "off"
    BY <1>0, <1>2 DEF StartLoginNoServer
  <2>2. LinkOf' = "off" /\ Reports' = <<"SignFailed">>
    BY <2>1, ReportsOf, LinkOfState
  <2>3. Link!Login /\ ~Link!Vanish
    BY <2>1, <2>2 DEF Link!Login, Link!Vanish
  <2> QED BY <2>3 DEF LinkStep, Link!Next
<1>3. CASE DisconnectFromServer
  <2>1. state' \in {"NOT_CONNECTED", "SIGNING_OUT"} /\ sm_running' = FALSE /\ cb' = <<>>
    BY <1>3 DEF DisconnectFromServer, SignOut, ConnectControlSocket, Close
  <2>2. LinkOf' = "off" /\ Reports' = <<>>
    BY <2>1, ReportsOf, LinkOfState
  <2>3. Link!Logout
    BY <2>1, <2>2 DEF Link!Logout
  <2>4. LinkOf = "on" => sm_running
    BY LinkOfState DEF LinkInv, MeshInv, LoggedOutStaysOut
  <2>5. ~Link!Vanish
    BY <2>1, <2>4 DEF Link!Vanish
  <2> QED BY <2>3, <2>5 DEF LinkStep, Link!Next
<1>4. CASE SendToPeer
  <2>1. PICK ok \in ConnectResults :
           ConnectControlSocket(ok, <<"message", my_id>>, "CONNECTED", my_id, hget)
    BY <1>4 DEF SendToPeer
  <2>2. state = "CONNECTED" /\ cb' = <<>> /\ sm_running' = sm_running
    BY <1>4 DEF SendToPeer
  <2>3. CASE ok
    BY <2>1, <2>2, <2>3, QuietStep DEF ConnectControlSocket
  <2>4. CASE ~ok
    <3>1. state' = "NOT_CONNECTED" /\ "sync" \in faults
      BY <2>1, <2>4 DEF ConnectControlSocket, Close, ConnectResults
    <3>2. LinkOf = "on" /\ LinkOf' = "off" /\ Reports' = <<>>
      BY <2>2, <3>1, ReportsOf, LinkOfState
    <3> QED BY <2>2, <3>1, <3>2 DEF LinkStep, Link!Next, Link!Vanish
  <2> QED BY <2>3, <2>4
<1> QED BY <1>1, <1>2, <1>3, <1>4 DEF Upper

(***************************************************************************)
(* The control connection signs in, or is refused; otherwise it is quiet.  *)
(***************************************************************************)
LEMMA ControlLink == ASSUME LinkInv, ControlEvent, "short" \notin faults PROVE LinkStep
<1>1. CASE OnConnect
  BY <1>1, QuietStep DEF OnConnect
<1>2. CASE OnRead /\ (\E close \in BOOLEAN : OnReadRefused(close))
  <2>1. PICK close \in BOOLEAN : OnReadRefused(close)
    BY <1>2
  <2>2. PICK c \in {"Busy", "LoginFail"} : cb' = Closing(close) \o <<c>>
    BY <2>1 DEF OnReadRefused
  <2>3. cb' = <<c>> \/ cb' = <<"MessageSent", c>>
    <3>1. <<c>> \in Seq(Callbacks)
      BY DEF Callbacks
    <3> QED BY <2>2, <3>1, ClosingFirst, OneBeforeOne
  <2>4. Reports' = <<c>>
    BY <2>3, ReportsOf
  <2>5. state \in {"CONNECTED", "SIGNING_IN"} /\ sm_running' = sm_running
    BY <1>2 DEF OnRead, is_logined, LinkInv, MeshInv, TypeOK, States
  <2>6. state' = "NOT_CONNECTED"
    BY <2>1 DEF OnReadRefused, Close
  <2> QED BY <2>4, <2>5, <2>6, LostStep
<1>3. CASE OnRead /\ (\E close \in BOOLEAN : OnReadAccepted(close))
  <2>1. PICK close \in BOOLEAN : OnReadAccepted(close)
    BY <1>3
  <2>2. PICK peers \in {<<>>, <<"PeerConnected">>} :
           cb' = Closing(close) \o (IF my_id = NoId THEN <<"SignedIn">> \o peers ELSE <<>>)
    BY <2>1 DEF OnReadAccepted
  <2>3. sm_running' = sm_running
    BY <1>3 DEF OnRead
  <2>4. CASE my_id # NoId
    <3>1. cb' \in {<<>>, <<"MessageSent">>}
      <4>1. cb' = Closing(close) \o <<>>
        BY <2>2, <2>4
      <4>2. Closing(close) \in Seq(Callbacks)
        BY CallbackLists DEF Closing, Callbacks
      <4>3. cb' = Closing(close)
        BY <4>1, <4>2, ConcatEmptySeq
      <4> QED BY <4>3 DEF Closing
    <3>2. CASE state = "SIGNING_IN"
      <4>1. state' = "CONNECTED"
        BY <2>1, <3>2 DEF OnReadAccepted
      <4>2. LinkOf = "trying" /\ LinkOf' = "on" /\ Reports' = <<>>
        BY <3>1, <3>2, <4>1, ReportsOf, LinkOfState
      <4> QED BY <2>3, <4>2 DEF LinkStep, Link!Next, Link!SignedIn, Link!Vanish
    <3>3. CASE state # "SIGNING_IN"
      BY <2>1, <2>3, <3>1, <3>3, QuietStep DEF OnReadAccepted
    <3> QED BY <3>2, <3>3
  <2>5. CASE my_id = NoId
    <3>1. state = "SIGNING_IN"
      BY <1>3, <2>5 DEF OnRead, is_logined, LinkInv, MeshInv, HasId, TypeOK, States
    <3>2. state' = "CONNECTED"
      BY <2>1, <3>1 DEF OnReadAccepted
    <3>3. \/ cb' = <<"SignedIn">> \/ cb' = <<"SignedIn", "PeerConnected">>
          \/ cb' = <<"MessageSent", "SignedIn">> \/ cb' = <<"MessageSent", "SignedIn", "PeerConnected">>
      <4> DEFINE news == <<"SignedIn">> \o peers
      <4>1. cb' = Closing(close) \o news
        BY <2>2, <2>5
      <4>2. news = <<"SignedIn">> \/ news = <<"SignedIn", "PeerConnected">>
        <5>1. CASE peers = <<>>
          <6>1. <<"SignedIn">> \in Seq(Callbacks)
            BY DEF Callbacks
          <6> QED BY <5>1, <6>1, ConcatEmptySeq
        <5>2. CASE peers = <<"PeerConnected">>
          BY <5>2, OneBeforeOne
        <5> QED BY <5>1, <5>2
      <4>3. news \in Seq(Callbacks)
        <5>1. <<"SignedIn">> \in Seq(Callbacks) /\ <<"PeerConnected">> \in Seq(Callbacks)
          BY DEF Callbacks
        <5> QED BY <5>1, CallbackLists
      <4> HIDE DEF news
      <4>4. cb' = news \/ cb' = <<"MessageSent">> \o news
        BY <4>1, <4>3, ClosingFirst
      <4>5. CASE news = <<"SignedIn">>
        BY <4>4, <4>5, OneBeforeOne
      <4>6. CASE news = <<"SignedIn", "PeerConnected">>
        BY <4>4, <4>6, OneBeforeTwo
      <4> QED BY <4>2, <4>5, <4>6
    <3>4. Reports' = <<"SignedIn">> \/ Reports' = <<"SignedIn", "PeerConnected">>
      BY <3>3, ReportsOf
    <3>5. LinkOf = "trying" /\ LinkOf' = "on"
      BY <3>1, <3>2, LinkOfState
    <3> QED BY <2>3, <3>4, <3>5 DEF LinkStep, Link!Next, Link!SignedIn, Link!Vanish
  <2> QED BY <2>4, <2>5
<1>4. CASE OnCloseRefused \/ OnCloseError \/ OnCloseDone
  BY <1>4, QuietStep DEF OnCloseRefused, OnCloseError, OnCloseDone
<1>5. ~OnConnectShort
  BY DEF OnConnectShort
<1> QED BY <1>1, <1>2, <1>3, <1>4, <1>5 DEF ControlEvent, OnRead

(***************************************************************************)
(* The hanging GET brings news while the link is on, and tells of its end. *)
(***************************************************************************)
LEMMA HangingGetLink == ASSUME LinkInv, HangingGetEvent, "short" \notin faults PROVE LinkStep
<1>1. state = "CONNECTED"
  BY DEF HangingGetEvent, OnHangingGetConnect, OnHangingGetRead, OnHangingGetRefused,
         OnHangingGetClose, OnHangingGetCloseRefused, LinkInv, Waiting
<1>2. CASE OnHangingGetConnect \/ OnHangingGetClose
  BY <1>2, QuietStep DEF OnHangingGetConnect, OnHangingGetClose
<1>3. CASE OnHangingGetRead
  <2>1. PICK what \in {"PeerDisconnected", "PeerMessage", "PeerConnected"} : cb' = <<what>>
    BY <1>3 DEF OnHangingGetRead
  <2>2. UNCHANGED <<state, sm_running>>
    BY <1>3 DEF OnHangingGetRead
  <2>3. Reports' = <<what>> /\ LinkOf' = LinkOf /\ LinkOf = "on"
    BY <1>1, <2>1, <2>2, ReportsOf, LinkOfState DEF LinkOf
  <2> QED BY <2>2, <2>3 DEF LinkStep, Link!Next, Link!Notify, Link!Vanish
<1>4. CASE OnHangingGetRefused \/ OnHangingGetCloseRefused
  <2>1. cb' = <<"LoginFail">> \/ cb' = <<"DisconnInd">>
    BY <1>4 DEF OnHangingGetRefused, OnHangingGetCloseRefused
  <2>2. Reports' \in {<<"LoginFail">>, <<"DisconnInd">>}
    BY <2>1, ReportsOf
  <2>3. state' = "NOT_CONNECTED" /\ sm_running' = sm_running
    BY <1>4 DEF OnHangingGetRefused, OnHangingGetCloseRefused, Close
  <2> QED BY <1>1, <2>2, <2>3, LostStep
<1> QED BY <1>2, <1>3, <1>4 DEF HangingGetEvent

\* A delayed message signs a client in that is wanted, and leaves any other alone.
LEMMA OnMessageLink == ASSUME LinkInv, OnMessage PROVE LinkStep
<1>1. CASE sm_running
  <2>1. PICK ok \in ConnectResults : DoConnect(ok)
    BY <1>1 DEF OnMessage
  <2>2. ok \in BOOLEAN
    BY DEF ConnectResults
  <2>3. Link!Retry
    BY <1>1, <2>1, <2>2, DoConnectReports DEF OnMessage, Link!Retry
  <2> QED BY <2>1, <2>2, <2>3, DoConnectReports DEF LinkStep, Link!Next
<1>2. CASE ~sm_running
  BY <1>2, QuietStep DEF OnMessage
<1> QED BY <1>1, <1>2

(***************************************************************************)
(* The client is the link the controller counts on: what it does, and what *)
(* it tells, is a step of MeshLink, and the link is never taken away in    *)
(* silence but by a Connect that fails at once.                            *)
(***************************************************************************)
THEOREM Implementation == Spec => ImplementsLink
<1>1. Init => LinkInv /\ Link!Init
  <2> SUFFICES ASSUME Init PROVE LinkInv /\ Link!Init
    OBVIOUS
  <2>1. LinkInv
    BY InitMeshInv DEF Init, LinkInv, Waiting
  <2>2. Link!Init
    BY DEF Init, Link!Init, LinkOf, Reports
  <2> QED BY <2>1, <2>2
<1>2. LinkInv /\ [Next]_vars => LinkInv'
  BY NextMeshInv, NextWaiting DEF LinkInv
<1>3. LinkInv /\ [Next]_vars =>
          [\/ "short" \in faults
           \/ Link!Next /\ (Link!Vanish => "sync" \in faults)]_(Link!vars)
  <2> SUFFICES ASSUME LinkInv, [Next]_vars, "short" \notin faults
               PROVE  LinkStep \/ UNCHANGED Link!vars
    BY DEF LinkStep
  <2>1. CASE UNCHANGED vars
    BY <2>1 DEF vars, client, Link!vars, LinkOf, Reports
  <2>2. CASE ServerStep
    BY <2>2, QuietStep DEF ServerStep, client
  <2> QED BY <2>1, <2>2, UpperLink, ControlLink, HangingGetLink, OnMessageLink DEF Next
<1> QED BY <1>1, <1>2, <1>3, PTL DEF Spec, ImplementsLink
=============================================================================
