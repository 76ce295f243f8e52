------------------------- MODULE PeerConnectionMesh -------------------------
(***************************************************************************)
(* peer_connection_mesh.cc: the client of the mesh signalling server.  It  *)
(* signs in over a control socket, then keeps a hanging GET open for       *)
(* notifications, and retries refused connections after kReconnectDelay.   *)
(* Everything here runs in the rtc thread: calls from above (StartLogin,   *)
(* DisconnectFromServer, SendToPeer), socket events and delayed messages.  *)
(* cb is the list of callbacks the last step made to its observer.         *)
(*                                                                         *)
(* The signalling server is external: it hands out ids, forgets clients    *)
(* when it likes and may be down, and answers a request when it gets it.   *)
(***************************************************************************)
EXTENDS Integers, Sequences, FiniteSets

CONSTANTS
    Ids,         \* client ids the server hands out
    MaxRetry,    \* bound: delayed messages counted
    FaultSets    \* the environments considered, each a set of faults

NoId == -1

ASSUME MaxRetryAssumption == MaxRetry \in Nat \ {0}
ASSUME IdsAssumption == NoId \notin Ids /\ IsFiniteSet(Ids)

\* What may go wrong: a control connection refused (ECONNREFUSED) or ended by any
\* other error, a Connect() that fails at once (no route), a Send() that takes
\* only part of a request.
Faults == {"refused", "other", "sync", "short"}
ASSUME FaultsAssumption == FaultSets \subseteq SUBSET Faults

VARIABLES
    state,      \* state_
    my_id,      \* my_id_
    sm_running, \* sm_running
    ctl,        \* control_socket_: "closed", "connecting" or "open"
    hget,       \* hanging_get_: likewise
    onconnect,  \* the request in onconnect_data_ and the id it carries
    wait_id,    \* the id the hanging GET waits for
    retry,      \* delayed messages pending for OnMessage
    cb,         \* callbacks made by the last step
    srv_up,     \* the server accepts connections
    regs,       \* ids the server holds for this client
    reply,      \* its answer on the control connection, not yet read
    faults      \* the faults of this environment; it never changes

client == <<state, my_id, sm_running, ctl, hget, onconnect, wait_id, retry>>
server == <<srv_up, regs, reply>>
vars == <<client, cb, server, faults>>

States == {"NOT_CONNECTED", "SIGNING_IN", "CONNECTED", "SIGNING_OUT"}
Sockets == {"closed", "connecting", "open"}
NoRequest == <<"", NoId>>
Requests == {"sign_in", "message", "sign_out"} \X (Ids \cup {NoId})
Answers == [status : {"ok", "busy", "error"}, id : Ids \cup {NoId}]
NoReply == [status |-> "none", id |-> NoId]
Callbacks == {"SignFailed", "SignedIn", "Busy", "LoginFail", "DisconnInd", "MessageSent",
              "PeerConnected", "PeerDisconnected", "PeerMessage"}

is_logined == state \notin {"NOT_CONNECTED", "SIGNING_OUT"}

Init ==
    /\ state = "NOT_CONNECTED"
    /\ my_id = NoId
    /\ sm_running = FALSE
    /\ ctl = "closed"
    /\ hget = "closed"
    /\ onconnect = NoRequest
    /\ wait_id = NoId
    /\ retry = 0
    /\ cb = <<>>
    /\ srv_up \in BOOLEAN
    /\ regs = {}
    /\ reply = NoReply
    /\ faults \in FaultSets

\* Outcomes of Connect() on a socket: success is later reported by an event.
ConnectResults == IF "sync" \in faults THEN BOOLEAN ELSE {TRUE}

-----------------------------------------------------------------------------
(* Methods shared by the handlers below, as conjuncts of their actions.      *)

\* Close: both sockets, the pending request and the id go.
Close ==
    /\ ctl' = "closed"
    /\ hget' = "closed"
    /\ onconnect' = NoRequest
    /\ my_id' = NoId
    /\ state' = "NOT_CONNECTED"
    /\ reply' = NoReply

PostDelayed == retry' = IF retry < MaxRetry THEN retry + 1 ELSE retry

\* ConnectControlSocket with a request; a failure closes everything.
ConnectControlSocket(ok, request, st, id, hg) ==
    IF ok
    THEN /\ ctl' = "connecting"
         /\ onconnect' = request
         /\ state' = st
         /\ my_id' = id
         /\ hget' = hg
         /\ reply' = NoReply
    ELSE Close

\* Mutant: the hanging GET of the old session is kept.
DoConnectKeepWaiting(ok) ==
    /\ ConnectControlSocket(ok, <<"sign_in", NoId>>, "SIGNING_IN",
                            IF state = "SIGNING_IN" THEN NoId ELSE my_id, hget)
    /\ cb' = IF ok THEN <<>> ELSE <<"SignFailed">>

\* DoConnect: fresh sockets and a sign_in request.  Only from SIGNING_IN is the
\* old session closed first, which is what forgets its id.
DoConnect(ok) ==
    /\ ConnectControlSocket(ok, <<"sign_in", NoId>>, "SIGNING_IN",
                            IF state = "SIGNING_IN" THEN NoId ELSE my_id, "closed")
    /\ cb' = IF ok THEN <<>> ELSE <<"SignFailed">>

\* hanging_get_->Connect, whose result nobody looks at.
ConnectHangingGet == \E ok \in ConnectResults : hget' = IF ok THEN "connecting" ELSE "closed"

-----------------------------------------------------------------------------
(* Calls from ConnCtrl, through Conductor.                                   *)

\* StartLogin, Start and Connect.
StartLogin ==
    /\ ~is_logined
    /\ sm_running' = TRUE
    /\ \E ok \in ConnectResults : DoConnect(ok)
    /\ UNCHANGED <<retry, srv_up, regs, wait_id, faults>>

\* Connect refuses an empty server name; OnMeshServerConnectionFailure runs
\* OnMeshSignFailed and ServerConnFailed.
StartLoginNoServer ==
    /\ ~is_logined
    /\ sm_running' = TRUE
    /\ my_id' = NoId
    /\ state' = "NOT_CONNECTED"
    /\ cb' = <<"SignFailed">>
    /\ UNCHANGED <<ctl, hget, onconnect, retry, server, wait_id, faults>>

\* Mutant: sign_out is left until the request under way is answered.
SignOutWaiting ==
    /\ state' = IF ctl = "closed" THEN "SIGNING_OUT" ELSE "SIGNING_OUT_WAITING"
    /\ hget' = "closed"
    /\ UNCHANGED <<my_id, ctl, onconnect, reply>>

\* SignOut: with the control socket idle it says sign_out to the server, else it
\* just drops the connection.
SignOut ==
    IF ctl # "closed" THEN Close
    ELSE IF my_id = NoId
    THEN /\ state' = "SIGNING_OUT"
         /\ hget' = "closed"
         /\ UNCHANGED <<my_id, ctl, onconnect, reply>>
    ELSE \E ok \in ConnectResults :
            ConnectControlSocket(ok, <<"sign_out", my_id>>, "SIGNING_OUT", NoId, "closed")

\* DisconnectFromServer: SignOut or Close, then Stop.
DisconnectFromServer ==
    /\ IF is_logined THEN SignOut ELSE Close
    /\ sm_running' = FALSE
    /\ cb' = <<>>
    /\ UNCHANGED <<retry, srv_up, regs, wait_id, faults>>

\* SendToPeer.  It reports success without sending when a request is under way
\* (UIThreadCallback asks IsSendingMessage first; SendHangUp does not).
SendToPeer ==
    /\ state = "CONNECTED"
    /\ ctl = "closed"
    /\ \E ok \in ConnectResults :
          ConnectControlSocket(ok, <<"message", my_id>>, "CONNECTED", my_id, hget)
    /\ cb' = <<>>
    /\ UNCHANGED <<sm_running, retry, srv_up, regs, wait_id, faults>>

-----------------------------------------------------------------------------
(* Control socket events.                                                    *)

\* The server's answer to a request it has just received.
Answer(request, id) ==
    \/ /\ request = "sign_in"
       /\ \E new \in Ids \ regs :
             /\ regs' = regs \cup {new}
             /\ reply' = [status |-> "ok", id |-> new]
    \/ /\ request = "sign_in"
       /\ UNCHANGED regs
       /\ \E s \in {"busy", "error"} : reply' = [status |-> s, id |-> NoId]
    \/ /\ request = "message"
       /\ UNCHANGED regs
       /\ reply' = [status |-> IF id \in regs THEN "ok" ELSE "error", id |-> id]
    \/ /\ request = "sign_out"
       /\ regs' = regs \ {id}
       /\ reply' = [status |-> "ok", id |-> id]

\* OnConnect: the request goes out in one Send.
OnConnect ==
    /\ ctl = "connecting"
    /\ srv_up
    /\ ctl' = "open"
    /\ onconnect' = NoRequest
    /\ Answer(onconnect[1], onconnect[2])
    /\ cb' = <<>>
    /\ UNCHANGED <<state, my_id, sm_running, hget, retry, srv_up, wait_id, faults>>

\* OnConnect with a short Send: the upper layer is told the sign in failed and
\* ServerConnFailed resets the state, but the socket stays.
OnConnectShort ==
    /\ "short" \in faults
    /\ ctl = "connecting"
    /\ srv_up
    /\ ctl' = "open"
    /\ onconnect' = NoRequest
    /\ my_id' = NoId
    /\ state' = "NOT_CONNECTED"
    /\ cb' = <<"SignFailed">>
    /\ UNCHANGED <<sm_running, hget, retry, server, wait_id, faults>>

\* ReadIntoBuffer with "Connection: close" closes the socket and calls OnClose.
Closing(close) == IF close THEN <<"MessageSent">> ELSE <<>>

\* ParseServerResponse on a status other than 200.
OnReadRefused(close) ==
    /\ reply.status \in {"busy", "error"}
    /\ Close
    /\ cb' = Closing(close) \o <<IF reply.status = "busy" THEN "Busy" ELSE "LoginFail">>

\* Mutant: the hanging GET is not opened.
OnReadAcceptedDeaf(close) ==
    /\ reply.status = "ok"
    /\ reply' = NoReply
    /\ ctl' = IF close THEN "closed" ELSE "open"
    /\ my_id' = IF my_id = NoId THEN reply.id ELSE my_id
    /\ state' = IF state = "SIGNING_IN" THEN "CONNECTED" ELSE state
    /\ cb' = Closing(close) \o (IF my_id = NoId THEN <<"SignedIn">> ELSE <<>>)
    /\ UNCHANGED <<onconnect, hget>>

\* The first answer of a session carries the id; a client that still has one
\* keeps it.  Either way a client that was signing in is now connected and opens
\* its hanging GET.
OnReadAccepted(close) ==
    /\ reply.status = "ok"
    /\ reply' = NoReply
    /\ ctl' = IF close THEN "closed" ELSE "open"
    /\ my_id' = IF my_id = NoId THEN reply.id ELSE my_id
    /\ IF state = "SIGNING_IN"
       THEN state' = "CONNECTED" /\ ConnectHangingGet
       ELSE UNCHANGED <<state, hget>>
    /\ \E peers \in {<<>>, <<"PeerConnected">>} :
          cb' = Closing(close) \o (IF my_id = NoId THEN <<"SignedIn">> \o peers ELSE <<>>)
    /\ UNCHANGED onconnect

\* OnRead ignores what it gets while not connected or signing out.
OnRead ==
    /\ ctl = "open"
    /\ reply # NoReply
    /\ is_logined
    /\ \E close \in BOOLEAN : OnReadRefused(close) \/ OnReadAccepted(close)
    /\ UNCHANGED <<sm_running, retry, srv_up, regs, wait_id, faults>>

\* Mutant: no retry is posted.
OnCloseRefusedSilently ==
    /\ "refused" \in faults
    /\ ctl = "connecting"
    /\ ~srv_up
    /\ ctl' = "closed"
    /\ cb' = <<>>
    /\ UNCHANGED <<state, my_id, sm_running, hget, onconnect, retry, server, wait_id, faults>>

\* OnClose on the control socket, for a refused connection: retry in 2 seconds.
OnCloseRefused ==
    /\ "refused" \in faults
    /\ ctl = "connecting"
    /\ ~srv_up
    /\ ctl' = "closed"
    /\ IF sm_running THEN PostDelayed ELSE UNCHANGED retry
    /\ cb' = <<>>
    /\ UNCHANGED <<state, my_id, sm_running, hget, onconnect, server, wait_id, faults>>

\* OnClose on the control socket for any other error, before the answer.
OnCloseError ==
    /\ "other" \in faults
    /\ ctl # "closed"
    /\ ctl' = "closed"
    /\ reply' = NoReply
    /\ cb' = <<"MessageSent">>
    /\ UNCHANGED <<state, my_id, sm_running, hget, onconnect, retry, srv_up, regs, wait_id, faults>>

\* OnClose when the server closes a connection whose answer was read, or that
\* the client is not reading.
OnCloseDone ==
    /\ ctl = "open"
    /\ reply = NoReply \/ ~is_logined
    /\ ctl' = "closed"
    /\ reply' = NoReply
    /\ cb' = <<"MessageSent">>
    /\ UNCHANGED <<state, my_id, sm_running, hget, onconnect, retry, srv_up, regs, wait_id, faults>>

-----------------------------------------------------------------------------
(* Hanging GET events.                                                       *)

OnHangingGetConnect ==
    /\ hget = "connecting"
    /\ srv_up
    /\ hget' = "open"
    /\ wait_id' = my_id
    /\ cb' = <<>>
    /\ UNCHANGED <<state, my_id, sm_running, ctl, onconnect, retry, server, faults>>

\* The socket is connected again whenever it is found closed in CONNECTED.
Reconnect == IF state = "CONNECTED" THEN ConnectHangingGet ELSE hget' = "closed"

\* A notification for an id the server holds: a member came or went, a message or
\* its BYE.  A client that lost its id takes the former two for messages.
OnHangingGetRead ==
    /\ hget = "open"
    /\ wait_id \in regs
    /\ hget' = "open" \/ Reconnect
    /\ \E what \in {"PeerDisconnected", "PeerMessage"}
                    \cup (IF my_id = wait_id THEN {"PeerConnected"} ELSE {}) :
          cb' = <<what>>
    /\ UNCHANGED <<state, my_id, sm_running, ctl, onconnect, retry, server, wait_id, faults>>

\* The server no longer knows the id: ParseServerResponse closes everything.
OnHangingGetRefused ==
    /\ hget = "open"
    /\ wait_id \notin regs
    /\ Close
    /\ cb' = <<"LoginFail">>
    /\ UNCHANGED <<sm_running, retry, srv_up, regs, wait_id, faults>>

OnHangingGetClose ==
    /\ hget # "closed"
    /\ Reconnect
    /\ cb' = <<>>
    /\ UNCHANGED <<state, my_id, sm_running, ctl, onconnect, retry, server, wait_id, faults>>

\* Mutant: the upper layer is not told.
OnHangingGetCloseSilently ==
    /\ hget = "connecting"
    /\ ~srv_up
    /\ Close
    /\ cb' = <<>>
    /\ PostDelayed
    /\ UNCHANGED <<sm_running, srv_up, regs, wait_id, faults>>

\* A refused hanging GET: the session is over and is retried.
OnHangingGetCloseRefused ==
    /\ hget = "connecting"
    /\ ~srv_up
    /\ Close
    /\ cb' = <<"DisconnInd">>
    /\ PostDelayed
    /\ UNCHANGED <<sm_running, srv_up, regs, wait_id, faults>>

-----------------------------------------------------------------------------
\* Mutant: the delayed message is obeyed after Stop.
OnMessageStopped ==
    /\ retry > 0
    /\ retry' = retry - 1
    /\ \E ok \in ConnectResults : DoConnect(ok)
    /\ UNCHANGED <<sm_running, srv_up, regs, wait_id, faults>>

\* The delayed message; a stopped client ignores it.
OnMessage ==
    /\ retry > 0
    /\ retry' = retry - 1
    /\ IF sm_running
       THEN \E ok \in ConnectResults : DoConnect(ok)
       ELSE cb' = <<>> /\ UNCHANGED <<state, my_id, ctl, hget, onconnect, reply>>
    /\ UNCHANGED <<sm_running, srv_up, regs, wait_id, faults>>

\* The server goes down or comes back, or drops a client.
ServerStep ==
    /\ \/ srv_up' = ~srv_up /\ UNCHANGED regs
       \/ /\ UNCHANGED srv_up
          /\ \E id \in regs : regs' = regs \ {id}
    /\ cb' = <<>>
    /\ UNCHANGED <<client, reply, faults>>

Upper == StartLogin \/ StartLoginNoServer \/ DisconnectFromServer \/ SendToPeer
ControlEvent == OnConnect \/ OnConnectShort \/ OnRead \/ OnCloseRefused \/ OnCloseError \/ OnCloseDone
HangingGetEvent ==
    \/ OnHangingGetConnect \/ OnHangingGetRead \/ OnHangingGetRefused
    \/ OnHangingGetClose \/ OnHangingGetCloseRefused

Next == Upper \/ ControlEvent \/ HangingGetEvent \/ OnMessage \/ ServerStep

Spec == Init /\ [][Next]_vars

\* The rtc thread serves socket events and delayed messages; the server, while it
\* is up, answers.
FairSpec ==
    /\ Spec
    /\ WF_vars(ControlEvent)
    /\ WF_vars(OnMessage)
    /\ WF_vars(OnHangingGetConnect)

-----------------------------------------------------------------------------
(* Properties *)

\* The variables stay within their types.
TypeOK ==
    /\ state \in States
    /\ my_id \in Ids \cup {NoId}
    /\ sm_running \in BOOLEAN
    /\ ctl \in Sockets
    /\ hget \in Sockets
    /\ onconnect \in Requests \cup {NoRequest}
    /\ wait_id \in Ids \cup {NoId}
    /\ retry \in 0 .. MaxRetry
    /\ cb \in Seq(Callbacks)
    /\ srv_up \in BOOLEAN
    /\ regs \subseteq Ids
    /\ reply \in Answers \cup {NoReply}
    /\ faults \in FaultSets

\* The assertions of OnConnect (onconnect_data_ is not empty) and of OnRead (the
\* hanging GET is closed when a sign in completes), after any reconnection.
Assertions ==
    /\ ctl = "connecting" => onconnect # NoRequest
    /\ state = "SIGNING_IN" => hget = "closed"

\* A connected client has an id and is waiting for notifications, or is on its
\* way to: it is never deaf.  (The result of hanging_get_->Connect is not looked
\* at, so a Connect that fails at once is the exception.)
Listening ==
    "sync" \notin faults => (state = "CONNECTED" => my_id # NoId /\ hget # "closed")

\* After DisconnectFromServer no pending retry or late event signs the client in
\* again.
LoggedOutStaysOut == ~sm_running => state \in {"NOT_CONNECTED", "SIGNING_OUT"}

\* "PeerConnectionMesh will relogin if failed" (conn_ctrl.cc): a sign in whose
\* connection is gone has a retry coming.
RetryArmed == state = "SIGNING_IN" /\ ctl = "closed" => retry > 0

\* It has one whatever goes wrong but a connection that ends in another error than
\* ECONNREFUSED.
RefusedRetried == "other" \notin faults => RetryArmed

\* Once the server stays up, a sign in ends: accepted, refused or abandoned; with
\* the same exception.
SignInEnds ==
    "other" \notin faults /\ <>[]srv_up => (state = "SIGNING_IN" ~> state # "SIGNING_IN")

\* What the controller is told: OnMessageSent only ends a wait for the socket, and is
\* the first callback of a step if it is one.
Reports == IF cb # <<>> /\ Head(cb) = "MessageSent" THEN Tail(cb) ELSE cb
LinkOf == CASE state = "SIGNING_IN" -> "trying"
            [] state = "CONNECTED" -> "on"
            [] OTHER -> "off"

Link == INSTANCE MeshLink WITH link <- LinkOf, wanted <- sm_running, report <- Reports

\* To the controller the client is the abstract link.  A short Send of a message
\* resets the state and keeps both sockets: what such a client says is not promised.
\* Nothing but a message whose Connect fails at once takes the link away in silence.
ImplementsLink ==
    /\ Link!Init
    /\ [][\/ "short" \in faults
          \/ Link!Next /\ (Link!Vanish => "sync" \in faults)]_(Link!vars)
=============================================================================
