------------------------------- MODULE RtcLink -------------------------------
(***************************************************************************)
(* What the rtc server client (peer_connection_client.cc) promises the     *)
(* connection controller: it signs in, and announces calls and             *)
(* configurations, only while it is wanted; a call is announced once and   *)
(* ends once; a client that was signed in reports that it no longer is.    *)
(* said is the list of callbacks a step makes, as entries of the           *)
(* controller's callback queue.                                            *)
(***************************************************************************)
EXTENDS Sequences

VARIABLES
    conn_starting, \* the upper layer has logged in and not out
    login_ok,      \* signed in, or a call to the inner media server was made
    websocket,     \* there is a session, running or not
    called,        \* the server has asked for the stream
    peer_inner,    \* the media server is the inner one, which needs no login
    sdp_posted     \* an answer to a description may still come

client == <<conn_starting, login_ok, websocket, called, peer_inner, sdp_posted>>

Init ==
    /\ conn_starting = FALSE
    /\ login_ok = FALSE
    /\ websocket = FALSE
    /\ called = FALSE
    /\ peer_inner = FALSE
    /\ sdp_posted = FALSE

-----------------------------------------------------------------------------
(* Calls.                                                                    *)

\* An earlier success is forgotten.
Login ==
    /\ conn_starting' = TRUE
    /\ login_ok' = FALSE
    /\ UNCHANGED <<websocket, called, peer_inner, sdp_posted>>

\* The session of a client that is not logged in is kept.
Logout ==
    /\ conn_starting' = FALSE
    /\ login_ok' = IF conn_starting THEN FALSE ELSE login_ok
    /\ websocket' = IF conn_starting /\ login_ok THEN FALSE ELSE websocket
    /\ called' = IF conn_starting /\ login_ok THEN FALSE ELSE called
    /\ UNCHANGED <<peer_inner, sdp_posted>>

\* A description is sent to the media server; for the inner one the client counts
\* as logged in.  The request may find no room.
SdpMessageSend ==
    /\ login_ok' = (login_ok \/ peer_inner)
    /\ sdp_posted' \in {sdp_posted, sdp_posted \/ login_ok'}
    /\ UNCHANGED <<conn_starting, websocket, called, peer_inner>>

SetPeerServerType(type) ==
    /\ peer_inner' = type
    /\ UNCHANGED <<conn_starting, login_ok, websocket, called, sdp_posted>>

WebrtcStreamClean ==
    /\ called' = FALSE
    /\ UNCHANGED <<conn_starting, login_ok, websocket, peer_inner, sdp_posted>>

-----------------------------------------------------------------------------
(* News.                                                                     *)

\* The answer to a login.  There may be no session to use.
SignedIn(said) ==
    /\ conn_starting
    /\ ~login_ok
    /\ login_ok' = TRUE
    /\ websocket' \in BOOLEAN
    /\ said = <<"LOGINED">>
    /\ UNCHANGED <<conn_starting, called, peer_inner, sdp_posted>>

\* The session broke, or its heartbeats were lost: only then is a call given up.
Lost(said) ==
    /\ websocket
    /\ conn_starting \/ login_ok
    /\ login_ok' = FALSE
    /\ \/ said = <<"LOGOUT">> /\ UNCHANGED called
       \/ said = <<"HANGUP", "LOGOUT">> /\ conn_starting /\ called /\ called' = FALSE
    /\ UNCHANGED <<conn_starting, websocket, peer_inner, sdp_posted>>

\* The server asks for a stream that is not pushed yet.
Called(said) ==
    /\ websocket /\ conn_starting
    /\ ~called
    /\ called' = TRUE
    /\ said = <<"CALL">>
    /\ UNCHANGED <<conn_starting, login_ok, websocket, peer_inner, sdp_posted>>

Closed(said) ==
    /\ websocket /\ conn_starting
    /\ called
    /\ called' = FALSE
    /\ said = <<"HANGUP">>
    /\ UNCHANGED <<conn_starting, login_ok, websocket, peer_inner, sdp_posted>>

\* A new configuration closes the connection and keeps the call.
Configured(said) ==
    /\ websocket /\ conn_starting
    /\ said = <<"HANGUP">>
    /\ UNCHANGED client

\* The media server's answer; one that cannot be used ends the call.
Answered(said, usable) ==
    /\ sdp_posted
    /\ sdp_posted' \in BOOLEAN
    /\ called' = (called /\ usable)
    /\ said = IF usable THEN <<"TRACK">> ELSE <<>>
    /\ UNCHANGED <<conn_starting, login_ok, websocket, peer_inner>>

\* A description or its answer is lost, and nobody is told.
AnswerLost(said) ==
    /\ sdp_posted
    /\ sdp_posted' = FALSE
    /\ said = <<>>
    /\ UNCHANGED <<conn_starting, login_ok, websocket, called, peer_inner>>

News(said) ==
    \/ SignedIn(said) \/ Lost(said) \/ Called(said) \/ Closed(said) \/ Configured(said)
    \/ AnswerLost(said)
    \/ \E usable \in BOOLEAN : Answered(said, usable)

Command ==
    \/ Login \/ Logout \/ SdpMessageSend \/ WebrtcStreamClean
    \/ \E type \in BOOLEAN : SetPeerServerType(type)

\* A step that says something is news; commands are silent.
Next(said) == News(said) \/ (said = <<>> /\ (Command \/ UNCHANGED client))
=============================================================================
