------------------------------ MODULE RtcClient ------------------------------
(***************************************************************************)
(* peer_connection_client.cc: the client of the rtc server.  The rtc       *)
(* thread calls its commands and, every pass, HttpProcess and              *)
(* WebsocketProcess; the HTTP thread (http_thread.c) posts one request at  *)
(* a time between two rings; the session (WsSession models its threads)    *)
(* is a connection that breaks at any time.                                *)
(*                                                                         *)
(* A websocket message is one of Whole, or comes in pieces: a "head",      *)
(* "mid"s and a "tail"; "scrap" is a piece that cannot be used, the bytes  *)
(* put for a PONG or what is left of a message that lost pieces when the   *)
(* session's ring was full.  The rings' reports of configuration and       *)
(* capabilities only take room.                                            *)
(***************************************************************************)
EXTENDS Integers, Sequences, SequencesExt

CONSTANTS
    HttpNum,  \* HTTP_MSG_MAX_NUM
    MaxLost,  \* heartbeat_lost_max
    MaxFrag   \* max_frag_num

ASSUME HttpNumAssumption == HttpNum \in Nat \ {0, 1}
ASSUME MaxLostAssumption == MaxLost \in Nat \ {0}
ASSUME MaxFragAssumption == MaxFrag \in Nat

VARIABLES
    conn_starting, \* conn_starting
    login_ok,      \* login_ok
    session,       \* websocket_id_: "none" for -1; else its session is "up" or "down"
    called,        \* call_event_id_ # ""
    peer_inner,    \* peer_server_type_ = 1
    lost,          \* websocket_heartbeat_lost_
    data,          \* websocket_data_: "", the start of a message, or "junk"
    frags,         \* ws_data_count_
    out, inq,      \* queue_out and queue_in of the HTTP thread
    work,          \* the request it is at
    inbox,         \* the next piece in the session's queue_in
    splitting,     \* the server is half way through a message
    asked,         \* the server has the last heartbeat and has not answered it
    serving,       \* the server answers
    due,           \* history: heartbeats due in this session, up to MaxLost
    said           \* callbacks of the last step

Requests == {"login", "push"}
Whole == {"beat", "call", "close", "cfg", "other"}
Pieces == Whole \cup {"head", "mid", "tail", "scrap"}

http == <<out, work, inq>>
received == <<data, frags>>
server == <<inbox, splitting, asked, serving>>
beats == <<lost, due>>
state == <<conn_starting, login_ok, session, called, peer_inner>>
vars == <<state, beats, received, http, server, said>>

Init ==
    /\ conn_starting = FALSE
    /\ login_ok = FALSE
    /\ session = "none"
    /\ called = FALSE
    /\ peer_inner = FALSE
    /\ lost = 0 /\ due = 0
    /\ data = "" /\ frags = 0
    /\ out = <<>> /\ work = "none" /\ inq = <<>>
    /\ inbox = "none" /\ splitting = FALSE /\ asked = FALSE
    /\ serving \in BOOLEAN
    /\ said = <<>>

-----------------------------------------------------------------------------
(* The upper layer's calls.                                                  *)

\* http_msg_enqueue, whose result nobody looks at: the ring may be full, with
\* reports too.
Enqueue(req) ==
    \/ out' = out
    \/ Len(out) < HttpNum - 1 /\ out' = Append(out, req)

\* LoginInternal
LoginInternal == login_ok' = FALSE /\ Enqueue("login")

\* LoginInternal(1), which does nothing when the last retry is too recent.
LoginRetry(ok) == LoginInternal \/ (login_ok' = ok /\ UNCHANGED out)

Login ==
    /\ conn_starting' = TRUE
    /\ LoginInternal
    /\ said' = <<>>
    /\ UNCHANGED <<session, called, peer_inner, beats, received, work, inq, server>>

\* Logout leaves the session of a client that is not logged in alone.
Logout ==
    /\ conn_starting
    /\ conn_starting' = FALSE
    /\ \/ /\ login_ok
          /\ login_ok' = FALSE
          /\ called' = FALSE
          /\ session' = "none"
          /\ inbox' = "none" /\ splitting' = FALSE /\ asked' = FALSE
       \/ /\ ~login_ok
          /\ UNCHANGED <<login_ok, called, session, inbox, splitting, asked>>
    /\ said' = <<>>
    /\ UNCHANGED <<peer_inner, beats, received, http, serving>>

\* The inner server needs no login.  StreamClose's request comes before.
SdpMessageSend ==
    /\ login_ok' = (login_ok \/ peer_inner)
    /\ IF login_ok' THEN Enqueue("push") ELSE UNCHANGED out
    /\ said' = <<>>
    /\ UNCHANGED <<conn_starting, session, called, peer_inner, beats, received, work, inq, server>>

SetPeerServerType ==
    /\ peer_inner' \in BOOLEAN
    /\ said' = <<>>
    /\ UNCHANGED <<conn_starting, login_ok, session, called, beats, received, http, server>>

WebrtcStreamClean ==
    /\ called' = FALSE
    /\ said' = <<>>
    /\ UNCHANGED <<conn_starting, login_ok, session, peer_inner, beats, received, http, server>>

-----------------------------------------------------------------------------
(* The HTTP thread.                                                          *)

HttpTake ==
    /\ work = "none" /\ out # <<>>
    /\ work' = Head(out)
    /\ out' = Tail(out)
    /\ said' = <<>>
    /\ UNCHANGED <<state, beats, received, inq, server>>

\* The answer is put in queue_in when there is one, with room for it.
HttpDone ==
    /\ work # "none"
    /\ work' = "none"
    /\ \/ inq' = inq
       \/ serving /\ Len(inq) < HttpNum - 1 /\ inq' = Append(inq, work)
    /\ said' = <<>>
    /\ UNCHANGED <<state, beats, received, out, server>>

-----------------------------------------------------------------------------
(* HttpProcess                                                               *)

\* Mutant: the count of the last session goes on.
WebsocketConnectCounting ==
    /\ session' \in {"up", "none"}
    /\ due' = 0
    /\ inbox' = "none" /\ splitting' = FALSE /\ asked' = FALSE
    /\ data' = IF data = "" THEN "" ELSE "junk"
    /\ UNCHANGED lost

\* WebsocketConnect: the old session stops, and its messages go; the start of one
\* in websocket_data_ stays and fits nothing the new session brings.  There may be
\* no slot for the new one.
WebsocketConnect ==
    /\ session' \in {"up", "none"}
    /\ lost' = 0 /\ due' = 0
    /\ inbox' = "none" /\ splitting' = FALSE /\ asked' = FALSE
    /\ data' = IF data = "" THEN "" ELSE "junk"

\* HttpLoginProcess, for any login that is not answered yet.
LoginAnswered ==
    /\ inq # <<>> /\ Head(inq) = "login"
    /\ conn_starting /\ ~login_ok
    /\ inq' = Tail(inq)
    /\ login_ok' = TRUE
    /\ WebsocketConnect
    /\ said' = <<"LOGINED">>
    /\ UNCHANGED <<conn_starting, called, peer_inner, frags, out, work, serving>>

\* An answer that nobody waits for, or that says no.
AnswerDiscarded ==
    /\ inq # <<>>
    /\ inq' = Tail(inq)
    /\ said' = <<>>
    /\ UNCHANGED <<state, beats, received, out, work, server>>

\* HttpSdpMsgProcess: the conductor takes the media server's answer, or not.
HttpSdpMsgProcess ==
    /\ inq # <<>> /\ Head(inq) = "push"
    /\ inq' = Tail(inq)
    /\ \/ said' = <<"TRACK">> /\ UNCHANGED called
       \/ said' = <<>> /\ called' = FALSE
    /\ UNCHANGED <<conn_starting, login_ok, session, peer_inner, beats, received, out, work, server>>

-----------------------------------------------------------------------------
(* WebsocketProcess: a message.                                              *)

\* Mutant: the loss is kept to oneself.
ReceiveBrokenSilently ==
    /\ session = "down"
    /\ conn_starting \/ login_ok
    /\ said' = <<>>
    /\ IF conn_starting THEN LoginRetry(FALSE) ELSE login_ok' = FALSE /\ UNCHANGED out
    /\ UNCHANGED <<conn_starting, session, called, peer_inner, beats, received, work, inq, server>>

\* The session is gone: the upper layer is told, once, and a new login sent.
ReceiveBroken ==
    /\ session = "down"
    /\ conn_starting \/ login_ok
    /\ said' = IF login_ok THEN <<"LOGOUT">> ELSE <<>>
    /\ IF conn_starting THEN LoginRetry(FALSE) ELSE login_ok' = FALSE /\ UNCHANGED out
    /\ UNCHANGED <<conn_starting, session, called, peer_inner, beats, received, work, inq, server>>

\* A client that was logged out takes what comes and drops it.
ReceiveDiscarded ==
    /\ session = "up" /\ inbox # "none"
    /\ ~conn_starting
    /\ inbox' = "none"
    /\ said' = <<>>
    /\ UNCHANGED <<state, beats, received, http, splitting, asked, serving>>

Overflow == data # "" /\ frags > MaxFrag
Kept == IF Overflow THEN "" ELSE data

\* The messages that a piece makes with what is kept; none if it makes no JSON.
Messages(piece) ==
    CASE Kept = "" /\ piece \in Whole -> {piece}
      [] Kept = "open" /\ piece = "tail" -> {"call", "close", "cfg", "other"}
      [] OTHER -> {}

\* What is received and not closed by an end of its own.
Receive == session = "up" /\ inbox # "none" /\ conn_starting /\ inbox' = "none"

\* Mutant: the pieces are not counted.
ReceivePieceForever ==
    /\ Receive
    /\ Messages(inbox) = {}
    /\ data' = IF <<Kept, inbox>> \in {<<"", "head">>, <<"open", "mid">>} THEN "open" ELSE "junk"
    /\ said' = <<>>
    /\ UNCHANGED <<state, beats, frags, http, splitting, asked, serving>>

\* Mutant: the count goes on after the overflow.
ReceivePieceCounting ==
    /\ Receive
    /\ Messages(inbox) = {}
    /\ frags' = IF data = "" THEN frags ELSE frags + 1
    /\ data' = IF <<Kept, inbox>> \in {<<"", "head">>, <<"open", "mid">>} THEN "open" ELSE "junk"
    /\ said' = <<>>
    /\ UNCHANGED <<state, beats, http, splitting, asked, serving>>

\* A piece is added to what there is, unless that is too long already.
ReceivePiece ==
    /\ Receive
    /\ Messages(inbox) = {}
    /\ frags' = IF data = "" THEN frags ELSE IF Overflow THEN 1 ELSE frags + 1
    /\ data' = IF <<Kept, inbox>> \in {<<"", "head">>, <<"open", "mid">>} THEN "open" ELSE "junk"
    /\ said' = <<>>
    /\ UNCHANGED <<state, beats, http, splitting, asked, serving>>

\* The answer to the last heartbeat.
ReceiveBeat ==
    /\ Receive
    /\ Messages(inbox) = {"beat"}
    /\ lost' = 0
    /\ frags' = IF data = "" THEN frags ELSE 1
    /\ data' = ""
    /\ said' = <<>>
    /\ UNCHANGED <<state, due, http, splitting, asked, serving>>

Handled(message) ==
    /\ Receive
    /\ message \in Messages(inbox)
    /\ frags' = 0
    /\ data' = ""
    /\ UNCHANGED <<conn_starting, login_ok, session, peer_inner, beats, http, splitting, asked,
                   serving>>

\* Mutant: every call is announced.
WebrtcVideoCallAgain == Handled("call") /\ called' = TRUE /\ said' = <<"CALL">>

\* A call while the stream is pushed only changes its id.
WebrtcVideoCall ==
    /\ Handled("call")
    /\ called' = TRUE
    /\ said' = IF called THEN <<>> ELSE <<"CALL">>

WebrtcVideoClose ==
    /\ Handled("close")
    /\ called' = FALSE
    /\ said' = IF called THEN <<"HANGUP">> ELSE <<>>

WebrtcCfgSet ==
    /\ Handled("cfg")
    /\ said' = <<"HANGUP">>
    /\ UNCHANGED called

\* Any other action, and answers to heartbeats before the last.
ReceiveOther ==
    /\ Handled("other")
    /\ said' = <<>>
    /\ UNCHANGED called

-----------------------------------------------------------------------------
(* WebsocketProcess: the heartbeat, when websocket_heartbeat_interval_ has   *)
(* passed.  A message and the heartbeat of one pass are two steps: between  *)
(* them only the session changes, and it may break.                         *)

\* Another pass without an answer: the call and the login are given up.
HeartbeatLost ==
    /\ session # "none" /\ conn_starting
    /\ lost + 1 > MaxLost
    /\ lost' = 0
    /\ due' = MaxLost
    /\ called' = FALSE
    /\ said' = IF called THEN <<"HANGUP", "LOGOUT">> ELSE <<"LOGOUT">>
    /\ LoginRetry(FALSE)
    /\ UNCHANGED <<conn_starting, session, peer_inner, received, work, inq, server>>

HeartbeatDue ==
    /\ session # "none" /\ conn_starting
    /\ lost + 1 <= MaxLost
    /\ due' = IF due < MaxLost THEN due + 1 ELSE due
    /\ inbox' = IF inbox = "beat" THEN "other" ELSE inbox

\* Mutant: what is sent counts as answered.
HeartbeatUncounted ==
    /\ HeartbeatDue
    /\ session = "up"
    /\ lost' = 0
    /\ asked' = TRUE
    /\ said' = <<>>
    /\ UNCHANGED <<state, received, http, splitting, serving>>

\* A new heartbeat; an answer to the one before is too late now.
HeartbeatSent ==
    /\ HeartbeatDue
    /\ session = "up"
    /\ lost' = lost + 1
    /\ asked' = TRUE
    /\ said' = <<>>
    /\ UNCHANGED <<state, received, http, splitting, serving>>

\* It could not be sent: the session has broken, or its ring is full.
HeartbeatFailed ==
    /\ HeartbeatDue
    /\ lost' = lost + 1
    /\ asked' = FALSE
    /\ said' = <<"LOGOUT">>
    /\ LoginRetry(FALSE)
    /\ UNCHANGED <<conn_starting, session, called, peer_inner, received, work, inq, splitting,
                   serving>>

-----------------------------------------------------------------------------
(* The server and the network.                                               *)

SessionBreaks ==
    /\ session = "up"
    /\ session' = "down"
    /\ inbox' = "none" /\ splitting' = FALSE /\ asked' = FALSE
    /\ said' = <<>>
    /\ UNCHANGED <<conn_starting, login_ok, called, peer_inner, beats, received, http, serving>>

ServerAnswers ==
    /\ session = "up" /\ serving /\ asked /\ inbox = "none" /\ ~splitting
    /\ inbox' = "beat"
    /\ asked' = FALSE
    /\ said' = <<>>
    /\ UNCHANGED <<state, beats, received, http, splitting, serving>>

\* A message, or its first piece.
ServerSends ==
    /\ session = "up" /\ serving /\ inbox = "none" /\ ~splitting
    /\ inbox' \in (Whole \ {"beat"}) \cup {"head", "scrap"}
    /\ splitting' = (inbox' = "head")
    /\ said' = <<>>
    /\ UNCHANGED <<state, beats, received, http, asked, serving>>

ServerContinues ==
    /\ session = "up" /\ serving /\ inbox = "none" /\ splitting
    /\ inbox' = "mid"
    /\ said' = <<>>
    /\ UNCHANGED <<state, beats, received, http, splitting, asked, serving>>

ServerEnds ==
    /\ session = "up" /\ serving /\ inbox = "none" /\ splitting
    /\ inbox' \in {"tail", "scrap"}
    /\ splitting' = FALSE
    /\ said' = <<>>
    /\ UNCHANGED <<state, beats, received, http, asked, serving>>

ServerFails ==
    /\ serving' = ~serving
    /\ said' = <<>>
    /\ UNCHANGED <<state, beats, received, http, inbox, splitting, asked>>

-----------------------------------------------------------------------------
Commands == Login \/ Logout \/ SdpMessageSend \/ SetPeerServerType \/ WebrtcStreamClean

HttpThread == HttpTake \/ HttpDone

HttpProcess == LoginAnswered \/ AnswerDiscarded \/ HttpSdpMsgProcess

WebsocketMessageHandle ==
    \/ ReceivePiece \/ ReceiveBeat \/ WebrtcVideoCall \/ WebrtcVideoClose \/ WebrtcCfgSet
    \/ ReceiveOther

WebsocketReceive == ReceiveBroken \/ ReceiveDiscarded \/ WebsocketMessageHandle

Heartbeat == HeartbeatLost \/ HeartbeatSent \/ HeartbeatFailed

World ==
    \/ SessionBreaks \/ ServerAnswers \/ ServerSends \/ ServerContinues \/ ServerEnds
    \/ ServerFails

Next == Commands \/ HttpThread \/ HttpProcess \/ WebsocketReceive \/ Heartbeat \/ World

Spec == Init /\ [][Next]_vars

\* The rtc thread keeps passing through Process, and the interval of the heartbeat
\* keeps passing; none needs to fail.
FairSpec ==
    /\ Spec
    /\ WF_vars(WebsocketReceive)
    /\ WF_vars(HeartbeatLost \/ HeartbeatSent)

-----------------------------------------------------------------------------
(* Properties *)

\* The variables stay within their types; the fragment count never passes its
\* limit by more than the one piece that is added before it is looked at.
TypeOK ==
    /\ {conn_starting, login_ok, called, peer_inner} \subseteq BOOLEAN
    /\ {splitting, asked, serving} \subseteq BOOLEAN
    /\ session \in {"none", "up", "down"}
    /\ lost \in 0..MaxLost /\ due \in 0..MaxLost
    /\ data \in {"", "open", "junk"}
    /\ frags \in 0..(MaxFrag + 1)
    /\ work \in Requests \cup {"none"}
    /\ {out, inq} \subseteq BoundedSeq(Requests, HttpNum - 1)
    /\ inbox \in Pieces \cup {"none"}
    /\ said \in {<<>>, <<"LOGINED">>, <<"LOGOUT">>, <<"HANGUP", "LOGOUT">>, <<"CALL">>,
                 <<"HANGUP">>, <<"TRACK">>}

\* A new session is never charged with heartbeats of the one it replaces: it is
\* given up for lost heartbeats only after MaxLost of its own.
GraceKept == lost <= due

\* A client that is signed in does not stop being so behind the controller's back.
SignOutTold ==
    [][login_ok /\ ~login_ok' => Login \/ Logout \/ (said' # <<>> /\ Last(said') = "LOGOUT")]_vars

\* The client keeps what the controller relies on.
Rtc == INSTANCE RtcLink WITH
    websocket <- session # "none",
    sdp_posted <- work = "push" \/ Contains(out, "push") \/ Contains(inq, "push")
ImplementsLink == Rtc!Init /\ [][Rtc!Next(said')]_vars

\* A server that has gone is noticed: a client that has a session, and is to be
\* logged in, does not believe for ever that it is.
LossNoticed ==
    <>[](~serving) => []<>(~login_ok \/ ~conn_starting \/ session = "none")

\* Whatever a lost piece, a broken session or a PONG left in websocket_data_: once
\* messages come whole, and keep coming, the client gets back in step with them.
Resynced ==
    /\ <>[](inbox \in Whole \cup {"none"})
    /\ []<><<WebsocketMessageHandle>>_vars
    => []<>(data = "")
=============================================================================
