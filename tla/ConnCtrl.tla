------------------------------ MODULE ConnCtrl ------------------------------
(***************************************************************************)
(* conn_ctrl.cc and conductor.cc: the controller that turns commands of    *)
(* the user interface into logins and calls, and the conductor that owns   *)
(* the one WebRTC peer connection.  Two threads share the three command    *)
(* slots and args: the main thread polls AppCmdWaiting and calls           *)
(* AppCmdSet; the rtc thread runs Process, which is a pass through         *)
(* ThreadCallbackHandle, CfgCmdProc, MeshStatusProc and ServerStatusProc,  *)
(* and between passes serves sockets and WebRTC observers.                 *)
(*                                                                         *)
(* Below, the mesh signalling client is the abstract MeshLink that         *)
(* PeerConnectionMesh implements, and peer_connection_client.cc the        *)
(* abstract RtcLink that RtcClient implements.  Queue entries that only    *)
(* carry messages to a mesh peer change none of this state and are left    *)
(* out.                                                                    *)
(* WebRTC's factories are taken to succeed, and video_call_ to be on.      *)
(***************************************************************************)
EXTENDS Integers, Sequences, FiniteSets

CONSTANTS
    Peers,       \* mesh peer ids
    MeshServers, \* mesh server addresses
    RtcServers,  \* rtc server addresses with a port
    UiCmdSets,   \* sets of commands a user may confine itself to in a run
    MaxQueue     \* bound: entries of pending_callback_data_

NoPeer == -1

MeshCmds == {"MESH_LOGIN", "MESH_CONN", "MESH_DISCONN", "MESH_LOGOUT"}
RtcCmds == {"RTC_DISCONN", "RTC_LOGIN", "RTC_LOGOUT", "RTC_HDMI_CALL",
            "DJI_STREAM_NAME_SET", "RTC_DJI_STREAM_STOP"}
CfgCmds == {"MESH_SERVER_SET", "RTC_SERVER_SET", "RTC_MEDIA_SET",
            "SWITCH_TO_RTC_SERVER", "SWITCH_TO_MESH_SERVER"}
InnerCmds == {"RTC_LOGIN_OK", "RTC_LOGOUT_MSG", "RTC_MEDIA_SDP_SEND"}
Addresses == MeshServers \cup RtcServers \cup {""}

ASSUME PeersAssumption == NoPeer \notin Peers /\ IsFiniteSet(Peers)
ASSUME ServersAssumption ==
    MeshServers \cap RtcServers = {} /\ "" \notin MeshServers \cup RtcServers
ASSUME UiCmdSetsAssumption ==
    UiCmdSets \subseteq SUBSET (MeshCmds \cup RtcCmds \cup CfgCmds \cup {"CFG_VIDEO"})
ASSUME MaxQueueAssumption == MaxQueue \in Nat \ {0}

VARIABLES
    mesh_status,   \* mesh_status
    server_status, \* webrtc_server_status
    cfg_cmd,       \* cfg_cmd_, "none" for -1
    upper_cmd,     \* upper_layer_cmd_
    server_cmd,    \* webrtc_server_cmd_
    args,          \* args
    mesh_server,   \* mesh_server_
    rtc_server,    \* rtc_server_
    mesh_peer,     \* mesh_peer_id_
    queue,         \* pending_callback_data_
    pc,            \* peer_connection_: "none", or what it was created for
    sdp_pending,   \* CreateOffer or CreateAnswer under way
    capture,       \* video_device_1 is capturing
    left,          \* history: a mesh logout left this mesh connection as it was
    peer_id,       \* peer_id_
    inner,         \* video_server_type_ = 1
    link, wanted, report,  \* the mesh signalling client
    conn_starting, \* PeerConnectionClient: conn_starting
    login_ok,      \* login_ok
    websocket,     \* websocket_id_ # -1
    called,        \* call_event_id_ # ""
    peer_inner,    \* peer_server_type_ = 1
    sdp_posted,    \* the answer to an offer is awaited (one at a time)
    rpc,           \* position of the rtc thread in Process
    taken,         \* the command CfgCmdProc has taken
    ui,            \* the command the main thread is about to set
    ui_cmds        \* the commands the user interface sends in this run; never changes

slots == <<cfg_cmd, upper_cmd, server_cmd>>
status == <<mesh_status, server_status>>
servers == <<mesh_server, rtc_server>>
call == <<pc, sdp_pending, capture, left>>
conductor == <<call, peer_id, inner>>
mesh == <<link, wanted, report>>
client == <<conn_starting, login_ok, websocket, called, peer_inner, sdp_posted>>
user == <<ui, ui_cmds>>
threads == <<rpc, taken, user>>
vars == <<status, slots, args, servers, mesh_peer, queue, conductor, mesh, client, threads>>

NoCmd == "none"
NoUi == <<NoCmd, "">>

Link == INSTANCE MeshLink
Rtc == INSTANCE RtcLink

Init ==
    /\ mesh_status = "IDLE"
    /\ server_status = "IDLE"
    /\ cfg_cmd = NoCmd /\ upper_cmd = NoCmd /\ server_cmd = NoCmd
    /\ args = ""
    /\ mesh_server \in MeshServers
    /\ rtc_server = "0.0.0.0"
    /\ mesh_peer = NoPeer
    /\ queue = <<>>
    /\ pc = "none" /\ sdp_pending = FALSE /\ capture = FALSE /\ left = FALSE
    /\ peer_id = NoPeer
    /\ inner = FALSE
    /\ Link!Init
    /\ Rtc!Init
    /\ rpc = "cb"
    /\ taken = NoCmd
    /\ ui = NoUi
    /\ ui_cmds \in UiCmdSets

-----------------------------------------------------------------------------
(* The main thread.                                                          *)

AppCmdWaiting == {cfg_cmd, upper_cmd, server_cmd} # {NoCmd}

\* The address a command may carry.
ArgsOf(cmd) ==
    CASE cmd \in {"SWITCH_TO_RTC_SERVER", "RTC_SERVER_SET", "RTC_MEDIA_SET"} -> RtcServers
      [] cmd \in {"SWITCH_TO_MESH_SERVER", "MESH_SERVER_SET"} -> MeshServers
      [] OTHER -> {""}

\* A command is fetched when no slot is taken.  (The three slots are read one by
\* one; since the command is set later still, reading them at once loses nothing.)
FetchCmd ==
    /\ ui = NoUi
    /\ ~AppCmdWaiting
    /\ \E cmd \in ui_cmds : \E arg \in ArgsOf(cmd) : ui' = <<cmd, arg>>
    /\ Link!Quiet
    /\ UNCHANGED <<status, slots, args, servers, mesh_peer, queue, conductor, client, rpc, taken,
                   ui_cmds>>

\* Mutant: the first rtc command is taken for a mesh command.
AppCmdSetOff ==
    /\ ui[1] \notin {NoCmd, "CFG_VIDEO"}
    /\ ui' = NoUi
    /\ args' = IF ui[2] # "" THEN ui[2] ELSE args
    /\ cfg_cmd' = IF ui[1] \in CfgCmds THEN ui[1] ELSE cfg_cmd
    /\ upper_cmd' = IF ui[1] \in MeshCmds \cup {"RTC_DISCONN"} THEN ui[1] ELSE upper_cmd
    /\ server_cmd' = IF ui[1] \in RtcCmds \ {"RTC_DISCONN"} THEN ui[1] ELSE server_cmd
    /\ Link!Quiet
    /\ UNCHANGED <<status, servers, mesh_peer, queue, conductor, client, rpc, taken,
                   ui_cmds>>

\* AppCmdSet puts it in its slot, looking at nothing.
AppCmdSet ==
    /\ ui[1] \notin {NoCmd, "CFG_VIDEO"}
    /\ ui' = NoUi
    /\ args' = IF ui[2] # "" THEN ui[2] ELSE args
    /\ cfg_cmd' = IF ui[1] \in CfgCmds THEN ui[1] ELSE cfg_cmd
    /\ upper_cmd' = IF ui[1] \in MeshCmds THEN ui[1] ELSE upper_cmd
    /\ server_cmd' = IF ui[1] \in RtcCmds THEN ui[1] ELSE server_cmd
    /\ Link!Quiet
    /\ UNCHANGED <<status, servers, mesh_peer, queue, conductor, client, rpc, taken,
                   ui_cmds>>

\* QueueUIThreadCallback, bounded for what comes from outside.
QueueUIThreadCallback(entries) ==
    /\ Len(queue) + Len(entries) <= MaxQueue
    /\ queue' = queue \o entries

\* A new video configuration hangs up first (OnClientHangup).
CfgVideo ==
    /\ ui = <<"CFG_VIDEO", "">>
    /\ ui' = NoUi
    /\ QueueUIThreadCallback(<<"HANGUP">>)
    /\ Link!Quiet
    /\ UNCHANGED <<status, slots, args, servers, mesh_peer, conductor, client, rpc, taken, ui_cmds>>

-----------------------------------------------------------------------------
(* Conductor: the call.                                                      *)

\* InitializePeerConnection, whose AddTracks starts the capture, then CreateOffer or
\* CreateAnswer.
InitializePeerConnection(kind, sdp) ==
    pc' = kind /\ sdp_pending' = sdp /\ capture' = TRUE /\ left' = FALSE

\* A pending offer goes with the connection; the capture goes on.
DeletePeerConnection == pc' = "none" /\ sdp_pending' = FALSE /\ left' = FALSE

\* video_device_1->StopCapture(), which every caller of DeletePeerConnection adds.
StopCapture == capture' = FALSE

\* DisconnectFromCurrentPeer, but for the stream of the rtc server.  The peer id is kept.
EndCall ==
    /\ IF pc = "none" THEN UNCHANGED <<pc, sdp_pending, left>> ELSE DeletePeerConnection
    /\ StopCapture

DisconnectFromCurrentPeer ==
    /\ EndCall
    /\ called' = IF pc # "none" /\ peer_id = NoPeer THEN FALSE ELSE called

\* ConnectToRtcServer: one connection at a time.
ConnectToRtcServer(type) ==
    IF pc # "none"
    THEN UNCHANGED <<call, peer_inner>>
    ELSE InitializePeerConnection("rtc", TRUE) /\ peer_inner' = type

\* ConnectToPeer
ConnectToPeer(id) ==
    IF pc # "none"
    THEN UNCHANGED <<call, peer_id>>
    ELSE InitializePeerConnection("mesh", TRUE) /\ peer_id' = id

\* The WebRTC observers run in the rtc thread between passes.
BetweenPasses ==
    /\ rpc = "cb"
    /\ UNCHANGED <<slots, args, servers, threads, server_status>>

\* OnSuccess: the description goes to the rtc server if there is no peer.
OnSuccess ==
    /\ BetweenPasses
    /\ sdp_pending
    /\ sdp_pending' = FALSE
    /\ IF peer_id = NoPeer THEN QueueUIThreadCallback(<<"SDP">>) ELSE UNCHANGED queue
    /\ Link!Quiet
    /\ UNCHANGED <<mesh_status, mesh_peer, pc, capture, left, peer_id, inner, client>>

\* OnIceConnectionChange, or OnConnectionChange, which forgets the stream as
\* well: the other side is gone.
OnIceDisconnected ==
    /\ BetweenPasses
    /\ pc # "none"
    /\ QueueUIThreadCallback(<<"CLOSED">>)
    /\ peer_id' = NoPeer
    /\ called' \in {called, FALSE}
    /\ Link!Quiet
    /\ UNCHANGED <<mesh_status, mesh_peer, call, inner, conn_starting, login_ok, websocket,
                   peer_inner, sdp_posted>>

-----------------------------------------------------------------------------
(* News from the mesh signalling client, through Conductor's observers.      *)

OnMeshSignedIn ==
    /\ Link!SignedIn
    /\ mesh_status' = IF report' = <<>> THEN mesh_status ELSE "LOGINED"
    /\ IF Len(report') = 2 THEN mesh_peer' \in Peers ELSE UNCHANGED mesh_peer
    /\ UNCHANGED <<queue, conductor>>

OnMeshSignFailed ==
    /\ report' = <<"SignFailed">>
    /\ mesh_status' = "IDLE"
    /\ UNCHANGED <<mesh_peer, queue, conductor>>

\* OnMeshDisconnected ends the call, whichever it is.
OnMeshDisconnected ==
    /\ report' \in {<<"Busy">>, <<"LoginFail">>, <<"DisconnInd">>}
    /\ StopCapture
    /\ DeletePeerConnection
    /\ mesh_status' = IF mesh_status = "LOGINING" THEN "IDLE" ELSE mesh_status
    /\ UNCHANGED <<mesh_peer, queue, peer_id, inner>>

OnMeshPeerConnected ==
    /\ report' = <<"PeerConnected">>
    /\ mesh_peer' \in Peers
    /\ UNCHANGED <<mesh_status, queue, conductor>>

\* Our peer left, or hung up.
OnMeshPeerDisconnected ==
    /\ report' = <<"PeerDisconnected">>
    /\ peer_id \in Peers
    /\ QueueUIThreadCallback(<<"CLOSED">>)
    /\ peer_id' = NoPeer
    /\ UNCHANGED <<mesh_status, mesh_peer, call, inner>>

\* A message opens a connection when there is none; an offer is answered, and a
\* description brings tracks (OnAddTrack).
OnMeshMessageFromPeer(id, what) ==
    /\ report' = <<"PeerMessage">>
    /\ pc = "none" \/ id = peer_id
    /\ peer_id' = id
    /\ IF pc = "none"
       THEN InitializePeerConnection("mesh", what = "offer")
       ELSE sdp_pending' = (sdp_pending \/ what = "offer") /\ UNCHANGED <<pc, capture, left>>
    /\ IF what = "candidate" THEN UNCHANGED queue ELSE QueueUIThreadCallback(<<"TRACK">>)
    /\ UNCHANGED <<mesh_status, mesh_peer, inner>>

MeshEvent ==
    /\ BetweenPasses
    /\ \/ OnMeshSignedIn
       \/ (Link!Lost \/ Link!Retry) /\ (OnMeshSignFailed \/ OnMeshDisconnected)
       \/ /\ Link!Retry \/ Link!Vanish
          /\ report' = <<>>
          /\ UNCHANGED <<mesh_status, mesh_peer, queue, conductor>>
       \/ /\ Link!Notify
          /\ \/ OnMeshPeerConnected
             \/ OnMeshPeerDisconnected
             \/ \E id \in Peers : \E what \in {"offer", "answer", "candidate"} :
                   OnMeshMessageFromPeer(id, what)
    /\ UNCHANGED client

-----------------------------------------------------------------------------
(* News from the rtc server, through PeerConnectionClient.                   *)

RtcReports == {<<>>, <<"LOGINED">>, <<"LOGOUT">>, <<"HANGUP", "LOGOUT">>, <<"CALL">>, <<"HANGUP">>}

\* Conductor puts what the client says in the callback queue.
FromRtcServer(said) ==
    /\ BetweenPasses
    /\ QueueUIThreadCallback(said)
    /\ Link!Quiet
    /\ UNCHANGED <<mesh_status, mesh_peer, call, peer_id, inner>>

LoginAnswered == Rtc!SignedIn(<<"LOGINED">>) /\ FromRtcServer(<<"LOGINED">>)

RtcConfigured == Rtc!Configured(<<"HANGUP">>) /\ FromRtcServer(<<"HANGUP">>)

\* The media server's answer is used by the rtc connection only.
RtcAnswered ==
    LET usable == peer_id = NoPeer /\ pc # "none"
        said == IF usable THEN <<"TRACK">> ELSE <<>>
    IN  Rtc!Answered(said, usable) /\ FromRtcServer(said)

RtcEvent ==
    \/ LoginAnswered \/ RtcConfigured \/ RtcAnswered
    \/ \E said \in RtcReports :
          /\ Rtc!Lost(said) \/ Rtc!Called(said) \/ Rtc!Closed(said) \/ Rtc!AnswerLost(said)
          /\ FromRtcServer(said)

-----------------------------------------------------------------------------
(* Process: one pass of the rtc thread.                                      *)

\* Mutant: the camera is left on.
PeerConnectionClosedFilming ==
    /\ DeletePeerConnection
    /\ mesh_status' = IF mesh_status = "CONNECTED" THEN "LOGINED" ELSE "LOGINING"
    /\ mesh_peer' = IF mesh_status = "CONNECTED" THEN mesh_peer ELSE NoPeer
    /\ UNCHANGED <<capture, server_cmd, peer_inner>>

\* UIThreadCallback of PEER_CONNECTION_CLOSED, with ConnCtrl's
\* OnMeshPeerDisconnected.
PeerConnectionClosed ==
    /\ DeletePeerConnection
    /\ StopCapture
    /\ mesh_status' = IF mesh_status = "CONNECTED" THEN "LOGINED" ELSE "LOGINING"
    /\ mesh_peer' = IF mesh_status = "CONNECTED" THEN mesh_peer ELSE NoPeer
    /\ UNCHANGED <<server_cmd, peer_inner>>

\* ThreadCallbackHandle takes one entry of the queue.
ThreadCallbackHandle ==
    /\ rpc = "cb"
    /\ rpc' = "cfg"
    /\ queue' = IF queue = <<>> THEN queue ELSE Tail(queue)
    /\ \/ /\ queue = <<>>
          /\ UNCHANGED <<server_cmd, call, peer_inner, mesh_status, mesh_peer>>
       \/ /\ queue # <<>>
          /\ \/ /\ Head(queue) \in {"LOGINED", "LOGOUT", "HANGUP", "SDP"}
                /\ server_cmd' = CASE Head(queue) = "LOGINED" -> "RTC_LOGIN_OK"
                                   [] Head(queue) = "LOGOUT" -> "RTC_LOGOUT_MSG"
                                   [] Head(queue) = "HANGUP" -> "RTC_DISCONN"
                                   [] OTHER -> "RTC_MEDIA_SDP_SEND"
                /\ UNCHANGED <<call, peer_inner, mesh_status, mesh_peer>>
             \/ /\ Head(queue) = "CALL"
                /\ ConnectToRtcServer(inner)
                /\ UNCHANGED <<server_cmd, mesh_status, mesh_peer>>
             \/ /\ Head(queue) = "CLOSED"
                /\ PeerConnectionClosed
             \/ /\ Head(queue) = "TRACK"     \* ConnectedPeerResult(true)
                /\ mesh_status' = IF mesh_status = "CONNECTING" THEN "CONNECTED" ELSE mesh_status
                /\ UNCHANGED <<server_cmd, call, peer_inner, mesh_peer>>
    /\ Link!Quiet
    /\ UNCHANGED <<server_status, cfg_cmd, upper_cmd, args, servers, peer_id, inner, conn_starting,
                   login_ok, websocket, called, sdp_posted, taken, user>>

\* CfgCmdProc empties the slot before it reads args.
CfgCmdTake ==
    /\ rpc = "cfg"
    /\ rpc' = IF cfg_cmd = NoCmd THEN "mesh" ELSE "cfgdo"
    /\ taken' = cfg_cmd
    /\ cfg_cmd' = NoCmd
    /\ Link!Quiet
    /\ UNCHANGED <<status, upper_cmd, server_cmd, args, servers, mesh_peer, queue, conductor,
                   client, user>>

SwitchToRtcServer ==
    /\ mesh_server' = ""
    /\ \/ /\ mesh_status # "IDLE"
          /\ upper_cmd' = "MESH_LOGOUT"
          /\ UNCHANGED <<rtc_server, server_cmd>>
       \/ /\ mesh_status = "IDLE"
          /\ rtc_server' = args
          /\ server_cmd' = CASE rtc_server # args /\ server_status # "IDLE" -> "RTC_LOGOUT"
                             [] rtc_server = args /\ server_status = "IDLE" -> "RTC_LOGIN"
                             [] OTHER -> server_cmd
          /\ UNCHANGED upper_cmd

SwitchToMeshServer ==
    /\ rtc_server' = ""
    /\ mesh_server' = args
    /\ \/ /\ server_status # "IDLE"
          /\ server_cmd' = "RTC_LOGOUT"
          /\ UNCHANGED upper_cmd
       \/ /\ server_status = "IDLE"
          /\ upper_cmd' = CASE mesh_server # args /\ mesh_status # "IDLE" -> "MESH_LOGOUT"
                            [] mesh_server = args /\ mesh_status = "IDLE" -> "MESH_LOGIN"
                            [] OTHER -> upper_cmd
          /\ UNCHANGED server_cmd

\* The rest of CfgCmdProc.  An address of the wrong form, which another command
\* may have left in args, ends it.  RTC_SERVER_SET and RTC_MEDIA_SET only pass
\* addresses on to PeerConnectionClient.
CfgCmdProc ==
    /\ rpc = "cfgdo"
    /\ rpc' = "mesh"
    /\ taken' = NoCmd
    /\ \/ /\ taken = "SWITCH_TO_RTC_SERVER" /\ args \in RtcServers
          /\ SwitchToRtcServer
       \/ /\ taken = "SWITCH_TO_MESH_SERVER" /\ args \in MeshServers
          /\ SwitchToMeshServer
       \/ /\ taken = "MESH_SERVER_SET" /\ args \in MeshServers
          /\ mesh_server' = IF mesh_status = "IDLE" THEN args ELSE mesh_server
          /\ UNCHANGED <<rtc_server, upper_cmd, server_cmd>>
       \/ /\ \/ taken \in {"RTC_SERVER_SET", "RTC_MEDIA_SET"}
             \/ taken = "SWITCH_TO_RTC_SERVER" /\ args \notin RtcServers
             \/ taken \in {"SWITCH_TO_MESH_SERVER", "MESH_SERVER_SET"} /\ args \notin MeshServers
          /\ UNCHANGED <<servers, upper_cmd, server_cmd>>
    /\ Link!Quiet
    /\ UNCHANGED <<status, cfg_cmd, args, mesh_peer, queue, conductor, client, user>>

-----------------------------------------------------------------------------
(* MeshStatusProc                                                            *)

\* LoginToMeshServer.  A client that is logged in, or trying, is left alone; an
\* empty server name fails at once, and any other may.
LoginToMeshServer ==
    IF link # "off" THEN Link!Quiet
    ELSE Link!Login /\ (mesh_server = "" => link' = "off")

\* Mutant: "peer is still here".
DisconnMeshServerKeepPeer == Link!Logout /\ UNCHANGED peer_id

\* The client is told to sign out and the peer is forgotten.
DisconnMeshServer == Link!Logout /\ peer_id' = NoPeer

\* It ends no call: a connection that a peer has opened meanwhile stays.
LeaveCall == left' = (pc = "mesh") /\ UNCHANGED <<pc, sdp_pending, capture, called>>

MeshIdle ==
    \/ /\ upper_cmd = "MESH_LOGIN"
       /\ LoginToMeshServer
       /\ mesh_status' = "LOGINING"
       /\ UNCHANGED <<call, called, peer_id>>
    \/ /\ upper_cmd # "MESH_LOGIN"
       /\ Link!Quiet
       /\ UNCHANGED <<mesh_status, call, called, peer_id>>

MeshLogining ==
    \/ /\ upper_cmd = "MESH_LOGOUT"
       /\ DisconnMeshServer
       /\ LeaveCall
       /\ mesh_status' = "IDLE"
    \/ /\ upper_cmd # "MESH_LOGOUT"
       /\ Link!Quiet
       /\ UNCHANGED <<mesh_status, call, called, peer_id>>

\* Mutant: the status is not reset on logout.
MeshLoginedStays ==
    \/ /\ upper_cmd = "MESH_LOGOUT"
       /\ DisconnMeshServer
       /\ LeaveCall
       /\ UNCHANGED mesh_status
    \/ /\ upper_cmd = "MESH_CONN"
       /\ mesh_peer # NoPeer
       /\ ConnectToPeer(mesh_peer)
       /\ mesh_status' = "CONNECTING"
       /\ Link!Quiet
       /\ UNCHANGED called
    \/ /\ \/ upper_cmd \in {"MESH_LOGIN", "MESH_DISCONN"}
          \/ upper_cmd = "MESH_CONN" /\ mesh_peer = NoPeer
       /\ Link!Quiet
       /\ UNCHANGED <<mesh_status, call, called, peer_id>>

MeshLogined ==
    \/ /\ upper_cmd = "MESH_LOGOUT"
       /\ DisconnMeshServer
       /\ LeaveCall
       /\ mesh_status' = "IDLE"
    \/ /\ upper_cmd = "MESH_CONN"
       /\ mesh_peer # NoPeer
       /\ ConnectToPeer(mesh_peer)
       /\ mesh_status' = "CONNECTING"
       /\ Link!Quiet
       /\ UNCHANGED <<called>>
    \/ /\ \/ upper_cmd \in {"MESH_LOGIN", "MESH_DISCONN"}
          \/ upper_cmd = "MESH_CONN" /\ mesh_peer = NoPeer
       /\ Link!Quiet
       /\ UNCHANGED <<mesh_status, call, called, peer_id>>

\* CONNECTING and CONNECTED.
MeshInCall ==
    \/ /\ upper_cmd = "MESH_DISCONN"
       /\ DisconnectFromCurrentPeer
       /\ mesh_status' = "LOGINED"
       /\ Link!Quiet
       /\ UNCHANGED <<peer_id>>
    \/ /\ upper_cmd = "MESH_LOGOUT"
       /\ DisconnectFromCurrentPeer
       /\ DisconnMeshServer
       /\ mesh_status' = "IDLE"
    \/ /\ upper_cmd \in {"MESH_LOGIN", "MESH_CONN"}
       /\ Link!Quiet
       /\ UNCHANGED <<mesh_status, call, called, peer_id>>

MeshStatusProc ==
    /\ rpc = "mesh"
    /\ upper_cmd # NoCmd
    /\ rpc' = "meshclear"
    /\ CASE mesh_status = "IDLE" -> MeshIdle
         [] mesh_status = "LOGINING" -> MeshLogining
         [] mesh_status = "LOGINED" -> MeshLogined
         [] OTHER -> MeshInCall
    /\ UNCHANGED <<server_status, slots, args, servers, mesh_peer, queue, inner,
                   conn_starting, login_ok, websocket, peer_inner, sdp_posted, taken, user>>

\* Mutant: the slot is not emptied.
MeshStatusKeep ==
    /\ rpc = "meshclear" \/ (rpc = "mesh" /\ upper_cmd = NoCmd)
    /\ rpc' = "server"
    /\ Link!Quiet
    /\ UNCHANGED <<status, slots, args, servers, mesh_peer, queue, conductor, client, taken, user>>

\* Its last statement, which empties the slot.
MeshStatusClear ==
    /\ rpc = "meshclear" \/ (rpc = "mesh" /\ upper_cmd = NoCmd)
    /\ rpc' = "server"
    /\ upper_cmd' = IF rpc = "meshclear" THEN NoCmd ELSE upper_cmd
    /\ Link!Quiet
    /\ UNCHANGED <<status, cfg_cmd, server_cmd, args, servers, mesh_peer, queue, conductor, client,
                   taken, user>>

-----------------------------------------------------------------------------
(* ServerStatusProc                                                          *)

\* Mutant: an earlier success is not forgotten.
LoginAgain == conn_starting' = TRUE /\ UNCHANGED login_ok

\* PeerConnectionClient::Login
LoginToWebrtcServer == conn_starting' = TRUE /\ login_ok' = FALSE

\* PeerConnectionClient::Logout keeps the websocket of a client that is not
\* logged in.
LogoutFromWebrtcServer ==
    /\ conn_starting' = FALSE
    /\ login_ok' = IF conn_starting THEN FALSE ELSE login_ok
    /\ websocket' = IF conn_starting /\ login_ok THEN FALSE ELSE websocket

\* GetServerStatusFlag: what the inner media server was last heard to be.
InnerServerStatus == IF pc = "none" THEN {"not_ready", "ready"} ELSE {"error", "connected"}

\* RTC_HDMI_CALL, in any status: a call to the inner media server, without login.
HdmiCall ==
    /\ server_cmd = "RTC_HDMI_CALL"
    /\ server_status' = "LOGINED"
    /\ \E flag \in InnerServerStatus :
          \/ /\ flag = "ready"
             /\ inner' = TRUE
             /\ ConnectToRtcServer(TRUE)
             /\ UNCHANGED called
          \/ /\ flag = "error"
             /\ DisconnectFromCurrentPeer
             /\ UNCHANGED <<inner, peer_inner>>
          \/ /\ flag \in {"not_ready", "connected"}
             /\ UNCHANGED <<inner, peer_inner, called, call>>
    /\ UNCHANGED <<upper_cmd, conn_starting, login_ok, websocket, sdp_posted, queue>>

\* RTC_DJI_STREAM_STOP, in any status: OnClientHangup.
StreamStop ==
    /\ server_cmd = "RTC_DJI_STREAM_STOP"
    /\ queue' = Append(queue, "HANGUP")
    /\ UNCHANGED <<server_status, upper_cmd, inner, call, client>>

\* DJI_STREAM_NAME_SET, and what a status does not support, do nothing here.
Unsupported(cmds) ==
    /\ server_cmd \notin cmds \cup {"RTC_HDMI_CALL", "RTC_DJI_STREAM_STOP"}
    /\ UNCHANGED <<server_status, upper_cmd, inner, call, client, queue>>

ServerIdle ==
    \/ /\ server_cmd = "RTC_LOGIN"
       /\ inner' = FALSE
       /\ LoginToWebrtcServer
       /\ server_status' = "LOGINING"
       /\ UNCHANGED <<upper_cmd, call, websocket, called, peer_inner, sdp_posted, queue>>
    \/ HdmiCall \/ StreamStop \/ Unsupported({"RTC_LOGIN"})

\* Mutant: the status is not reset on logout.
ServerLoginingStays ==
    \/ /\ server_cmd = "RTC_LOGOUT"
       /\ upper_cmd' = "MESH_LOGIN"
       /\ LogoutFromWebrtcServer
       /\ called' = IF conn_starting /\ login_ok THEN FALSE ELSE called
       /\ UNCHANGED <<server_status, inner, call, peer_inner, sdp_posted, queue>>
    \/ HdmiCall \/ StreamStop \/ Unsupported({"RTC_LOGOUT"})

ServerLogining ==
    \/ /\ server_cmd = "RTC_LOGIN_OK"
       /\ inner' = FALSE
       /\ upper_cmd' = "MESH_LOGOUT"
       /\ server_status' = "LOGINED"
       /\ UNCHANGED <<call, client, queue>>
    \/ /\ server_cmd = "RTC_LOGOUT"
       /\ upper_cmd' = "MESH_LOGIN"
       /\ server_status' = "IDLE"
       /\ LogoutFromWebrtcServer
       /\ called' = IF conn_starting /\ login_ok THEN FALSE ELSE called
       /\ UNCHANGED <<inner, call, peer_inner, sdp_posted, queue>>
    \/ HdmiCall \/ StreamStop \/ Unsupported({"RTC_LOGIN_OK", "RTC_LOGOUT"})

\* SdpMessageSend.  The inner server needs no login, so the client counts as
\* logged in.
SendWebrtcSdp ==
    /\ login_ok' = (login_ok \/ peer_inner)
    /\ sdp_posted' = (sdp_posted \/ login_ok')

ServerLogined ==
    \/ /\ server_cmd = "RTC_LOGOUT"
       /\ EndCall
       /\ upper_cmd' = "MESH_LOGIN"
       /\ server_status' = "IDLE"
       /\ LogoutFromWebrtcServer
       /\ called' = IF (pc # "none" /\ peer_id = NoPeer) \/ (conn_starting /\ login_ok)
                    THEN FALSE ELSE called
       /\ UNCHANGED <<inner, peer_inner, sdp_posted, queue>>
    \/ /\ server_cmd = "RTC_MEDIA_SDP_SEND"
       /\ SendWebrtcSdp
       /\ UNCHANGED <<server_status, upper_cmd, inner, call, conn_starting, websocket, called,
                      peer_inner, queue>>
    \/ /\ server_cmd = "RTC_DISCONN"
       /\ DisconnectFromCurrentPeer
       /\ UNCHANGED <<server_status, upper_cmd, inner, conn_starting, login_ok, websocket,
                      peer_inner, sdp_posted, queue>>
    \/ /\ server_cmd = "RTC_LOGOUT_MSG"
       /\ server_status' = "LOGINING"
       /\ UNCHANGED <<upper_cmd, inner, call, client, queue>>
    \/ HdmiCall \/ StreamStop
    \/ Unsupported({"RTC_LOGOUT", "RTC_MEDIA_SDP_SEND", "RTC_DISCONN", "RTC_LOGOUT_MSG"})

ServerStatusProc ==
    /\ rpc = "server"
    /\ server_cmd # NoCmd
    /\ rpc' = "serverclear"
    /\ CASE server_status = "IDLE" -> ServerIdle
         [] server_status = "LOGINING" -> ServerLogining
         [] OTHER -> ServerLogined
    /\ Link!Quiet
    /\ UNCHANGED <<mesh_status, cfg_cmd, server_cmd, args, servers, mesh_peer, peer_id, taken, user>>

\* Its last statement.
ServerStatusClear ==
    /\ rpc = "serverclear"
    /\ rpc' = "cb"
    /\ server_cmd' = NoCmd
    /\ Link!Quiet
    /\ UNCHANGED <<status, cfg_cmd, upper_cmd, args, servers, mesh_peer, queue, conductor, client,
                   taken, user>>

\* Without a command the pass ends.
ServerIdlePass ==
    /\ rpc = "server"
    /\ server_cmd = NoCmd
    /\ rpc' = "cb"
    /\ Link!Quiet
    /\ UNCHANGED <<status, slots, args, servers, mesh_peer, queue, conductor, client, taken, user>>

\* Without a command a login under way is repeated every webrtc_conn_interval.
ServerRelogin ==
    /\ rpc = "server"
    /\ server_cmd = NoCmd
    /\ server_status = "LOGINING"
    /\ rpc' = "cb"
    /\ LoginToWebrtcServer
    /\ Link!Quiet
    /\ UNCHANGED <<status, slots, args, servers, mesh_peer, queue, conductor,
                   websocket, called, peer_inner, sdp_posted, taken, user>>

-----------------------------------------------------------------------------
Process ==
    \/ ThreadCallbackHandle \/ CfgCmdTake \/ CfgCmdProc \/ MeshStatusProc \/ MeshStatusClear
    \/ ServerStatusProc \/ ServerStatusClear \/ ServerIdlePass \/ ServerRelogin

Main == FetchCmd \/ AppCmdSet \/ CfgVideo

Observer == OnSuccess \/ OnIceDisconnected

Next == Process \/ Main \/ Observer \/ MeshEvent \/ RtcEvent

Spec == Init /\ [][Next]_vars

\* Both threads keep running, the interval of ServerRelogin passes, and the rtc
\* server answers a login repeated for ever.
FairSpec ==
    /\ Spec
    /\ WF_vars(Process)
    /\ WF_vars(AppCmdSet)
    /\ SF_vars(ServerRelogin)
    /\ SF_vars(LoginAnswered)

-----------------------------------------------------------------------------
(* Properties *)

\* The variables stay within their types.
TypeOK ==
    /\ mesh_status \in {"IDLE", "LOGINING", "LOGINED", "CONNECTING", "CONNECTED"}
    /\ server_status \in {"IDLE", "LOGINING", "LOGINED"}
    /\ cfg_cmd \in CfgCmds \cup {NoCmd}
    /\ taken \in CfgCmds \cup {NoCmd}
    /\ upper_cmd \in MeshCmds \cup {NoCmd}
    /\ server_cmd \in RtcCmds \cup InnerCmds \cup {NoCmd}
    /\ args \in Addresses
    /\ mesh_server \in MeshServers \cup {""}
    /\ rtc_server \in RtcServers \cup {"0.0.0.0", ""}
    /\ mesh_peer \in Peers \cup {NoPeer}
    /\ peer_id \in Peers \cup {NoPeer}
    /\ queue \in Seq({"LOGINED", "LOGOUT", "CALL", "HANGUP", "SDP", "CLOSED", "TRACK"})
    /\ Len(queue) <= MaxQueue + 1
    /\ pc \in {"none", "mesh", "rtc"}
    /\ {sdp_pending, capture, left, inner, wanted} \subseteq BOOLEAN
    /\ {conn_starting, login_ok, websocket, called, peer_inner, sdp_posted} \subseteq BOOLEAN
    /\ link \in {"off", "trying", "on"}
    /\ rpc \in {"cb", "cfg", "cfgdo", "mesh", "meshclear", "server", "serverclear"}

\* The camera does not film for nobody: while it captures there is a connection to the rtc
\* server, or one to a mesh peer that is there, or that has left while the entry that ends
\* the call is still in the callback queue.  The exception is a connection that a message of
\* the peer has opened outside a call and that a mesh logout has left with the camera on,
\* though it is to "release all conn resource" (conn_ctrl.cc:739).
CameraHasReason ==
    capture =>
        \/ pc = "rtc"
        \/ /\ pc = "mesh"
           /\ \/ peer_id # NoPeer
              \/ \E i \in 1 .. Len(queue) : queue[i] = "CLOSED"
              \/ left

\* A controller that believes it is logged in to the mesh, or in a call over it,
\* has a signalling client that has not been stopped behind its back.
StatusImpliesWanted == mesh_status \in {"LOGINED", "CONNECTING", "CONNECTED"} => wanted

\* A logout forgets the peer: the id that decides where descriptions go, and
\* whether the rtc server's answers are taken, never outlives the mesh session.
PeerForgotten == ~wanted => peer_id = NoPeer

\* Without RTC_HDMI_CALL, which skips the login, a controller that is logging in to
\* the rtc server or logged in has a client that is not stopped.
ServerImpliesStarted ==
    "RTC_HDMI_CALL" \notin ui_cmds /\ server_status # "IDLE" => conn_starting

\* "if mesh device connected with rtc server, mesh call is not allowed."
MeshCallRejected ==
    [][mesh_status' = "CONNECTING" /\ mesh_status # "CONNECTING" => server_status # "LOGINED"]_vars

\* No command stays in its slot for ever, which would keep every later command out
\* (and make AppCmdWaiting exit): again and again the slots are all empty.
SlotsDrain == []<>(~AppCmdWaiting)

\* Once the user is quiet and the server has stopped sending configurations (one in
\* every pass would keep the slot taken and hold ServerRelogin off), a login to the
\* rtc server ends, whatever commands and answers overwrote one another before.
LoginEnds ==
    <>[](ui = NoUi) /\ <>[][~RtcConfigured]_vars
        => (server_status = "LOGINING" ~> server_status # "LOGINING")
=============================================================================
