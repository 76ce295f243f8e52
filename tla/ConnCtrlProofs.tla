--------------------------- MODULE ConnCtrlProofs ---------------------------
(***************************************************************************)
(* Proofs about ConnCtrl for every set of peers, servers and commands and  *)
(* every bound on the queue.  The run with all commands at once is out of  *)
(* TLC's reach, so these theorems also close the gap between the runs: the *)
(* camera has a reason to film, both statuses go with the clients below,   *)
(* and the callback queue keeps within its bound.                          *)
(***************************************************************************)
EXTENDS ConnCtrl, SequenceTheorems, TLAPS

\* What the steps preserve: the two properties, and what ties them together,
\* that a signalling client is only signed in, or signing in, while it is wanted.
SessionInv ==
    /\ mesh_status \in {"IDLE", "LOGINING", "LOGINED", "CONNECTING", "CONNECTED"}
    /\ wanted \in BOOLEAN
    /\ link # "off" => wanted
    /\ StatusImpliesWanted
    /\ PeerForgotten

\* The program starts with no call, no peer and nobody logged in.
LEMMA InitSession == Init => SessionInv
BY DEF Init, Link!Init, Rtc!Init, SessionInv, StatusImpliesWanted, PeerForgotten

\* A step that leaves the mesh client, the peer and the status alone.
LEMMA QuietSession ==
    ASSUME SessionInv, UNCHANGED <<mesh_status, peer_id, link, wanted>>
    PROVE  SessionInv'
BY DEF SessionInv, StatusImpliesWanted, PeerForgotten

\* The main thread touches none of it.
LEMMA MainSession == ASSUME SessionInv, Main PROVE SessionInv'
<1>1. UNCHANGED <<mesh_status, peer_id, link, wanted>>
  BY DEF Main, FetchCmd, AppCmdSet, CfgVideo, Link!Quiet, status, conductor, call
<1> QED BY <1>1, QuietSession

\* News from the mesh client: it only signs in while wanted, and only a client
\* that is signed in reports peers.
LEMMA MeshEventSession == ASSUME SessionInv, MeshEvent PROVE SessionInv'
<1> USE DEF SessionInv, StatusImpliesWanted, PeerForgotten, conductor, call
<1>1. CASE OnMeshSignedIn
  BY <1>1 DEF OnMeshSignedIn, Link!SignedIn
<1>2. CASE (Link!Lost \/ Link!Retry) /\ (OnMeshSignFailed \/ OnMeshDisconnected)
  <2>1. wanted' = wanted /\ (link' # "off" => wanted)
    BY <1>2 DEF Link!Lost, Link!Retry
  <2>2. CASE OnMeshSignFailed
    BY <2>1, <2>2 DEF OnMeshSignFailed
  <2>3. CASE OnMeshDisconnected
    BY <2>1, <2>3 DEF OnMeshDisconnected, DeletePeerConnection
  <2> QED BY <1>2, <2>2, <2>3
<1>3. CASE /\ Link!Retry \/ Link!Vanish
           /\ report' = <<>>
           /\ UNCHANGED <<mesh_status, mesh_peer, queue, conductor>>
  BY <1>3 DEF Link!Retry, Link!Vanish
<1>4. CASE Link!Notify /\ (OnMeshPeerConnected \/ OnMeshPeerDisconnected)
  BY <1>4 DEF Link!Notify, OnMeshPeerConnected, OnMeshPeerDisconnected
<1>5. ASSUME NEW id \in Peers, NEW what \in {"offer", "answer", "candidate"},
             Link!Notify, OnMeshMessageFromPeer(id, what)
      PROVE  SessionInv'
  BY <1>5 DEF Link!Notify, OnMeshMessageFromPeer, InitializePeerConnection
<1> QED BY <1>1, <1>2, <1>3, <1>4, <1>5 DEF MeshEvent

\* News from the rtc server, and from the peer connection itself.
LEMMA RtcEventSession == ASSUME SessionInv, RtcEvent \/ Observer PROVE SessionInv'
<1>1. CASE RtcEvent
  <2>1. UNCHANGED <<mesh_status, peer_id, link, wanted>>
    BY <1>1
       DEF RtcEvent, LoginAnswered, RtcConfigured, RtcAnswered, FromRtcServer, Link!Quiet, call
  <2> QED BY <2>1, QuietSession
<1>2. CASE OnSuccess
  <2>1. UNCHANGED <<mesh_status, peer_id, link, wanted>>
    BY <1>2 DEF OnSuccess, Link!Quiet
  <2> QED BY <2>1, QuietSession
<1>3. CASE OnIceDisconnected
  BY <1>3
     DEF OnIceDisconnected, Link!Quiet, call, SessionInv, StatusImpliesWanted, PeerForgotten
<1> QED BY <1>1, <1>2, <1>3 DEF Observer

\* MeshStatusProc: calls are only placed, and peers only remembered, by a
\* controller that is logged in; a logout undoes all of it.
LEMMA MeshProcSession == ASSUME SessionInv, MeshStatusProc PROVE SessionInv'
<1> USE DEF SessionInv, StatusImpliesWanted, PeerForgotten, call,
            Link!Quiet, Link!Logout, DisconnMeshServer
<1>1. CASE upper_cmd = "MESH_LOGOUT" /\ mesh_status # "IDLE"
  <2>1. ~wanted' /\ link' = "off" /\ peer_id' = NoPeer /\ mesh_status' = "IDLE"
    BY <1>1 DEF MeshStatusProc, MeshLogining, MeshLogined, MeshInCall
  <2>3. wanted' = FALSE
    BY <1>1 DEF MeshStatusProc, MeshLogining, MeshLogined, MeshInCall
  <2> QED BY <2>1, <2>3
<1>2. CASE mesh_status = "IDLE" /\ upper_cmd = "MESH_LOGIN"
  <2>1. mesh_status' = "LOGINING" /\ UNCHANGED peer_id
    BY <1>2 DEF MeshStatusProc, MeshIdle
  <2>2. \/ UNCHANGED <<link, wanted>>
        \/ wanted' = TRUE
    BY <1>2 DEF MeshStatusProc, MeshIdle, LoginToMeshServer, Link!Login
  <2> QED BY <2>1, <2>2
<1>3. CASE mesh_status = "LOGINED" /\ upper_cmd = "MESH_CONN"
  <2>1. UNCHANGED <<link, wanted>> /\ wanted
    BY <1>3 DEF MeshStatusProc, MeshLogined
  <2>2. mesh_status' \in {"LOGINED", "CONNECTING"}
    BY <1>3 DEF MeshStatusProc, MeshLogined
  <2> QED BY <2>1, <2>2
<1>4. CASE mesh_status \in {"CONNECTING", "CONNECTED"} /\ upper_cmd = "MESH_DISCONN"
  <2>1. UNCHANGED <<link, wanted>> /\ mesh_status' = "LOGINED" /\ wanted /\ UNCHANGED peer_id
    BY <1>4 DEF MeshStatusProc, MeshInCall
  <2> QED BY <2>1
<1>5. CASE UNCHANGED <<mesh_status, peer_id, link, wanted>>
  BY <1>5, QuietSession
<1> QED BY <1>1, <1>2, <1>3, <1>4, <1>5
        DEF MeshStatusProc, MeshIdle, MeshLogining, MeshLogined, MeshInCall

\* ServerStatusProc knows nothing of the mesh.
LEMMA ServerProcSession == ASSUME SessionInv, ServerStatusProc PROVE SessionInv'
<1>1. UNCHANGED <<mesh_status, peer_id, link, wanted>>
  BY DEF ServerStatusProc, Link!Quiet
<1> QED BY <1>1, QuietSession

\* The other steps of a pass.
LEMMA ProcessSession == ASSUME SessionInv, Process PROVE SessionInv'
<1>1. CASE ThreadCallbackHandle
  <2>1. UNCHANGED <<link, wanted, peer_id>>
    BY <1>1 DEF ThreadCallbackHandle, Link!Quiet
  <2>2. mesh_status' # mesh_status =>
          \/ mesh_status = "CONNECTING" /\ mesh_status' = "CONNECTED"
          \/ mesh_status = "CONNECTED" /\ mesh_status' = "LOGINED"
          \/ mesh_status' = "LOGINING"
    BY <1>1 DEF ThreadCallbackHandle, PeerConnectionClosed
  <2> QED BY <2>1, <2>2 DEF SessionInv, StatusImpliesWanted, PeerForgotten
<1>2. CASE \/ CfgCmdTake \/ CfgCmdProc \/ MeshStatusClear \/ ServerStatusClear
           \/ ServerIdlePass \/ ServerRelogin
  <2>1. UNCHANGED <<mesh_status, peer_id, link, wanted>>
    BY <1>2 DEF CfgCmdTake, CfgCmdProc, MeshStatusClear, ServerStatusClear, ServerIdlePass,
                ServerRelogin, Link!Quiet, status, conductor, call
  <2> QED BY <2>1, QuietSession
<1> QED BY <1>1, <1>2, MeshProcSession, ServerProcSession DEF Process

\* Every step preserves the invariant.
LEMMA NextSession == SessionInv /\ [Next]_vars => SessionInv'
<1> SUFFICES ASSUME SessionInv, [Next]_vars PROVE SessionInv'
  OBVIOUS
<1>1. CASE Next
  BY <1>1, MainSession, MeshEventSession, RtcEventSession, ProcessSession DEF Next
<1>2. CASE UNCHANGED vars
  BY <1>2, QuietSession DEF vars, status, conductor, call, mesh
<1> QED BY <1>1, <1>2

\* The session invariant holds in every behaviour.
THEOREM Session == Spec => []SessionInv
<1> QED BY InitSession, NextSession, PTL DEF Spec

\* A controller that is logged in or in a call has a signalling client that is
\* not stopped (conn_ctrl.cc: MeshStatusProc).
THEOREM LoggedIn == Spec => []StatusImpliesWanted
<1>1. SessionInv => StatusImpliesWanted
  BY DEF SessionInv
<1> QED BY <1>1, Session, PTL

\* No peer id outlives the mesh session (conductor.cc: DisconnectFromServer).
THEOREM Forgotten == Spec => []PeerForgotten
<1>1. SessionInv => PeerForgotten
  BY DEF SessionInv
<1> QED BY <1>1, Session, PTL

\* What keeps the server's status: where RTC_HDMI_CALL is not sent it is in no slot.
ServerInv ==
    "RTC_HDMI_CALL" \notin ui_cmds =>
        /\ ui[1] # "RTC_HDMI_CALL"
        /\ server_cmd # "RTC_HDMI_CALL"
        /\ server_status # "IDLE" => conn_starting

\* The main thread sends what it may send.
LEMMA MainServer == ASSUME ServerInv, Main PROVE ServerInv'
<1>1. CASE FetchCmd
  BY <1>1 DEF FetchCmd, ServerInv, status, slots, client
<1>2. CASE AppCmdSet
  BY <1>2 DEF AppCmdSet, ServerInv, NoUi, NoCmd, status, client
<1>3. CASE CfgVideo
  BY <1>3 DEF CfgVideo, ServerInv, NoUi, NoCmd, status, slots, client
<1> QED BY <1>1, <1>2, <1>3 DEF Main

\* Between passes nothing stops the client.
LEMMA NewsServer == ASSUME ServerInv, Observer \/ MeshEvent \/ RtcEvent PROVE ServerInv'
<1>1. UNCHANGED <<server_status, server_cmd, ui, ui_cmds>>
  BY DEF Observer, OnSuccess, OnIceDisconnected, MeshEvent, RtcEvent, LoginAnswered,
         RtcConfigured, RtcAnswered, FromRtcServer, BetweenPasses, slots, threads, user
<1>2. UNCHANGED conn_starting
  <2>1. CASE RtcEvent
    BY <2>1 DEF RtcEvent, LoginAnswered, RtcConfigured, RtcAnswered, Rtc!SignedIn,
                Rtc!Configured, Rtc!Answered, Rtc!Lost, Rtc!Called, Rtc!Closed, Rtc!AnswerLost,
                Rtc!client
  <2>2. CASE Observer \/ MeshEvent
    BY <2>2 DEF Observer, OnSuccess, OnIceDisconnected, MeshEvent, client
  <2> QED BY <2>1, <2>2
<1> QED BY <1>1, <1>2 DEF ServerInv

\* A logout resets the status as it stops the client; a status other than IDLE is
\* only reached by a login.
LEMMA ServerProcServer == ASSUME ServerInv, ServerStatusProc PROVE ServerInv'
<1>1. UNCHANGED <<server_cmd, ui, ui_cmds>>
  BY DEF ServerStatusProc, user
<1> SUFFICES ASSUME "RTC_HDMI_CALL" \notin ui_cmds
             PROVE  server_status' # "IDLE" => conn_starting'
  BY <1>1 DEF ServerInv
<1>2. ~HdmiCall
  BY DEF ServerInv, HdmiCall
<1>3. CASE StreamStop
  BY <1>3 DEF StreamStop, ServerInv, client
<1>4. ASSUME NEW cmds, Unsupported(cmds) PROVE UNCHANGED <<server_status, conn_starting>>
  BY <1>4 DEF Unsupported, client
<1>5. CASE server_status = "IDLE" /\ ServerIdle
  BY <1>2, <1>3, <1>4, <1>5 DEF ServerIdle, LoginToWebrtcServer, ServerInv
<1>6. CASE server_status # "IDLE" /\ ServerLogining
  BY <1>2, <1>3, <1>4, <1>6 DEF ServerLogining, ServerInv, client
<1>7. CASE server_status # "IDLE" /\ ServerLogined
  BY <1>2, <1>3, <1>4, <1>7 DEF ServerLogined, ServerInv, client
<1> QED BY <1>5, <1>6, <1>7 DEF ServerStatusProc

\* The other steps of a pass schedule other commands, and stop nothing.
LEMMA ProcessServer == ASSUME ServerInv, Process PROVE ServerInv'
<1>1. CASE \/ ThreadCallbackHandle \/ CfgCmdTake \/ CfgCmdProc \/ MeshStatusProc
           \/ MeshStatusClear \/ ServerStatusClear \/ ServerIdlePass
  <2>1. UNCHANGED <<server_status, conn_starting, ui, ui_cmds>>
    BY <1>1 DEF ThreadCallbackHandle, CfgCmdTake, CfgCmdProc, MeshStatusProc, MeshStatusClear,
                ServerStatusClear, ServerIdlePass, status, client, user
  <2>2. server_cmd' = server_cmd \/ server_cmd' # "RTC_HDMI_CALL"
    <3>1. CASE ThreadCallbackHandle
      BY <3>1 DEF ThreadCallbackHandle, PeerConnectionClosed
    <3>2. CASE CfgCmdProc
      BY <3>2 DEF CfgCmdProc, SwitchToRtcServer, SwitchToMeshServer
    <3>3. CASE \/ CfgCmdTake \/ MeshStatusProc \/ MeshStatusClear \/ ServerStatusClear
               \/ ServerIdlePass
      BY <3>3
         DEF CfgCmdTake, MeshStatusProc, MeshStatusClear, ServerStatusClear, ServerIdlePass,
                  slots, NoCmd
    <3> QED BY <1>1, <3>1, <3>2, <3>3
  <2> QED BY <2>1, <2>2 DEF ServerInv
<1>2. CASE ServerStatusProc
  BY <1>2, ServerProcServer
<1>3. CASE ServerRelogin
  BY <1>3 DEF ServerRelogin, LoginToWebrtcServer, ServerInv, status, slots, user
<1> QED BY <1>1, <1>2, <1>3 DEF Process

\* Without RTC_HDMI_CALL a controller that is logging in to the rtc server, or logged
\* in, has a client that is not stopped (conn_ctrl.cc: ServerStatusProc).
THEOREM ServerLoggedIn == Spec => []ServerImpliesStarted
<1>1. Init => ServerInv
  <2> SUFFICES ASSUME Init PROVE ServerInv
    OBVIOUS
  <2>1. server_status = "IDLE" /\ server_cmd = "none" /\ ui = <<"none", "">>
    BY DEF Init, NoUi, NoCmd
  <2>2. ui[1] = "none"
    BY <2>1
  <2> QED BY <2>1, <2>2 DEF ServerInv
<1>2. ServerInv /\ [Next]_vars => ServerInv'
  <2> SUFFICES ASSUME ServerInv, [Next]_vars PROVE ServerInv'
    OBVIOUS
  <2>1. CASE Next
    BY <2>1, MainServer, NewsServer, ProcessServer DEF Next
  <2>2. CASE UNCHANGED vars
    BY <2>2 DEF vars, status, slots, client, threads, user, ServerInv
  <2> QED BY <2>1, <2>2
<1>3. ServerInv => ServerImpliesStarted
  BY DEF ServerInv, ServerImpliesStarted
<1> QED BY <1>1, <1>2, <1>3, PTL DEF Spec

-----------------------------------------------------------------------------
(* Types.                                                                    *)

Entries == {"LOGINED", "LOGOUT", "CALL", "HANGUP", "SDP", "CLOSED", "TRACK"}

StatusTypes ==
    /\ mesh_status \in {"IDLE", "LOGINING", "LOGINED", "CONNECTING", "CONNECTED"}
    /\ server_status \in {"IDLE", "LOGINING", "LOGINED"}

\* What the main thread is about to set is an address too.
CmdTypes ==
    /\ cfg_cmd \in CfgCmds \cup {NoCmd} /\ taken \in CfgCmds \cup {NoCmd}
    /\ upper_cmd \in MeshCmds \cup {NoCmd}
    /\ server_cmd \in RtcCmds \cup InnerCmds \cup {NoCmd}
    /\ args \in Addresses /\ ui[2] \in Addresses
    /\ mesh_server \in MeshServers \cup {""}
    /\ rtc_server \in RtcServers \cup {"0.0.0.0", ""}

PeerTypes == mesh_peer \in Peers \cup {NoPeer} /\ peer_id \in Peers \cup {NoPeer}

\* A pass takes an entry before it adds its own, which no bound keeps out.
QueueTypes ==
    /\ rpc \in {"cb", "cfg", "cfgdo", "mesh", "meshclear", "server", "serverclear"}
    /\ queue \in Seq(Entries) /\ Len(queue) <= MaxQueue + 1
    /\ rpc \notin {"cb", "serverclear"} => Len(queue) <= MaxQueue

CallTypes ==
    /\ pc \in {"none", "mesh", "rtc"}
    /\ sdp_pending \in BOOLEAN /\ capture \in BOOLEAN /\ left \in BOOLEAN /\ inner \in BOOLEAN

LinkTypes == link \in {"off", "trying", "on"} /\ wanted \in BOOLEAN

ClientTypes ==
    /\ conn_starting \in BOOLEAN /\ login_ok \in BOOLEAN /\ websocket \in BOOLEAN
    /\ called \in BOOLEAN /\ peer_inner \in BOOLEAN /\ sdp_posted \in BOOLEAN

TypeInv ==
    /\ StatusTypes /\ CmdTypes /\ PeerTypes /\ QueueTypes /\ CallTypes /\ LinkTypes /\ ClientTypes

LEMMA InvTypeOK == TypeInv => TypeOK
<1> SUFFICES ASSUME TypeInv PROVE TypeOK
  OBVIOUS
<1>1. {sdp_pending, capture, left, inner, wanted} \subseteq BOOLEAN
  BY DEF TypeInv, CallTypes, LinkTypes
<1>2. {conn_starting, login_ok, websocket, called, peer_inner, sdp_posted} \subseteq BOOLEAN
  BY DEF TypeInv, ClientTypes
<1> QED
  BY <1>1, <1>2
     DEF TypeOK, TypeInv, StatusTypes, CmdTypes, PeerTypes, QueueTypes, CallTypes, LinkTypes,
                    Entries

LEMMA InitTypeInv == Init => TypeInv
<1> SUFFICES ASSUME Init PROVE TypeInv
  OBVIOUS
<1>1. StatusTypes /\ PeerTypes /\ CallTypes
  BY DEF Init, StatusTypes, PeerTypes, CallTypes
<1>2. CmdTypes
  BY DEF Init, CmdTypes, NoUi, Addresses
<1>3. QueueTypes
  <2>1. <<>> \in Seq(Entries) /\ Len(<<>>) = 0
    BY EmptySeq
  <2>2. queue = <<>> /\ rpc = "cb"
    BY DEF Init
  <2>3. queue \in Seq(Entries) /\ Len(queue) = 0
    BY <2>1, <2>2
  <2> QED BY <2>2, <2>3, MaxQueueAssumption DEF QueueTypes
<1>4. LinkTypes /\ ClientTypes
  BY DEF Init, Link!Init, Rtc!Init, LinkTypes, ClientTypes
<1> QED BY <1>1, <1>2, <1>3, <1>4 DEF TypeInv

LEMMA StatusKeeps ==
    ASSUME TypeInv, [Next]_vars
    PROVE  StatusTypes'
<1> USE DEF StatusTypes, status
<1>0. StatusTypes
  BY DEF TypeInv
<1>1. CASE Main
  BY <1>0, <1>1 DEF Main, FetchCmd, AppCmdSet, CfgVideo
<1>2. CASE Observer
  BY <1>0, <1>2 DEF Observer, OnSuccess, OnIceDisconnected, BetweenPasses
<1>3. CASE MeshEvent
  BY <1>0, <1>3
     DEF MeshEvent, OnMeshSignedIn, OnMeshSignFailed, OnMeshDisconnected, OnMeshPeerConnected,
     OnMeshPeerDisconnected, OnMeshMessageFromPeer, BetweenPasses
<1>4. CASE RtcEvent
  BY <1>0, <1>4
     DEF RtcEvent, LoginAnswered, RtcConfigured, RtcAnswered, FromRtcServer, BetweenPasses
<1>5. CASE ThreadCallbackHandle
  BY <1>0, <1>5 DEF ThreadCallbackHandle, PeerConnectionClosed
<1>6. CASE MeshStatusProc
  BY <1>0, <1>6 DEF MeshStatusProc, MeshIdle, MeshLogining, MeshLogined, MeshInCall
<1>7. CASE ServerStatusProc
  <2>1. mesh_status' = mesh_status
    BY <1>7 DEF ServerStatusProc
  <2>2. ServerIdle \/ ServerLogining \/ ServerLogined
    BY <1>7 DEF ServerStatusProc
  <2>3. ASSUME NEW cmds, Unsupported(cmds) PROVE server_status' = server_status
    BY <2>3 DEF Unsupported
  <2>4. HdmiCall \/ StreamStop => server_status' \in {server_status, "LOGINED"}
    BY DEF HdmiCall, StreamStop
  <2>5. server_status' \in {server_status, "IDLE", "LOGINING", "LOGINED"}
    BY <2>2, <2>3, <2>4 DEF ServerIdle, ServerLogining, ServerLogined
  <2> QED BY <1>0, <2>1, <2>5
<1>8. CASE \/ CfgCmdTake \/ CfgCmdProc \/ MeshStatusClear \/ ServerStatusClear \/ ServerIdlePass
           \/ ServerRelogin
  BY <1>0, <1>8 DEF CfgCmdTake, CfgCmdProc, MeshStatusClear, ServerStatusClear, ServerIdlePass,
     ServerRelogin
<1>9. CASE UNCHANGED vars
  BY <1>0, <1>9 DEF vars
<1> QED BY <1>1, <1>2, <1>3, <1>4, <1>5, <1>6, <1>7, <1>8, <1>9 DEF Next, Process

LEMMA CmdKeeps ==
    ASSUME TypeInv, [Next]_vars
    PROVE  CmdTypes'
<1> USE DEF CmdTypes, slots, servers, threads, user
<1>0. CmdTypes
  BY DEF TypeInv
<1>1. CASE FetchCmd
  <2>1. PICK cmd \in ui_cmds : \E arg \in ArgsOf(cmd) : ui' = <<cmd, arg>>
    BY <1>1 DEF FetchCmd
  <2>2. PICK arg \in ArgsOf(cmd) : ui' = <<cmd, arg>>
    BY <2>1
  <2>3. arg \in Addresses
    BY <2>2 DEF ArgsOf, Addresses
  <2>4. ui'[2] \in Addresses
    BY <2>2, <2>3
  <2> QED BY <1>0, <1>1, <2>4 DEF FetchCmd
<1>2. CASE AppCmdSet
  <2>1. args' \in Addresses /\ ui'[2] \in Addresses
    BY <1>0, <1>2 DEF AppCmdSet, NoUi, Addresses
  <2> QED BY <1>0, <1>2, <2>1 DEF AppCmdSet
<1>3. CASE CfgVideo
  BY <1>0, <1>3 DEF CfgVideo, NoUi, Addresses
<1>4. CASE Observer \/ MeshEvent
  BY <1>0, <1>4 DEF Observer, OnSuccess, OnIceDisconnected, BetweenPasses, MeshEvent
<1>5. CASE RtcEvent
  BY <1>0, <1>5
     DEF RtcEvent, LoginAnswered, RtcConfigured, RtcAnswered, FromRtcServer, BetweenPasses
<1>6. CASE ThreadCallbackHandle
  <2>1. server_cmd' \in {server_cmd, "RTC_LOGIN_OK", "RTC_LOGOUT_MSG", "RTC_DISCONN", "RTC_MEDIA_SDP_SEND"}
    BY <1>6 DEF ThreadCallbackHandle, PeerConnectionClosed
  <2> QED BY <1>0, <1>6, <2>1 DEF ThreadCallbackHandle, RtcCmds, InnerCmds
<1>7. CASE CfgCmdTake
  BY <1>0, <1>7 DEF CfgCmdTake
<1>8. CASE CfgCmdProc
  <2>1. CASE SwitchToRtcServer /\ args \in RtcServers
    BY <1>0, <1>8, <2>1 DEF CfgCmdProc, SwitchToRtcServer, MeshCmds, RtcCmds
  <2>2. CASE SwitchToMeshServer /\ args \in MeshServers
    BY <1>0, <1>8, <2>2 DEF CfgCmdProc, SwitchToMeshServer, MeshCmds, RtcCmds
  <2> QED BY <1>0, <1>8, <2>1, <2>2 DEF CfgCmdProc
<1>9. CASE MeshStatusProc \/ MeshStatusClear
  BY <1>0, <1>9 DEF MeshStatusProc, MeshStatusClear
<1>10. CASE ServerStatusProc
  <2>1. UNCHANGED <<cfg_cmd, server_cmd, args, servers, taken, user>>
    BY <1>10 DEF ServerStatusProc
  <2>2. ServerIdle \/ ServerLogining \/ ServerLogined
    BY <1>10 DEF ServerStatusProc
  <2>3. ASSUME NEW cmds, Unsupported(cmds) PROVE upper_cmd' = upper_cmd
    BY <2>3 DEF Unsupported
  <2>4. HdmiCall \/ StreamStop => upper_cmd' = upper_cmd
    BY DEF HdmiCall, StreamStop
  <2>5. upper_cmd' \in {upper_cmd, "MESH_LOGIN", "MESH_LOGOUT"}
    BY <2>2, <2>3, <2>4 DEF ServerIdle, ServerLogining, ServerLogined
  <2> QED BY <1>0, <2>1, <2>5 DEF MeshCmds
<1>11. CASE ServerStatusClear \/ ServerIdlePass \/ ServerRelogin
  BY <1>0, <1>11 DEF ServerStatusClear, ServerIdlePass, ServerRelogin
<1>12. CASE UNCHANGED vars
  BY <1>0, <1>12 DEF vars
<1> QED
  BY <1>1, <1>2, <1>3, <1>4, <1>5, <1>6, <1>7, <1>8, <1>9, <1>10, <1>11, <1>12
     DEF Next, Process, Main

LEMMA PeerKeeps ==
    ASSUME TypeInv, [Next]_vars
    PROVE  PeerTypes'
<1> USE DEF PeerTypes, conductor
<1>0. PeerTypes
  BY DEF TypeInv
<1>1. CASE Main \/ OnSuccess
  BY <1>0, <1>1 DEF Main, FetchCmd, AppCmdSet, CfgVideo, OnSuccess
<1>2. CASE OnIceDisconnected
  BY <1>0, <1>2 DEF OnIceDisconnected
<1>3. CASE MeshEvent
  BY <1>0, <1>3
     DEF MeshEvent, OnMeshSignedIn, OnMeshSignFailed, OnMeshDisconnected, OnMeshPeerConnected,
     OnMeshPeerDisconnected, OnMeshMessageFromPeer
<1>4. CASE RtcEvent
  BY <1>0, <1>4 DEF RtcEvent, LoginAnswered, RtcConfigured, RtcAnswered, FromRtcServer
<1>5. CASE ThreadCallbackHandle
  BY <1>0, <1>5 DEF ThreadCallbackHandle, PeerConnectionClosed
<1>6. CASE MeshStatusProc
  <2>1. peer_id' \in {peer_id, NoPeer, mesh_peer}
    BY <1>6 DEF MeshStatusProc, MeshIdle, MeshLogining, MeshLogined, MeshInCall, ConnectToPeer,
       DisconnMeshServer
  <2> QED BY <1>0, <1>6, <2>1 DEF MeshStatusProc
<1>7. CASE CfgCmdTake \/ CfgCmdProc \/ MeshStatusClear \/ ServerStatusClear \/ ServerIdlePass
  BY <1>0, <1>7 DEF CfgCmdTake, CfgCmdProc, MeshStatusClear, ServerStatusClear, ServerIdlePass
<1>8. CASE ServerStatusProc \/ ServerRelogin
  BY <1>0, <1>8 DEF ServerStatusProc, ServerRelogin
<1>9. CASE UNCHANGED vars
  BY <1>0, <1>9 DEF vars
<1> QED BY <1>1, <1>2, <1>3, <1>4, <1>5, <1>6, <1>7, <1>8, <1>9 DEF Next, Process, Observer

\* A call that ends leaves the connection deleted, or as there was none, and no camera.
LEMMA EndCallKeeps ==
    ASSUME CallTypes, EndCall, inner' \in BOOLEAN
    PROVE  CallTypes'
<1>1. capture' = FALSE
  BY DEF EndCall, StopCapture
<1>2. CASE pc = "none"
  BY <1>1, <1>2 DEF EndCall, CallTypes
<1>3. CASE pc # "none"
  BY <1>1, <1>3 DEF EndCall, DeletePeerConnection, CallTypes
<1> QED BY <1>2, <1>3

\* The call of a step that creates or deletes a connection, or leaves it.
LEMMA CallKeeps ==
    ASSUME TypeInv, [Next]_vars
    PROVE  CallTypes'
<1> USE DEF CallTypes, conductor, call
<1>0. CallTypes
  BY DEF TypeInv
<1>1. ASSUME \/ InitializePeerConnection("rtc", TRUE)
             \/ InitializePeerConnection("mesh", TRUE)
             \/ DeletePeerConnection /\ StopCapture,
             inner' \in BOOLEAN
      PROVE  CallTypes'
  BY <1>1 DEF InitializePeerConnection, DeletePeerConnection, StopCapture
<1>2. ASSUME UNCHANGED call, inner' \in BOOLEAN
      PROVE  CallTypes'
  BY <1>0, <1>2
<1>3. CASE Main
  BY <1>0, <1>3 DEF Main, FetchCmd, AppCmdSet, CfgVideo
<1>4. CASE Observer
  BY <1>0, <1>4 DEF Observer, OnSuccess, OnIceDisconnected
<1>5. CASE MeshEvent
  <2>1. ASSUME NEW id \in Peers, NEW what \in {"offer", "answer", "candidate"},
               OnMeshMessageFromPeer(id, what)
        PROVE  CallTypes'
    <3>1. CASE pc = "none"
      <4>1. pc' = "mesh" /\ sdp_pending' = (what = "offer") /\ capture' = TRUE /\ left' = FALSE
            /\ inner' = inner
        BY <2>1, <3>1 DEF OnMeshMessageFromPeer, InitializePeerConnection
      <4>2. sdp_pending' \in BOOLEAN
        BY <4>1
      <4> QED BY <1>0, <4>1, <4>2
    <3>2. CASE pc # "none"
      <4>1. pc' = pc /\ capture' = capture /\ left' = left /\ inner' = inner
            /\ sdp_pending' = (sdp_pending \/ what = "offer")
        BY <2>1, <3>2 DEF OnMeshMessageFromPeer
      <4>2. sdp_pending' \in BOOLEAN
        BY <4>1
      <4> QED BY <1>0, <4>1, <4>2
    <3> QED BY <3>1, <3>2
  <2>2. CASE OnMeshDisconnected
    BY <1>0, <1>1, <2>2 DEF OnMeshDisconnected
  <2>3. CASE UNCHANGED call /\ UNCHANGED inner
    BY <1>0, <2>3
  <2> QED
    BY <1>5, <2>1, <2>2, <2>3
       DEF MeshEvent, OnMeshSignedIn, OnMeshSignFailed, OnMeshPeerConnected,
       OnMeshPeerDisconnected
<1>6. CASE RtcEvent
  BY <1>0, <1>6 DEF RtcEvent, LoginAnswered, RtcConfigured, RtcAnswered, FromRtcServer
<1>7. CASE ThreadCallbackHandle
  <2>1. \/ UNCHANGED call
        \/ InitializePeerConnection("rtc", TRUE)
        \/ DeletePeerConnection /\ StopCapture
    BY <1>7 DEF ThreadCallbackHandle, ConnectToRtcServer, PeerConnectionClosed
  <2>2. inner' = inner
    BY <1>7 DEF ThreadCallbackHandle
  <2> QED BY <1>0, <1>1, <1>2, <2>1, <2>2
<1>8. CASE MeshStatusProc
  <2>1. inner' = inner
    BY <1>8 DEF MeshStatusProc
  <2>2. \/ UNCHANGED call
        \/ InitializePeerConnection("mesh", TRUE)
        \/ LeaveCall
        \/ EndCall
    BY <1>8 DEF MeshStatusProc, MeshIdle, MeshLogining, MeshLogined, MeshInCall, ConnectToPeer,
       DisconnectFromCurrentPeer
  <2>3. ASSUME LeaveCall PROVE CallTypes'
    <3>1. left' \in BOOLEAN /\ UNCHANGED <<pc, sdp_pending, capture>>
      BY <2>3 DEF LeaveCall
    <3> QED BY <1>0, <2>1, <3>1
  <2>4. inner' \in BOOLEAN
    BY <1>0, <2>1
  <2> QED BY <1>0, <1>1, <1>2, <2>2, <2>3, <2>4, EndCallKeeps
<1>9. CASE ServerStatusProc
  <2>1. ServerIdle \/ ServerLogining \/ ServerLogined
    BY <1>9 DEF ServerStatusProc
  <2>2. ASSUME NEW cmds, Unsupported(cmds) PROVE UNCHANGED <<inner, call>>
    BY <2>2 DEF Unsupported
  <2>3. CASE UNCHANGED <<inner, call>>
    BY <1>0, <2>3
  <2>4. CASE HdmiCall
    <3>1. inner' \in BOOLEAN
      BY <1>0, <2>4 DEF HdmiCall
    <3>2. UNCHANGED call \/ InitializePeerConnection("rtc", TRUE) \/ EndCall
      BY <2>4 DEF HdmiCall, ConnectToRtcServer, DisconnectFromCurrentPeer
    <3> QED BY <1>0, <1>1, <1>2, <3>1, <3>2, EndCallKeeps
  <2>5. CASE StreamStop
    BY <2>3, <2>5 DEF StreamStop
  <2>6. CASE ServerIdle
    BY <1>0, <2>2, <2>3, <2>4, <2>5, <2>6 DEF ServerIdle
  <2>7. CASE ServerLogining
    BY <1>0, <2>2, <2>3, <2>4, <2>5, <2>7 DEF ServerLogining
  <2>8. CASE ServerLogined
    <3>1. CASE EndCall /\ inner' = inner
      BY <1>0, <3>1, EndCallKeeps
    <3> QED BY <1>0, <2>2, <2>3, <2>4, <2>5, <2>8, <3>1 DEF ServerLogined, DisconnectFromCurrentPeer
  <2> QED BY <2>1, <2>6, <2>7, <2>8
<1>10. CASE CfgCmdTake \/ CfgCmdProc \/ MeshStatusClear \/ ServerStatusClear \/ ServerIdlePass
            \/ ServerRelogin
  BY <1>0, <1>10 DEF CfgCmdTake, CfgCmdProc, MeshStatusClear, ServerStatusClear, ServerIdlePass,
     ServerRelogin
<1>11. CASE UNCHANGED vars
  BY <1>0, <1>11 DEF vars
<1> QED BY <1>3, <1>4, <1>5, <1>6, <1>7, <1>8, <1>9, <1>10, <1>11 DEF Next, Process

LEMMA LinkKeeps ==
    ASSUME TypeInv, [Next]_vars
    PROVE  LinkTypes'
<1> USE DEF LinkTypes
<1>0. LinkTypes
  BY DEF TypeInv
<1>1. CASE Link!Quiet
  BY <1>0, <1>1 DEF Link!Quiet
<1>2. CASE Link!Next
  BY <1>0, <1>2
     DEF Link!Next, Link!Login, Link!Logout, Link!SignedIn, Link!Lost, Link!Vanish, Link!Retry,
     Link!Notify, Link!Quiet
<1>3. CASE Main \/ Observer
  BY <1>1, <1>3 DEF Main, FetchCmd, AppCmdSet, CfgVideo, Observer, OnSuccess, OnIceDisconnected
<1>4. CASE MeshEvent
  BY <1>2, <1>4 DEF MeshEvent, OnMeshSignedIn, Link!Next
<1>5. CASE RtcEvent
  BY <1>1, <1>5 DEF RtcEvent, LoginAnswered, RtcConfigured, RtcAnswered, FromRtcServer
<1>6. CASE MeshStatusProc
  BY <1>1, <1>2, <1>6 DEF MeshStatusProc, MeshIdle, MeshLogining, MeshLogined, MeshInCall,
     LoginToMeshServer, DisconnMeshServer, Link!Next
<1>7. CASE \/ ThreadCallbackHandle \/ CfgCmdTake \/ CfgCmdProc \/ MeshStatusClear \/ ServerStatusProc
           \/ ServerStatusClear \/ ServerIdlePass \/ ServerRelogin
  BY <1>1, <1>7
     DEF ThreadCallbackHandle, CfgCmdTake, CfgCmdProc, MeshStatusClear, ServerStatusProc,
     ServerStatusClear, ServerIdlePass, ServerRelogin
<1>8. CASE UNCHANGED vars
  BY <1>0, <1>8 DEF vars, mesh
<1> QED BY <1>3, <1>4, <1>5, <1>6, <1>7, <1>8 DEF Next, Process

LEMMA ClientKeeps ==
    ASSUME TypeInv, [Next]_vars
    PROVE  ClientTypes'
<1>0. ClientTypes /\ inner \in BOOLEAN
  BY DEF TypeInv, CallTypes
<1>1. CASE UNCHANGED client
  BY <1>0, <1>1 DEF ClientTypes, client
<1>2. CASE OnIceDisconnected
  <2>1. called' \in BOOLEAN
    BY <1>0, <1>2 DEF OnIceDisconnected, ClientTypes
  <2> QED BY <1>0, <1>2, <2>1 DEF OnIceDisconnected, ClientTypes
<1>3. CASE RtcEvent
  <2>1. ASSUME NEW said, Rtc!News(said) PROVE ClientTypes'
    <3>1. CASE Rtc!SignedIn(said)
      BY <1>0, <3>1 DEF Rtc!SignedIn, ClientTypes
    <3>2. CASE Rtc!Lost(said)
      BY <1>0, <3>2 DEF Rtc!Lost, ClientTypes
    <3>3. CASE Rtc!Called(said) \/ Rtc!Closed(said)
      BY <1>0, <3>3 DEF Rtc!Called, Rtc!Closed, ClientTypes
    <3>4. CASE Rtc!Configured(said)
      BY <1>0, <3>4 DEF Rtc!Configured, Rtc!client, ClientTypes
    <3>5. CASE Rtc!AnswerLost(said)
      BY <1>0, <3>5 DEF Rtc!AnswerLost, ClientTypes
    <3>6. ASSUME NEW usable \in BOOLEAN, Rtc!Answered(said, usable) PROVE ClientTypes'
      <4>1. sdp_posted' \in BOOLEAN /\ called' \in BOOLEAN
        BY <3>6 DEF Rtc!Answered
      <4> QED BY <1>0, <3>6, <4>1 DEF Rtc!Answered, ClientTypes
    <3> QED BY <2>1, <3>1, <3>2, <3>3, <3>4, <3>5, <3>6 DEF Rtc!News
  <2>2. \E said : Rtc!News(said)
    <3>1. (peer_id = NoPeer /\ pc # "none") \in BOOLEAN
      OBVIOUS
    <3>2. RtcAnswered => \E said : Rtc!News(said)
      BY <3>1 DEF RtcAnswered, Rtc!News
    <3> QED BY <1>3, <3>2 DEF RtcEvent, LoginAnswered, RtcConfigured, Rtc!News
  <2> QED BY <2>1, <2>2
<1>4. CASE ThreadCallbackHandle
  <2>1. peer_inner' \in {peer_inner, inner}
    BY <1>4 DEF ThreadCallbackHandle, ConnectToRtcServer, PeerConnectionClosed
  <2> QED BY <1>0, <1>4, <2>1 DEF ThreadCallbackHandle, ClientTypes
<1>5. CASE MeshStatusProc
  <2>1. called' \in {called, FALSE}
    BY <1>5 DEF MeshStatusProc, MeshIdle, MeshLogining, MeshLogined, MeshInCall, LeaveCall,
       DisconnectFromCurrentPeer
  <2> QED BY <1>0, <1>5, <2>1 DEF MeshStatusProc, ClientTypes
<1>6. CASE ServerStatusProc
  <2>1. ServerIdle \/ ServerLogining \/ ServerLogined
    BY <1>6 DEF ServerStatusProc
  <2>2. ASSUME NEW cmds, Unsupported(cmds) PROVE UNCHANGED client
    BY <2>2 DEF Unsupported
  <2>3. CASE HdmiCall
    <3>1. peer_inner' \in {peer_inner, TRUE} /\ called' \in {called, FALSE}
      BY <2>3 DEF HdmiCall, ConnectToRtcServer, DisconnectFromCurrentPeer
    <3> QED BY <1>0, <2>3, <3>1 DEF HdmiCall, ClientTypes
  <2>4. CASE StreamStop
    BY <1>1, <2>4 DEF StreamStop
  <2>5. ASSUME LogoutFromWebrtcServer, called' \in {called, FALSE}, UNCHANGED <<peer_inner, sdp_posted>>
        PROVE  ClientTypes'
    <3>1. login_ok' \in BOOLEAN /\ websocket' \in BOOLEAN /\ conn_starting' = FALSE
      BY <1>0, <2>5 DEF LogoutFromWebrtcServer, ClientTypes
    <3> QED BY <1>0, <2>5, <3>1 DEF ClientTypes
  <2>6. CASE ServerIdle
    <3>1. CASE LoginToWebrtcServer /\ UNCHANGED <<websocket, called, peer_inner, sdp_posted>>
      BY <1>0, <3>1 DEF LoginToWebrtcServer, ClientTypes
    <3> QED BY <1>1, <2>2, <2>3, <2>4, <2>6, <3>1 DEF ServerIdle
  <2>7. CASE ServerLogining
    BY <1>1, <2>2, <2>3, <2>4, <2>5, <2>7 DEF ServerLogining
  <2>8. CASE ServerLogined
    <3>1. CASE SendWebrtcSdp /\ UNCHANGED <<conn_starting, websocket, called, peer_inner>>
      <4>1. login_ok' \in BOOLEAN /\ sdp_posted' \in BOOLEAN
        BY <3>1 DEF SendWebrtcSdp
      <4> QED BY <1>0, <3>1, <4>1 DEF ClientTypes
    <3>2. CASE /\ DisconnectFromCurrentPeer
               /\ UNCHANGED <<conn_starting, login_ok, websocket, peer_inner, sdp_posted>>
      BY <1>0, <3>2 DEF DisconnectFromCurrentPeer, ClientTypes
    <3> QED BY <1>1, <2>2, <2>3, <2>4, <2>5, <2>8, <3>1, <3>2 DEF ServerLogined
  <2> QED BY <2>1, <2>6, <2>7, <2>8
<1>7. CASE ServerRelogin
  BY <1>0, <1>7 DEF ServerRelogin, LoginToWebrtcServer, ClientTypes
<1>8. CASE \/ Main \/ OnSuccess \/ MeshEvent \/ CfgCmdTake \/ CfgCmdProc \/ MeshStatusClear
           \/ ServerStatusClear \/ ServerIdlePass \/ UNCHANGED vars
  BY <1>1, <1>8
     DEF Main, FetchCmd, AppCmdSet, CfgVideo, OnSuccess, MeshEvent, CfgCmdTake, CfgCmdProc,
     MeshStatusClear, ServerStatusClear, ServerIdlePass, vars
<1> QED BY <1>2, <1>3, <1>4, <1>5, <1>6, <1>7, <1>8 DEF Next, Process, Observer

\* What others put in the queue is bounded.
LEMMA EntriesAdded ==
    ASSUME QueueTypes, NEW entries \in Seq(Entries), QueueUIThreadCallback(entries)
    PROVE  queue' \in Seq(Entries) /\ Len(queue') <= MaxQueue
<1>1. queue' = queue \o entries /\ Len(queue) + Len(entries) <= MaxQueue
  BY DEF QueueUIThreadCallback
<1>2. queue \o entries \in Seq(Entries) /\ Len(queue \o entries) = Len(queue) + Len(entries)
  BY ConcatProperties DEF QueueTypes
<1> QED BY <1>1, <1>2

LEMMA QueueKeeps ==
    ASSUME TypeInv, [Next]_vars
    PROVE  QueueTypes'
<1>0. QueueTypes /\ MaxQueue \in Nat
  BY MaxQueueAssumption DEF TypeInv
<1>1. ASSUME NEW entries \in Seq(Entries), QueueUIThreadCallback(entries), rpc' = rpc
      PROVE  QueueTypes'
  BY <1>0, <1>1, EntriesAdded DEF QueueTypes
<1>2. ASSUME queue' = queue,
             \/ rpc' = rpc
             \/ /\ rpc \notin {"cb", "serverclear"}
                /\ rpc' \in {"cb", "cfg", "cfgdo", "mesh", "meshclear", "server", "serverclear"}
             \/ rpc' = "cb"
      PROVE  QueueTypes'
  BY <1>0, <1>2 DEF QueueTypes
<1>3. \A e \in Entries : <<e>> \in Seq(Entries)
  OBVIOUS
<1>4. <<>> \in Seq(Entries) /\ \A e, f \in Entries : <<e, f>> \in Seq(Entries)
  OBVIOUS
<1>5. CASE FetchCmd \/ AppCmdSet
  BY <1>2, <1>5 DEF FetchCmd, AppCmdSet
<1>6. CASE CfgVideo
  BY <1>1, <1>3, <1>6 DEF CfgVideo, Entries
<1>7. CASE Observer
  BY <1>1, <1>2, <1>3, <1>7
     DEF Observer, OnSuccess, OnIceDisconnected, BetweenPasses, threads, Entries
<1>8. CASE MeshEvent
  <2>1. rpc' = rpc
    BY <1>8 DEF MeshEvent, BetweenPasses, threads
  <2>2. \/ queue' = queue
        \/ \E e \in Entries : QueueUIThreadCallback(<<e>>)
    BY <1>8
       DEF MeshEvent, OnMeshSignedIn, OnMeshSignFailed, OnMeshDisconnected,
           OnMeshPeerConnected,
       OnMeshPeerDisconnected, OnMeshMessageFromPeer, Entries
  <2> QED BY <1>1, <1>2, <1>3, <2>1, <2>2
<1>9. CASE RtcEvent
  <2>1. rpc' = rpc
    BY <1>9
       DEF RtcEvent, LoginAnswered, RtcConfigured, RtcAnswered, FromRtcServer, BetweenPasses,
           threads
  <2>2. RtcReports \cup {<<"LOGINED">>, <<"HANGUP">>, <<"TRACK">>, <<>>} \subseteq Seq(Entries)
    BY <1>3, <1>4 DEF RtcReports, Entries
  <2>3. \E said \in Seq(Entries) : QueueUIThreadCallback(said)
    BY <1>9, <2>2 DEF RtcEvent, LoginAnswered, RtcConfigured, RtcAnswered, FromRtcServer
  <2> QED BY <1>1, <2>1, <2>3
<1>10. CASE ThreadCallbackHandle
  <2>1. rpc' = "cfg" /\ queue' = IF queue = <<>> THEN queue ELSE Tail(queue)
    BY <1>10 DEF ThreadCallbackHandle
  <2>2. CASE queue = <<>>
    <3>1. Len(queue') = 0 /\ queue' = queue
      BY <2>1, <2>2
    <3> QED BY <1>0, <2>1, <3>1 DEF QueueTypes
  <2>3. CASE queue # <<>>
    <3>1. queue' \in Seq(Entries) /\ Len(queue') = Len(queue) - 1
      BY <1>0, <2>1, <2>3, HeadTailProperties DEF QueueTypes
    <3> QED BY <1>0, <2>1, <3>1 DEF QueueTypes
  <2> QED BY <2>2, <2>3
<1>11. CASE CfgCmdTake \/ CfgCmdProc
  BY <1>2, <1>11 DEF CfgCmdTake, CfgCmdProc
<1>12. CASE MeshStatusProc \/ MeshStatusClear
  BY <1>2, <1>12 DEF MeshStatusProc, MeshStatusClear
<1>13. CASE ServerStatusProc
  <2>1. rpc = "server" /\ rpc' = "serverclear" /\ (ServerIdle \/ ServerLogining \/ ServerLogined)
    BY <1>13 DEF ServerStatusProc
  <2>2. ASSUME NEW cmds, Unsupported(cmds) PROVE queue' = queue
    BY <2>2 DEF Unsupported
  <2>3. queue' \in {queue, Append(queue, "HANGUP")}
    BY <2>1, <2>2 DEF ServerIdle, ServerLogining, ServerLogined, HdmiCall, StreamStop
  <2>4. Append(queue, "HANGUP") \in Seq(Entries) /\ Len(Append(queue, "HANGUP")) = Len(queue) + 1
    BY <1>0, AppendProperties DEF QueueTypes, Entries
  <2>5. queue \in Seq(Entries) /\ Len(queue) \in Nat /\ Len(queue) <= MaxQueue
    BY <1>0, <2>1 DEF QueueTypes
  <2> QED BY <1>0, <2>1, <2>3, <2>4, <2>5 DEF QueueTypes
<1>14. CASE ServerStatusClear \/ ServerIdlePass \/ ServerRelogin
  BY <1>2, <1>14 DEF ServerStatusClear, ServerIdlePass, ServerRelogin
<1>15. CASE UNCHANGED vars
  BY <1>2, <1>15 DEF vars, threads
<1> QED
  BY <1>5, <1>6, <1>7, <1>8, <1>9, <1>10, <1>11, <1>12, <1>13, <1>14, <1>15
     DEF Next, Process, Main

\* The types, queue bound included, hold in every behaviour.
THEOREM Typed == Spec => []TypeInv
<1>1. TypeInv /\ [Next]_vars => TypeInv'
  BY StatusKeeps, CmdKeeps, PeerKeeps, CallKeeps, LinkKeeps, ClientKeeps, QueueKeeps DEF TypeInv
<1> QED BY <1>1, InitTypeInv, PTL DEF Spec

\* The commands, statuses and flags stay within their types, and the callback queue
\* grows beyond its bound by at most the one entry that a pass adds after it took one.
THEOREM Types == Spec => []TypeOK
<1> QED BY Typed, InvTypeOK, PTL

-----------------------------------------------------------------------------
(* The camera.                                                               *)

\* The entry that ends the call is in the queue.
Ending == \E i \in 1 .. Len(queue) : queue[i] = "CLOSED"

\* What is put in the queue hides no entry of it.
LEMMA EndingKept ==
    ASSUME QueueTypes, NEW entries \in Seq(Entries), queue' = queue \o entries
    PROVE  Ending => Ending'
<1> SUFFICES ASSUME Ending PROVE Ending'
  OBVIOUS
<1>1. PICK i \in 1 .. Len(queue) : queue[i] = "CLOSED"
  BY DEF Ending
<1>2. queue \in Seq(Entries) /\ Len(queue) \in Nat /\ Len(entries) \in Nat
  BY DEF QueueTypes
<1>3. Len(queue') = Len(queue) + Len(entries) /\ queue'[i] = queue[i]
  BY <1>1, <1>2, ConcatProperties
<1> QED BY <1>1, <1>2, <1>3 DEF Ending

\* The end of a call that is put in the queue is there.
LEMMA EndingAdded ==
    ASSUME QueueTypes, queue' = queue \o <<"CLOSED">>
    PROVE  Ending'
<1>1. queue \in Seq(Entries) /\ Len(queue) \in Nat
  BY DEF QueueTypes
<1>2. Len(queue') = Len(queue) + 1 /\ queue'[Len(queue) + 1] = "CLOSED"
  BY <1>1
<1> QED BY <1>1, <1>2 DEF Ending

\* The camera of a call that goes on: its reasons stay, or one takes the other's place.
LEMMA CameraStays ==
    ASSUME CameraHasReason,
           UNCHANGED <<capture, pc, left>>,
           peer_id' # NoPeer \/ peer_id' = peer_id \/ Ending',
           Ending => Ending'
    PROVE  CameraHasReason'
BY DEF CameraHasReason, Ending

\* A step that only adds to the queue, or leaves it.
LEMMA CameraQuiet ==
    ASSUME TypeInv, CameraHasReason, UNCHANGED <<call, peer_id>>,
           queue' = queue \/ \E entries \in Seq(Entries) : queue' = queue \o entries
    PROVE  CameraHasReason'
<1>1. Ending => Ending'
  BY EndingKept DEF Ending, TypeInv
<1> QED BY <1>1, CameraStays DEF call

\* Steps that start or end a call.
LEMMA CameraTurns ==
    ASSUME CameraHasReason,
           \/ capture' = FALSE
           \/ pc' = "rtc"
           \/ pc' = "mesh" /\ peer_id' # NoPeer
    PROVE  CameraHasReason'
BY DEF CameraHasReason

LEMMA CameraMain ==
    ASSUME TypeInv, CameraHasReason, Main \/ Observer
    PROVE  CameraHasReason'
<1>1. CASE FetchCmd \/ AppCmdSet
  BY <1>1, CameraQuiet DEF FetchCmd, AppCmdSet, conductor
<1>2. <<"HANGUP">> \in Seq(Entries) /\ <<"SDP">> \in Seq(Entries) /\ <<"CLOSED">> \in Seq(Entries)
  BY DEF Entries
<1>3. CASE CfgVideo
  BY <1>2, <1>3, CameraQuiet DEF CfgVideo, QueueUIThreadCallback, conductor
<1>4. CASE OnSuccess
  <2>1. Ending => Ending'
    BY <1>2, <1>4, EndingKept DEF OnSuccess, QueueUIThreadCallback, Ending, TypeInv
  <2> QED BY <1>4, <2>1, CameraStays DEF OnSuccess
<1>5. CASE OnIceDisconnected
  <2>1. Ending'
    BY <1>5, EndingAdded DEF OnIceDisconnected, QueueUIThreadCallback, TypeInv
  <2> QED BY <1>5, <2>1, CameraStays DEF OnIceDisconnected, call
<1> QED BY <1>1, <1>3, <1>4, <1>5 DEF Main, Observer

LEMMA CameraMesh ==
    ASSUME TypeInv, CameraHasReason, MeshEvent
    PROVE  CameraHasReason'
<1>1. CASE UNCHANGED <<queue, conductor>>
  BY <1>1, CameraQuiet DEF conductor
<1>2. CASE OnMeshDisconnected
  BY <1>2, CameraTurns DEF OnMeshDisconnected, StopCapture
<1>3. CASE OnMeshPeerDisconnected
  <2>1. Ending'
    BY <1>3, EndingAdded DEF OnMeshPeerDisconnected, QueueUIThreadCallback, TypeInv
  <2> QED BY <1>3, <2>1, CameraStays DEF OnMeshPeerDisconnected, call
<1>4. ASSUME NEW id \in Peers, NEW what \in {"offer", "answer", "candidate"},
             OnMeshMessageFromPeer(id, what)
      PROVE  CameraHasReason'
  <2>1. peer_id' # NoPeer
    BY <1>4, PeersAssumption DEF OnMeshMessageFromPeer
  <2>2. CASE pc = "none"
    BY <1>4, <2>1, <2>2, CameraTurns DEF OnMeshMessageFromPeer, InitializePeerConnection
  <2>3. CASE pc # "none"
    <3>1. <<"TRACK">> \in Seq(Entries)
      BY DEF Entries
    <3>2. Ending => Ending'
      BY <1>4, <3>1, EndingKept
         DEF OnMeshMessageFromPeer, QueueUIThreadCallback, Ending, TypeInv
    <3> QED BY <1>4, <2>1, <2>3, <3>2, CameraStays DEF OnMeshMessageFromPeer
  <2> QED BY <2>2, <2>3
<1> QED
  BY <1>1, <1>2, <1>3, <1>4 DEF MeshEvent, OnMeshSignedIn, OnMeshSignFailed, OnMeshPeerConnected

LEMMA CameraRtc ==
    ASSUME TypeInv, CameraHasReason, RtcEvent
    PROVE  CameraHasReason'
<1>1. RtcReports \cup {<<"LOGINED">>, <<"HANGUP">>, <<"TRACK">>, <<>>} \subseteq Seq(Entries)
  BY DEF RtcReports, Entries
<1>2. UNCHANGED <<call, peer_id>> /\ \E said \in Seq(Entries) : QueueUIThreadCallback(said)
  BY <1>1 DEF RtcEvent, LoginAnswered, RtcConfigured, RtcAnswered, FromRtcServer
<1> QED BY <1>2, CameraQuiet DEF QueueUIThreadCallback

\* The entry that is taken is either not the end of a call, or ends it.
LEMMA CameraHandle ==
    ASSUME TypeInv, CameraHasReason, ThreadCallbackHandle
    PROVE  CameraHasReason'
<1>0. queue \in Seq(Entries) /\ peer_id' = peer_id
  BY DEF ThreadCallbackHandle, TypeInv, QueueTypes
<1>1. CASE queue = <<>>
  <2>1. queue' = queue /\ UNCHANGED call
    BY <1>1 DEF ThreadCallbackHandle
  <2> QED BY <1>0, <2>1, CameraQuiet
<1>2. CASE queue # <<>> /\ Head(queue) = "CLOSED"
  <2>1. capture' = FALSE
    BY <1>2 DEF ThreadCallbackHandle, PeerConnectionClosed, StopCapture
  <2> QED BY <2>1, CameraTurns
<1>3. CASE queue # <<>> /\ Head(queue) # "CLOSED"
  <2>1. UNCHANGED call \/ pc' = "rtc"
    BY <1>3 DEF ThreadCallbackHandle, ConnectToRtcServer, InitializePeerConnection
  <2>2. queue' = Tail(queue) /\ queue[1] # "CLOSED"
    BY <1>0, <1>3 DEF ThreadCallbackHandle
  <2>3. Ending => Ending'
    <3> SUFFICES ASSUME Ending PROVE Ending'
      OBVIOUS
    <3>1. PICK i \in 1 .. Len(queue) : queue[i] = "CLOSED"
      BY DEF Ending
    <3>2. Len(queue') = Len(queue) - 1 /\ Len(queue) \in Nat
      BY <1>0, <1>3, <2>2, HeadTailProperties
    <3>3. i # 1 /\ i - 1 \in 1 .. Len(queue')
      BY <2>2, <3>1, <3>2
    <3>4. queue'[i - 1] = queue[i]
      BY <1>0, <1>3, <2>2, <3>1, <3>2, <3>3, HeadTailProperties
    <3> QED BY <3>1, <3>3, <3>4 DEF Ending
  <2> QED BY <1>0, <2>1, <2>3, CameraStays, CameraTurns DEF call
<1> QED BY <1>1, <1>2, <1>3

\* A call is placed to a peer that is there, and a logout that leaves one remembers it.
LEMMA CameraMeshProc ==
    ASSUME TypeInv, CameraHasReason, MeshStatusProc
    PROVE  CameraHasReason'
<1>0. queue' = queue
  BY DEF MeshStatusProc
<1>1. CASE UNCHANGED <<call, peer_id>>
  BY <1>0, <1>1, CameraQuiet
<1>2. CASE EndCall
  BY <1>2, CameraTurns DEF EndCall, StopCapture
<1>3. CASE LeaveCall
  BY <1>0, <1>3 DEF LeaveCall, CameraHasReason
<1>4. CASE mesh_peer # NoPeer /\ ConnectToPeer(mesh_peer) /\ pc = "none"
  BY <1>4, CameraTurns DEF ConnectToPeer, InitializePeerConnection
<1>5. CASE mesh_peer # NoPeer /\ ConnectToPeer(mesh_peer) /\ pc # "none"
  BY <1>1, <1>5 DEF ConnectToPeer
<1> QED
  BY <1>1, <1>2, <1>3, <1>4, <1>5
     DEF MeshStatusProc, MeshIdle, MeshLogining, MeshLogined, MeshInCall,
     DisconnectFromCurrentPeer

LEMMA CameraServerProc ==
    ASSUME TypeInv, CameraHasReason, ServerStatusProc
    PROVE  CameraHasReason'
<1>1. peer_id' = peer_id /\ (ServerIdle \/ ServerLogining \/ ServerLogined)
  BY DEF ServerStatusProc
<1>2. ASSUME UNCHANGED call, queue' = queue PROVE CameraHasReason'
  BY <1>1, <1>2, CameraQuiet
<1>3. ASSUME EndCall PROVE CameraHasReason'
  BY <1>3, CameraTurns DEF EndCall, StopCapture
<1>4. CASE HdmiCall
  BY <1>2, <1>3, <1>4, CameraTurns DEF HdmiCall, ConnectToRtcServer, InitializePeerConnection,
     DisconnectFromCurrentPeer
<1>5. CASE StreamStop
  <2>1. queue' = queue \o <<"HANGUP">> /\ <<"HANGUP">> \in Seq(Entries)
    BY <1>5 DEF StreamStop, TypeInv, QueueTypes, Entries
  <2> QED BY <1>1, <1>5, <2>1, CameraQuiet DEF StreamStop
<1>6. ASSUME NEW cmds, Unsupported(cmds) PROVE CameraHasReason'
  BY <1>2, <1>6 DEF Unsupported
<1>7. CASE ServerIdle
  BY <1>2, <1>4, <1>5, <1>6, <1>7 DEF ServerIdle
<1>8. CASE ServerLogining
  BY <1>2, <1>4, <1>5, <1>6, <1>8 DEF ServerLogining
<1>9. CASE ServerLogined
  BY <1>2, <1>3, <1>4, <1>5, <1>6, <1>9 DEF ServerLogined, DisconnectFromCurrentPeer
<1> QED BY <1>1, <1>7, <1>8, <1>9

\* The camera only films for a connection whose peer is there, or whose end is on its way,
\* or that a mesh logout has left (conductor.cc: AddTracks, UIThreadCallback,
\* OnMeshPeerDisconnected, OnIceConnectionChange, DisconnectFromCurrentPeer).
THEOREM Camera == Spec => []CameraHasReason
<1>1. Init => CameraHasReason
  BY DEF Init, CameraHasReason
<1>2. TypeInv /\ CameraHasReason /\ [Next]_vars => CameraHasReason'
  <2> SUFFICES ASSUME TypeInv, CameraHasReason, [Next]_vars PROVE CameraHasReason'
    OBVIOUS
  <2>1. CASE \/ CfgCmdTake \/ CfgCmdProc \/ MeshStatusClear \/ ServerStatusClear
             \/ ServerIdlePass \/ ServerRelogin \/ UNCHANGED vars
    BY <2>1, CameraQuiet DEF CfgCmdTake, CfgCmdProc, MeshStatusClear, ServerStatusClear,
       ServerIdlePass, ServerRelogin, vars, conductor
  <2> QED
    BY <2>1, CameraMain, CameraMesh, CameraRtc, CameraHandle, CameraMeshProc, CameraServerProc
       DEF Next, Process
<1> QED BY <1>1, <1>2, Typed, PTL DEF Spec
=============================================================================
