--------------------------- MODULE RtcClientProofs ---------------------------
(***************************************************************************)
(* For rings of any size, any number of heartbeats that may be lost and    *)
(* any number of pieces: the client of the rtc server implements RtcLink,  *)
(* which the controller relies on, and charges a session only with its own *)
(* heartbeats.                                                             *)
(***************************************************************************)
EXTENDS RtcClient, SequenceTheorems, TLAPS

USE HttpNumAssumption, MaxLostAssumption, MaxFragAssumption

\* The rings, as sequences with a length.
Queues ==
    /\ out \in Seq(Requests) /\ Len(out) <= HttpNum - 1
    /\ inq \in Seq(Requests) /\ Len(inq) <= HttpNum - 1

Flags == {conn_starting, login_ok, called, peer_inner, splitting, asked, serving} \subseteq BOOLEAN

Counts == lost \in 0 .. MaxLost /\ due \in 0 .. MaxLost /\ frags \in 0 .. (MaxFrag + 1)

Reports == {<<>>, <<"LOGINED">>, <<"LOGOUT">>, <<"HANGUP", "LOGOUT">>, <<"CALL">>, <<"HANGUP">>,
            <<"TRACK">>}

Kinds ==
    /\ session \in {"none", "up", "down"}
    /\ data \in {"", "open", "junk"}
    /\ work \in Requests \cup {"none"}
    /\ inbox \in Pieces \cup {"none"}
    /\ said \in Reports

ClientInv == Queues /\ Flags /\ Counts /\ Kinds /\ GraceKept

\* A bounded sequence is a sequence that is not too long.
LEMMA Bounded ==
    ASSUME NEW S, NEW n \in Nat, NEW s
    PROVE  s \in BoundedSeq(S, n) <=> s \in Seq(S) /\ Len(s) <= n
<1>1. ASSUME s \in Seq(S), Len(s) <= n
      PROVE  s \in BoundedSeq(S, n)
  <2>1. Len(s) \in 0 .. n /\ s \in [1 .. Len(s) -> S]
    BY <1>1, LenProperties
  <2> QED BY <2>1 DEF BoundedSeq, SeqOf
<1>2. ASSUME s \in BoundedSeq(S, n)
      PROVE  s \in Seq(S) /\ Len(s) <= n
  <2>1. PICK m \in 0 .. n : s \in [1 .. m -> S]
    BY <1>2 DEF BoundedSeq, SeqOf
  <2>2. m \in Nat /\ m <= n
    BY <2>1
  <2>3. s \in Seq(S)
    BY <2>1, <2>2, SeqDef
  <2>4. Len(s) = m
    BY <2>1, <2>2, <2>3, LenProperties
  <2> QED BY <2>2, <2>3, <2>4
<1> QED BY <1>1, <1>2

\* The invariant says all that TypeOK does.
LEMMA InvTypeOK == ClientInv => TypeOK
<1> SUFFICES ASSUME ClientInv PROVE TypeOK
  OBVIOUS
<1>1. HttpNum - 1 \in Nat
  OBVIOUS
<1>2. {out, inq} \subseteq BoundedSeq(Requests, HttpNum - 1)
  BY <1>1, Bounded DEF ClientInv, Queues
<1> QED BY <1>2 DEF ClientInv, Flags, Counts, Kinds, Reports, TypeOK

LEMMA InitClientInv == Init => ClientInv
<1> SUFFICES ASSUME Init PROVE ClientInv
  OBVIOUS
<1>1. Queues
  <2>1. <<>> \in Seq(Requests) /\ Len(<<>>) = 0
    BY EmptySeq
  <2>2. 0 <= HttpNum - 1
    OBVIOUS
  <2>3. out = <<>> /\ inq = <<>>
    BY DEF Init
  <2> QED BY <2>1, <2>2, <2>3 DEF Queues
<1>2. Flags
  BY DEF Init, Flags
<1>3. Counts /\ GraceKept
  <2>1. 0 \in 0 .. MaxLost /\ 0 \in 0 .. (MaxFrag + 1) /\ 0 <= 0
    OBVIOUS
  <2>2. lost = 0 /\ due = 0 /\ frags = 0
    BY DEF Init
  <2> QED BY <2>1, <2>2 DEF Counts, GraceKept
<1>4. Kinds
  BY DEF Init, Kinds, Reports
<1> QED BY <1>1, <1>2, <1>3, <1>4 DEF ClientInv

\* A request that may have found no room.
LEMMA EnqueueQueues ==
    ASSUME Queues, NEW req \in Requests, Enqueue(req)
    PROVE  out' \in Seq(Requests) /\ Len(out') <= HttpNum - 1
<1>1. CASE out' = out
  BY <1>1 DEF Queues
<1>2. CASE Len(out) < HttpNum - 1 /\ out' = Append(out, req)
  <2>1. out' \in Seq(Requests) /\ Len(out') = Len(out) + 1
    BY <1>2, AppendProperties DEF Queues
  <2> QED BY <1>2, <2>1, LenProperties DEF Queues
<1> QED BY <1>1, <1>2 DEF Enqueue

LEMMA RetryQueues ==
    ASSUME Queues, NEW ok \in BOOLEAN, LoginRetry(ok)
    PROVE  /\ out' \in Seq(Requests) /\ Len(out') <= HttpNum - 1
           /\ login_ok' \in {FALSE, ok}
<1>1. CASE LoginInternal
  BY <1>1, EnqueueQueues DEF LoginInternal, Requests
<1>2. CASE login_ok' = ok /\ UNCHANGED out
  BY <1>2 DEF Queues
<1> QED BY <1>1, <1>2 DEF LoginRetry

\* The head of a ring is taken.
LEMMA TakeQueues ==
    ASSUME NEW q \in Seq(Requests), q # <<>>, Len(q) <= HttpNum - 1
    PROVE  Head(q) \in Requests /\ Tail(q) \in Seq(Requests) /\ Len(Tail(q)) <= HttpNum - 1
BY HeadTailProperties

-----------------------------------------------------------------------------
(* Every step keeps the invariant.                                           *)

LEMMA CommandsInv == ASSUME ClientInv, Commands PROVE ClientInv'
<1>1. Queues'
  <2>1. CASE Login
    BY <2>1, EnqueueQueues DEF Login, LoginInternal, ClientInv, Queues, Requests
  <2>2. CASE SdpMessageSend
    BY <2>2, EnqueueQueues DEF SdpMessageSend, ClientInv, Queues, Requests
  <2>3. CASE Logout \/ SetPeerServerType \/ WebrtcStreamClean
    BY <2>3 DEF Logout, SetPeerServerType, WebrtcStreamClean, http, ClientInv, Queues
  <2> QED BY <2>1, <2>2, <2>3 DEF Commands
<1>2. Flags'
  BY DEF Commands, Login, LoginInternal, Logout, SdpMessageSend, SetPeerServerType,
         WebrtcStreamClean, server, ClientInv, Flags
<1>3. UNCHANGED <<lost, due, frags, data, work>>
  BY DEF Commands, Login, Logout, SdpMessageSend, SetPeerServerType, WebrtcStreamClean,
         beats, received, http
<1>4. Kinds'
  BY <1>3 DEF Commands, Login, Logout, SdpMessageSend, SetPeerServerType, WebrtcStreamClean,
              server, ClientInv, Kinds, Reports
<1> QED BY <1>1, <1>2, <1>3, <1>4 DEF ClientInv, Counts, GraceKept

LEMMA HttpInv == ASSUME ClientInv, HttpThread PROVE ClientInv'
<1>1. UNCHANGED <<state, beats, received, server>> /\ said' = <<>>
  BY DEF HttpThread, HttpTake, HttpDone
<1>2. CASE HttpTake
  <2>1. Queues' /\ work' \in Requests
    BY <1>2, TakeQueues DEF HttpTake, ClientInv, Queues
  <2> QED BY <1>1, <2>1 DEF state, beats, received, server, ClientInv, Flags, Counts, Kinds,
                            Reports, GraceKept
<1>3. CASE HttpDone
  <2>1. work \in Requests
    BY <1>3 DEF HttpDone, ClientInv, Kinds
  <2>2. Queues'
    <3>1. CASE inq' = inq
      BY <1>3, <3>1 DEF HttpDone, ClientInv, Queues
    <3>2. CASE Len(inq) < HttpNum - 1 /\ inq' = Append(inq, work)
      <4>1. inq' \in Seq(Requests) /\ Len(inq') = Len(inq) + 1
        BY <2>1, <3>2, AppendProperties DEF ClientInv, Queues
      <4>2. Len(inq) \in Nat
        BY LenProperties DEF ClientInv, Queues
      <4> QED BY <1>3, <3>2, <4>1, <4>2 DEF HttpDone, ClientInv, Queues
    <3> QED BY <1>3, <3>1, <3>2 DEF HttpDone
  <2> QED BY <1>1, <1>3, <2>2 DEF HttpDone, state, beats, received, server, ClientInv, Flags,
                                  Counts, Kinds, Reports, GraceKept
<1> QED BY <1>2, <1>3 DEF HttpThread

LEMMA AnswersInv == ASSUME ClientInv, HttpProcess PROVE ClientInv'
<1>1. Queues'
  BY TakeQueues DEF HttpProcess, LoginAnswered, AnswerDiscarded, HttpSdpMsgProcess, ClientInv,
                    Queues
<1>2. Flags'
  BY DEF HttpProcess, LoginAnswered, WebsocketConnect, AnswerDiscarded, HttpSdpMsgProcess,
         state, server, ClientInv, Flags
<1>3. Counts' /\ GraceKept'
  <2>1. /\ UNCHANGED <<lost, due>> \/ (lost' = 0 /\ due' = 0)
        /\ UNCHANGED frags
    BY DEF HttpProcess, LoginAnswered, WebsocketConnect, AnswerDiscarded, HttpSdpMsgProcess,
           beats, received
  <2> QED BY <2>1 DEF ClientInv, Counts, GraceKept
<1>4. Kinds'
  BY DEF HttpProcess, LoginAnswered, WebsocketConnect, AnswerDiscarded, HttpSdpMsgProcess,
         state, received, server, ClientInv, Kinds, Reports
<1> QED BY <1>1, <1>2, <1>3, <1>4 DEF ClientInv

LEMMA ReceiveInv == ASSUME ClientInv, WebsocketReceive PROVE ClientInv'
<1>1. CASE ReceiveBroken
  <2>1. Queues' /\ login_ok' = FALSE
    BY <1>1, RetryQueues DEF ReceiveBroken, ClientInv, Queues
  <2> QED BY <1>1, <2>1 DEF ReceiveBroken, beats, received, server, ClientInv, Flags, Counts,
                            Kinds, Reports, GraceKept
<1>2. CASE ReceiveDiscarded
  BY <1>2 DEF ReceiveDiscarded, state, beats, received, http, ClientInv, Queues, Flags, Counts,
              Kinds, Reports, GraceKept
<1>3. CASE WebsocketMessageHandle
  <2>1. /\ UNCHANGED <<http, conn_starting, login_ok, session, peer_inner, due>>
        /\ UNCHANGED <<splitting, asked, serving>>
        /\ inbox' = "none"
        /\ lost' \in {lost, 0}
        /\ called' \in {called, TRUE, FALSE}
        /\ data' \in {"", "open", "junk"}
        /\ said' \in Reports
    BY <1>3 DEF WebsocketMessageHandle, ReceivePiece, ReceiveBeat, WebrtcVideoCall,
                WebrtcVideoClose, WebrtcCfgSet, ReceiveOther, Handled, Receive, state, beats, Reports
  <2>2. frags' \in 0 .. (MaxFrag + 1)
    <3>1. frags' \in {frags, 0, 1} \/ (frags' = frags + 1 /\ ~(frags > MaxFrag))
      BY <1>3 DEF WebsocketMessageHandle, ReceivePiece, ReceiveBeat, WebrtcVideoCall,
                  WebrtcVideoClose, WebrtcCfgSet, ReceiveOther, Handled, Overflow
    <3>2. frags \in 0 .. (MaxFrag + 1)
      BY DEF ClientInv, Counts
    <3> QED BY <3>1, <3>2
  <2>3. Flags'
    BY <2>1 DEF ClientInv, Flags
  <2>4. Counts' /\ GraceKept'
    <3>1. /\ lost \in 0 .. MaxLost /\ due \in 0 .. MaxLost /\ lost <= due
          /\ due' = due /\ lost' \in {lost, 0}
      BY <2>1 DEF ClientInv, Counts, GraceKept
    <3>2. lost' \in 0 .. MaxLost /\ due' \in 0 .. MaxLost /\ lost' <= due'
      BY <3>1
    <3> QED BY <2>2, <3>2 DEF Counts, GraceKept
  <2>5. Kinds' /\ Queues'
    BY <2>1 DEF http, ClientInv, Kinds, Queues
  <2> QED BY <2>3, <2>4, <2>5 DEF ClientInv
<1> QED BY <1>1, <1>2, <1>3 DEF WebsocketReceive

LEMMA HeartbeatInv == ASSUME ClientInv, Heartbeat PROVE ClientInv'
<1>1. UNCHANGED <<conn_starting, session, peer_inner, received, work, inq, splitting, serving>>
  BY DEF Heartbeat, HeartbeatLost, HeartbeatSent, HeartbeatFailed, state, http, server
<1>2. out' \in Seq(Requests) /\ Len(out') <= HttpNum - 1 /\ login_ok' \in BOOLEAN
  BY RetryQueues DEF Heartbeat, HeartbeatLost, HeartbeatSent, HeartbeatFailed, state, http,
                     ClientInv, Queues, Flags
<1>3. /\ called' \in BOOLEAN /\ asked' \in BOOLEAN
      /\ inbox' \in Pieces \cup {"none"}
      /\ said' \in Reports
  BY DEF Heartbeat, HeartbeatLost, HeartbeatSent, HeartbeatFailed, HeartbeatDue, state, server,
         ClientInv, Flags, Kinds, Reports, Pieces, Whole
<1>4. lost' \in 0 .. MaxLost /\ due' \in 0 .. MaxLost /\ lost' <= due'
  <2>1. \/ lost' = 0 /\ due' = MaxLost
        \/ /\ lost + 1 <= MaxLost /\ lost' = lost + 1
           /\ due' = IF due < MaxLost THEN due + 1 ELSE due
    BY DEF Heartbeat, HeartbeatLost, HeartbeatSent, HeartbeatFailed, HeartbeatDue
  <2>2. lost \in 0 .. MaxLost /\ due \in 0 .. MaxLost /\ lost <= due
    BY DEF ClientInv, Counts, GraceKept
  <2> QED BY <2>1, <2>2
<1> QED BY <1>1, <1>2, <1>3, <1>4 DEF received, ClientInv, Queues, Flags, Counts, Kinds, GraceKept

LEMMA WorldInv == ASSUME ClientInv, World PROVE ClientInv'
<1>1. /\ UNCHANGED <<conn_starting, login_ok, called, peer_inner, beats, received, http>>
      /\ said' = <<>>
  BY DEF World, SessionBreaks, ServerAnswers, ServerSends, ServerContinues, ServerEnds,
         ServerFails, state
<1>2. session' \in {"none", "up", "down"} /\ inbox' \in Pieces \cup {"none"}
  BY DEF World, SessionBreaks, ServerAnswers, ServerSends, ServerContinues, ServerEnds,
         ServerFails, state, ClientInv, Kinds, Pieces, Whole
<1>3. {splitting', asked', serving'} \subseteq BOOLEAN
  BY DEF World, SessionBreaks, ServerAnswers, ServerSends, ServerContinues, ServerEnds,
         ServerFails, ClientInv, Flags
<1> QED BY <1>1, <1>2, <1>3 DEF beats, received, http, ClientInv, Queues, Flags, Counts, Kinds,
                                Reports, GraceKept

LEMMA NextClientInv == ClientInv /\ [Next]_vars => ClientInv'
<1> SUFFICES ASSUME ClientInv, [Next]_vars PROVE ClientInv'
  OBVIOUS
<1>1. CASE UNCHANGED vars
  BY <1>1 DEF vars, state, beats, received, http, server, ClientInv, Queues, Flags, Counts, Kinds,
              GraceKept
<1> QED BY <1>1, CommandsInv, HttpInv, AnswersInv, ReceiveInv, HeartbeatInv, WorldInv DEF Next

\* The client of the rtc server keeps its invariant.
THEOREM Invariance == Spec => []ClientInv
BY InitClientInv, NextClientInv, PTL DEF Spec

\* The variables stay within their types, the rings and the pieces within their limits.
THEOREM Types == Spec => []TypeOK
BY Invariance, InvTypeOK, PTL

\* A session is never given up for heartbeats of the one before.
THEOREM Grace == Spec => []GraceKept
<1>1. ClientInv => GraceKept
  BY DEF ClientInv
<1> QED BY Invariance, <1>1, PTL

-----------------------------------------------------------------------------
(* What the controller is told.                                              *)

LEMMA LogoutLast ==
    /\ <<"LOGOUT">> # <<>> /\ Last(<<"LOGOUT">>) = "LOGOUT"
    /\ <<"HANGUP", "LOGOUT">> # <<>> /\ Last(<<"HANGUP", "LOGOUT">>) = "LOGOUT"
BY DEF Last

LEMMA SignOutStep ==
    ASSUME ClientInv, Next, login_ok, ~login_ok'
    PROVE  Login \/ Logout \/ (said' # <<>> /\ Last(said') = "LOGOUT")
<1>1. CASE Commands
  BY <1>1 DEF Commands, SdpMessageSend, SetPeerServerType, WebrtcStreamClean
<1>2. CASE HttpThread \/ HttpProcess \/ World
  BY <1>2 DEF HttpThread, HttpTake, HttpDone, HttpProcess, LoginAnswered, AnswerDiscarded,
              HttpSdpMsgProcess, World, SessionBreaks, ServerAnswers, ServerSends,
              ServerContinues, ServerEnds, ServerFails, state
<1>3. CASE WebsocketReceive
  BY <1>3, LogoutLast DEF WebsocketReceive, ReceiveBroken, ReceiveDiscarded,
     WebsocketMessageHandle, ReceivePiece, ReceiveBeat, WebrtcVideoCall, WebrtcVideoClose,
     WebrtcCfgSet, ReceiveOther, Handled, state
<1>4. CASE Heartbeat
  BY <1>4, LogoutLast DEF Heartbeat, HeartbeatLost, HeartbeatSent, HeartbeatFailed, state
<1> QED BY <1>1, <1>2, <1>3, <1>4 DEF Next

\* A client that is signed in does not stop being so behind the controller's back
\* (peer_connection_client.cc: OnClientLogout after every loss).
THEOREM SignOut == Spec => SignOutTold
<1>1. ClientInv /\ [Next]_vars =>
        [login_ok /\ ~login_ok' => Login \/ Logout \/ (said' # <<>> /\ Last(said') = "LOGOUT")]_vars
  BY SignOutStep
<1> QED BY <1>1, Invariance, PTL DEF Spec, SignOutTold

\* There may be an answer of the media server on its way.
Posted == work = "push" \/ Contains(out, "push") \/ Contains(inq, "push")

\* A ring holds an answer after a request is put if it did before, or it is one.
LEMMA ContainsAppend ==
    ASSUME NEW q \in Seq(Requests), NEW r \in Requests
    PROVE  Contains(Append(q, r), "push") <=> Contains(q, "push") \/ r = "push"
<1>1. /\ Len(Append(q, r)) = Len(q) + 1 /\ Len(q) \in Nat
      /\ \A i \in 1 .. Len(q) : Append(q, r)[i] = q[i]
      /\ Append(q, r)[Len(q) + 1] = r
  BY AppendProperties, LenProperties
<1> QED BY <1>1 DEF Contains

LEMMA ContainsTail ==
    ASSUME NEW q \in Seq(Requests), q # <<>>
    PROVE  Contains(q, "push") <=> Head(q) = "push" \/ Contains(Tail(q), "push")
<1>1. /\ Len(q) \in Nat \ {0} /\ Len(Tail(q)) = Len(q) - 1 /\ Head(q) = q[1]
      /\ \A i \in 1 .. Len(Tail(q)) : Tail(q)[i] = q[i + 1]
  BY HeadTailProperties, LenProperties, EmptySeq
<1>2. ASSUME Contains(q, "push")
      PROVE  Head(q) = "push" \/ Contains(Tail(q), "push")
  <2>1. PICK i \in 1 .. Len(q) : q[i] = "push"
    BY <1>2 DEF Contains
  <2>2. CASE i = 1
    BY <1>1, <2>1, <2>2
  <2>3. CASE i # 1
    <3>1. i - 1 \in 1 .. Len(Tail(q)) /\ Tail(q)[i - 1] = q[i]
      BY <1>1, <2>3
    <3> QED BY <2>1, <3>1 DEF Contains
  <2> QED BY <2>2, <2>3
<1>3. ASSUME Head(q) = "push"
      PROVE  Contains(q, "push")
  BY <1>1, <1>3 DEF Contains
<1>4. ASSUME Contains(Tail(q), "push")
      PROVE  Contains(q, "push")
  <2>1. PICK i \in 1 .. Len(Tail(q)) : Tail(q)[i] = "push"
    BY <1>4 DEF Contains
  <2>2. i + 1 \in 1 .. Len(q) /\ q[i + 1] = "push"
    BY <1>1, <2>1
  <2> QED BY <2>2 DEF Contains
<1> QED BY <1>2, <1>3, <1>4

\* A login posts no description.
LEMMA LoginPosted ==
    ASSUME ClientInv, LoginInternal \/ (\E ok \in BOOLEAN : LoginRetry(ok)), UNCHANGED <<work, inq>>
    PROVE  Posted' <=> Posted
<1>1. out' = out \/ out' = Append(out, "login")
  BY DEF LoginInternal, LoginRetry, Enqueue
<1>2. Contains(out', "push") <=> Contains(out, "push")
  <2>1. out \in Seq(Requests) /\ "login" \in Requests /\ "login" # "push"
    BY DEF ClientInv, Queues, Requests
  <2>2. Contains(Append(out, "login"), "push") <=> Contains(out, "push") \/ "login" = "push"
    BY <2>1, ContainsAppend
  <2> QED BY <1>1, <2>1, <2>2
<1> QED BY <1>2 DEF Posted

\* A call of the controller.
LEMMA CommandRefines == ASSUME ClientInv, Commands PROVE Rtc!Next(said')
<1>0. said' = <<>>
  BY DEF Commands, Login, Logout, SdpMessageSend, SetPeerServerType, WebrtcStreamClean
<1>1. CASE Login
  <2>1. Posted' <=> Posted
    BY <1>1, LoginPosted DEF Login
  <2>2. Rtc!Login
    BY <1>1, <2>1 DEF Login, LoginInternal, Posted, Rtc!Login
  <2> QED BY <1>0, <2>2 DEF Rtc!Next, Rtc!Command
<1>2. CASE Logout
  <2>1. {login_ok, called} \subseteq BOOLEAN
    BY DEF ClientInv, Flags
  <2>2. Rtc!Logout
    BY <1>2, <2>1 DEF Logout, http, Rtc!Logout
  <2> QED BY <1>0, <2>2 DEF Rtc!Next, Rtc!Command
<1>3. CASE SdpMessageSend
  <2>1. Posted' \in {Posted, Posted \/ login_ok'}
    <3>1. CASE out' = out
      BY <1>3, <3>1 DEF SdpMessageSend, Posted
    <3>2. CASE login_ok' /\ out' = Append(out, "push")
      <4>1. Posted'
        BY <1>3, <3>2, ContainsAppend DEF SdpMessageSend, ClientInv, Queues, Requests, Posted
      <4> QED BY <3>2, <4>1
    <3> QED BY <1>3, <3>1, <3>2 DEF SdpMessageSend, Enqueue
  <2>2. Rtc!SdpMessageSend
    BY <1>3, <2>1 DEF SdpMessageSend, Posted, Rtc!SdpMessageSend
  <2> QED BY <1>0, <2>2 DEF Rtc!Next, Rtc!Command
<1>4. CASE SetPeerServerType
  <2>1. \E type \in BOOLEAN : Rtc!SetPeerServerType(type)
    BY <1>4 DEF SetPeerServerType, http, Rtc!SetPeerServerType
  <2> QED BY <1>0, <2>1 DEF Rtc!Next, Rtc!Command
<1>5. CASE WebrtcStreamClean
  <2>1. Rtc!WebrtcStreamClean
    BY <1>5 DEF WebrtcStreamClean, http, Rtc!WebrtcStreamClean
  <2> QED BY <1>0, <2>1 DEF Rtc!Next, Rtc!Command
<1> QED BY <1>1, <1>2, <1>3, <1>4, <1>5 DEF Commands

\* A step that leaves what the link shows alone.
LEMMA QuietRefines ==
    ASSUME said' = <<>>, UNCHANGED <<conn_starting, login_ok, called, peer_inner>>,
           (session # "none")' <=> session # "none", Posted' <=> Posted
    PROVE  Rtc!Next(said')
<1>1. UNCHANGED Rtc!client
  BY DEF Rtc!client, Posted
<1> QED BY <1>1 DEF Rtc!Next

\* The HTTP thread, and answers nobody takes: a description's may get lost.
LEMMA AnswerRefines ==
    ASSUME ClientInv, HttpThread \/ AnswerDiscarded
    PROVE  Rtc!Next(said')
<1>0. said' = <<>> /\ UNCHANGED state
  BY DEF HttpThread, HttpTake, HttpDone, AnswerDiscarded
<1>1. Posted' => Posted
  <2>1. CASE HttpTake
    <3>1. out \in Seq(Requests) /\ out # <<>>
      BY <2>1 DEF HttpTake, ClientInv, Queues
    <3>2. Contains(out, "push") <=> Head(out) = "push" \/ Contains(Tail(out), "push")
      BY <3>1, ContainsTail
    <3>3. work' = Head(out) /\ out' = Tail(out) /\ inq' = inq
      BY <2>1 DEF HttpTake
    <3>4. Contains(out', "push") <=> Contains(Tail(out), "push")
      BY <3>3
    <3>5. Contains(inq', "push") <=> Contains(inq, "push")
      BY <3>3
    <3>6. work' = "push" <=> Head(out) = "push"
      BY <3>3
    <3> QED BY <3>2, <3>4, <3>5, <3>6 DEF Posted
  <2>2. CASE HttpDone
    <3>1. work \in Requests /\ inq \in Seq(Requests)
      BY <2>2 DEF HttpDone, ClientInv, Queues, Kinds
    <3>2. Contains(Append(inq, work), "push") <=> Contains(inq, "push") \/ work = "push"
      BY <3>1, ContainsAppend
    <3>3. out' = out /\ work' = "none" /\ (inq' = inq \/ inq' = Append(inq, work))
      BY <2>2 DEF HttpDone
    <3>4. Contains(out', "push") <=> Contains(out, "push")
      BY <3>3
    <3>5. Contains(inq', "push") => Contains(inq, "push") \/ work = "push"
      BY <3>2, <3>3
    <3>6. work' # "push"
      BY <3>3
    <3> QED BY <3>4, <3>5, <3>6 DEF Posted
  <2>3. CASE AnswerDiscarded
    BY <2>3, ContainsTail DEF AnswerDiscarded, ClientInv, Queues, Posted
  <2> QED BY <2>1, <2>2, <2>3 DEF HttpThread
<1>2. CASE Posted' <=> Posted
  BY <1>0, <1>2, QuietRefines DEF state
<1>3. CASE Posted /\ ~Posted'
  <2>1. Rtc!AnswerLost(said')
    BY <1>0, <1>3 DEF state, Posted, Rtc!AnswerLost
  <2> QED BY <2>1 DEF Rtc!Next, Rtc!News
<1> QED BY <1>1, <1>2, <1>3

LEMMA HttpRefines == ASSUME ClientInv, HttpProcess PROVE Rtc!Next(said')
<1>1. CASE LoginAnswered
  <2>1. Posted' <=> Posted
    <3>1. inq \in Seq(Requests) /\ inq # <<>> /\ Head(inq) # "push"
      BY <1>1 DEF LoginAnswered, ClientInv, Queues
    <3>2. Contains(inq, "push") <=> Contains(Tail(inq), "push")
      BY <3>1, ContainsTail
    <3> QED BY <1>1, <3>2 DEF LoginAnswered, Posted
  <2>2. Rtc!SignedIn(said')
    BY <1>1, <2>1 DEF LoginAnswered, Posted, Rtc!SignedIn
  <2> QED BY <2>2 DEF Rtc!Next, Rtc!News
<1>2. CASE HttpSdpMsgProcess
  <2>1. Posted
    <3>1. inq \in Seq(Requests) /\ inq # <<>> /\ Head(inq) = "push"
      BY <1>2 DEF HttpSdpMsgProcess, ClientInv, Queues
    <3>2. Contains(inq, "push")
      BY <3>1, ContainsTail
    <3> QED BY <3>2 DEF Posted
  <2>2. called \in BOOLEAN
    BY DEF ClientInv, Flags
  <2>3. PICK usable \in BOOLEAN : /\ called' = (called /\ usable)
                                  /\ said' = IF usable THEN <<"TRACK">> ELSE <<>>
    BY <1>2, <2>2 DEF HttpSdpMsgProcess
  <2>4. Rtc!Answered(said', usable)
    BY <1>2, <2>1, <2>3 DEF HttpSdpMsgProcess, Posted, Rtc!Answered
  <2> QED BY <2>4 DEF Rtc!Next, Rtc!News
<1> QED BY <1>1, <1>2, AnswerRefines DEF HttpProcess

\* A message of the session, and the loss of it.
LEMMA ReceiveRefines == ASSUME ClientInv, WebsocketReceive PROVE Rtc!Next(said')
<1>0. {conn_starting, login_ok, called} \subseteq BOOLEAN
  BY DEF ClientInv, Flags
<1>1. CASE ReceiveBroken
  <2>1. /\ session = "down" /\ login_ok' = FALSE
        /\ UNCHANGED <<conn_starting, session, called, peer_inner>>
    BY <1>1, RetryQueues DEF ReceiveBroken, ClientInv
  <2>2. Posted' <=> Posted
    <3>1. CASE conn_starting
      BY <1>1, <3>1, LoginPosted DEF ReceiveBroken
    <3>2. CASE ~conn_starting
      BY <1>1, <3>2 DEF ReceiveBroken, Posted
    <3> QED BY <3>1, <3>2
  <2>3. CASE login_ok
    <3>1. Rtc!Lost(said')
      BY <1>1, <2>1, <2>2, <2>3 DEF ReceiveBroken, Posted, Rtc!Lost
    <3> QED BY <3>1 DEF Rtc!Next, Rtc!News
  <2>4. CASE ~login_ok
    <3>1. said' = <<>> /\ login_ok' = login_ok
      BY <1>0, <1>1, <2>1, <2>4 DEF ReceiveBroken
    <3> QED BY <2>1, <2>2, <3>1, QuietRefines
  <2> QED BY <2>3, <2>4
<1>2. CASE ReceiveDiscarded \/ ReceivePiece \/ ReceiveBeat \/ ReceiveOther
  <2>1. said' = <<>> /\ UNCHANGED <<state, http>>
    BY <1>2 DEF ReceiveDiscarded, ReceivePiece, ReceiveBeat, ReceiveOther, Handled, state
  <2> QED BY <2>1, QuietRefines DEF state, http, Posted
<1>3. CASE WebrtcVideoCall \/ WebrtcVideoClose \/ WebrtcCfgSet
  <2>1. /\ session = "up" /\ conn_starting
        /\ UNCHANGED <<conn_starting, login_ok, session, peer_inner, work, out, inq>>
    BY <1>3 DEF WebrtcVideoCall, WebrtcVideoClose, WebrtcCfgSet, Handled, Receive, http
  <2>2. CASE said' = <<>>
    <3>0. <<"CALL">> # <<>> /\ <<"HANGUP">> # <<>>
      OBVIOUS
    <3>1. UNCHANGED called
      <4>1. CASE WebrtcVideoCall
        BY <1>0, <2>2, <3>0, <4>1 DEF WebrtcVideoCall
      <4>2. CASE WebrtcVideoClose
        BY <1>0, <2>2, <3>0, <4>2 DEF WebrtcVideoClose
      <4>3. CASE WebrtcCfgSet
        BY <2>2, <3>0, <4>3 DEF WebrtcCfgSet
      <4> QED BY <1>3, <4>1, <4>2, <4>3
    <3> QED BY <2>1, <2>2, <3>1, QuietRefines DEF Posted
  <2>3. CASE WebrtcVideoCall /\ said' # <<>>
    <3>1. Rtc!Called(said')
      BY <2>1, <2>3 DEF WebrtcVideoCall, Rtc!Called
    <3> QED BY <3>1 DEF Rtc!Next, Rtc!News
  <2>4. CASE WebrtcVideoClose /\ said' # <<>>
    <3>1. Rtc!Closed(said')
      BY <2>1, <2>4 DEF WebrtcVideoClose, Rtc!Closed
    <3> QED BY <3>1 DEF Rtc!Next, Rtc!News
  <2>5. CASE WebrtcCfgSet
    <3>1. Rtc!Configured(said')
      BY <2>1, <2>5 DEF WebrtcCfgSet, Rtc!Configured, Rtc!client
    <3> QED BY <3>1 DEF Rtc!Next, Rtc!News
  <2> QED BY <1>3, <2>2, <2>3, <2>4, <2>5
<1> QED BY <1>1, <1>2, <1>3 DEF WebsocketReceive, WebsocketMessageHandle

LEMMA HeartbeatRefines == ASSUME ClientInv, Heartbeat PROVE Rtc!Next(said')
<1>1. CASE HeartbeatSent
  <2>1. said' = <<>> /\ UNCHANGED <<state, http>>
    BY <1>1 DEF HeartbeatSent
  <2> QED BY <2>1, QuietRefines DEF state, http, Posted
<1>2. CASE HeartbeatLost \/ HeartbeatFailed
  <2>1. /\ session # "none" /\ conn_starting
        /\ login_ok' = FALSE
        /\ UNCHANGED <<conn_starting, session, peer_inner, work, inq>>
    BY <1>2, RetryQueues DEF HeartbeatLost, HeartbeatFailed, HeartbeatDue, ClientInv
  <2>2. Posted' <=> Posted
    BY <1>2, LoginPosted DEF HeartbeatLost, HeartbeatFailed
  <2>3. \/ said' = <<"LOGOUT">> /\ UNCHANGED called
        \/ said' = <<"HANGUP", "LOGOUT">> /\ called /\ called' = FALSE
    BY <1>2 DEF HeartbeatLost, HeartbeatFailed, ClientInv, Flags
  <2>4. Rtc!Lost(said')
    BY <2>1, <2>2, <2>3 DEF Posted, Rtc!Lost
  <2> QED BY <2>4 DEF Rtc!Next, Rtc!News
<1> QED BY <1>1, <1>2 DEF Heartbeat

LEMMA WorldRefines == ASSUME ClientInv, World PROVE Rtc!Next(said')
<1>1. /\ said' = <<>>
      /\ UNCHANGED <<conn_starting, login_ok, called, peer_inner, http>>
      /\ session' # "none" <=> session # "none"
  BY DEF World, SessionBreaks, ServerAnswers, ServerSends, ServerContinues, ServerEnds,
         ServerFails, state
<1> QED BY <1>1, QuietRefines DEF http, Posted

\* The client of the rtc server keeps what the controller relies on, for rings of any
\* size and any limits of heartbeats and pieces (peer_connection_client.cc).
THEOREM Implementation == Spec => ImplementsLink
<1>1. Init => Rtc!Init
  <2> SUFFICES ASSUME Init PROVE Rtc!Init
    OBVIOUS
  <2>1. Len(<<>>) = 0
    BY EmptySeq
  <2>2. ~Contains(<<>>, "push")
    BY <2>1 DEF Contains
  <2> QED BY <2>2 DEF Init, Rtc!Init
<1>2. ClientInv /\ [Next]_vars => [Rtc!Next(said')]_vars
  BY CommandRefines, AnswerRefines, HttpRefines, ReceiveRefines, HeartbeatRefines, WorldRefines
     DEF Next
<1> QED BY <1>1, <1>2, Invariance, PTL DEF Spec, ImplementsLink
=============================================================================
