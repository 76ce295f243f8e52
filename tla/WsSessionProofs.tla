-------------------------- MODULE WsSessionProofs --------------------------
(***************************************************************************)
(* For any number of session slots, any queue size and any number of       *)
(* logins: a slot is reused only when its thread has gone, no deleted      *)
(* queue is touched, and no login gets a message meant for another.        *)
(***************************************************************************)
EXTENDS WsSession, SequenceTheorems, TLAPS

\* What a slot holds belongs to the login in its url, and goes in the order of the
\* thread's exit: first the queues, then the handle.
Sessions ==
    \A s \in Slots :
        /\ handle[s] = "open" => conn[s] = url[s]
        /\ queues[s] = "live" => qin[s] \in Seq({url[s]})
        /\ tpc[s] \in {"close", "finish"} => queues[s] # "live"
        /\ tpc[s] = "finish" => handle[s] # "open"

\* The session the client uses is that of its login, and its queues are not dangling.
Current ==
    cpc \in {"idle", "put", "get"} /\ id # NoSlot => url[id] = token /\ queues[id] # "freed"

WsInv == TypeOK /\ SlotOwned /\ QueueSafe /\ Fresh /\ Sessions /\ Current

USE SessionNumAssumption, BufNumAssumption, MaxLoginAssumption

(***************************************************************************)
(* circular_queue_put adds nothing but its message and fills no ring.      *)
(***************************************************************************)
LEMMA PutIntoSeq ==
    ASSUME NEW S, NEW q \in Seq(S), NEW m \in S, Len(q) < BufNum
    PROVE  PutInto(q, m) \in Seq(S) /\ Len(PutInto(q, m)) < BufNum
<1>1. Append(q, m) \in Seq(S) /\ Len(Append(q, m)) = Len(q) + 1 /\ Len(q) \in Nat
  BY AppendProperties, LenProperties
<1> QED BY <1>1 DEF PutInto

(***************************************************************************)
(* What is taken from a queue came from it, and leaves it shorter.         *)
(***************************************************************************)
LEMMA TakeSeq ==
    ASSUME NEW S, NEW q \in Seq(S), q # <<>>
    PROVE  Head(q) \in S /\ Tail(q) \in Seq(S) /\ Len(Tail(q)) = Len(q) - 1 /\ Len(q) \in Nat
BY HeadTailProperties, LenProperties

(***************************************************************************)
(* The array of sessions as websocket_data_queue_init leaves it.           *)
(***************************************************************************)
LEMMA InitWsInv == Init => WsInv
<1> SUFFICES ASSUME Init PROVE WsInv
  OBVIOUS
<1>1. <<>> \in Seq(Logins) /\ Len(<<>>) = 0
  BY EmptySeq
<1>2. TypeOK
  <2>1. 0 \in Logins /\ 0 \in 0 .. SessionNum
    BY DEF Logins
  <2>2. /\ qin \in [Slots -> Seq(Logins)] /\ qout \in [Slots -> Seq(Logins)]
        /\ \A s \in Slots : Len(qin[s]) < BufNum /\ Len(qout[s]) < BufNum
    BY <1>1 DEF Init
  <2> QED BY <2>1, <2>2 DEF Init, TypeOK
<1>3. SlotOwned /\ QueueSafe
  BY <1>1 DEF Init, SlotOwned, QueueSafe, Slots
<1>4. Fresh /\ Sessions
  BY <1>1 DEF Init, Fresh, Sessions
<1>5. Current
  BY <1>1 DEF Init, Current
<1> QED BY <1>2, <1>3, <1>4, <1>5 DEF WsInv

(***************************************************************************)
(* No step of the client or of a session's thread breaks it.               *)
(***************************************************************************)
LEMMA NextWsInv == WsInv /\ [Next]_vars => WsInv'
<1> SUFFICES ASSUME WsInv, [Next]_vars
             PROVE  WsInv'
  OBVIOUS
<1> USE DEF NoSlot
<1>1. CASE WebsocketConnect
  <2>a. TypeOK'
    <3>1. token' \in Logins /\ got' \in Logins
      BY <1>1 DEF WebsocketConnect, WsInv, TypeOK, Logins
    <3>2. running' \in [Slots -> BOOLEAN] /\ cpc' \in {"stop", "scan"} /\ after' \in {"scan", "idle"}
      BY <1>1 DEF WebsocketConnect, Stop, WsInv, TypeOK
    <3> QED BY <1>1, <3>1, <3>2 DEF WebsocketConnect, session, WsInv, TypeOK
  <2>b. SlotOwned'
    BY <1>1 DEF WebsocketConnect, Stop, session, Logins, WsInv, TypeOK, SlotOwned
  <2>c. QueueSafe'
    BY <1>1 DEF WebsocketConnect, Stop, session, Logins, WsInv, TypeOK, SlotOwned, QueueSafe, Current
  <2>d. Fresh' /\ Sessions'
    BY <1>1 DEF WebsocketConnect, Stop, session, Logins, WsInv, TypeOK, SlotOwned, Fresh, Sessions
  <2>e. Current'
    BY <1>1 DEF WebsocketConnect, Stop, session, Logins, WsInv, TypeOK, QueueSafe, Current
  <2> QED BY <2>a, <2>b, <2>c, <2>d, <2>e DEF WsInv
<1>2. CASE Logout
  BY <1>2 DEF Logout, Stop, WsInv, TypeOK, SlotOwned, QueueSafe, Fresh, Sessions, Current, session
<1>3. CASE StopWait
  BY <1>3 DEF StopWait, WsInv, TypeOK, SlotOwned, QueueSafe, Fresh, Sessions, Current, session, flags
<1>4. CASE StartFound
  <2>1. <<>> \in Seq(Logins) /\ <<>> \in Seq({token}) /\ Len(<<>>) = 0
    BY EmptySeq
  <2>2. CASE StartThread(scan)
    <3>a. TypeOK'
      BY <1>4, <2>1, <2>2 DEF StartFound, StartThread, WsInv, TypeOK
    <3>b. SlotOwned'
      BY <1>4, <2>1, <2>2 DEF StartFound, StartThread, WsInv, TypeOK, SlotOwned
    <3>c. QueueSafe'
      BY <1>4, <2>1, <2>2 DEF StartFound, StartThread, WsInv, TypeOK, SlotOwned, QueueSafe, Current
    <3>d. Fresh' /\ Sessions'
      BY <1>4, <2>1, <2>2 DEF StartFound, StartThread, WsInv, TypeOK, SlotOwned, Fresh, Sessions
    <3>e. Current'
      BY <1>4, <2>1, <2>2 DEF StartFound, StartThread, WsInv, TypeOK, SlotOwned, QueueSafe, Current
    <3> QED BY <3>a, <3>b, <3>c, <3>d, <3>e DEF WsInv
  <2>3. CASE StartFails(scan)
    <3>a. TypeOK'
      BY <1>4, <2>3 DEF StartFound, StartFails, flags, WsInv, TypeOK
    <3>b. SlotOwned'
      BY <1>4, <2>3 DEF StartFound, StartFails, flags, WsInv, TypeOK, SlotOwned, Sessions
    <3>c. QueueSafe'
      BY <1>4, <2>3 DEF StartFound, StartFails, flags, WsInv, TypeOK, SlotOwned, QueueSafe, Current
    <3>d. Fresh' /\ Sessions'
      BY <1>4, <2>3 DEF StartFound, StartFails, flags, WsInv, TypeOK, SlotOwned, QueueSafe, Fresh,
         Sessions
    <3>e. Current'
      BY <1>4, <2>3 DEF StartFound, StartFails, flags, WsInv, TypeOK, SlotOwned, QueueSafe, Current
    <3> QED BY <3>a, <3>b, <3>c, <3>d, <3>e DEF WsInv
  <2> QED BY <1>4, <2>2, <2>3 DEF StartFound
<1>5. CASE StartBusy
  BY <1>5 DEF StartBusy, WsInv, TypeOK, SlotOwned, QueueSafe, Fresh, Sessions, Current, session,
     flags, Slots
<1>6. CASE StartNone
  BY <1>6 DEF StartNone, WsInv, TypeOK, SlotOwned, QueueSafe, Fresh, Sessions, Current, session, flags
<1>7. CASE CheckRunning("put") \/ CheckRunning("get")
  <2>a. TypeOK'
    BY <1>7 DEF CheckRunning, session, flags, WsInv, TypeOK
  <2>b. SlotOwned'
    BY <1>7 DEF CheckRunning, session, flags, WsInv, TypeOK, SlotOwned
  <2>c. QueueSafe'
    BY <1>7 DEF CheckRunning, session, flags, WsInv, TypeOK, SlotOwned, QueueSafe, Current
  <2>d. Fresh' /\ Sessions'
    BY <1>7 DEF CheckRunning, session, flags, WsInv, TypeOK, SlotOwned, Fresh, Sessions
  <2>e. Current'
    BY <1>7 DEF CheckRunning, session, flags, WsInv, TypeOK, QueueSafe, Current
  <2> QED BY <2>a, <2>b, <2>c, <2>d, <2>e DEF WsInv
<1>8. CASE Enqueue
  <2>1. id \in Slots
    BY <1>8 DEF Enqueue, WsInv, QueueSafe
  <2>2. PutInto(qout[id], token) \in Seq(Logins) /\ Len(PutInto(qout[id], token)) < BufNum
    BY <2>1, PutIntoSeq DEF WsInv, TypeOK
  <2>a. TypeOK'
    BY <1>8, <2>1, <2>2 DEF Enqueue, flags, WsInv, TypeOK
  <2>b. SlotOwned'
    BY <1>8, <2>1, <2>2 DEF Enqueue, flags, WsInv, TypeOK, SlotOwned, Sessions
  <2>c. QueueSafe'
    BY <1>8, <2>1, <2>2 DEF Enqueue, flags, WsInv, TypeOK, SlotOwned, QueueSafe, Current
  <2>d. Fresh' /\ Sessions'
    BY <1>8, <2>1, <2>2 DEF Enqueue, flags, WsInv, TypeOK, SlotOwned, QueueSafe, Fresh, Sessions
  <2>e. Current'
    BY <1>8, <2>1, <2>2 DEF Enqueue, flags, WsInv, TypeOK, SlotOwned, QueueSafe, Current
  <2> QED BY <2>a, <2>b, <2>c, <2>d, <2>e DEF WsInv
<1>9. CASE Dequeue
  <2>1. id \in Slots /\ queues[id] # "freed" /\ url[id] = token
    BY <1>9 DEF Dequeue, WsInv, TypeOK, QueueSafe, Current, Slots
  <2>2. CASE queues[id] # "none" /\ qin[id] # <<>>
    <3>1. qin[id] \in Seq({token}) /\ qin[id] \in Seq(Logins)
      BY <2>1, <2>2 DEF WsInv, TypeOK, Sessions
    <3>2. /\ Head(qin[id]) = token /\ Tail(qin[id]) \in Seq({token})
          /\ Tail(qin[id]) \in Seq(Logins) /\ Len(Tail(qin[id])) < BufNum
      <4>1. Len(qin[id]) < BufNum
        BY <2>1 DEF WsInv, TypeOK
      <4> QED BY <2>2, <3>1, <4>1, TakeSeq
    <3>a. TypeOK'
      BY <1>9, <2>1, <2>2, <3>2 DEF Dequeue, flags, WsInv, TypeOK
    <3>b. SlotOwned'
      BY <1>9, <2>1, <2>2, <3>2 DEF Dequeue, flags, WsInv, TypeOK, SlotOwned
    <3>c. QueueSafe'
      BY <1>9, <2>1, <2>2, <3>2 DEF Dequeue, flags, WsInv, TypeOK, SlotOwned, QueueSafe, Current
    <3>d. Fresh' /\ Sessions'
      <4>1. Fresh'
        BY <1>9, <2>1, <2>2, <3>2 DEF Dequeue, flags, WsInv, TypeOK, Fresh
      <4>2. ASSUME NEW t \in Slots
           PROVE  /\ (handle[t] = "open")' => (conn[t] = url[t])'
                  /\ (tpc[t] \in {"close", "finish"})' => (queues[t] # "live")'
                  /\ (tpc[t] = "finish")' => (handle[t] # "open")'
        BY <1>9, <2>1, <2>2, <3>2 DEF Dequeue, flags, WsInv, TypeOK, SlotOwned, QueueSafe, Sessions
      <4>3. ASSUME NEW t \in Slots, (queues[t] = "live")'
           PROVE  (qin[t] \in Seq({url[t]}))'
        BY <1>9, <2>1, <2>2, <3>2, <4>3 DEF Dequeue, flags, WsInv, TypeOK, Sessions
      <4> QED BY <4>1, <4>2, <4>3 DEF Sessions
    <3>e. Current'
      BY <1>9, <2>1, <2>2, <3>2 DEF Dequeue, flags, WsInv, TypeOK, SlotOwned, QueueSafe, Current
    <3> QED BY <3>a, <3>b, <3>c, <3>d, <3>e DEF WsInv
  <2>3. CASE ~(queues[id] # "none" /\ qin[id] # <<>>)
    BY <1>9, <2>3 DEF Dequeue, WsInv, TypeOK, SlotOwned, QueueSafe, Fresh, Sessions, Current, flags
  <2> QED BY <2>2, <2>3
<1>10. ASSUME NEW s \in Slots, Loop(s)
       PROVE  WsInv'
  BY <1>10 DEF Loop, WsInv, TypeOK, SlotOwned, QueueSafe, Fresh, Sessions, Current, session, flags,
     client
<1>11. ASSUME NEW s \in Slots, Connect(s)
       PROVE  WsInv'
  <2>a. TypeOK'
    <3>1. handle' \in [Slots -> {"null", "open", "freed"}] /\ conn' \in [Slots -> Logins]
      <4>1. CASE handle' = [handle EXCEPT ![s] = "open"] /\ conn' = [conn EXCEPT ![s] = url[s]]
        BY <1>11, <4>1 DEF WsInv, TypeOK
      <4>2. CASE UNCHANGED <<handle, conn>>
        BY <4>2 DEF WsInv, TypeOK
      <4> QED BY <1>11, <4>1, <4>2 DEF Connect
    <3>2. tpc' \in [Slots -> {"none", "top", "conn", "send", "recv", "exit", "close", "finish"}]
      BY <1>11 DEF Connect, WsInv, TypeOK
    <3> QED BY <1>11, <3>1, <3>2 DEF Connect, flags, client, WsInv, TypeOK
  <2>b. SlotOwned'
    BY <1>11 DEF Connect, flags, client, WsInv, TypeOK, SlotOwned
  <2>c. QueueSafe'
    BY <1>11 DEF Connect, flags, client, WsInv, TypeOK, SlotOwned, QueueSafe, Current
  <2>d. Fresh' /\ Sessions'
    <3>1. CASE /\ tpc' = [tpc EXCEPT ![s] = "send"]
               /\ handle' = [handle EXCEPT ![s] = "open"]
               /\ conn' = [conn EXCEPT ![s] = url[s]]
      BY <1>11, <3>1 DEF Connect, flags, client, WsInv, TypeOK, Fresh, Sessions
    <3>2. CASE tpc' = [tpc EXCEPT ![s] = "top"] /\ UNCHANGED <<handle, conn>>
      BY <1>11, <3>2 DEF Connect, flags, client, WsInv, TypeOK, Fresh, Sessions
    <3> QED BY <1>11, <3>1, <3>2 DEF Connect
  <2>e. Current'
    BY <1>11 DEF Connect, flags, client, WsInv, TypeOK, QueueSafe, Current
  <2> QED BY <2>a, <2>b, <2>c, <2>d, <2>e DEF WsInv
<1>12. ASSUME NEW s \in Slots, Send(s)
       PROVE  WsInv'
  <2>0. tpc[s] = "send" /\ UNCHANGED <<finish, url, conn, queues, qin, client>>
    BY <1>12 DEF Send
  <2>1. CASE /\ tpc' = [tpc EXCEPT ![s] = "recv"]
             /\ UNCHANGED <<handle, running, qout>>
    <3>a. TypeOK'
      BY <2>0, <2>1 DEF client, WsInv, TypeOK
    <3>b. SlotOwned'
      BY <2>0, <2>1 DEF client, WsInv, TypeOK, SlotOwned
    <3>c. QueueSafe'
      BY <2>0, <2>1 DEF client, WsInv, TypeOK, SlotOwned, QueueSafe, Current
    <3>d. Fresh' /\ Sessions'
      <4>1. Fresh'
        BY <2>0, <2>1 DEF client, WsInv, Fresh
      <4>2. ASSUME NEW t \in Slots
           PROVE  /\ (handle[t] = "open")' => (conn[t] = url[t])'
                  /\ (tpc[t] \in {"close", "finish"})' => (queues[t] # "live")'
                  /\ (tpc[t] = "finish")' => (handle[t] # "open")'
        BY <2>0, <2>1 DEF client, WsInv, TypeOK, SlotOwned, QueueSafe, Sessions
      <4>3. ASSUME NEW t \in Slots, (queues[t] = "live")'
           PROVE  (qin[t] \in Seq({url[t]}))'
        BY <2>0, <2>1, <4>3 DEF client, WsInv, TypeOK, Sessions
      <4> QED BY <4>1, <4>2, <4>3 DEF Sessions
    <3>e. Current'
      BY <2>0, <2>1 DEF client, WsInv, TypeOK, QueueSafe, Current
    <3> QED BY <3>a, <3>b, <3>c, <3>d, <3>e DEF WsInv
  <2>2. CASE /\ qout[s] # <<>>
             /\ qout' = [qout EXCEPT ![s] = Tail(@)]
             /\ (tpc' = [tpc EXCEPT ![s] = "recv"] /\ UNCHANGED <<handle, running>>) \/ Broken(s)
    <3>1. Tail(qout[s]) \in Seq(Logins) /\ Len(Tail(qout[s])) < BufNum
      <4>1. qout[s] \in Seq(Logins) /\ Len(qout[s]) < BufNum
        BY <1>12 DEF WsInv, TypeOK
      <4> QED BY <2>2, <4>1, TakeSeq
    <3>2. CASE Broken(s)
      <4>a. TypeOK'
        BY <2>0, <2>2, <3>1, <3>2 DEF Broken, client, WsInv, TypeOK
      <4>b. SlotOwned'
        BY <2>0, <2>2, <3>1, <3>2 DEF Broken, client, WsInv, TypeOK, SlotOwned
      <4>c. QueueSafe'
        BY <2>0, <2>2, <3>1, <3>2 DEF Broken, client, WsInv, TypeOK, SlotOwned, QueueSafe, Current
      <4>d. Fresh' /\ Sessions'
        BY <2>0, <2>2, <3>1, <3>2 DEF Broken, client, WsInv, TypeOK, SlotOwned, Fresh, Sessions
      <4>e. Current'
        BY <2>0, <2>2, <3>1, <3>2 DEF Broken, client, WsInv, TypeOK, QueueSafe, Current
      <4> QED BY <4>a, <4>b, <4>c, <4>d, <4>e DEF WsInv
    <3>3. CASE tpc' = [tpc EXCEPT ![s] = "recv"] /\ UNCHANGED <<handle, running>>
      <4>a. TypeOK'
        BY <2>0, <2>2, <3>1, <3>3 DEF client, WsInv, TypeOK
      <4>b. SlotOwned'
        BY <2>0, <2>2, <3>1, <3>3 DEF client, WsInv, TypeOK, SlotOwned
      <4>c. QueueSafe'
        BY <2>0, <2>2, <3>1, <3>3 DEF client, WsInv, TypeOK, SlotOwned, QueueSafe, Current
      <4>d. Fresh' /\ Sessions'
        <5>1. Fresh'
          BY <2>0, <2>2, <3>1, <3>3 DEF client, WsInv, Fresh
        <5>2. ASSUME NEW t \in Slots
             PROVE  /\ (handle[t] = "open")' => (conn[t] = url[t])'
                    /\ (tpc[t] \in {"close", "finish"})' => (queues[t] # "live")'
                    /\ (tpc[t] = "finish")' => (handle[t] # "open")'
          BY <2>0, <2>2, <3>1, <3>3 DEF client, WsInv, TypeOK, SlotOwned, QueueSafe, Sessions
        <5>3. ASSUME NEW t \in Slots, (queues[t] = "live")'
             PROVE  (qin[t] \in Seq({url[t]}))'
          BY <2>0, <2>2, <3>1, <3>3, <5>3 DEF client, WsInv, TypeOK, Sessions
        <5> QED BY <5>1, <5>2, <5>3 DEF Sessions
      <4>e. Current'
        BY <2>0, <2>2, <3>1, <3>3 DEF client, WsInv, TypeOK, QueueSafe, Current
      <4> QED BY <4>a, <4>b, <4>c, <4>d, <4>e DEF WsInv
    <3> QED BY <2>2, <3>2, <3>3
  <2> QED BY <1>12, <2>1, <2>2 DEF Send
<1>13. ASSUME NEW s \in Slots, Recv(s)
       PROVE  WsInv'
  <2>0. tpc[s] = "recv" /\ UNCHANGED <<finish, url, conn, queues, qout, client>>
    BY <1>13 DEF Recv
  <2>1. CASE /\ handle[s] = "open"
             /\ qin' = [qin EXCEPT ![s] = PutInto(@, conn[s])]
             /\ tpc' = [tpc EXCEPT ![s] = "top"]
             /\ UNCHANGED <<handle, running>>
    <3>1. conn[s] = url[s] /\ conn[s] \in Logins /\ queues[s] = "live"
      BY <2>0, <2>1 DEF WsInv, TypeOK, QueueSafe, Sessions
    <3>2. qin[s] \in Seq({url[s]}) /\ qin[s] \in Seq(Logins) /\ Len(qin[s]) < BufNum
      BY <1>13, <3>1 DEF WsInv, TypeOK, Sessions
    <3>3. /\ PutInto(qin[s], conn[s]) \in Seq({url[s]})
          /\ PutInto(qin[s], conn[s]) \in Seq(Logins)
          /\ Len(PutInto(qin[s], conn[s])) < BufNum
      BY <3>1, <3>2, PutIntoSeq
    <3>a. TypeOK'
      BY <2>0, <2>1, <3>1, <3>3 DEF client, WsInv, TypeOK
    <3>b. SlotOwned'
      BY <2>0, <2>1, <3>1, <3>3 DEF client, WsInv, TypeOK, SlotOwned, Sessions
    <3>c. QueueSafe'
      BY <2>0, <2>1, <3>1, <3>3 DEF client, WsInv, TypeOK, SlotOwned, QueueSafe, Current
    <3>d. Fresh' /\ Sessions'
      <4>1. Fresh'
        BY <2>0, <2>1, <3>1, <3>3 DEF client, WsInv, Fresh
      <4>2. ASSUME NEW t \in Slots
           PROVE  /\ (handle[t] = "open")' => (conn[t] = url[t])'
                  /\ (tpc[t] \in {"close", "finish"})' => (queues[t] # "live")'
                  /\ (tpc[t] = "finish")' => (handle[t] # "open")'
        BY <2>0, <2>1, <3>1, <3>3 DEF client, WsInv, TypeOK, SlotOwned, QueueSafe, Sessions
      <4>3. ASSUME NEW t \in Slots, (queues[t] = "live")'
           PROVE  (qin[t] \in Seq({url[t]}))'
        BY <2>0, <2>1, <3>1, <3>3, <4>3 DEF client, WsInv, TypeOK, Sessions
      <4> QED BY <4>1, <4>2, <4>3 DEF Sessions
    <3>e. Current'
      BY <2>0, <2>1, <3>1, <3>3 DEF client, WsInv, TypeOK, SlotOwned, QueueSafe, Current
    <3> QED BY <3>a, <3>b, <3>c, <3>d, <3>e DEF WsInv
  <2>2. CASE tpc' = [tpc EXCEPT ![s] = "top"] /\ UNCHANGED <<handle, running, qin>>
    <3>a. TypeOK'
      BY <2>0, <2>2 DEF client, WsInv, TypeOK
    <3>b. SlotOwned'
      BY <2>0, <2>2 DEF client, WsInv, TypeOK, SlotOwned, Sessions
    <3>c. QueueSafe'
      BY <2>0, <2>2 DEF client, WsInv, TypeOK, SlotOwned, QueueSafe, Current
    <3>d. Fresh' /\ Sessions'
      BY <2>0, <2>2 DEF client, WsInv, TypeOK, SlotOwned, QueueSafe, Fresh, Sessions
    <3>e. Current'
      BY <2>0, <2>2 DEF client, WsInv, TypeOK, SlotOwned, QueueSafe, Current
    <3> QED BY <3>a, <3>b, <3>c, <3>d, <3>e DEF WsInv
  <2>3. CASE Broken(s) /\ UNCHANGED qin
    <3>a. TypeOK'
      BY <2>0, <2>3 DEF Broken, client, WsInv, TypeOK
    <3>b. SlotOwned'
      BY <2>0, <2>3 DEF Broken, client, WsInv, TypeOK, SlotOwned, Sessions
    <3>c. QueueSafe'
      BY <2>0, <2>3 DEF Broken, client, WsInv, TypeOK, SlotOwned, QueueSafe, Current
    <3>d. Fresh' /\ Sessions'
      <4>1. Fresh'
        BY <2>0, <2>3 DEF Broken, client, WsInv, TypeOK, Fresh
      <4>2. ASSUME NEW t \in Slots
           PROVE  /\ (handle[t] = "open")' => (conn[t] = url[t])'
                  /\ (tpc[t] \in {"close", "finish"})' => (queues[t] # "live")'
                  /\ (tpc[t] = "finish")' => (handle[t] # "open")'
        BY <2>0, <2>3 DEF Broken, client, WsInv, TypeOK, SlotOwned, QueueSafe, Sessions
      <4>3. ASSUME NEW t \in Slots, (queues[t] = "live")'
           PROVE  (qin[t] \in Seq({url[t]}))'
        BY <2>0, <2>3, <4>3 DEF Broken, client, WsInv, TypeOK, Sessions
      <4> QED BY <4>1, <4>2, <4>3 DEF Sessions
    <3>e. Current'
      BY <2>0, <2>3 DEF Broken, client, WsInv, TypeOK, SlotOwned, QueueSafe, Current
    <3> QED BY <3>a, <3>b, <3>c, <3>d, <3>e DEF WsInv
  <2> QED BY <1>13, <2>1, <2>2, <2>3 DEF Recv
<1>14. ASSUME NEW s \in Slots, DeleteQueues(s)
       PROVE  WsInv'
  <2>a. TypeOK'
    BY <1>14 DEF DeleteQueues, flags, client, WsInv, TypeOK
  <2>b. SlotOwned'
    BY <1>14 DEF DeleteQueues, flags, client, WsInv, TypeOK, SlotOwned, Sessions
  <2>c. QueueSafe'
    BY <1>14 DEF DeleteQueues, flags, client, WsInv, TypeOK, SlotOwned, QueueSafe, Current
  <2>d. Fresh' /\ Sessions'
    <3>1. Fresh'
      BY <1>14 DEF DeleteQueues, client, WsInv, Fresh
    <3>2. ASSUME NEW t \in Slots
         PROVE  /\ (handle[t] = "open")' => (conn[t] = url[t])'
                /\ (tpc[t] \in {"close", "finish"})' => (queues[t] # "live")'
                /\ (tpc[t] = "finish")' => (handle[t] # "open")'
      BY <1>14 DEF DeleteQueues, flags, client, WsInv, TypeOK, SlotOwned, QueueSafe, Sessions
    <3>3. ASSUME NEW t \in Slots, (queues[t] = "live")'
         PROVE  (qin[t] \in Seq({url[t]}))'
      BY <1>14, <3>3 DEF DeleteQueues, client, WsInv, TypeOK, Sessions, flags
    <3> QED BY <3>1, <3>2, <3>3 DEF Sessions
  <2>e. Current'
    BY <1>14 DEF DeleteQueues, flags, client, WsInv, TypeOK, SlotOwned, QueueSafe, Current
  <2> QED BY <2>a, <2>b, <2>c, <2>d, <2>e DEF WsInv
<1>15. ASSUME NEW s \in Slots, CloseHandle(s)
       PROVE  WsInv'
  <2>a. TypeOK'
    BY <1>15 DEF CloseHandle, flags, client, WsInv, TypeOK
  <2>b. SlotOwned'
    BY <1>15 DEF CloseHandle, flags, client, WsInv, TypeOK, SlotOwned, Sessions
  <2>c. QueueSafe'
    BY <1>15 DEF CloseHandle, flags, client, WsInv, TypeOK, SlotOwned, QueueSafe, Current
  <2>d. Fresh' /\ Sessions'
    <3>1. Fresh'
      BY <1>15 DEF CloseHandle, client, WsInv, Fresh
    <3>2. Sessions'
      BY <1>15 DEF CloseHandle, flags, client, WsInv, TypeOK, SlotOwned, QueueSafe, Sessions
    <3> QED BY <3>1, <3>2
  <2>e. Current'
    BY <1>15 DEF CloseHandle, flags, client, WsInv, TypeOK, SlotOwned, QueueSafe, Current
  <2> QED BY <2>a, <2>b, <2>c, <2>d, <2>e DEF WsInv
<1>16. ASSUME NEW s \in Slots, Finish(s)
       PROVE  WsInv'
  <2>a. TypeOK'
    BY <1>16 DEF Finish, session, client, WsInv, TypeOK
  <2>b. SlotOwned'
    BY <1>16 DEF Finish, session, client, WsInv, TypeOK, SlotOwned, Sessions
  <2>c. QueueSafe'
    BY <1>16 DEF Finish, session, client, WsInv, TypeOK, SlotOwned, QueueSafe, Current
  <2>d. Fresh' /\ Sessions'
    BY <1>16 DEF Finish, session, client, WsInv, TypeOK, SlotOwned, Fresh, Sessions
  <2>e. Current'
    BY <1>16 DEF Finish, session, client, WsInv, TypeOK, SlotOwned, QueueSafe, Current
  <2> QED BY <2>a, <2>b, <2>c, <2>d, <2>e DEF WsInv
<1>17. CASE UNCHANGED vars
  BY <1>17 DEF vars, flags, session, client, WsInv, TypeOK, SlotOwned, QueueSafe, Fresh, Sessions,
     Current
<1> QED
  BY <1>1, <1>2, <1>3, <1>4, <1>5, <1>6, <1>7, <1>8, <1>9, <1>10, <1>11, <1>12, <1>13, <1>14,
     <1>15, <1>16, <1>17 DEF Next, Client, Thread

(***************************************************************************)
(* The session array keeps its invariant.                                  *)
(***************************************************************************)
THEOREM Invariance == Spec => []WsInv
BY InitWsInv, NextWsInv, PTL DEF Spec

(***************************************************************************)
(* The flags, queues, handles and positions stay within their types.       *)
(***************************************************************************)
THEOREM Types == Spec => []TypeOK
<1>1. WsInv => TypeOK
  BY DEF WsInv
<1> QED BY Invariance, <1>1, PTL

(***************************************************************************)
(* websocket_session_thread_start gives a slot to a new session only when  *)
(* the thread of the last one has gone, with its queues and connection.    *)
(***************************************************************************)
THEOREM Owned == Spec => []SlotOwned
<1>1. WsInv => SlotOwned
  BY DEF WsInv
<1> QED BY Invariance, <1>1, PTL

(***************************************************************************)
(* Neither the client nor a session's thread touches a deleted queue.      *)
(***************************************************************************)
THEOREM Queues == Spec => []QueueSafe
<1>1. WsInv => QueueSafe
  BY DEF WsInv
<1> QED BY Invariance, <1>1, PTL

(***************************************************************************)
(* Every message dequeued was sent to the login the client is at.          *)
(***************************************************************************)
THEOREM Messages == Spec => []Fresh
<1>1. WsInv => Fresh
  BY DEF WsInv
<1> QED BY Invariance, <1>1, PTL
=============================================================================
