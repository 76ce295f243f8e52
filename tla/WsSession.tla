------------------------------ MODULE WsSession ------------------------------
(***************************************************************************)
(* gbcom_common/comm/websocket/websocket_thread.c, with its one user, the  *)
(* websocket half of peer_connection_client.cc.  Sessions live in a fixed  *)
(* array of slots.  The client, in the rtc thread, starts and stops them   *)
(* and exchanges messages through two circular queues; a thread per        *)
(* session connects, sends and receives.  They share the flags running and *)
(* finish without a lock; the queues are under the slot's mutex, so an     *)
(* operation on them is one step.                                          *)
(*                                                                         *)
(* Messages and connections are known by the login (token_) they are for.  *)
(***************************************************************************)
EXTENDS Integers, Sequences

CONSTANTS
    SessionNum, \* WS_SESSION_MAX_NUM
    BufNum,     \* WS_MSG_BUF_NUM, slots of a queue
    MaxLogin    \* bound: logins

Slots == 0 .. SessionNum - 1
NoSlot == -1
Logins == 0 .. MaxLogin

ASSUME SessionNumAssumption == SessionNum \in Nat
ASSUME BufNumAssumption == BufNum \in Nat \ {0}
ASSUME MaxLoginAssumption == MaxLogin \in Nat

VARIABLES
    running, finish, \* running and finish of each slot
    url,      \* url: the login whose token it carries
    handle,   \* websocket_session_data: "null", "open", or closed and kept, "freed"
    conn,     \* the login an open handle was connected for
    queues,   \* queue_in and queue_out: "none" (NULL), "live", or deleted and kept, "freed"
    qin, qout,\* their messages
    tpc,      \* where the slot's thread is, "none" if there is none
    id,       \* websocket_id_
    cpc,      \* where the client is
    after,    \* what follows a stop: "scan" or "idle"
    scan,     \* loop counter of websocket_session_thread_start
    token,    \* token_: the login the client is at
    got,      \* the message last dequeued, 0 for none since the login
    wild      \* an uninitialised pointer other than NULL was followed

flags == <<running, finish>>
session == <<url, handle, conn, queues, qin, qout>>
client == <<id, cpc, after, scan, token, got, wild>>
vars == <<flags, session, tpc, client>>

\* websocket_data_queue_init
Init ==
    /\ running = [s \in Slots |-> FALSE]
    /\ finish = [s \in Slots |-> TRUE]
    /\ url = [s \in Slots |-> 0]
    /\ handle = [s \in Slots |-> "null"]
    /\ conn = [s \in Slots |-> 0]
    /\ queues = [s \in Slots |-> "none"]
    /\ qin = [s \in Slots |-> <<>>]
    /\ qout = [s \in Slots |-> <<>>]
    /\ tpc = [s \in Slots |-> "none"]
    /\ id = NoSlot
    /\ cpc = "idle"
    /\ after = "idle"
    /\ scan = 0
    /\ token = 0
    /\ got = 0
    /\ wild = FALSE

-----------------------------------------------------------------------------
(* The client.                                                               *)

\* websocket_session_thread_stop, up to its wait.
Stop(s, then) ==
    /\ running' = [running EXCEPT ![s] = FALSE]
    /\ cpc' = "stop"
    /\ after' = then

\* WebsocketConnect, with the token of a new login: the previous session is
\* stopped and another started.
WebsocketConnect ==
    /\ cpc = "idle"
    /\ token < MaxLogin
    /\ token' = token + 1
    /\ got' = 0
    /\ scan' = 0
    /\ IF id # NoSlot
       THEN Stop(id, "scan")
       ELSE cpc' = "scan" /\ UNCHANGED <<running, after>>
    /\ UNCHANGED <<finish, session, tpc, id, wild>>

\* Logout stops the session and forgets it.
Logout ==
    /\ cpc = "idle"
    /\ id # NoSlot
    /\ Stop(id, "idle")
    /\ UNCHANGED <<finish, session, tpc, id, scan, token, got, wild>>

\* Mutant: a thread that is late is given up.
StopWaitGiveUp ==
    /\ cpc = "stop"
    /\ cpc' = after
    /\ id' = IF after = "idle" THEN NoSlot ELSE id
    /\ finish' = [finish EXCEPT ![id] = TRUE]
    /\ UNCHANGED <<running, session, tpc, after, scan, token, got, wild>>

\* The wait of 500 ms ends, with or without the thread's finish: a thread may be
\* 10 seconds in websocket_conn_init.
StopWait ==
    /\ cpc = "stop"
    /\ cpc' = after
    /\ id' = IF after = "idle" THEN NoSlot ELSE id
    /\ UNCHANGED <<flags, session, tpc, after, scan, token, got, wild>>

\* Mutant: the queues of the slot's last session are used again.
StartThreadOldQueues(s) ==
    /\ running' = [running EXCEPT ![s] = TRUE]
    /\ finish' = [finish EXCEPT ![s] = FALSE]
    /\ queues' = [queues EXCEPT ![s] = "live"]
    /\ tpc' = [tpc EXCEPT ![s] = "top"]
    /\ id' = s
    /\ UNCHANGED <<qin, qout>>

\* The queues are created and the thread runs.
StartThread(s) ==
    /\ running' = [running EXCEPT ![s] = TRUE]
    /\ finish' = [finish EXCEPT ![s] = FALSE]
    /\ queues' = [queues EXCEPT ![s] = "live"]
    /\ qin' = [qin EXCEPT ![s] = <<>>]
    /\ qout' = [qout EXCEPT ![s] = <<>>]
    /\ tpc' = [tpc EXCEPT ![s] = "top"]
    /\ id' = s

\* circular_queue_create or pthread_create fails: what was created is deleted, its
\* pointers stay.
StartFails(s) ==
    /\ queues' = [queues EXCEPT ![s] = "freed"]
    /\ id' = NoSlot
    /\ UNCHANGED <<flags, qin, qout, tpc>>

\* The loop of websocket_session_thread_start meets an idle slot.
StartFound ==
    /\ cpc = "scan"
    /\ scan \in Slots
    /\ ~running[scan] /\ finish[scan]
    /\ url' = [url EXCEPT ![scan] = token]
    /\ StartThread(scan) \/ StartFails(scan)
    /\ cpc' = "idle"
    /\ UNCHANGED <<handle, conn, after, scan, token, got, wild>>

StartBusy ==
    /\ cpc = "scan"
    /\ scan \in Slots
    /\ running[scan] \/ ~finish[scan]
    /\ scan' = scan + 1
    /\ UNCHANGED <<flags, session, tpc, id, cpc, after, token, got, wild>>

\* No slot is idle, and the pointer tested for NULL was never set.  NULL gives up;
\* nothing is said about a program that follows another value.
StartNone ==
    /\ cpc = "scan"
    /\ scan = SessionNum
    /\ cpc' = "idle"
    /\ id' = NoSlot
    /\ wild' \in BOOLEAN
    /\ UNCHANGED <<flags, session, tpc, after, scan, token, got>>

\* websocket_session_data_enqueue and _dequeue: running is read before the lock.
CheckRunning(op) ==
    /\ cpc = "idle"
    /\ id # NoSlot
    /\ running[id]
    /\ cpc' = op
    /\ UNCHANGED <<flags, session, tpc, id, after, scan, token, got, wild>>

\* Mutant: the last slot of the ring is used.
PutIntoFull(q, m) == IF Len(q) <= BufNum - 1 THEN Append(q, m) ELSE q

\* circular_queue_put as its caller sees it: a message too many is dropped.
PutInto(q, m) == IF Len(q) < BufNum - 1 THEN Append(q, m) ELSE q

Enqueue ==
    /\ cpc = "put"
    /\ cpc' = "idle"
    /\ qout' = IF queues[id] = "none" THEN qout
               ELSE [qout EXCEPT ![id] = PutInto(@, token)]
    /\ UNCHANGED <<flags, url, handle, conn, queues, qin, tpc, id, after, scan, token, got, wild>>

Dequeue ==
    /\ cpc = "get"
    /\ cpc' = "idle"
    /\ IF queues[id] # "none" /\ qin[id] # <<>>
       THEN got' = Head(qin[id]) /\ qin' = [qin EXCEPT ![id] = Tail(@)]
       ELSE UNCHANGED <<got, qin>>
    /\ UNCHANGED <<flags, url, handle, conn, queues, qout, tpc, id, after, scan, token, wild>>

-----------------------------------------------------------------------------
(* thread_websocket_session.                                                 *)

\* Mutant: the retries of a connection do not look at running.
LoopRetrying(s) ==
    /\ tpc[s] = "top"
    /\ tpc' = [tpc EXCEPT ![s] = CASE handle[s] = "null" -> "conn"
                                   [] ~running[s] -> "exit"
                                   [] OTHER -> "send"]
    /\ UNCHANGED <<flags, session, client>>

\* The head of the loop.
Loop(s) ==
    /\ tpc[s] = "top"
    /\ tpc' = [tpc EXCEPT ![s] = CASE ~running[s] -> "exit"
                                   [] handle[s] = "null" -> "conn"
                                   [] OTHER -> "send"]
    /\ UNCHANGED <<flags, session, client>>

\* websocket_conn_init connects, or fails and is tried again.
Connect(s) ==
    /\ tpc[s] = "conn"
    /\ \/ /\ tpc' = [tpc EXCEPT ![s] = "send"]
          /\ handle' = [handle EXCEPT ![s] = "open"]
          /\ conn' = [conn EXCEPT ![s] = url[s]]
       \/ /\ tpc' = [tpc EXCEPT ![s] = "top"]
          /\ UNCHANGED <<handle, conn>>
    /\ UNCHANGED <<flags, url, queues, qin, qout, client>>

\* A send failed or the peer closed: the session ends by itself.
Broken(s) ==
    /\ handle' = [handle EXCEPT ![s] = "null"]
    /\ running' = [running EXCEPT ![s] = FALSE]
    /\ tpc' = [tpc EXCEPT ![s] = "exit"]

\* One message of queue_out, if there is one, is sent.
Send(s) ==
    /\ tpc[s] = "send"
    /\ \/ /\ qout[s] = <<>>
          /\ tpc' = [tpc EXCEPT ![s] = "recv"]
          /\ UNCHANGED <<handle, running, qout>>
       \/ /\ qout[s] # <<>>
          /\ qout' = [qout EXCEPT ![s] = Tail(@)]
          /\ \/ tpc' = [tpc EXCEPT ![s] = "recv"] /\ UNCHANGED <<handle, running>>
             \/ Broken(s)
    /\ UNCHANGED <<finish, url, conn, queues, qin, client>>

\* A message, nothing (also if the connection failed), or the peer's close.  A
\* closed handle yields no message.
Recv(s) ==
    /\ tpc[s] = "recv"
    /\ \/ /\ handle[s] = "open"
          /\ qin' = [qin EXCEPT ![s] = PutInto(@, conn[s])]
          /\ tpc' = [tpc EXCEPT ![s] = "top"]
          /\ UNCHANGED <<handle, running>>
       \/ tpc' = [tpc EXCEPT ![s] = "top"] /\ UNCHANGED <<handle, running, qin>>
       \/ Broken(s) /\ UNCHANGED qin
    /\ UNCHANGED <<finish, url, conn, queues, qout, client>>

\* Mutant: the pointers are not cleared.
DeleteQueuesOnly(s) ==
    /\ tpc[s] = "exit"
    /\ queues' = [queues EXCEPT ![s] = "freed"]
    /\ tpc' = [tpc EXCEPT ![s] = "close"]
    /\ UNCHANGED <<flags, url, handle, conn, qin, qout, client>>

\* After the loop, under the mutex: the queues are deleted and forgotten.
DeleteQueues(s) ==
    /\ tpc[s] = "exit"
    /\ queues' = [queues EXCEPT ![s] = "none"]
    /\ tpc' = [tpc EXCEPT ![s] = "close"]
    /\ UNCHANGED <<flags, url, handle, conn, qin, qout, client>>

\* Mutant: a stopped session does not close its connection.
CloseNothing(s) ==
    /\ tpc[s] = "close"
    /\ tpc' = [tpc EXCEPT ![s] = "finish"]
    /\ UNCHANGED <<flags, session, client>>

\* The handle of a stopped session is closed, and kept.
CloseHandle(s) ==
    /\ tpc[s] = "close"
    /\ handle' = [handle EXCEPT ![s] = IF @ = "null" THEN @ ELSE "freed"]
    /\ tpc' = [tpc EXCEPT ![s] = "finish"]
    /\ UNCHANGED <<flags, url, conn, queues, qin, qout, client>>

Finish(s) ==
    /\ tpc[s] = "finish"
    /\ finish' = [finish EXCEPT ![s] = TRUE]
    /\ tpc' = [tpc EXCEPT ![s] = "none"]
    /\ UNCHANGED <<running, session, client>>

-----------------------------------------------------------------------------
Thread(s) ==
    /\ ~wild
    /\ \/ Loop(s) \/ Connect(s) \/ Send(s) \/ Recv(s)
       \/ DeleteQueues(s) \/ CloseHandle(s) \/ Finish(s)

Client ==
    /\ ~wild
    /\ \/ WebsocketConnect \/ Logout \/ StopWait \/ StartFound \/ StartBusy \/ StartNone
       \/ CheckRunning("put") \/ CheckRunning("get") \/ Enqueue \/ Dequeue

Next == Client \/ \E s \in Slots : Thread(s)

Spec == Init /\ [][Next]_vars

\* A session's thread keeps running; websocket_conn_init returns within 10 seconds.
FairSpec == Spec /\ \A s \in Slots : WF_vars(Thread(s))

-----------------------------------------------------------------------------
(* Properties *)

\* The variables stay within their types, and no ring is fuller than it can be.
TypeOK ==
    /\ running \in [Slots -> BOOLEAN] /\ finish \in [Slots -> BOOLEAN]
    /\ url \in [Slots -> Logins] /\ conn \in [Slots -> Logins]
    /\ handle \in [Slots -> {"null", "open", "freed"}]
    /\ queues \in [Slots -> {"none", "live", "freed"}]
    /\ qin \in [Slots -> Seq(Logins)] /\ qout \in [Slots -> Seq(Logins)]
    /\ \A s \in Slots : Len(qin[s]) < BufNum /\ Len(qout[s]) < BufNum
    /\ tpc \in [Slots -> {"none", "top", "conn", "send", "recv", "exit", "close", "finish"}]
    /\ id \in Slots \cup {NoSlot}
    /\ cpc \in {"idle", "stop", "scan", "put", "get"}
    /\ after \in {"scan", "idle"}
    /\ scan \in 0 .. SessionNum
    /\ token \in Logins /\ got \in Logins
    /\ wild \in BOOLEAN

\* A slot is offered to a new session only when the thread of its last one has
\* gone, however long after the stop that was, and its queues and connection with
\* it; a running slot has a thread that serves it.
SlotOwned ==
    \A s \in Slots :
        /\ finish[s] <=> tpc[s] = "none"
        /\ finish[s] => ~running[s] /\ queues[s] # "live" /\ handle[s] # "open"
        /\ running[s] => tpc[s] \in {"top", "conn", "send", "recv"}

\* The client, which looked at running before it locked, and the thread never touch
\* a queue that was deleted; the thread always has its queues.
QueueSafe ==
    /\ cpc \in {"put", "get"} => id \in Slots /\ queues[id] # "freed"
    /\ \A s \in Slots : tpc[s] \in {"top", "conn", "send", "recv", "exit"} => queues[s] = "live"

\* A login never gets a message that the server sent to an earlier one, although the
\* earlier session may still be connected, and messages queued, in the other slot.
Fresh == got \in {0, token}

\* "connect web server" (websocket_thread.c): what a session sends and receives goes
\* over a connection that is open.
HandleOpen == \A s \in Slots : tpc[s] \in {"send", "recv"} => handle[s] = "open"

\* A session that was stopped, or broke, gives its slot back.
StopEnds == \A s \in Slots : ~running[s] ~> (finish[s] \/ wild)
=============================================================================
