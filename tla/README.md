# meshrtc: a TLA+ model of its connection control

meshrtc is the WebRTC client of a mesh radio device: it pushes the device's
camera either to another device of the mesh (found through a signalling server
of the mesh) or to a media server reached through an "rtc server". This
directory models the parts of it that carry control: who is logged in where, who
owns the one peer connection, which messages cross between threads, and what
happens when commands, callbacks, answers, losses and retries meet in an order
nobody planned.

`PROJECT.json` lists the components, the runs, the lines every definition is
translated from, the hazards and the theorems. Run a model with
`tlc -config <cfg> <module>`, a proof with `tlapm <module>.tla`.

## The system

### Threads

| thread | code | does |
|---|---|---|
| main | `rtc_main.cc` `main` | takes commands from the IPC queue, polls `AppCmdWaiting`, calls `AppCmdSet`; restarts the stream on a new video configuration |
| rtc | `CustomSocketServer::Wait`, `ConnCtrl::Process`, `PeerConnectionClient::Process` | one pass every wait: callbacks queued for it, configuration command, mesh command, server command; between passes sockets and WebRTC observers |
| ipc | `ipc_thread.c` | copies System V messages into a ring |
| http | `http_thread.c` | takes requests from a ring, performs them, puts the answers into another |
| websocket sessions | `websocket_thread.c` | one per session, with two rings under a mutex |
| rtp | `rtp_session_thread.c`, `rtp_multicast.c` | receives media, fills the video ring |
| WebRTC | library | calls the observers of Conductor, on the rtc thread |

### Components

| component | state | operations | talks to | hard behaviours | correct when |
|---|---|---|---|---|---|
| Circular queue (`circular_queue.c`) | `head`, `tail`, slots that own buffers | put, get, create, delete | http, ipc, rtp, websocket threads | two threads, mostly without a lock; a full ring; failing malloc | a bounded FIFO: nothing torn, lost, repeated or leaked (where stores keep their order) |
| Mesh signalling client (`peer_connection_mesh.cc`) | `state_`, `my_id_`, two sockets, `onconnect_data_`, delayed messages, `sm_running` | StartLogin, SignOut, SendToPeer, socket events, OnMessage | signalling server, Conductor | refused and broken connections, retries against logouts, a server that forgets | the upper layer is told of every change; a stopped client stays out; a sign in ends |
| Connection controller (`conn_ctrl.cc`) | `mesh_status`, `webrtc_server_status`, three command slots, `args`, callback queue | AppCmdSet, ThreadCallbackHandle, CfgCmdProc, MeshStatusProc, ServerStatusProc | main thread, Conductor | slots overwritten, one command raising another, two state machines over one connection | its idea of each session matches the client below it; commands get through; logins end |
| Conductor (`conductor.cc`) | `peer_connection_`, capture device, `peer_id_`, `video_server_type_` | Connect/Disconnect, observers of mesh, rtc server and WebRTC | all of the above | one connection for two kinds of call; ids that outlive it | the camera films for somebody; a logout within a call ends it; descriptions go where the call is |
| RTC server client (`peer_connection_client.cc`) | `conn_starting`, `login_ok`, `websocket_id_`, `call_event_id_`, heartbeat counters, fragments | Login, Logout, SdpMessageSend, Http and websocket handlers | http thread, websocket sessions, Conductor | answers after a logout, a lost websocket during a call | logged in only while started; a call ends when its link ends |
| Main loop and start-up (`rtc_main.cc`) | command fetched, IPC messages kept over a restart | main, restore_prev_stat | ipc thread, ConnCtrl | check of a slot and its use apart in time; replay after a restart | every command reaches a slot |
| Websocket sessions (`websocket_thread.c`) | two session slots, rings, stop flags | start, stop, enqueue, dequeue | RTC server client | stop against restart of the same slot | a handle is closed once; a session is found only while it runs |
| HTTP worker, IPC (`http_thread.c`, `ipc_msg.c`, `ipc_thread.c`) | rings and a System V queue at their limits | send, receive | rtc and main thread | full queues, retries | a message reported as sent arrives |
| AV module link (`av_conn.cc`) | hello sequence number, loss count, status per device | hello answers, timer | AV process over SOAP | lost answers, a restart of the other side | a restarted AV process gets its configuration again |
| Video ring (`video_data_recv.cc`) | 30 frame slots and their buffers, flow control, packets put together | start, receive, save, trigger, get, stop | receive, capture and encoder threads, Conductor | a full ring, stop while the others run, a call after a call | frames in order, a key frame first, no buffer freed under the encoder, a hang-up ends |
| RTP sessions (`rtp_session_thread.c`, `rtp_multicast.c`) | slots, reordering of packets | start, stop, receive | the video ring | as the websocket sessions | not modelled yet |
| Configuration, audio and encoder glue, DSP, SOAP, JSON | files, samples, generated code | - | - | - | not modelled: I/O, signal processing, generated or vendored code |

## The modules

### CircularQueue, with BoundedFifo and CircularQueueProofs

`CircularQueue` has a putting and a getting thread, each of which goes through its
operation in several steps: the check, the allocation, the two stores of a put; the check,
the copy, the release and the advance of a get. `sync` says how the users of a ring guard
it: with the session mutex (`websocket_thread.c`), not at all (`http_thread.c`, RTP), or
not at all and with the stores of a put seen in either order, which the C memory model and
the aarch64 target allow for plain variables (`"weak"`; an x86 build shows them in order).
`lost` says that a `data_list` is left allocated, which is what `circular_queue_delete`
does with every queue it deletes: `NoLeak` is about the buffers of messages only. `TooBig`
messages are those longer than the reader's buffer: they are dropped, not left at the
tail. `malloc` may fail. `Delete` is run when no operation is under way, as its callers
do.

`BoundedFifo` is what a caller may rely on: a sequence of at most `Capacity`
messages, put at one end and got at the other, with refusals reported. The
refinement maps the ring to the messages between `tail` and `head`; the one
being got counts until `tail` moves.

Under `"weak"` the ring is not a FIFO: a get may copy a slot that the put which
published it has not written yet, which circular_queue.c:5 ("Do not use queue in multi
thread") warns of and `http_thread.c`, `ipc_thread.c` and the RTP thread do. What holds
under every discipline is `NoTornRead`: this can happen in one moment only, when the
getter has come to the last slot and the stores of the put under way are seen the
wrong way round (`Racing`). `Refines` and `NoLeak` say in their text that they are
about the other disciplines; `SlotsDisjoint` and `Drained` are about all three.

### PeerConnectionMesh, with MeshLink and PeerConnectionMeshProofs

`PeerConnectionMesh` has the client's state, its two sockets, the request to
send once connected, and the delayed messages that are its retries. Upper calls
(`StartLogin`, `DisconnectFromServer`, `SendToPeer`), socket events and delayed
messages are the actions; all run on the rtc thread, so each handler is one
step. The server is external: it hands out ids, drops clients, goes down and
comes back. `faults`, chosen at the start among `FaultSets`, says which failures
a behaviour may meet: `"refused"` connections, `"other"` errors that close one,
`"sync"` (Connect fails at once), `"short"` (Send takes only a part). `cb` is the
list of callbacks of the last step.

`MeshLink` is what the controller relies on: a link that is off, trying or on, a
flag whether it is wanted, and the reports a step makes; it may also go without a
report (`Vanish`), which the client does only when a message's Connect fails at
once. `PeerConnectionMesh` is shown to implement it, except in a step whose Send is
short, and `ConnCtrl` uses it (`Link == INSTANCE MeshLink`) in place of the
detailed client. This is how the two modules are composed.

### RtcClient, with RtcLink and RtcClientProofs

`RtcClient` is the client of the rtc server: login and logout, the two rings of
the HTTP thread and the request it is at, the websocket session, the heartbeat
and its count of losses, and what is kept of a message that comes in pieces. The
server is external and may stop answering; sessions break. A websocket message
is known by what it asks; a message may come in a head, middle pieces and a tail,
and `"scrap"` is a piece that fits nothing (a PONG is put in the same ring).
`said` is the list of callbacks of the last step, as entries of the controller's
queue. `due` is a history variable: the heartbeats that were due in this session.

`RtcLink` is to it what `MeshLink` is to the mesh client: it signs in, announces
calls and configurations only while wanted, and a client that was signed in
reports that it no longer is. `RtcClient` is shown to implement it and
`ConnCtrl` uses it (`Rtc == INSTANCE RtcLink`).

### RtcMain, with IpcQueue, AvLink, LossyFifo and RtcMainProofs

`IpcQueue` is the way of a command from another process: a System V queue that
outlives this process, the thread that empties it, and the ring the main thread
gets from. Both drop messages when full, and the sender is not told. `AvLink` is
the hello exchange with the AV module: the number expected next, the losses in a
row, and the configuration given to a module that comes back, against a module
that restarts and loses it. `RtcMain` extends both: it is the process from its
start to its main loop, with `restore_prev_stat` (which drains the queue, sends
its own commands and then the last `Replay` of the drained ones again), the
fetching and execution of commands, the file with the saved server, and a crash
at any point. A choice of server takes the rtc thread several steps (`step`): it takes
the command, looks at the address and perhaps sets the server, opens the file, which
empties it, writes it, and tells the server; the file may fail to open or to be
written, the main thread may replace `args` meanwhile, and the process may die
between any two steps. `RTC_SERVER_SET` saves an address that it refuses afterwards
(`"name"` is one with a port that is not an IPv4 address, `"mesh"` one without a port);
the next process then starts with it, refuses it again and has no server.
Three history variables are for the properties: `wanted`, the server the last process
was told to use; `whole`, that its last choice was carried out to the end; and
`alone`, that nobody else's message was under way since the start.

`LossyFifo` is what such a queue promises: messages may be lost, but none is
repeated and none passes another. The refinement maps the ring, the thread's
hand and the System V queue, in this order, to its contents.

### VideoRing, with VideoRingProofs

`VideoRing` is the way of a frame from the packets of the AV module to the
encoder: the receive thread puts packets together (`frag`), applies flow control
and saves; the capture thread starts the reception, triggers the encoder and
stops the reception; the encoder thread of the WebRTC library gets; the conductor
starts and ends calls, in one of the two orders the code has (`Teardowns`:
`"hangup"` deletes the connection first, `"lost"`, `OnMeshDisconnected`, stops the
camera first). Nothing is locked in that code. Frames are known by the byte after
their start code, with the code's names: `PPS_FRAG` is 0x67 and `SPS_FRAG` 0x68
(`h264.h:6`). A save is the check and the write, which the encoder or a stop may
come between; a get is the copy and the advance. What a properties' exception
needs is in history variables: `overrun` (a frame took the last free slot),
`toobig` (a frame was discarded for its size), `spoiled` (buffers were freed under
the encoder: nothing can be said from there on, and no new call is looked at).
It is assumed that a new call starts after the receive thread of the last one has
ended: that thread looks at its flag every 5 ms.

`Lossy`, an instance of `LossyFifo`, is also the abstract specification of the
ring: `Content` is what the slots from `tail` to `head` hold, without the one that a
receive thread which outlived its reception went on by and left empty.

### ConnCtrl, with ConnCtrlProofs

`ConnCtrl` is the controller together with the conductor and the parts of the
main loop and of `PeerConnectionClient` it interacts with. A pass of `Process`
is split at the points where the main thread may interfere: taking an entry of
the callback queue, emptying `cfg_cmd_`, reading `args`, dealing with the mesh
command, emptying its slot, dealing with the server command, emptying its slot.
The main thread fetches a command when the slots are empty and sets it later,
whatever happened in between. Between passes the mesh client (`MeshLink`), the rtc
server's client (`RtcLink`) and WebRTC bring their news. `ui_cmds`, chosen at the
start among `UiCmdSets`, are the commands the user may give.

The camera (`capture`) is started with a connection (`AddTracks`) and stopped apart
from it, by each of the callers of `DeletePeerConnection`: `OnMeshDisconnected`,
`DisconnectFromCurrentPeer` and, when the peer has left, the entry `"CLOSED"` of the
callback queue. `CameraHasReason` says when it may film: for the rtc server, for a peer
that is there, for one whose `"CLOSED"` is still in the queue, and for a connection
that a mesh logout left as it was (`left`, a history variable): a message of the peer
opens a connection in any status, and the logout of a controller that is not in a call
ends none, though it is to "release all conn resource" (conn_ctrl.cc:739).

How variables correspond to the code is said at their declarations. What is abstracted:
`pc` says for whom the connection was made (`"mesh"`, `"rtc"` or `"none"`); WebRTC's
factories succeed and `video_call_` is on; one answer to an offer is awaited at a time;
queue entries that only carry messages to a mesh peer are left out; the login retry
counter is not there, only that the interval passes; nor is `check_num`, which is never
reset, so that the process ends at the 300th poll that finds a slot taken
(conn_ctrl.cc:173), although the slots do drain; an assignment to `args` is one step (it
is a `std::string` that both threads touch: undefined behaviour below the level of this
model).

### WsSession, with WsSessionProofs

`WsSession` is the pool of websocket sessions and its one client. The client's
`WebsocketConnect` stops the previous session and starts another, `Logout` stops
it, and `Enqueue` and `Dequeue` exchange messages, each after a look at `running`
that is not under the lock. The start walks the slots one by one (`scan`), since
a thread may finish while it does. A session's thread goes through its loop and
its exit (`tpc`): head of the loop, connect, send, receive, delete the queues,
close the handle, finish. An operation on a queue is one step, as it is under the
slot's mutex, and what it does is that of `BoundedFifo`, which `CircularQueue`
implements. Messages and connections are known by the login they are for. A
handle is `"null"`, `"open"`, or `"freed"`: closed and kept in the slot; a freed
handle yields no message, and sending over it succeeds or fails. When no slot is
idle the start tests a pointer that was never set: NULL gives up, anything else
(`wild`) ends the behaviour, because nothing can be said about it. That is why
deadlock is not checked there.

## The runs

| run | shows |
|---|---|
| `queue_fifo` | with the mutex, without it, and without it with stores seen in either order: no slot shared by putter and getter, a slot without a message got from in one moment only (`NoTornRead`), the ring drained; where stores keep their order, no leak and the FIFO implemented |
| `mesh_faults` | refused connections and a forgetful server, alone, with synchronous failures, with short sends too, and with every failure: the RTC_DCHECKs of `OnConnect` and `OnRead` hold (`Assertions`; not the one on an empty server name, peer_connection_mesh.cc:98), a connected client is never deaf (`Listening`), a stopped one stays out, a refused one has a retry coming (`RefusedRetried`), `MeshLink` is implemented, a sign in ends once the server stays up (`SignInEnds`, where nothing but a refusal fails) |
| `mesh_relogin` | violation: "PeerConnectionMesh will relogin if failed"; after a reset or time-out it does not |
| `calls` | mesh logins and calls, an rtc login, a call to the inner media server, a flapping link, incoming calls; and commands to the rtc server against its events and a new video configuration: the camera has a reason to film, both statuses and the peer id stay consistent |
| `switch` | switching servers, where a command raises others: the slots all become empty again and again, and a login whose answer was overwritten in its slot is repeated until it ends |
| `mesh_call` | violation: "if mesh device connected with rtc server, mesh call is not allowed"; it is placed |
| `ws_pool` | logins, logouts and broken connections against two session slots: a slot changes hands only when its thread has gone, no deleted queue is touched, no login gets another's messages, slots come back |
| `ws_handle` | violation: the session thread is to "connect web server"; in the slot of a stopped session it finds the closed handle instead and uses it |
| `rtc_client` | full HTTP rings, lost answers, broken sessions, messages in pieces: a new session is not charged with the heartbeats of the old one (`GraceKept`), a client signed in does not leave in silence (`SignOutTold`), `RtcLink` is implemented, a server that is gone is noticed, and lost pieces do not keep the client out of step for ever (`Resynced`) |
| `rtc_main` | crashes anywhere, also between checking, saving and telling a choice, beside other processes or beside a restarting AV module: a choice carried out to the end is restored, commands keep their order and come once, the module is connected in the end, and configured if its restart was seen |
| `video_ring` | several calls, full rings, flow control, both ways to end a call: frames in order and whole, a key frame first, no buffer freed under the encoder by a hang-up, a hang-up ends |
| `video_full` | violation: "reserve a buf for key frame"; once a key frame has taken that slot the next frame takes the last one, and the full ring reads as empty |

What the properties except is in their comments and worth knowing, because the
runs would fail without it: `RestoresChoice` does not hold for
`SWITCH_TO_MESH_SERVER`, which leaves the file, nor for a choice cut short (the
process died between its first step and its last, the file could not be opened or
written, the address was saved and then refused, or `args` was replaced under it),
nor when others send during the start or had sent before; `StatusImpliesWanted` says
nothing of `LOGINING`, which a call that ends after a logout enters with a stopped
client; `Listening` nothing of a Connect that fails at once, nor `LossNoticed` of a
client without a session; `FramesInOrder` and `FirstIsKey` not for a ring run over (`video_full` shows
one); `EncoderSafe` and `HangUpEnds` not for `OnMeshDisconnected`, which frees the
buffers under a running encoder and waits for ever for one that still waits for
the reception; `AvReady` not for a module that restarted while it counted as
connected (one lost hello is tolerated). `Refines` and `NoLeak` of the ring except `"weak"`.

### Bounds, and why they are enough

`UnitNum = 3` makes a ring of two messages: empty, half full, full and wrapped
all occur, with a message that fits and one that does not. `Ids = {1, 2}` lets
the server give a client a new id while the old one is still registered;
`MaxRetry = 2` lets a second retry be pending when the first has signed in. More
retries than that add only repetitions. One peer and one server of each kind are
enough to have the right one, the wrong kind and none; a second peer would only
be another that is not ours. `MaxQueue = 1` limits what comes from outside to one
entry in `pending_callback_data_` (a pass itself may add one), which already
orders an event before and after each step of a pass; what it leaves out is two
events from outside that wait in the queue together, which the theorems about
`ConnCtrl` include. The run
`switch` has no peer: what it asks is about logins, and the calls are asked about
in `calls`; its `DJI_STREAM_NAME_SET` does nothing but overwrite the server slot.
`UiCmdSets` splits the commands by what they interact with; `ServerImpliesStarted`
is about the sets without `RTC_HDMI_CALL`, which skips the login. The session pool has
its real two slots; rings of two messages are empty, half full and full; three
logins let a slot be used, left and used again while the other winds down.

`HttpNum = 2` gives each HTTP ring room for one message, so that a second finds
it full; `MaxLost = 2` has a heartbeat that is lost and one that is lost too many;
`MaxFrag = 1` a message that has as many pieces as are kept and one that has more.
A System V queue of one and a ring of one message (`RingNum = 2`), with one in the
thread's hand, have the two commands of a start fill either; `Replay = 1` of at most two
drained messages (`MaxDrain`) repeats one and drops one. `FaultSets` gives the choices of
server, and the AV module, turns of their own, each beside crashes, which happen any
number of times. The video ring has three slots, two of them usable, one of these for
key frames only; `Middle` and `High` are then the fillings one and two, a group of
pictures has two frames, and a frame two packets at most, so each branch of flow
control and of putting together is taken. One kind of parameter set (`"pps"`,
which alone is combined with what follows it) and one other type are enough for
order and first frames.

### Fairness

The threads are loops without an exit, and the rtc thread serves its sockets and
its delayed messages: weak fairness of their steps. A get is strongly fair
because every user of a ring sleeps between two operations and so frees the
mutex. For the controller, the interval of 8 seconds after which a login is
repeated does pass (`SF(ServerRelogin)`), and the rtc server answers a login that
is repeated for ever (`SF(LoginAnswered)`); nothing is assumed of the user, the
mesh or WebRTC. A session's thread runs, and `websocket_conn_init` returns: it has
a timeout of 10 seconds. `LoginEnds` is stated for a user who becomes quiet and a server
that stops sending configurations: a configuration in every pass keeps the slot
taken and holds the repetition off. `RtcClient`: the rtc thread passes through
`Process` every wait, and the heartbeat interval passes (`WF` of
`WebsocketReceive` and of the two outcomes of a heartbeat that do not need a
failure). `RtcMain`: the process is started again by its supervisor, its main loop
and IPC thread run, and a module that is off is switched on (`AvStarts`).
`VideoRing`: its three threads run, and the library's queue serves the destruction
of the encoder in its turn, however many frames are posted before it and after
it: `SF(Conductor)`. No packet needs to come and no call needs to end.

## The proofs

`CircularQueueProofs` proves, for every ring size, every set of messages and
every set of disciplines, `"weak"` included, that `IInv` is an invariant
(`Invariance`), and from it `Types`, `TornReads`, `Disjoint`, `Leaks` and
`Refinement`. `NoTornRead`, `SlotsDisjoint` and `NoLeak` are not inductive by
themselves: a get needs to know that the ring it has checked stays non-empty, a
put that its slot stays outside the window, and that its stores are issued slot
first, unless they are `Racing`. `Progress` says how far each operation has got, and
`Filled` which slots hold a message: all in the window, but the one just released
and, while the put is `Racing`, the last. The refinement is proved
from lemmas on `Contents`: it is a sequence of `Count` messages, a step that
leaves the window alone leaves it alone, an advance of `head` appends and one of
`tail` takes the first.

`ConnCtrlProofs` proves `Session`: `StatusImpliesWanted` and `PeerForgotten`
together, with a conjunct that ties the link to the client's being wanted, are
inductive over every action, for all peers, servers, commands and queue bounds. The
conjuncts need each other: a peer id is set by a message the link brings, which is on
only if wanted, and a status is raised by a sign in, which a stopped client does not
report. `LoggedIn` and `Forgotten` are its parts, which the run `calls` checks on an
instance. `Camera` proves `CameraHasReason`, which is inductive given the type of the
queue: whatever forgets the peer of a mesh connection has put the end of its call in
the queue, or is a logout, which is remembered; what is put in the queue later does not
hide that entry, and taking it stops the camera. `ServerLoggedIn` is
the counterpart for the rtc server, from an invariant of its own (`ServerInv`):
where the user does not send `RTC_HDMI_CALL`, no slot holds it, every other way
into `LOGINING` starts the client first, and a logout resets the status in the
step that stops it. `Types` is proved variable group by variable group. The part of
it that says more than types is the bound of the callback queue: news from outside
come only below `MaxQueue`, and a pass that has an entry of its own to add has taken
one before, so the queue exceeds its bound by at most one.

`PeerConnectionMeshProofs` proves `TypeOK`, `Assertions`, `Listening`, `LoggedOutStaysOut`
and `RefusedRetried` together, for any ids, number of retries and faults. They need to
know what a request under way is for (`Exchange`): a message or a sign out carries an id,
an answer that says yes brings one, and a connection open in `SIGNING_IN` already has its
answer; and that a connected client has an id (`HasId`). From this invariant follows
`Implementation`: every step but one whose Send is short is a step of `MeshLink` or leaves
alone what it shows, and `Vanish`, a link lost without a report, happens only where a
Connect may fail at once. It needs the invariant because what a handler tells depends on
what the request under way was for, and one thing more: without short sends a hanging GET
is open only while the client is connected (`Waiting`). Together with the same result for
`RtcClient` this is what allows `ConnCtrl` to be checked, and proved about, against the
two links.

`RtcClientProofs` proves `ClientInv` (types, bounded rings, `GraceKept`), from it
`SignOutTold`, and that `RtcClient` implements `RtcLink`: each action of the
detailed client is a step of the link or leaves what it shows alone. The one part
of the refinement mapping that is not a variable is whether an answer may still
come, so the lemmas are about what a put and a get do to that.

`WsSessionProofs` proves `TypeOK`, `SlotOwned`, `QueueSafe` and `Fresh` for any number of
slots and logins and any queue size. Its `WsInv` adds that what a live queue and
an open handle hold belongs to the login in the slot's `url`, that a thread on
its way out has already let go of its queues, then of its handle, and that the
session the client uses is that of its own login unless it is just replacing it.

`RtcMainProofs` proves `RestartRestoresChoice`: for every queue and ring size,
any number of replayed messages and any faults, a process that is started again
alone ends at the server chosen last, if that choice was carried out to the end. `RestoresChoice` says
something only when start-up has settled, so the invariant `RestoreInv` says what
holds before: the file remembers what the last process was told (`File`), each
stage of the start has sent what it should (`Stages`), and as long as nobody else
sends, the setting command is the first thing under way and is not lost
(`Undisturbed`): the queue was empty, and a queue with room for one message has
room for it. `Types` bounds the three queues and the lists of the start. `InOrder`
proves `ChannelInOrder`, the refinement of `LossyFifo`: each step of the ring, the
thread and the System V queue is one of the channel. A message that the thread moves
from one part to the next stays where it is in the concatenation; a put into the full
ring removes one in the middle (the one in the thread's hand), and a crash those in
front, which are in the memory of the process. What the proof consists of is therefore
lemmas on concatenations, taken apart at either end or in the middle.

`VideoRingProofs` proves, for every size of the ring, every stream and any number of
calls, `TypesKept`, `Safe` (`EncoderSafe`), `FirstKey` (`FirstIsKey`) and
`Ordered` (`FramesInOrder`). They share the invariant `RingInv`, as none is inductive
by itself. `EncoderSafe` needs to know how far the end of a call has come and that the
hang-up's stop is reached only with the connection deleted (`Ending`), and which
threads run while the reception does (`Threads`). `FirstIsKey` needs what a call
leaves to the next: an empty ring, except that the last receive thread may still go
on by one slot, which is then empty (`Idle`); from there on, either nothing has been
saved and the frame in the receive thread's hands is a parameter set (`Fresh`) or the
oldest frame in the ring is one (`KeyFirst`). The order of frames needs that all other
slots between `tail` and `head` hold a frame (`Full`) and that what the encoder copies
is still the oldest (`Copying`). The indices go round, so the module begins with the
arithmetic of slots modulo `N`: how far one index is ahead of another, and how that
changes as either goes on.

The assumptions are the named `ASSUME`s of the modules. Every type invariant, safety
invariant, action property and refinement that a passing run checks is also proved.
Only model-checked is liveness, which is out of this prover's reach: `Drained`,
`SignInEnds`, `SlotsDrain`, `LoginEnds`, `StopEnds`, `LossNoticed`, `Resynced`,
`AvComesUp` and `HangUpEnds`. The four violations are TLC's counterexamples.

## Not modelled, and the plan

What is left, in the order it is worth doing:

1. `RtpSession` (`rtp_session_thread.c`, `rtp_multicast.c`): slots, the receive
   thread and the reordering of packets, as the source of `VideoRing`'s packets.
2. The order of `pending_messages_` of Conductor, and the replies to a peer that
   overtake each other.
3. Proofs: what the exceptions of the video ring amount to (which slots an encoder
   can still copy from after an `OnMeshDisconnected`, what a ring that was run over
   still holds), and the properties of `RtpSession` when it is there.

Left out for good: configuration files beyond the saved server (each is written
and read in one place, with no shared state), audio and encoder adapters, signal
processing, the SOAP and JSON libraries, SDP text and log output. Of the files
under `src/`, most are vendored headers (WebRTC, OpenSSL), gSOAP's runtime and
generated stubs: they carry no logic of this program, and the definitions here
translate only a small share of all lines for that reason. Details left out of a
modelled part are named in its module's comments and in `PROJECT.json`: the slots
of the HTTP worker (one is started, at start-up, and none is stopped), the
command line, messages passed on to other modules, pictures of local video.
