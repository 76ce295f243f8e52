------------------------------ MODULE VideoRing ------------------------------
(***************************************************************************)
(* video_data_recv.cc and its users: a receive thread puts the packets of  *)
(* the AV module together to frames and saves them in a ring, from which   *)
(* the encoder thread of the WebRTC library gets them (av_encoder.cc).  A  *)
(* capture thread (fake_video_capture.cc) starts the reception and         *)
(* triggers the encoder; the conductor starts and stops it with the call.  *)
(*                                                                         *)
(* No lock protects the ring, its buffers or the flag that stops the       *)
(* threads.  A frame stands for its type, the byte after its first start   *)
(* code; a buffer with nothing in it, or nothing that will be read, is     *)
(* "empty".                                                                *)
(***************************************************************************)
EXTENDS Integers, Sequences, SequencesExt

CONSTANTS
    N,        \* ENCODED_DATA_LIST_NUM
    High,     \* fps_scale_th_high
    Middle,   \* fps_scale_th_low
    Gop,      \* video_cfg->gop
    Modes,    \* BOOLEAN: the values of g_rcmode = RC_MODE_FLUENCY_FIRST_MODE
    Keys,     \* SPS_FRAG and PPS_FRAG, as "sps" and "pps", or one of them
    Others,   \* frame types that are not parameter sets; the code treats all alike
    MaxPkts,  \* packets frag_data has room for
    Teardowns \* how calls end: "hangup" or "lost" (OnMeshDisconnected)

Types == Keys \cup Others
Slots == 0..N - 1
Orders == [hangup |-> <<"delete", "stop">>, lost |-> <<"stop", "delete">>]

ASSUME RingAssumption == N \in Nat /\ N > 2 /\ Middle \in 0..High /\ High \in 0..N - 1
ASSUME StreamAssumption == Gop \in Nat \ {0} /\ MaxPkts \in Nat \ {0, 1}
ASSUME KeysAssumption == Keys \subseteq {"sps", "pps"}
ASSUME OthersAssumption == Others \cap {"sps", "pps", "junk", "more", "empty", "torn", "none"} = {}
ASSUME ModesAssumption == Modes \subseteq BOOLEAN
ASSUME TeardownsAssumption == Teardowns \subseteq DOMAIN Orders

VARIABLES
    head, tail, slot, \* encoded_data_head, encoded_data_tail, encoded_data_list
    flow, dist,       \* flow_ctrl_flag, key_frame_dist (no more than Gop + 1 here)
    flag,             \* data_recv_init_flag
    bufs,             \* the buffers of the slots are allocated
    recv,             \* the receive thread: "off", or what it does
    gop, start, idr,  \* its first_gop, start_flag, idr_start
    frag, out,        \* its frag_data: type and packets; the frame it saves
    capture, started, \* the capture thread; mIsStarted
    peer, todo,       \* there is a peer connection; what is left to do to end the call
    teardown,         \* how the call ends, or ended
    posted,           \* a frame has been passed to the encoder's queue
    enc, copied, got, \* the encoder; the frame it copies; history: the last it got
    first,            \* history: the first frame of the call it got: a "key", another, or
                      \* "any" when nothing is claimed of it
    overrun,          \* history: in this call a frame was saved in the last free slot
    toobig,           \* history: in this call a frame was too big before the first got there
    spoiled           \* history: the buffers were freed while the encoder copied

ring == <<head, tail, slot>>
flow_ctrl == <<flow, dist>>
receiver == <<recv, gop, start, idr, frag, out>>
call == <<capture, started, peer, todo, teardown>>
encoder == <<posted, enc, copied, got>>
history == <<first, overrun, toobig, spoiled>>
vars == <<ring, flow_ctrl, flag, bufs, receiver, call, encoder, history>>

NoFrag == [type |-> "junk", pkts |-> 0]

Init ==
    /\ head = 0 /\ tail = 0 /\ slot = [i \in Slots |-> "empty"]
    /\ flow = FALSE /\ dist = 0
    /\ flag = FALSE /\ bufs = FALSE
    /\ recv = "off" /\ gop = FALSE /\ start = FALSE /\ idr = FALSE
    /\ frag = NoFrag /\ out = "none"
    /\ capture = "off" /\ started = FALSE /\ peer = FALSE /\ todo = <<>>
    /\ teardown = "none"
    /\ posted = FALSE /\ enc = "none" /\ copied = "empty" /\ got = "none"
    /\ first = "none" /\ overrun = FALSE /\ toobig = FALSE /\ spoiled = FALSE

num_in_data_queue == (head + N - tail) % N

\* The frames in the ring, oldest first.  The slot a late thread went on by, with the
\* buffers gone, has none.
Content ==
    LET skip == IF head # tail /\ slot[tail] = "empty" THEN 1 ELSE 0
    IN  [i \in 1..num_in_data_queue - skip |-> slot[(tail + skip + i - 1) % N]]

-----------------------------------------------------------------------------
(* The receive thread.                                                       *)

Piece(t, n) == frag' = [type |-> t, pkts |-> n]

\* Nothing is kept before the first parameter set.
PacketDiscarded(p) ==
    /\ ~gop /\ p \notin Keys
    /\ UNCHANGED <<recv, gop, start, idr, frag, out, toobig>>

\* Mutant: start_flag is not cleared.
PacketMoreStarted(p) ==
    /\ gop /\ p = "more"
    /\ IF frag.pkts = MaxPkts
       THEN Piece("junk", 0) /\ UNCHANGED start /\ toobig' = (first = "none")
       ELSE Piece(frag.type, frag.pkts + 1) /\ UNCHANGED <<start, toobig>>
    /\ UNCHANGED <<recv, gop, idr, out>>

\* A packet without a start code continues the frame, or makes it too big: then a
\* new start is looked for, and what comes until then is put together in vain.
PacketMore(p) ==
    /\ gop /\ p = "more"
    /\ IF frag.pkts = MaxPkts
       THEN Piece("junk", 0) /\ start' = FALSE /\ toobig' = (first = "none")
       ELSE Piece(frag.type, frag.pkts + 1) /\ UNCHANGED <<start, toobig>>
    /\ UNCHANGED <<recv, gop, idr, out>>

\* The first start code.
PacketFirst(p) ==
    /\ p \in (IF gop THEN Types ELSE Keys)
    /\ ~start \/ frag.pkts = 0
    /\ gop' = TRUE /\ start' = TRUE
    /\ Piece(p, 1)
    /\ UNCHANGED <<recv, idr, out, toobig>>

Combines == frag.type = "pps" /\ ~idr /\ frag.pkts < MaxPkts

\* What follows a short parameter set is added to it, once.
PacketCombined(p) ==
    /\ gop /\ p # "more" /\ start /\ frag.pkts > 0
    /\ Combines
    /\ idr' = TRUE
    /\ Piece(frag.type, frag.pkts + 1)
    /\ UNCHANGED <<recv, gop, start, out, toobig>>

\* A start code ends the frame before it, which is saved.
PacketEndsFrame(p) ==
    /\ gop /\ p # "more" /\ start /\ frag.pkts > 0
    /\ ~Combines
    /\ idr' = FALSE
    /\ out' = frag.type
    /\ recv' = "save"
    /\ Piece(p, 1)
    /\ UNCHANGED <<gop, start, toobig>>

video_packet_recv ==
    /\ recv = "wait" /\ flag
    /\ \E p \in Types \cup {"more"} :
           PacketDiscarded(p) \/ PacketMore(p) \/ PacketFirst(p) \/ PacketCombined(p) \/ PacketEndsFrame(p)
    /\ UNCHANGED <<ring, flow_ctrl, flag, bufs, call, encoder, first, overrun, spoiled>>

RecvEnds ==
    /\ recv = "wait" /\ ~flag
    /\ recv' = "off"
    /\ gop' = FALSE /\ start' = FALSE /\ idr' = FALSE /\ frag' = NoFrag
    /\ UNCHANGED <<ring, flow_ctrl, flag, bufs, out, call, encoder, history>>

IsKey == out \in Keys
NextDist == IF dist <= Gop THEN dist + 1 ELSE dist

\* The distance to the key frame from which frames are discarded, as the ring fills.
Late(d) ==
    \/ num_in_data_queue >= High /\ d > (Gop + 1) \div 2
    \/ num_in_data_queue \in Middle..High - 1 /\ d > ((Gop + 1) * 4) \div 5

\* "reserve a buf for key frame"
NoBuf == (head + (IF IsKey THEN 1 ELSE 2)) % N = tail

\* Flow control discards frames until a key frame.
SaveDiscards ==
    /\ recv = "save"
    /\ ~IsKey /\ flow
    /\ dist' = NextDist
    /\ recv' = "wait" /\ out' = "none"
    /\ UNCHANGED <<ring, flow, flag, bufs, gop, start, idr, frag, call, encoder, history>>

\* With no slot left the frame is lost; it is written otherwise, over what the
\* encoder copies if that is in the slot.
SaveChecks(fluency) ==
    /\ recv = "save"
    /\ IsKey \/ ~flow
    /\ dist' = IF IsKey THEN 0 ELSE NextDist
    /\ flow' = (~IsKey /\ fluency /\ (Late(dist') \/ (NoBuf /\ dist' > (Gop + 1) \div 2)))
    /\ IF NoBuf THEN recv' = "wait" /\ out' = "none" ELSE recv' = "write" /\ UNCHANGED out
    /\ copied' = IF ~NoBuf /\ enc = "copy" /\ head = tail THEN "torn" ELSE copied
    /\ UNCHANGED <<ring, flag, bufs, gop, start, idr, frag, call, posted, enc, got, history>>

\* If the buffers have been freed the frame went elsewhere.
SaveDone ==
    /\ recv = "write"
    /\ recv' = "wait" /\ out' = "none"
    /\ slot' = IF bufs THEN [slot EXCEPT ![head] = out] ELSE slot
    /\ head' = (head + 1) % N
    /\ overrun' = (overrun \/ head' = tail)
    /\ UNCHANGED <<tail, flow_ctrl, flag, bufs, gop, start, idr, frag, call, encoder>>
    /\ UNCHANGED <<first, toobig, spoiled>>

encoded_data_save == SaveDiscards \/ (\E fluency \in Modes : SaveChecks(fluency)) \/ SaveDone

-----------------------------------------------------------------------------
(* The capture thread.                                                       *)

\* Mutant: the indices of the last call are kept.
video_recv_stop_kept ==
    /\ flag' = FALSE
    /\ bufs' = (bufs /\ ~flag)
    /\ UNCHANGED ring
    /\ spoiled' = (spoiled \/ (flag /\ enc = "copy"))

\* The buffers are freed and the ring is emptied, whoever uses them.
video_recv_stop ==
    /\ flag' = FALSE
    /\ bufs' = (bufs /\ ~flag)
    /\ IF flag
       THEN head' = 0 /\ tail' = 0 /\ slot' = [i \in Slots |-> "empty"]
       ELSE UNCHANGED ring
    /\ spoiled' = (spoiled \/ (flag /\ enc = "copy"))

\* New buffers are empty; the indices are as the last stop, or a late thread, left
\* them.  The session may fail to start: then nobody frees the buffers.
video_recv_start ==
    /\ capture = "starting"
    /\ capture' = "run"
    /\ bufs' = TRUE
    /\ slot' = [i \in Slots |-> "empty"]
    /\ \/ /\ flag' = TRUE
          /\ recv' = "wait"
       \/ UNCHANGED <<flag, recv>>
    /\ UNCHANGED <<head, tail, flow_ctrl, gop, start, idr, frag, out, started, peer, todo, teardown, encoder, history>>

\* As long as there are frames the encoder is triggered.
encoded_data_trigger ==
    /\ capture = "run" /\ started
    /\ flag /\ head # tail
    /\ peer
    /\ posted' = TRUE
    /\ UNCHANGED <<ring, flow_ctrl, flag, bufs, receiver, call, enc, copied, got, history>>

CaptureEnds ==
    /\ capture = "run" /\ ~started
    /\ capture' = "off"
    /\ video_recv_stop
    /\ UNCHANGED <<flow_ctrl, receiver, started, peer, todo, teardown, encoder, first, overrun, toobig>>

-----------------------------------------------------------------------------
(* The encoder thread.                                                       *)

\* The first frame has the library make an encoder, which waits for the reception.
InitEncode ==
    \/ /\ enc = "none" /\ posted
       /\ enc' = "init"
       /\ UNCHANGED <<ring, flow_ctrl, flag, bufs, receiver, call, posted, copied, got, history>>
    \/ /\ enc = "init" /\ flag
       /\ enc' = "ready"
       /\ UNCHANGED <<ring, flow_ctrl, flag, bufs, receiver, call, posted, copied, got, history>>

EncodeFrame ==
    /\ enc = "ready" /\ posted
    /\ posted' = FALSE
    /\ IF flag /\ head # tail
       THEN enc' = "copy" /\ copied' = slot[tail]
       ELSE UNCHANGED <<enc, copied>>
    /\ UNCHANGED <<ring, flow_ctrl, flag, bufs, receiver, call, got, history>>

Deliver ==
    /\ got' = IF copied = "empty" THEN got ELSE copied
    /\ copied' = "empty"
    /\ IF copied = "empty" \/ first # "none"
       THEN UNCHANGED <<first, toobig>>
       ELSE /\ first' = IF overrun \/ toobig THEN "any" ELSE IF copied \in Keys THEN "key" ELSE "other"
            /\ toobig' = FALSE

\* Mutant: the frame stays in the ring.
encoded_data_get_again ==
    /\ enc = "copy"
    /\ enc' = "ready"
    /\ Deliver
    /\ UNCHANGED <<ring, flow_ctrl, flag, bufs, receiver, call, posted, overrun, spoiled>>

encoded_data_get ==
    /\ enc = "copy"
    /\ enc' = "ready"
    /\ Deliver
    /\ tail' = (tail + 1) % N
    /\ slot' = [slot EXCEPT ![tail] = "empty"]
    /\ UNCHANGED <<head, flow_ctrl, flag, bufs, receiver, call, posted>>
    /\ UNCHANGED <<overrun, spoiled>>

-----------------------------------------------------------------------------
(* The conductor.                                                            *)

\* A call takes longer to come up than the receive thread's nap (5 ms): the thread
\* of the last call is gone.  (Bound: after buffers were freed under the encoder,
\* which is undefined, no call is looked at.)
StartCapture ==
    /\ ~peer /\ todo = <<>> /\ ~spoiled
    /\ recv = "off"
    /\ peer' = TRUE /\ started' = TRUE /\ capture' = "starting"
    /\ teardown' = "none"
    /\ first' = "none" /\ overrun' = FALSE /\ toobig' = FALSE
    /\ UNCHANGED <<ring, flow_ctrl, flag, bufs, receiver, todo, encoder, spoiled>>

\* Mutant: the camera is always stopped first.
EndCallStopFirst ==
    /\ peer /\ todo = <<>>
    /\ \E how \in Teardowns : teardown' = how /\ todo' = Orders["lost"]
    /\ UNCHANGED <<ring, flow_ctrl, flag, bufs, receiver, capture, started, peer, encoder, history>>

EndCall ==
    /\ peer /\ todo = <<>>
    /\ \E how \in Teardowns : teardown' = how /\ todo' = Orders[how]
    /\ UNCHANGED <<ring, flow_ctrl, flag, bufs, receiver, capture, started, peer, encoder, history>>

\* The library destroys its encoder, on its thread, and waits for that; Release
\* stops the reception.
DeletePeerConnection ==
    /\ todo # <<>> /\ Head(todo) = "delete"
    /\ enc \in {"none", "ready"}
    /\ todo' = Tail(todo)
    /\ peer' = FALSE
    /\ enc' = "none" /\ posted' = FALSE
    /\ IF enc = "ready" THEN video_recv_stop ELSE UNCHANGED <<ring, flag, bufs, spoiled>>
    /\ UNCHANGED <<flow_ctrl, receiver, capture, started, teardown, copied, got, first, overrun, toobig>>

\* The capture thread is told, and joined.
StopCapture ==
    /\ todo # <<>> /\ Head(todo) = "stop"
    /\ started' = FALSE
    /\ \/ started /\ UNCHANGED todo
       \/ capture = "off" /\ todo' = Tail(todo)
    /\ UNCHANGED <<ring, flow_ctrl, flag, bufs, receiver, capture, peer, teardown, encoder, history>>

-----------------------------------------------------------------------------
Receiver == RecvEnds \/ encoded_data_save
Capture == video_recv_start \/ CaptureEnds
Encoder == InitEncode \/ EncodeFrame \/ encoded_data_get
Conductor == DeletePeerConnection \/ StopCapture

Next ==
    \/ video_packet_recv \/ Receiver
    \/ Capture \/ encoded_data_trigger
    \/ Encoder
    \/ StartCapture \/ EndCall \/ Conductor

Spec == Init /\ [][Next]_vars

\* The threads run; packets need not come, and calls need not end.  The encoder's
\* queue serves its destruction in turn, however many frames come.
FairSpec ==
    /\ Spec
    /\ WF_vars(Receiver)
    /\ WF_vars(Capture)
    /\ WF_vars(Encoder)
    /\ SF_vars(Conductor)

-----------------------------------------------------------------------------
(* Properties *)

\* The variables stay within their types; what is saved begins with a start code.
TypeOK ==
    /\ head \in Slots /\ tail \in Slots
    /\ slot \in [Slots -> Types \cup {"empty"}]
    /\ dist \in 0..Gop + 1
    /\ {flow, flag, bufs, gop, start, idr, started, peer, posted, overrun, toobig, spoiled} \subseteq BOOLEAN
    /\ recv \in {"off", "wait", "save", "write"}
    /\ frag \in [type : Types \cup {"junk"}, pkts : 0..MaxPkts]
    /\ out \in Types \cup {"none"}
    /\ capture \in {"off", "starting", "run"}
    /\ todo \in {<<>>, <<"delete">>, <<"stop">>} \cup {Orders[how] : how \in Teardowns}
    /\ teardown \in Teardowns \cup {"none"}
    /\ enc \in {"none", "init", "ready", "copy"}
    /\ copied \in Types \cup {"empty", "torn"}
    /\ got \in Types \cup {"none", "torn"}
    /\ first \in {"none", "key", "other", "any"}

Lossy == INSTANCE LossyFifo WITH Messages <- Types, content <- Content, got <- got

\* Frames are lost, but none that gets to the encoder comes twice, passes another or is
\* written over as it is copied -- with the exception of a ring run over, and of
\* buffers freed under the encoder.
FramesInOrder == [][Lossy!Next \/ overrun' \/ spoiled']_<<Content, got>>

\* The first frame of a call that the encoder gets begins with a parameter set,
\* whatever the calls before left behind -- with the exception of a ring run over, and
\* of a frame discarded for its size: no new parameter set is looked for then.
FirstIsKey == first # "other" \/ spoiled

\* A hang-up never takes the buffers away from an encoder that copies: the encoder is
\* gone before the camera is stopped.  (OnMeshDisconnected has it the other way round.)
EncoderSafe == enc = "copy" => bufs \/ teardown = "lost"

\* A hang-up ends.  (OnMeshDisconnected does not when an encoder still waits for
\* the reception it stops.)
HangUpEnds == todo # <<>> /\ teardown = "hangup" ~> todo = <<>>

\* "reserve a buf for key frame": what is not one leaves a slot for one.
ReserveKept ==
    [][recv = "write" /\ recv' = "wait" /\ ~IsKey /\ bufs => num_in_data_queue' \in 1..N - 2]_vars
=============================================================================
