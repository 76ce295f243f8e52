--------------------------- MODULE VideoRingProofs ---------------------------
(***************************************************************************)
(* For every size of the ring, every stream and any number of calls: the   *)
(* encoder of a call that is hung up never loses the buffers it copies     *)
(* from, the first frame it gets is a parameter set, and frames come in    *)
(* order, once each, with the exceptions the properties name.              *)
(***************************************************************************)
EXTENDS VideoRing, SequenceTheorems, TLAPS

-----------------------------------------------------------------------------
(* Slots modulo the size of the ring.                                        *)

\* The slot after i, and how far h is ahead of t.
Up(i) == IF i = N - 1 THEN 0 ELSE i + 1
Gap(h, t) == IF h >= t THEN h - t ELSE h + N - t

\* The remainder of a number that is less than twice the divisor.
LEMMA OnceAround ==
    ASSUME NEW m \in Nat \ {0}, NEW x \in 0 .. 2 * m - 1
    PROVE  x % m = IF x < m THEN x ELSE x - m
OBVIOUS

LEMMA NextSlot ==
    ASSUME NEW i \in Slots
    PROVE  (i + 1) % N = Up(i) /\ Up(i) \in Slots /\ Up(i) # i
<1>1. N \in Nat \ {0} /\ N > 2
  BY RingAssumption
<1>2. PICK x \in 0 .. 2 * N - 1 : x = i + 1
  BY <1>1 DEF Slots
<1>3. x % N = IF x < N THEN x ELSE x - N
  BY <1>1, OnceAround
<1> QED BY <1>1, <1>2, <1>3 DEF Up, Slots

LEMMA GapIsNum ==
    ASSUME NEW h \in Slots, NEW t \in Slots
    PROVE  (h + N - t) % N = Gap(h, t) /\ Gap(h, t) \in 0 .. N - 1
<1>1. N \in Nat \ {0} /\ N > 2
  BY RingAssumption
<1>2. PICK x \in 0 .. 2 * N - 1 : x = h + N - t
  BY <1>1 DEF Slots
<1>3. x % N = IF x < N THEN x ELSE x - N
  BY <1>1, OnceAround
<1> QED BY <1>1, <1>2, <1>3 DEF Gap, Slots

\* How the distance changes as either end goes on, and that it names the slot.
LEMMA GapSteps ==
    ASSUME NEW h \in Slots, NEW t \in Slots
    PROVE  /\ Gap(h, t) = 0 <=> h = t
           /\ Gap(Up(h), t) = IF Up(h) = t THEN 0 ELSE Gap(h, t) + 1
           /\ Up(h) = t => Gap(h, t) = N - 1
           /\ Gap(h, Up(t)) = IF h = t THEN N - 1 ELSE Gap(h, t) - 1
           /\ \A i \in Slots : Gap(i, t) = Gap(h, t) => i = h
           /\ Gap(Up(t), t) = 1
<1>1. N \in Nat \ {0} /\ N > 2
  BY RingAssumption
<1> QED BY <1>1 DEF Gap, Up, Slots

\* The slot at a given distance.
LEMMA SlotAt ==
    ASSUME NEW t \in Slots, NEW k \in 0 .. N - 1
    PROVE  /\ (t + k) % N \in Slots /\ Gap((t + k) % N, t) = k
           /\ (t + k + 1) % N = (Up(t) + k) % N
<1>1. N \in Nat \ {0} /\ N > 2
  BY RingAssumption
<1>2. PICK x \in 0 .. 2 * N - 1 : x = t + k
  BY <1>1 DEF Slots
<1>3. PICK y \in 0 .. 2 * N - 1 : y = t + k + 1
  BY <1>1 DEF Slots
<1>4. PICK z \in 0 .. 2 * N - 1 : z = Up(t) + k
  BY <1>1 DEF Slots, Up
<1>5. /\ x % N = IF x < N THEN x ELSE x - N
      /\ y % N = IF y < N THEN y ELSE y - N
      /\ z % N = IF z < N THEN z ELSE z - N
  BY <1>1, OnceAround
<1>6. x % N \in Slots /\ Gap(x % N, t) = k
  BY <1>1, <1>2, <1>5 DEF Gap, Slots
<1>7. y % N = z % N
  BY <1>1, <1>3, <1>4, <1>5 DEF Up, Slots
<1> QED BY <1>2, <1>3, <1>4, <1>6, <1>7

-----------------------------------------------------------------------------
(* The inductive invariant.                                                  *)

\* What the threads are doing goes with the flag and with the call: the session of
\* a call that is over is over, and a new receive thread knows nothing.
Threads ==
    /\ recv = "off" => ~gop /\ ~start /\ ~idr /\ frag = NoFrag
    /\ start => frag.type \in Types /\ frag.pkts >= 1
    /\ recv \in {"save", "write"} => out \in Types
    /\ flag => bufs /\ recv # "off" /\ capture = "run"
    /\ ~flag /\ recv # "off" => ~bufs
    /\ capture = "starting" => recv = "off" /\ enc = "none" /\ ~posted
    /\ ~peer => enc = "none" /\ ~posted

\* How far the end of a call has come.
Ending ==
    /\ teardown = "none" => todo = <<>> /\ (peer => started)
    /\ teardown = "hangup" => \/ peer /\ started /\ todo = <<"delete", "stop">>
                              \/ ~peer /\ todo \in {<<"stop">>, <<>>}
    /\ teardown = "lost" => \/ peer /\ todo \in {<<"stop", "delete">>, <<"delete">>}
                            \/ ~peer /\ todo = <<>>
    /\ (todo = <<>> /\ ~peer) \/ todo = <<"delete">> => capture = "off" /\ ~started

NoFrames == \A i \in Slots : slot[i] = "empty"

\* Between two receptions the ring is empty; the last thread may go on by one slot.
Idle ==
    ~flag /\ ~spoiled =>
        /\ tail = 0 /\ NoFrames
        /\ head = 0 \/ (head = 1 /\ recv \in {"wait", "off"})

\* The encoder copies the oldest frame there is.
Copying ==
    /\ enc = "copy" => flag \/ spoiled
    /\ enc = "copy" /\ ~overrun /\ ~spoiled => head # tail /\ copied = slot[tail]

\* All slots between tail and head hold a frame, but for the first.
Full ==
    flag /\ ~overrun /\ ~spoiled =>
        \A i \in Slots : i # tail /\ Gap(i, tail) < Gap(head, tail) => slot[i] # "empty"

\* The encoder of the call has not got a frame yet, and nothing is excepted.
Waiting == flag /\ first = "none" /\ ~overrun /\ ~toobig /\ ~spoiled

\* No frame has been saved either, and the first to be is a parameter set.
Fresh ==
    /\ NoFrames
    /\ Gap(head, tail) <= 1
    /\ IF recv = "wait" THEN gop => start /\ frag.type \in Keys ELSE out \in Keys

\* The oldest frame is a parameter set.
Oldest == IF slot[tail] = "empty" THEN Up(tail) ELSE tail
KeyFirst == Gap(Oldest, tail) < Gap(head, tail) /\ slot[Oldest] \in Keys

FirstFrame == Waiting => Fresh \/ KeyFirst

RingInv ==
    /\ TypeOK /\ Threads /\ Ending /\ EncoderSafe
    /\ Idle /\ Copying /\ Full /\ FirstFrame /\ FirstIsKey

\* A type is none of the words that stand for something else.
LEMMA TypesAreTypes ==
    /\ {"empty", "torn", "none", "junk", "more"} \cap Types = {}
    /\ Keys \subseteq Types
BY KeysAssumption, OthersAssumption DEF Types

LEMMA InitRingInv == Init => RingInv
<1> SUFFICES ASSUME Init PROVE RingInv
  OBVIOUS
<1>0. N \in Nat /\ N > 2 /\ 0 \in Slots
  BY RingAssumption DEF Slots
<1>1. TypeOK
  <2>1. head \in Slots /\ tail \in Slots /\ slot \in [Slots -> Types \cup {"empty"}]
    BY <1>0 DEF Init
  <2>2. dist \in 0 .. Gop + 1 /\ frag \in [type : Types \cup {"junk"}, pkts : 0 .. MaxPkts]
    BY StreamAssumption DEF Init, NoFrag
  <2>3. /\ flow \in BOOLEAN /\ flag \in BOOLEAN /\ bufs \in BOOLEAN /\ gop \in BOOLEAN
        /\ start \in BOOLEAN /\ idr \in BOOLEAN /\ started \in BOOLEAN /\ peer \in BOOLEAN
        /\ posted \in BOOLEAN /\ overrun \in BOOLEAN /\ toobig \in BOOLEAN /\ spoiled \in BOOLEAN
    BY DEF Init
  <2> QED BY <2>1, <2>2, <2>3 DEF Init, TypeOK
<1>2. Threads /\ Ending /\ EncoderSafe
  BY DEF Init, Threads, Ending, EncoderSafe
<1>3. Idle /\ Copying /\ Full /\ FirstFrame /\ FirstIsKey
  BY DEF Init, Idle, NoFrames, Copying, Full, FirstFrame, Waiting, FirstIsKey
<1> QED BY <1>1, <1>2, <1>3 DEF RingInv

-----------------------------------------------------------------------------
(* Steps.                                                                    *)

\* Few actions touch the ring or what it depends on.
LEMMA OtherSteps ==
    ASSUME [Next]_vars
    PROVE  \/ SaveDone \/ encoded_data_get \/ video_recv_start \/ CaptureEnds \/ DeletePeerConnection
           \/ UNCHANGED <<ring, flag, bufs, spoiled>>
<1>1. CASE video_packet_recv \/ RecvEnds
  BY <1>1 DEF video_packet_recv, RecvEnds, history
<1>2. CASE encoded_data_save
  BY <1>2 DEF encoded_data_save, SaveDiscards, SaveChecks, history
<1>3. CASE encoded_data_trigger \/ InitEncode \/ EncodeFrame
  BY <1>3 DEF encoded_data_trigger, InitEncode, EncodeFrame, history
<1>4. CASE StartCapture \/ EndCall \/ StopCapture
  BY <1>4 DEF StartCapture, EndCall, StopCapture, history
<1>5. CASE UNCHANGED vars
  BY <1>5 DEF vars, history
<1> QED
  BY <1>1, <1>2, <1>3, <1>4, <1>5 DEF Next, Receiver, Capture, Encoder, Conductor

\* video_recv_stop empties a ring that is in use, and leaves any other.
LEMMA StopSteps ==
    ASSUME TypeOK, video_recv_stop
    PROVE  /\ flag' = FALSE /\ bufs' \in BOOLEAN /\ spoiled' \in BOOLEAN
           /\ flag => /\ bufs' = FALSE /\ head' = 0 /\ tail' = 0
                      /\ slot' = [i \in Slots |-> "empty"]
                      /\ enc = "copy" => spoiled' = TRUE
           /\ ~flag => UNCHANGED <<ring, bufs, spoiled>>
           /\ spoiled => spoiled'
           /\ spoiled' => spoiled \/ (flag /\ enc = "copy")
<1>1. flag' = FALSE /\ bufs' = (bufs /\ ~flag) /\ spoiled' = (spoiled \/ (flag /\ enc = "copy"))
  BY DEF video_recv_stop
<1>2. bufs \in BOOLEAN /\ spoiled \in BOOLEAN /\ flag \in BOOLEAN
  BY DEF TypeOK
<1>3. CASE flag
  <2>1. bufs' = FALSE /\ (enc = "copy" => spoiled' = TRUE) /\ (enc # "copy" => spoiled' = spoiled)
    BY <1>1, <1>2, <1>3
  <2>2. head' = 0 /\ tail' = 0 /\ slot' = [i \in Slots |-> "empty"]
    BY <1>3 DEF video_recv_stop
  <2> QED BY <1>1, <1>2, <1>3, <2>1, <2>2
<1>4. CASE ~flag
  <2>1. bufs' = bufs /\ spoiled' = spoiled
    BY <1>1, <1>2, <1>4
  <2>2. UNCHANGED ring
    BY <1>4 DEF video_recv_stop
  <2> QED BY <1>1, <1>2, <1>4, <2>1, <2>2
<1> QED BY <1>3, <1>4

\* A stop is either the end of a capture thread or that of an encoder.
LEMMA StopsWhere ==
    ASSUME CaptureEnds \/ DeletePeerConnection
    PROVE  video_recv_stop \/ UNCHANGED <<ring, flag, bufs, spoiled>>
BY DEF CaptureEnds, DeletePeerConnection

\* The indices and the slots.
LEMMA RingTypes ==
    ASSUME RingInv, [Next]_vars
    PROVE  head' \in Slots /\ tail' \in Slots /\ slot' \in [Slots -> Types \cup {"empty"}]
<1>0. /\ head \in Slots /\ tail \in Slots /\ slot \in [Slots -> Types \cup {"empty"}]
      /\ 0 \in Slots
  BY RingAssumption DEF RingInv, TypeOK, Slots
<1>1. CASE SaveDone
  <2>1. out \in Types
    BY <1>1 DEF SaveDone, RingInv, Threads
  <2>2. head' \in Slots /\ tail' = tail
    BY <1>0, <1>1, NextSlot DEF SaveDone
  <2>3. slot' = [slot EXCEPT ![head] = out] \/ slot' = slot
    BY <1>1 DEF SaveDone
  <2> QED BY <1>0, <2>1, <2>2, <2>3
<1>2. CASE encoded_data_get
  <2>1. tail' \in Slots /\ head' = head /\ slot' = [slot EXCEPT ![tail] = "empty"]
    BY <1>0, <1>2, NextSlot DEF encoded_data_get
  <2> QED BY <1>0, <2>1
<1>3. CASE video_recv_start
  <2>1. slot' = [i \in Slots |-> "empty"] /\ UNCHANGED <<head, tail>>
    BY <1>3 DEF video_recv_start
  <2> QED BY <1>0, <2>1
<1>4. CASE CaptureEnds \/ DeletePeerConnection
  <2>1. CASE video_recv_stop
    BY <1>0, <2>1, StopSteps DEF ring, RingInv
  <2>2. CASE UNCHANGED ring
    BY <1>0, <2>2 DEF ring
  <2> QED BY <1>4, <2>1, <2>2, StopsWhere
<1>5. CASE UNCHANGED ring
  BY <1>0, <1>5 DEF ring
<1> QED BY <1>1, <1>2, <1>3, <1>4, <1>5, OtherSteps

LEMMA FlagTypes ==
    ASSUME RingInv, [Next]_vars
    PROVE  /\ flow' \in BOOLEAN /\ flag' \in BOOLEAN /\ bufs' \in BOOLEAN /\ gop' \in BOOLEAN
           /\ start' \in BOOLEAN /\ idr' \in BOOLEAN /\ started' \in BOOLEAN /\ peer' \in BOOLEAN
           /\ posted' \in BOOLEAN /\ overrun' \in BOOLEAN /\ toobig' \in BOOLEAN /\ spoiled' \in BOOLEAN
<1>0. /\ flow \in BOOLEAN /\ flag \in BOOLEAN /\ bufs \in BOOLEAN /\ gop \in BOOLEAN
      /\ start \in BOOLEAN /\ idr \in BOOLEAN /\ started \in BOOLEAN /\ peer \in BOOLEAN
      /\ posted \in BOOLEAN /\ overrun \in BOOLEAN /\ toobig \in BOOLEAN /\ spoiled \in BOOLEAN
  BY DEF RingInv, TypeOK
<1>1. CASE video_packet_recv
  <2>1. gop' \in BOOLEAN /\ start' \in BOOLEAN /\ idr' \in BOOLEAN /\ toobig' \in BOOLEAN
    BY <1>0, <1>1 DEF video_packet_recv, PacketDiscarded, PacketMore, PacketFirst, PacketCombined,
       PacketEndsFrame
  <2> QED BY <1>0, <1>1, <2>1 DEF video_packet_recv, flow_ctrl, call, encoder
<1>2. CASE RecvEnds
  BY <1>0, <1>2 DEF RecvEnds, flow_ctrl, call, encoder, history
<1>3. CASE SaveDiscards
  BY <1>0, <1>3 DEF SaveDiscards, flow_ctrl, call, encoder, history
<1>4. ASSUME NEW fluency \in Modes, SaveChecks(fluency)
      PROVE  flow' \in BOOLEAN /\ UNCHANGED <<flag, bufs, gop, start, idr, call, posted, history>>
  BY <1>4 DEF SaveChecks
<1>5. CASE \E fluency \in Modes : SaveChecks(fluency)
  BY <1>0, <1>4, <1>5 DEF call, history
<1>6. CASE SaveDone
  <2>1. overrun' \in BOOLEAN
    BY <1>6 DEF SaveDone
  <2> QED BY <1>0, <1>6, <2>1 DEF SaveDone, flow_ctrl, call, encoder
<1>7. CASE video_recv_start \/ encoded_data_trigger \/ InitEncode
  <2>1. CASE video_recv_start
    BY <1>0, <2>1 DEF video_recv_start, flow_ctrl, encoder, history
  <2>2. CASE encoded_data_trigger
    BY <1>0, <2>2 DEF encoded_data_trigger, flow_ctrl, receiver, call, history
  <2>3. CASE InitEncode
    BY <1>0, <2>3 DEF InitEncode, flow_ctrl, receiver, call, history
  <2> QED BY <1>7, <2>1, <2>2, <2>3
<1>8. CASE CaptureEnds \/ DeletePeerConnection
  <2>1. flag' \in BOOLEAN /\ bufs' \in BOOLEAN /\ spoiled' \in BOOLEAN
    BY <1>0, <1>8, StopsWhere, StopSteps DEF RingInv
  <2> QED BY <1>0, <1>8, <2>1 DEF CaptureEnds, DeletePeerConnection, flow_ctrl, receiver, encoder
<1>9. CASE EncodeFrame \/ StartCapture \/ EndCall \/ StopCapture
  <2>1. CASE EncodeFrame
    BY <1>0, <2>1 DEF EncodeFrame, flow_ctrl, receiver, call, history
  <2>2. CASE StartCapture
    BY <1>0, <2>2 DEF StartCapture, flow_ctrl, receiver, encoder
  <2>3. CASE EndCall
    BY <1>0, <2>3 DEF EndCall, flow_ctrl, receiver, encoder, history
  <2>4. CASE StopCapture
    BY <1>0, <2>4 DEF StopCapture, flow_ctrl, receiver, encoder, history
  <2> QED BY <1>9, <2>1, <2>2, <2>3, <2>4
<1>10. CASE encoded_data_get
  <2>1. toobig' \in BOOLEAN
    BY <1>0, <1>10 DEF encoded_data_get, Deliver
  <2> QED BY <1>0, <1>10, <2>1 DEF encoded_data_get, flow_ctrl, receiver, call
<1>11. CASE UNCHANGED vars
  BY <1>0, <1>11 DEF vars, flow_ctrl, receiver, call, encoder, history
<1> QED
  BY <1>1, <1>2, <1>3, <1>5, <1>6, <1>7, <1>8, <1>9, <1>10, <1>11
     DEF Next, Receiver, Capture, Encoder, Conductor, encoded_data_save

\* What the receive thread puts together and saves.
LEMMA FrameTypes ==
    ASSUME RingInv, [Next]_vars
    PROVE  /\ dist' \in 0 .. Gop + 1 /\ recv' \in {"off", "wait", "save", "write"}
           /\ frag' \in [type : Types \cup {"junk"}, pkts : 0 .. MaxPkts]
           /\ out' \in Types \cup {"none"}
<1>0. /\ dist \in 0 .. Gop + 1 /\ recv \in {"off", "wait", "save", "write"}
      /\ frag \in [type : Types \cup {"junk"}, pkts : 0 .. MaxPkts]
      /\ out \in Types \cup {"none"}
      /\ start => frag.type \in Types
      /\ Gop \in Nat /\ MaxPkts \in Nat \ {0, 1}
  BY StreamAssumption DEF RingInv, TypeOK, Threads
<1>1. CASE video_packet_recv
  <2>1. recv = "wait" /\ dist' = dist
    BY <1>1 DEF video_packet_recv, flow_ctrl
  <2>2. PICK p \in Types \cup {"more"} :
          PacketDiscarded(p) \/ PacketMore(p) \/ PacketFirst(p) \/ PacketCombined(p) \/ PacketEndsFrame(p)
    BY <1>1 DEF video_packet_recv
  <2>3. CASE PacketDiscarded(p) \/ PacketMore(p)
    BY <1>0, <2>1, <2>3 DEF PacketDiscarded, PacketMore, Piece
  <2>4. CASE PacketFirst(p)
    BY <1>0, <2>1, <2>4, TypesAreTypes DEF PacketFirst, Piece
  <2>5. CASE PacketCombined(p)
    BY <1>0, <2>1, <2>5 DEF PacketCombined, Combines, Piece
  <2>6. CASE PacketEndsFrame(p)
    BY <1>0, <2>1, <2>2, <2>6 DEF PacketEndsFrame, Piece
  <2> QED BY <2>2, <2>3, <2>4, <2>5, <2>6
<1>2. CASE RecvEnds
  BY <1>0, <1>2 DEF RecvEnds, flow_ctrl, NoFrag
<1>3. CASE SaveDiscards
  BY <1>0, <1>3 DEF SaveDiscards, NextDist
<1>4. CASE \E fluency \in Modes : SaveChecks(fluency)
  BY <1>0, <1>4 DEF SaveChecks, NextDist
<1>5. CASE SaveDone
  BY <1>0, <1>5 DEF SaveDone, flow_ctrl
<1>6. CASE video_recv_start
  BY <1>0, <1>6 DEF video_recv_start, flow_ctrl
<1>7. CASE UNCHANGED <<flow_ctrl, receiver>>
  BY <1>0, <1>7 DEF flow_ctrl, receiver
<1>8. CASE encoded_data_trigger \/ CaptureEnds \/ Encoder \/ StartCapture \/ EndCall \/ Conductor
  BY <1>7, <1>8 DEF encoded_data_trigger, CaptureEnds, Encoder, InitEncode, EncodeFrame,
     encoded_data_get, StartCapture, EndCall, Conductor, DeletePeerConnection, StopCapture
<1> QED
  BY <1>1, <1>2, <1>3, <1>4, <1>5, <1>6, <1>7, <1>8
     DEF Next, Receiver, Capture, encoded_data_save, vars

\* The call, and what the conductor has left to do.
LEMMA CallTypes ==
    ASSUME RingInv, [Next]_vars
    PROVE  /\ capture' \in {"off", "starting", "run"}
           /\ todo' \in {<<>>, <<"delete">>, <<"stop">>} \cup {Orders[how] : how \in Teardowns}
           /\ teardown' \in Teardowns \cup {"none"}
<1>0. /\ capture \in {"off", "starting", "run"}
      /\ todo \in {<<>>, <<"delete">>, <<"stop">>} \cup {Orders[how] : how \in Teardowns}
      /\ teardown \in Teardowns \cup {"none"}
  BY DEF RingInv, TypeOK
<1>1. ASSUME todo # <<>>, todo' = Tail(todo)
      PROVE  todo' \in {<<>>, <<"delete">>, <<"stop">>}
  <2>1. todo \in {<<"delete">>, <<"stop">>, <<"delete", "stop">>, <<"stop", "delete">>}
    BY <1>0, <1>1, TeardownsAssumption DEF Orders
  <2>2. \A a, b \in {"delete", "stop"} : Tail(<<a>>) = <<>> /\ Tail(<<a, b>>) = <<b>>
    OBVIOUS
  <2> QED BY <1>1, <2>1, <2>2
<1>2. CASE video_recv_start \/ CaptureEnds
  BY <1>0, <1>2 DEF video_recv_start, CaptureEnds
<1>3. CASE StartCapture \/ EndCall
  BY <1>0, <1>3 DEF StartCapture, EndCall
<1>4. CASE DeletePeerConnection
  BY <1>0, <1>1, <1>4 DEF DeletePeerConnection
<1>5. CASE StopCapture
  BY <1>0, <1>1, <1>5 DEF StopCapture
<1>6. CASE UNCHANGED call
  BY <1>0, <1>6 DEF call
<1>7. CASE video_packet_recv \/ Receiver \/ encoded_data_trigger \/ Encoder
  BY <1>6, <1>7 DEF video_packet_recv, Receiver, RecvEnds, encoded_data_save, SaveDiscards, SaveChecks,
     SaveDone, encoded_data_trigger, Encoder, InitEncode, EncodeFrame, encoded_data_get
<1> QED
  BY <1>2, <1>3, <1>4, <1>5, <1>6, <1>7 DEF Next, Capture, Conductor, vars

\* The encoder, and what it got.
LEMMA EncoderTypes ==
    ASSUME RingInv, [Next]_vars
    PROVE  /\ enc' \in {"none", "init", "ready", "copy"}
           /\ copied' \in Types \cup {"empty", "torn"} /\ got' \in Types \cup {"none", "torn"}
           /\ first' \in {"none", "key", "other", "any"}
<1>0. /\ enc \in {"none", "init", "ready", "copy"}
      /\ copied \in Types \cup {"empty", "torn"} /\ got \in Types \cup {"none", "torn"}
      /\ first \in {"none", "key", "other", "any"}
      /\ slot[tail] \in Types \cup {"empty"}
  BY DEF RingInv, TypeOK
<1>1. CASE \E fluency \in Modes : SaveChecks(fluency)
  BY <1>0, <1>1 DEF SaveChecks, history
<1>2. CASE InitEncode \/ EncodeFrame
  BY <1>0, <1>2 DEF InitEncode, EncodeFrame, history
<1>3. CASE encoded_data_get
  BY <1>0, <1>3 DEF encoded_data_get, Deliver
<1>4. CASE StartCapture \/ DeletePeerConnection
  BY <1>0, <1>4 DEF StartCapture, DeletePeerConnection, encoder
<1>5. CASE UNCHANGED <<encoder, first>>
  BY <1>0, <1>5 DEF encoder
<1>6. CASE video_packet_recv \/ RecvEnds \/ SaveDiscards \/ SaveDone \/ Capture
           \/ encoded_data_trigger \/ EndCall \/ StopCapture
  BY <1>0, <1>6 DEF video_packet_recv, RecvEnds, SaveDiscards, SaveDone, Capture, video_recv_start,
     CaptureEnds, encoded_data_trigger, EndCall, StopCapture, encoder, history
<1> QED
  BY <1>1, <1>2, <1>3, <1>4, <1>5, <1>6
     DEF Next, Receiver, Encoder, Conductor, encoded_data_save, vars, history

LEMMA TypeInv ==
    ASSUME RingInv, [Next]_vars
    PROVE  TypeOK'
<1>1. /\ flow' \in BOOLEAN /\ flag' \in BOOLEAN /\ bufs' \in BOOLEAN /\ gop' \in BOOLEAN
      /\ start' \in BOOLEAN /\ idr' \in BOOLEAN /\ started' \in BOOLEAN /\ peer' \in BOOLEAN
      /\ posted' \in BOOLEAN /\ overrun' \in BOOLEAN /\ toobig' \in BOOLEAN /\ spoiled' \in BOOLEAN
  BY FlagTypes
<1> QED BY <1>1, RingTypes, FrameTypes, CallTypes, EncoderTypes DEF TypeOK

-----------------------------------------------------------------------------
(* The parts of the invariant.                                               *)

LEMMA ThreadsInv ==
    ASSUME RingInv, [Next]_vars
    PROVE  Threads'
<1>0. /\ Threads /\ MaxPkts \in Nat \ {0, 1}
      /\ frag \in [type : Types \cup {"junk"}, pkts : 0 .. MaxPkts]
      /\ flag \in BOOLEAN /\ bufs \in BOOLEAN
  BY StreamAssumption DEF RingInv, TypeOK
<1>1. CASE video_packet_recv
  <2>1. /\ recv = "wait" /\ flag /\ UNCHANGED <<flag, bufs, capture, peer, enc, posted>>
        /\ recv' \in {"wait", "save"}
    BY <1>1 DEF video_packet_recv, call, encoder, PacketDiscarded, PacketMore, PacketFirst, PacketCombined,
       PacketEndsFrame
  <2>2. PICK p \in Types \cup {"more"} :
          PacketDiscarded(p) \/ PacketMore(p) \/ PacketFirst(p) \/ PacketCombined(p) \/ PacketEndsFrame(p)
    BY <1>1 DEF video_packet_recv
  <2>3. /\ start' => frag'.type \in Types /\ frag'.pkts >= 1
        /\ recv' = "save" => out' \in Types
    <3>1. CASE PacketDiscarded(p) \/ PacketMore(p)
      BY <1>0, <2>1, <3>1 DEF Threads, PacketDiscarded, PacketMore, Piece
    <3>2. CASE PacketFirst(p)
      BY <1>0, <2>1, <3>2, TypesAreTypes DEF Threads, PacketFirst, Piece
    <3>3. CASE PacketCombined(p)
      BY <1>0, <2>1, <3>3 DEF Threads, PacketCombined, Piece
    <3>4. CASE PacketEndsFrame(p)
      BY <1>0, <2>1, <2>2, <3>4 DEF Threads, PacketEndsFrame, Piece
    <3> QED BY <2>2, <3>1, <3>2, <3>3, <3>4
  <2> QED BY <1>0, <2>1, <2>3 DEF Threads
<1>2. CASE RecvEnds
  BY <1>0, <1>2 DEF Threads, RecvEnds, call, encoder
<1>3. CASE SaveDiscards
  BY <1>0, <1>3 DEF Threads, SaveDiscards, call, encoder
<1>4. CASE \E fluency \in Modes : SaveChecks(fluency)
  BY <1>0, <1>4 DEF Threads, SaveChecks, call
<1>5. CASE SaveDone
  BY <1>0, <1>5 DEF Threads, SaveDone, call, encoder
<1>6. CASE video_recv_start
  BY <1>0, <1>6 DEF Threads, video_recv_start, encoder
<1>7. CASE CaptureEnds \/ DeletePeerConnection
  <2>1. (~flag' /\ (flag => ~bufs') /\ (~flag => bufs' = bufs)) \/ UNCHANGED <<flag, bufs>>
    BY <1>7, StopsWhere, StopSteps DEF RingInv
  <2>2. CASE CaptureEnds
    <3>1. ~flag'
      BY <2>2 DEF CaptureEnds, video_recv_stop
    <3>2. UNCHANGED <<receiver, encoder, peer>> /\ capture' = "off"
      BY <2>2 DEF CaptureEnds
    <3> QED BY <1>0, <2>1, <3>1, <3>2 DEF Threads, receiver, encoder
  <2>3. CASE DeletePeerConnection
    <3>1. UNCHANGED <<receiver, capture>> /\ enc' = "none" /\ ~posted'
      BY <2>3 DEF DeletePeerConnection
    <3> QED BY <1>0, <2>1, <3>1 DEF Threads, receiver
  <2> QED BY <1>7, <2>2, <2>3
<1>8. CASE encoded_data_trigger \/ Encoder
  BY <1>0, <1>8 DEF Threads, encoded_data_trigger, Encoder, InitEncode, EncodeFrame, encoded_data_get,
     receiver, call
<1>9. CASE StartCapture \/ EndCall \/ StopCapture
  BY <1>0, <1>9 DEF Threads, StartCapture, EndCall, StopCapture, receiver, encoder
<1>10. CASE UNCHANGED vars
  BY <1>0, <1>10 DEF Threads, vars, receiver, call, encoder
<1> QED
  BY <1>1, <1>2, <1>3, <1>4, <1>5, <1>6, <1>7, <1>8, <1>9, <1>10
     DEF Next, Receiver, Capture, Conductor, encoded_data_save

LEMMA EndingInv ==
    ASSUME RingInv, [Next]_vars
    PROVE  Ending'
<1>0. Ending /\ Threads /\ peer \in BOOLEAN /\ started \in BOOLEAN /\ teardown \in Teardowns \cup {"none"}
  BY DEF RingInv, TypeOK
<1>1. \A a, b \in {"delete", "stop"} :
        /\ Tail(<<a>>) = <<>> /\ Tail(<<a, b>>) = <<b>> /\ Head(<<a>>) = a /\ Head(<<a, b>>) = a
        /\ <<a>> # <<>> /\ <<a, b>> # <<>> /\ <<a>> # <<b, a>> /\ <<a>> # <<a, b>>
        /\ a # b => <<a>> # <<b>> /\ <<a, b>> # <<b, a>>
  OBVIOUS
<1>2. CASE video_recv_start
  BY <1>0, <1>2 DEF Ending, video_recv_start
<1>3. CASE CaptureEnds
  BY <1>0, <1>3 DEF Ending, CaptureEnds
<1>4. CASE StartCapture
  BY <1>0, <1>4 DEF Ending, StartCapture
<1>5. CASE EndCall
  <2>1. PICK how \in Teardowns : teardown' = how /\ todo' = Orders[how]
    BY <1>5 DEF EndCall
  <2>2. (how = "hangup" /\ todo' = <<"delete", "stop">>) \/ (how = "lost" /\ todo' = <<"stop", "delete">>)
    BY <2>1, TeardownsAssumption DEF Orders
  <2>3. peer /\ todo = <<>> /\ UNCHANGED <<peer, started, capture>>
    BY <1>5 DEF EndCall
  <2>4. started
    BY <1>0, <1>1, <2>3, TeardownsAssumption DEF Ending, Orders
  <2> QED BY <1>0, <1>1, <2>1, <2>2, <2>3, <2>4 DEF Ending
<1>6. CASE DeletePeerConnection
  <2>1. /\ todo # <<>> /\ Head(todo) = "delete" /\ todo' = Tail(todo)
        /\ ~peer' /\ UNCHANGED <<capture, started, teardown>>
    BY <1>6 DEF DeletePeerConnection
  <2> QED BY <1>0, <1>1, <2>1, TeardownsAssumption DEF Ending, Orders
<1>7. CASE StopCapture
  <2>1. /\ todo # <<>> /\ Head(todo) = "stop" /\ ~started'
        /\ (started /\ UNCHANGED todo) \/ (capture = "off" /\ todo' = Tail(todo))
        /\ UNCHANGED <<capture, peer, teardown>>
    BY <1>7 DEF StopCapture
  <2> QED BY <1>0, <1>1, <2>1, TeardownsAssumption DEF Ending, Orders
<1>8. CASE UNCHANGED call
  BY <1>0, <1>8 DEF Ending, call
<1>9. CASE video_packet_recv \/ Receiver \/ encoded_data_trigger \/ Encoder
  BY <1>8, <1>9 DEF video_packet_recv, Receiver, RecvEnds, encoded_data_save, SaveDiscards, SaveChecks,
     SaveDone, encoded_data_trigger, Encoder, InitEncode, EncodeFrame, encoded_data_get
<1> QED
  BY <1>2, <1>3, <1>4, <1>5, <1>6, <1>7, <1>8, <1>9 DEF Next, Capture, Conductor, vars

\* Nothing takes spoiled back, and only the next call's start takes overrun back.
LEMMA Marks ==
    ASSUME RingInv, [Next]_vars
    PROVE  /\ spoiled => spoiled'
           /\ overrun => overrun' \/ StartCapture
<1>1. CASE SaveDone
  BY <1>1 DEF SaveDone
<1>2. CASE encoded_data_get
  BY <1>2 DEF encoded_data_get
<1>3. CASE StartCapture
  BY <1>3 DEF StartCapture
<1>4. CASE CaptureEnds \/ DeletePeerConnection
  <2>1. spoiled => spoiled'
    BY <1>4, StopsWhere, StopSteps DEF RingInv
  <2> QED BY <1>4, <2>1 DEF CaptureEnds, DeletePeerConnection
<1>5. CASE video_packet_recv
  BY <1>5 DEF video_packet_recv
<1>6. CASE UNCHANGED history
  BY <1>6 DEF history
<1>7. CASE RecvEnds \/ SaveDiscards \/ (\E fluency \in Modes : SaveChecks(fluency)) \/ video_recv_start
           \/ encoded_data_trigger \/ InitEncode \/ EncodeFrame \/ EndCall \/ StopCapture
  BY <1>6, <1>7 DEF RecvEnds, SaveDiscards, SaveChecks, video_recv_start, encoded_data_trigger,
     InitEncode, EncodeFrame, EndCall, StopCapture
<1> QED
  BY <1>1, <1>2, <1>3, <1>4, <1>5, <1>6, <1>7
     DEF Next, Receiver, Capture, Encoder, Conductor, encoded_data_save, vars

\* Who changes what the encoder does.
LEMMA EncoderSteps ==
    ASSUME [Next]_vars
    PROVE  \/ InitEncode \/ EncodeFrame \/ encoded_data_get \/ DeletePeerConnection
           \/ \E fluency \in Modes : SaveChecks(fluency)
           \/ UNCHANGED <<enc, copied>>
BY DEF Next, Receiver, Capture, Encoder, Conductor, encoded_data_save, vars, encoder, video_packet_recv,
   RecvEnds, SaveDiscards, SaveDone, video_recv_start, CaptureEnds, encoded_data_trigger, StartCapture,
   EndCall, StopCapture

LEMMA EncoderSafeInv ==
    ASSUME RingInv, [Next]_vars
    PROVE  EncoderSafe'
<1>0. /\ EncoderSafe /\ Threads /\ Ending
      /\ teardown \in Teardowns \cup {"none"} /\ Teardowns \subseteq {"hangup", "lost"}
  BY TeardownsAssumption DEF RingInv, TypeOK, Orders
<1>1. CASE SaveDone
  BY <1>0, <1>1 DEF SaveDone, EncoderSafe, encoder, call
<1>2. CASE encoded_data_get
  BY <1>2 DEF encoded_data_get, EncoderSafe
<1>3. CASE video_recv_start
  BY <1>3 DEF video_recv_start, EncoderSafe
<1>4. CASE CaptureEnds
  <2>1. UNCHANGED <<enc, teardown>> /\ ~started
    BY <1>4 DEF CaptureEnds, encoder
  <2>2. enc = "copy" => teardown = "lost"
    BY <1>0, <2>1 DEF Threads, Ending
  <2> QED BY <2>1, <2>2 DEF EncoderSafe
<1>5. CASE DeletePeerConnection
  BY <1>5 DEF DeletePeerConnection, EncoderSafe
<1>6. CASE UNCHANGED bufs
  <2>1. CASE EndCall
    <3>1. UNCHANGED enc /\ teardown # "lost"
      BY <1>0, <2>1 DEF EndCall, Ending, encoder
    <3> QED BY <1>0, <1>6, <3>1 DEF EncoderSafe
  <2>2. CASE StartCapture
    BY <1>0, <2>2 DEF StartCapture, Threads, EncoderSafe, encoder
  <2>3. CASE InitEncode \/ EncodeFrame
    BY <1>0, <1>6, <2>3 DEF InitEncode, EncodeFrame, Threads, EncoderSafe
  <2>4. CASE UNCHANGED <<enc, teardown>>
    BY <1>0, <1>6, <2>4 DEF EncoderSafe
  <2>5. CASE video_packet_recv \/ RecvEnds \/ encoded_data_save \/ encoded_data_trigger \/ StopCapture
    BY <2>4, <2>5 DEF video_packet_recv, RecvEnds, encoded_data_save, SaveDiscards, SaveChecks, SaveDone,
       encoded_data_trigger, StopCapture, encoder, call
  <2> QED
    BY <1>1, <1>2, <1>3, <1>4, <1>5, <2>1, <2>2, <2>3, <2>4, <2>5
       DEF Next, Receiver, Capture, Encoder, Conductor, vars, encoder, call
<1> QED BY <1>1, <1>2, <1>3, <1>4, <1>5, <1>6, OtherSteps

LEMMA IdleInv ==
    ASSUME RingInv, [Next]_vars
    PROVE  Idle'
<1>0. /\ Idle /\ Threads /\ Copying /\ N > 2 /\ N \in Nat
      /\ recv \in {"off", "wait", "save", "write"} /\ flag \in BOOLEAN /\ spoiled \in BOOLEAN
  BY RingAssumption DEF RingInv, TypeOK
<1>1. CASE SaveDone
  <2>1. recv = "write" /\ recv' = "wait" /\ head' = (head + 1) % N /\ UNCHANGED <<tail, flag, spoiled>>
    BY <1>1 DEF SaveDone
  <2>2. CASE ~flag /\ ~spoiled
    <3>1. head = 0 /\ tail = 0 /\ NoFrames /\ ~bufs
      BY <1>0, <2>1, <2>2 DEF Idle, Threads
    <3>2. slot' = slot
      BY <1>1, <3>1 DEF SaveDone
    <3>3. head' = 1
      BY <1>0, <2>1, <3>1
    <3> QED BY <2>1, <3>1, <3>2, <3>3 DEF Idle, NoFrames
  <2> QED BY <2>1, <2>2 DEF Idle
<1>2. CASE encoded_data_get
  BY <1>0, <1>2 DEF encoded_data_get, Idle, Copying
<1>3. CASE video_recv_start
  <2>1. UNCHANGED <<head, tail, spoiled>> /\ slot' = [i \in Slots |-> "empty"] /\ ~flag /\ recv = "off"
    BY <1>0, <1>3 DEF video_recv_start, history, Threads
  <2>2. recv' \in {"wait", "off"}
    BY <1>3, <2>1 DEF video_recv_start
  <2> QED BY <1>0, <2>1, <2>2 DEF Idle, NoFrames
<1>4. CASE CaptureEnds \/ DeletePeerConnection
  <2>1. recv' = recv
    BY <1>4 DEF CaptureEnds, DeletePeerConnection, receiver
  <2>2. CASE UNCHANGED <<ring, flag, spoiled>>
    BY <1>0, <2>1, <2>2 DEF Idle, NoFrames, ring
  <2>3. CASE flag /\ head' = 0 /\ tail' = 0 /\ slot' = [i \in Slots |-> "empty"]
    BY <2>3 DEF Idle, NoFrames
  <2>4. CASE ~flag /\ ~flag' /\ UNCHANGED <<ring, spoiled>>
    BY <1>0, <2>1, <2>4 DEF Idle, NoFrames, ring
  <2> QED BY <1>0, <1>4, <2>2, <2>3, <2>4, StopsWhere, StopSteps DEF RingInv
<1>5. CASE UNCHANGED <<ring, flag, bufs, spoiled>>
  <2>1. ~flag /\ recv \in {"wait", "off"} => recv' \in {"wait", "off"}
    <3>1. CASE video_packet_recv
      BY <3>1 DEF video_packet_recv
    <3>2. CASE RecvEnds \/ encoded_data_save
      BY <3>2 DEF RecvEnds, encoded_data_save, SaveDiscards, SaveChecks, SaveDone
    <3>3. CASE video_recv_start
      BY <3>3 DEF video_recv_start
    <3>4. CASE UNCHANGED recv
      BY <3>4
    <3>5. CASE CaptureEnds \/ encoded_data_trigger \/ Encoder \/ StartCapture \/ EndCall \/ Conductor
      BY <3>4, <3>5 DEF CaptureEnds, encoded_data_trigger, Encoder, InitEncode, EncodeFrame,
         encoded_data_get, StartCapture, EndCall, Conductor, DeletePeerConnection, StopCapture, receiver
    <3> QED BY <3>1, <3>2, <3>3, <3>4, <3>5 DEF Next, Receiver, Capture, vars, receiver
  <2> QED BY <1>0, <1>5, <2>1 DEF Idle, NoFrames, ring
<1> QED BY <1>1, <1>2, <1>3, <1>4, <1>5, OtherSteps

LEMMA CopyingInv ==
    ASSUME RingInv, [Next]_vars
    PROVE  Copying'
<1>0. /\ Copying /\ Threads /\ head \in Slots /\ tail \in Slots
      /\ slot \in [Slots -> Types \cup {"empty"}]
      /\ flag \in BOOLEAN /\ spoiled \in BOOLEAN /\ spoiled' \in BOOLEAN /\ overrun \in BOOLEAN
  BY FlagTypes DEF RingInv, TypeOK
<1>1. CASE SaveDone
  <2>1. /\ UNCHANGED <<tail, flag, enc, copied, spoiled>>
        /\ slot' = slot \/ slot' = [slot EXCEPT ![head] = out]
        /\ ~overrun' => ~overrun /\ head' # tail
    BY <1>1 DEF SaveDone, encoder
  <2>2. ASSUME enc = "copy", ~overrun', ~spoiled
        PROVE  head' # tail' /\ copied' = slot'[tail']
    <3>1. head # tail /\ copied = slot[tail]
      BY <1>0, <2>1, <2>2 DEF Copying
    <3>2. slot'[tail] = slot[tail]
      BY <1>0, <2>1, <3>1
    <3> QED BY <2>1, <2>2, <3>1, <3>2
  <2> QED BY <1>0, <2>1, <2>2 DEF Copying
<1>2. CASE encoded_data_get \/ DeletePeerConnection
  BY <1>2 DEF encoded_data_get, DeletePeerConnection, Copying
<1>3. CASE video_recv_start
  BY <1>0, <1>3 DEF video_recv_start, Threads, Copying, encoder
<1>4. CASE CaptureEnds
  <2>1. UNCHANGED <<enc, copied, overrun>> /\ video_recv_stop
    BY <1>4 DEF CaptureEnds, encoder
  <2>2. CASE enc = "copy" /\ flag
    <3>1. spoiled'
      BY <2>1, <2>2, StopSteps DEF RingInv
    <3> QED BY <3>1 DEF Copying
  <2>3. CASE ~flag
    <3>1. UNCHANGED <<ring, spoiled>> /\ ~flag'
      BY <2>1, <2>3, StopSteps DEF RingInv
    <3> QED BY <1>0, <2>1, <2>3, <3>1 DEF Copying, ring
  <2>4. CASE enc # "copy"
    BY <2>1, <2>4 DEF Copying
  <2> QED BY <2>2, <2>3, <2>4
<1>5. CASE UNCHANGED <<ring, flag, bufs, spoiled>>
  <2>1. CASE \E fluency \in Modes : SaveChecks(fluency)
    <3>1. /\ UNCHANGED <<enc, overrun>>
          /\ copied' = copied \/ (enc = "copy" /\ head = tail)
      BY <2>1 DEF SaveChecks, history
    <3> QED BY <1>0, <1>5, <3>1 DEF Copying, ring
  <2>2. CASE InitEncode
    BY <2>2 DEF InitEncode, Copying
  <2>3. CASE EncodeFrame
    <3>1. CASE flag /\ head # tail
      <4>1. copied' = slot[tail]
        BY <2>3, <3>1 DEF EncodeFrame
      <4> QED BY <1>5, <3>1, <4>1 DEF Copying, ring
    <3>2. CASE ~(flag /\ head # tail)
      <4>1. enc' # "copy"
        BY <2>3, <3>2 DEF EncodeFrame
      <4> QED BY <4>1 DEF Copying
    <3> QED BY <3>1, <3>2
  <2>4. CASE StartCapture
    <3>1. enc' # "copy"
      BY <1>0, <2>4 DEF StartCapture, Threads, encoder
    <3> QED BY <3>1 DEF Copying
  <2>5. CASE UNCHANGED <<enc, copied>> /\ (overrun => overrun')
    BY <1>0, <1>5, <2>5 DEF Copying, ring
  <2> QED BY <1>2, <2>1, <2>2, <2>3, <2>4, <2>5, EncoderSteps, Marks
<1> QED BY <1>1, <1>2, <1>3, <1>4, <1>5, OtherSteps

\* A distance that grows by one.
LEMMA SlotsBefore ==
    ASSUME NEW h \in Slots, NEW t \in Slots, Up(h) # t
    PROVE  \A i \in Slots : Gap(i, t) < Gap(Up(h), t) => i = h \/ Gap(i, t) < Gap(h, t)
<1>1. N \in Nat \ {0} /\ N > 2
  BY RingAssumption
<1> QED BY <1>1 DEF Gap, Up, Slots

\* The same slots, from the next one on.
LEMMA SlotsAfter ==
    ASSUME NEW h \in Slots, NEW t \in Slots, h # t
    PROVE  \A i \in Slots : /\ Gap(i, Up(t)) < Gap(h, Up(t)) => i # t /\ Gap(i, t) < Gap(h, t)
                            /\ Gap(h, t) > Gap(t, t)
<1>1. N \in Nat \ {0} /\ N > 2
  BY RingAssumption
<1> QED BY <1>1 DEF Gap, Up, Slots

LEMMA FullInv ==
    ASSUME RingInv, [Next]_vars
    PROVE  Full'
<1>0. /\ Full /\ Threads /\ Idle /\ Copying /\ head \in Slots /\ tail \in Slots
      /\ slot \in [Slots -> Types \cup {"empty"}]
      /\ flag \in BOOLEAN /\ spoiled \in BOOLEAN /\ overrun \in BOOLEAN
  BY DEF RingInv, TypeOK
<1>1. CASE SaveDone
  <2>1. /\ UNCHANGED <<tail, flag, spoiled>> /\ out \in Types
        /\ head' = Up(head) /\ (~overrun' => ~overrun /\ head' # tail)
        /\ flag => slot' = [slot EXCEPT ![head] = out]
    BY <1>0, <1>1, NextSlot DEF SaveDone, Threads
  <2>2. ASSUME flag, ~overrun', ~spoiled, NEW i \in Slots, i # tail, Gap(i, tail) < Gap(head', tail)
        PROVE  slot'[i] # "empty"
    <3>1. i = head \/ Gap(i, tail) < Gap(head, tail)
      BY <1>0, <2>1, <2>2, SlotsBefore
    <3>2. CASE i = head
      BY <1>0, <2>1, <2>2, <3>2, TypesAreTypes
    <3>3. CASE i # head /\ Gap(i, tail) < Gap(head, tail)
      <4>1. slot[i] # "empty"
        BY <1>0, <2>1, <2>2, <3>3 DEF Full
      <4> QED BY <1>0, <2>1, <2>2, <3>3, <4>1
    <3> QED BY <3>1, <3>2, <3>3
  <2> QED BY <2>1, <2>2 DEF Full, Gap
<1>2. CASE encoded_data_get
  <2>1. /\ UNCHANGED <<head, flag, overrun, spoiled>> /\ enc = "copy"
        /\ tail' = Up(tail) /\ slot' = [slot EXCEPT ![tail] = "empty"]
    BY <1>0, <1>2, NextSlot DEF encoded_data_get
  <2>2. ASSUME flag, ~overrun, ~spoiled, NEW i \in Slots, Gap(i, Up(tail)) < Gap(head, Up(tail))
        PROVE  slot'[i] # "empty"
    <3>1. head # tail
      BY <1>0, <2>1, <2>2 DEF Copying
    <3>2. i # tail /\ Gap(i, tail) < Gap(head, tail)
      BY <1>0, <2>2, <3>1, SlotsAfter
    <3>3. slot[i] # "empty"
      BY <1>0, <2>2, <3>2 DEF Full
    <3> QED BY <1>0, <2>1, <3>2, <3>3
  <2> QED BY <2>1, <2>2 DEF Full, Gap
<1>3. CASE video_recv_start
  <2>1. UNCHANGED <<head, tail, spoiled>> /\ ~flag
    BY <1>0, <1>3 DEF video_recv_start, history, Threads
  <2>2. ~spoiled => tail = 0 /\ head \in {0, 1}
    BY <1>0, <2>1 DEF Idle
  <2>3. ASSUME ~spoiled, NEW i \in Slots, i # tail
        PROVE  ~(Gap(i, tail) < Gap(head, tail))
    <3>1. N \in Nat /\ N > 2
      BY RingAssumption
    <3> QED BY <2>2, <2>3, <3>1 DEF Gap, Slots
  <2> QED BY <2>1, <2>3 DEF Full, Gap
<1>4. CASE CaptureEnds \/ DeletePeerConnection
  <2>1. CASE video_recv_stop
    BY <2>1 DEF Full, video_recv_stop
  <2>2. CASE UNCHANGED <<ring, flag, bufs, spoiled>>
    <3>1. overrun' = overrun
      BY <1>4 DEF CaptureEnds, DeletePeerConnection
    <3> QED BY <1>0, <2>2, <3>1 DEF Full, Gap, ring
  <2> QED BY <1>4, <2>1, <2>2, StopsWhere
<1>5. CASE UNCHANGED <<ring, flag, bufs, spoiled>>
  <2>1. CASE overrun => overrun'
    BY <1>0, <1>5, <2>1 DEF Full, Gap, ring
  <2>2. CASE StartCapture
    <3>1. ~flag
      BY <1>0, <2>2 DEF StartCapture, Threads
    <3> QED BY <1>5, <3>1 DEF Full
  <2> QED BY <2>1, <2>2, Marks
<1> QED BY <1>1, <1>2, <1>3, <1>4, <1>5, OtherSteps

\* The receive thread makes of a parameter set a frame of that type.
LEMMA FreshSteps ==
    ASSUME RingInv, [Next]_vars, UNCHANGED <<ring, flag, bufs, spoiled>>,
           Waiting, Fresh, first' = "none", ~toobig'
    PROVE  Fresh'
<1>0. /\ Threads /\ head \in Slots /\ tail \in Slots /\ flag /\ first = "none"
      /\ recv \in {"off", "wait", "save", "write"}
      /\ IF recv = "wait" THEN gop => start /\ frag.type \in Keys ELSE out \in Keys
      /\ gop \in BOOLEAN /\ start \in BOOLEAN
      /\ frag \in [type : Types \cup {"junk"}, pkts : 0 .. MaxPkts] /\ MaxPkts \in Nat
  BY StreamAssumption DEF RingInv, TypeOK, Waiting, Fresh
<1>1. NoFrames' /\ Gap(head, tail)' <= 1
  <2>1. NoFrames /\ Gap(head, tail) <= 1
    BY DEF Fresh
  <2> QED BY <2>1 DEF NoFrames, Gap, ring
<1>2. IF recv' = "wait" THEN gop' => start' /\ frag'.type \in Keys ELSE out' \in Keys
  <2>1. CASE video_packet_recv
    <3>1. recv = "wait"
      BY <2>1 DEF video_packet_recv
    <3>2. PICK p \in Types \cup {"more"} :
            PacketDiscarded(p) \/ PacketMore(p) \/ PacketFirst(p) \/ PacketCombined(p) \/ PacketEndsFrame(p)
      BY <2>1 DEF video_packet_recv
    <3>3. CASE PacketDiscarded(p)
      BY <1>0, <3>1, <3>3 DEF PacketDiscarded
    <3>4. CASE PacketMore(p)
      <4>1. frag.pkts # MaxPkts
        BY <1>0, <3>4 DEF PacketMore
      <4> QED BY <1>0, <3>1, <3>4, <4>1 DEF PacketMore, Piece
    <3>5. CASE PacketFirst(p)
      <4>1. ~gop
        BY <1>0, <3>1, <3>5 DEF PacketFirst, Threads
      <4> QED BY <1>0, <3>1, <3>5, <4>1 DEF PacketFirst, Piece
    <3>6. CASE PacketCombined(p)
      BY <1>0, <3>1, <3>6 DEF PacketCombined, Piece
    <3>7. CASE PacketEndsFrame(p)
      BY <1>0, <3>1, <3>7 DEF PacketEndsFrame
    <3> QED BY <3>2, <3>3, <3>4, <3>5, <3>6, <3>7
  <2>2. CASE \E fluency \in Modes : SaveChecks(fluency)
    <3>1. out \in Keys /\ recv = "save"
      BY <1>0, <2>2 DEF SaveChecks
    <3>2. ~NoBuf
      <4>1. Gap(head, tail) <= 1 /\ N \in Nat /\ N > 2
        BY RingAssumption DEF Fresh
      <4>2. Up(head) # tail
        BY <1>0, <4>1 DEF Gap, Up, Slots
      <4>3. (head + 1) % N = Up(head)
        BY <1>0, NextSlot
      <4> QED BY <3>1, <4>2, <4>3 DEF NoBuf, IsKey
    <3>3. out' = out /\ recv' = "write"
      BY <2>2, <3>2 DEF SaveChecks
    <3> QED BY <3>1, <3>3
  <2>3. CASE RecvEnds \/ SaveDiscards
    BY <1>0, <2>3 DEF RecvEnds, SaveDiscards, IsKey
  <2>4. CASE SaveDone \/ video_recv_start \/ StartCapture
    <3>1. ~video_recv_start /\ ~StartCapture
      BY <1>0 DEF Threads, video_recv_start, StartCapture
    <3>2. ~SaveDone
      BY <1>0, NextSlot DEF SaveDone, ring
    <3> QED BY <2>4, <3>1, <3>2
  <2>5. CASE UNCHANGED receiver
    BY <1>0, <2>5 DEF receiver
  <2>6. CASE CaptureEnds \/ encoded_data_trigger \/ Encoder \/ EndCall \/ Conductor
    BY <2>5, <2>6 DEF CaptureEnds, encoded_data_trigger, Encoder, InitEncode, EncodeFrame,
       encoded_data_get, EndCall, Conductor, DeletePeerConnection, StopCapture
  <2> QED
    BY <2>1, <2>2, <2>3, <2>4, <2>5, <2>6 DEF Next, Receiver, Capture, encoded_data_save, vars
<1> QED BY <1>1, <1>2 DEF Fresh

\* The first frame and the mark of its size change with the frame, or with a call.
LEMMA FirstSteps ==
    ASSUME [Next]_vars
    PROVE  \/ encoded_data_get \/ StartCapture
           \/ first' = first /\ (first = "none" /\ toobig => toobig')
<1>1. CASE video_packet_recv
  <2>1. PICK p \in Types \cup {"more"} :
          PacketDiscarded(p) \/ PacketMore(p) \/ PacketFirst(p) \/ PacketCombined(p) \/ PacketEndsFrame(p)
    BY <1>1 DEF video_packet_recv
  <2>2. first = "none" /\ toobig => toobig'
    BY <2>1 DEF PacketDiscarded, PacketMore, PacketFirst, PacketCombined, PacketEndsFrame
  <2> QED BY <1>1, <2>2 DEF video_packet_recv
<1>2. CASE UNCHANGED <<first, toobig>>
  BY <1>2
<1>3. CASE Receiver \/ Capture \/ encoded_data_trigger \/ InitEncode \/ EncodeFrame \/ EndCall \/ Conductor
  BY <1>2, <1>3 DEF Receiver, RecvEnds, encoded_data_save, SaveDiscards, SaveChecks, SaveDone, Capture,
     video_recv_start, CaptureEnds, encoded_data_trigger, InitEncode, EncodeFrame, EndCall, Conductor,
     DeletePeerConnection, StopCapture, history
<1> QED BY <1>1, <1>2, <1>3 DEF Next, Encoder, vars, history

LEMMA FirstFrameInv ==
    ASSUME RingInv, [Next]_vars
    PROVE  FirstFrame'
<1> SUFFICES ASSUME Waiting' PROVE Fresh' \/ KeyFirst'
  BY DEF FirstFrame
<1>0. /\ FirstFrame /\ Threads /\ Idle /\ Copying /\ head \in Slots /\ tail \in Slots
      /\ slot \in [Slots -> Types \cup {"empty"}] /\ "empty" \notin Types /\ Keys \subseteq Types
      /\ flag' /\ first' = "none" /\ ~overrun' /\ ~toobig' /\ ~spoiled' /\ ~spoiled
  BY TypesAreTypes, Marks DEF RingInv, TypeOK, Waiting
<1>1. CASE SaveDone
  <2>1. /\ UNCHANGED <<tail, flag>> /\ flag /\ recv = "write" /\ out \in Types
        /\ head' = Up(head) /\ Up(head) \in Slots /\ head' # tail
        /\ slot' = [slot EXCEPT ![head] = out]
    BY <1>0, <1>1, NextSlot DEF SaveDone, Threads
  <2>2. Waiting
    BY <1>0, <1>1 DEF SaveDone, Waiting
  <2>3. Gap(Up(head), tail) = Gap(head, tail) + 1 /\ Gap(head, tail) \in 0 .. N - 1
    BY <1>0, <2>1, GapSteps, GapIsNum
  <2>4. ASSUME NEW k \in Slots, k = (IF slot'[tail] = "empty" THEN Up(tail) ELSE tail),
               slot'[k] \in Keys, Gap(k, tail) < Gap(Up(head), tail)
        PROVE  KeyFirst'
    BY <2>1, <2>4 DEF KeyFirst, Oldest, Gap
  <2>5. CASE Fresh
    <3>1. /\ out \in Keys /\ slot[tail] = "empty" /\ Gap(head, tail) <= 1
          /\ slot'[head] = out
      BY <1>0, <2>1, <2>5 DEF Fresh, NoFrames
    <3>2. CASE head = tail
      <4>1. Gap(tail, tail) = 0
        BY <1>0, GapSteps
      <4>2. slot'[tail] # "empty"
        BY <1>0, <3>1, <3>2
      <4> QED BY <1>0, <2>3, <2>4, <3>1, <3>2, <4>1, <4>2
    <3>3. CASE head # tail
      <4>1. head = Up(tail) /\ Gap(head, tail) = 1
        BY <1>0, <2>3, <3>1, <3>3, GapSteps, NextSlot
      <4>2. slot'[tail] = "empty"
        BY <1>0, <2>1, <3>1, <3>3
      <4> QED BY <1>0, <2>3, <2>4, <3>1, <4>1, <4>2
    <3> QED BY <3>2, <3>3
  <2>6. CASE KeyFirst
    <3>1. Oldest \in Slots /\ Gap(Oldest, tail) < Gap(head, tail) /\ slot[Oldest] \in Keys
      BY <1>0, <2>6, NextSlot DEF KeyFirst, Oldest
    <3>2. head # Oldest /\ head # tail
      <4>1. Gap(tail, tail) = 0 /\ Gap(Oldest, tail) \in 0 .. N - 1 /\ N \in Nat
        BY <1>0, <3>1, GapSteps, GapIsNum, RingAssumption
      <4> QED BY <2>3, <3>1, <4>1
    <3>3. slot'[Oldest] = slot[Oldest] /\ slot'[tail] = slot[tail]
      BY <1>0, <2>1, <3>1, <3>2
    <3>4. Gap(Oldest, tail) < Gap(Up(head), tail)
      <4>1. Gap(Oldest, tail) \in 0 .. N - 1 /\ N \in Nat
        BY <1>0, <3>1, GapIsNum, RingAssumption
      <4> QED BY <2>3, <3>1, <4>1
    <3> QED BY <2>4, <3>1, <3>3, <3>4 DEF Oldest
  <2> QED BY <1>0, <2>2, <2>5, <2>6 DEF FirstFrame
<1>2. CASE encoded_data_get
  <2>1. /\ UNCHANGED <<head, flag, overrun, recv, gop, start, frag, out>> /\ enc = "copy"
        /\ tail' = Up(tail) /\ Up(tail) \in Slots /\ Up(tail) # tail
        /\ slot' = [slot EXCEPT ![tail] = "empty"]
    BY <1>0, <1>2, NextSlot DEF encoded_data_get, receiver
  <2>2. copied = "empty" /\ first = "none" /\ toobig' = toobig
    BY <1>0, <1>2 DEF encoded_data_get, Deliver
  <2>3. Waiting /\ head # tail /\ slot[tail] = "empty"
    BY <1>0, <2>1, <2>2 DEF Waiting, Copying
  <2>4. /\ Gap(head, Up(tail)) = Gap(head, tail) - 1 /\ Gap(head, tail) \in 0 .. N - 1
        /\ N \in Nat /\ Gap(Up(tail), tail) = 1 /\ Gap(Up(tail), Up(tail)) = 0
    BY <1>0, <2>1, <2>3, GapSteps, GapIsNum, RingAssumption
  <2>5. CASE Fresh
    <3>1. NoFrames'
      BY <1>0, <2>1, <2>5 DEF Fresh, NoFrames
    <3>2. Gap(head, Up(tail)) <= 1
      BY <2>4, <2>5 DEF Fresh
    <3>3. Gap(head, tail)' <= 1
      BY <2>1, <3>2 DEF Gap
    <3> QED BY <2>1, <2>5, <3>1, <3>3 DEF Fresh
  <2>6. CASE KeyFirst
    <3>1. slot[Up(tail)] \in Keys /\ 1 < Gap(head, tail)
      BY <2>3, <2>4, <2>6 DEF KeyFirst, Oldest
    <3>2. slot'[Up(tail)] \in Keys /\ slot'[Up(tail)] # "empty"
      BY <1>0, <2>1, <3>1
    <3>3. Gap(Up(tail), Up(tail)) < Gap(head, Up(tail))
      BY <2>4, <3>1
    <3>4. Oldest' = Up(tail)
      BY <2>1, <3>2 DEF Oldest
    <3>5. Gap(Oldest, tail)' < Gap(head, tail)'
      BY <2>1, <3>3, <3>4 DEF Gap
    <3> QED BY <3>2, <3>4, <3>5 DEF KeyFirst
  <2> QED BY <1>0, <2>3, <2>5, <2>6 DEF FirstFrame
<1>3. CASE video_recv_start
  <2>1. /\ UNCHANGED <<head, tail, gop>> /\ ~flag /\ recv = "off" /\ ~gop
        /\ slot' = [i \in Slots |-> "empty"]
    BY <1>0, <1>3 DEF video_recv_start, Threads
  <2>2. recv' = "wait" /\ ~gop'
    <3>1. ~UNCHANGED <<flag, recv>>
      BY <1>0, <2>1
    <3>2. recv' = "wait"
      BY <1>3, <3>1 DEF video_recv_start
    <3>3. ~gop'
      BY <2>1
    <3> QED BY <3>2, <3>3
  <2>3. tail = 0 /\ head \in {0, 1}
    BY <1>0, <2>1 DEF Idle
  <2>4. Gap(head, tail)' <= 1
    BY <2>1, <2>3, RingAssumption DEF Gap
  <2>5. NoFrames'
    BY <2>1 DEF NoFrames
  <2> QED BY <2>2, <2>4, <2>5 DEF Fresh
<1>4. CASE UNCHANGED <<ring, flag, bufs, spoiled>>
  <2>1. flag /\ ~StartCapture
    BY <1>0, <1>4 DEF StartCapture, Threads
  <2>2. CASE first' = first /\ (first = "none" /\ toobig => toobig')
    <3>1. Waiting
      BY <1>0, <1>4, <2>1, <2>2, Marks DEF Waiting
    <3>2. CASE Fresh
      BY <1>0, <1>4, <3>1, <3>2, FreshSteps
    <3>3. CASE KeyFirst
      BY <1>4, <3>3 DEF KeyFirst, Oldest, Gap, Up, ring
    <3> QED BY <1>0, <3>1, <3>2, <3>3 DEF FirstFrame
  <2> QED BY <1>2, <2>1, <2>2, FirstSteps
<1>5. CASE CaptureEnds \/ DeletePeerConnection
  <2>1. ~video_recv_stop
    BY <1>0 DEF video_recv_stop
  <2> QED BY <1>4, <1>5, <2>1, StopsWhere
<1> QED BY <1>1, <1>2, <1>3, <1>4, <1>5, OtherSteps

LEMMA FirstIsKeyInv ==
    ASSUME RingInv, [Next]_vars
    PROVE  FirstIsKey'
<1>0. /\ FirstIsKey /\ Copying /\ FirstFrame /\ tail \in Slots
      /\ "empty" \notin Types /\ Keys \subseteq Types
  BY TypesAreTypes DEF RingInv, TypeOK
<1>1. CASE encoded_data_get
  <2>1. enc = "copy" /\ UNCHANGED <<overrun, spoiled>>
    BY <1>1 DEF encoded_data_get
  <2>2. CASE copied = "empty" \/ first # "none" \/ overrun \/ toobig \/ copied \in Keys
    BY <1>0, <1>1, <2>1, <2>2 DEF encoded_data_get, Deliver, FirstIsKey
  <2>3. CASE ~(copied = "empty" \/ first # "none" \/ overrun \/ toobig \/ spoiled)
    <3>1. Waiting /\ copied = slot[tail]
      BY <1>0, <2>1, <2>3 DEF Waiting, Copying
    <3>2. ~Fresh
      BY <1>0, <2>3, <3>1 DEF Fresh, NoFrames
    <3>3. copied \in Keys
      BY <1>0, <2>3, <3>1, <3>2 DEF FirstFrame, KeyFirst, Oldest
    <3> QED BY <2>2, <3>3
  <2>4. CASE spoiled
    BY <2>1, <2>4 DEF FirstIsKey
  <2> QED BY <2>2, <2>3, <2>4
<1>2. CASE StartCapture
  BY <1>2 DEF StartCapture, FirstIsKey
<1>3. CASE first' = first
  BY <1>0, <1>3, Marks DEF FirstIsKey
<1> QED BY <1>1, <1>2, <1>3, FirstSteps

-----------------------------------------------------------------------------
(* The theorems.                                                             *)

LEMMA RingInvStep == RingInv /\ [Next]_vars => RingInv'
BY TypeInv, ThreadsInv, EndingInv, EncoderSafeInv, IdleInv, CopyingInv, FullInv, FirstFrameInv,
   FirstIsKeyInv DEF RingInv

LEMMA Invariant == Spec => []RingInv
<1> QED BY InitRingInv, RingInvStep, PTL DEF Spec

\* The ring, the threads and the call stay within their types: what is saved is a
\* frame with a start code, and the indices stay in the list.
THEOREM TypesKept == Spec => []TypeOK
<1>1. RingInv => TypeOK
  BY DEF RingInv
<1> QED BY <1>1, Invariant, PTL

\* However the threads interleave, and however many calls there are: a call that is
\* hung up deletes the encoder before the buffers it copies from are freed.
THEOREM Safe == Spec => []EncoderSafe
<1>1. RingInv => EncoderSafe
  BY DEF RingInv
<1> QED BY <1>1, Invariant, PTL

\* The first frame the encoder of a call gets is a parameter set, whatever the calls
\* before left in the ring, as long as no frame was too big and no slot ran over.
THEOREM FirstKey == Spec => []FirstIsKey
<1>1. RingInv => FirstIsKey
  BY DEF RingInv
<1> QED BY <1>1, Invariant, PTL

-----------------------------------------------------------------------------
(* The frames in order.                                                      *)

Elems == Types \cup {"empty"}
Frames(s, t, k, n) == [i \in 1 .. n |-> s[(t + k + i - 1) % N]]
Skip == IF head # tail /\ slot[tail] = "empty" THEN 1 ELSE 0

LEMMA SeqOfFunction ==
    ASSUME NEW S, NEW n \in Nat, NEW f \in [1 .. n -> S]
    PROVE  f \in Seq(S) /\ Len(f) = n
OBVIOUS

\* What the ring holds from the k-th slot after its tail.
LEMMA FramesAre ==
    ASSUME NEW s \in [Slots -> Elems], NEW t \in Slots, NEW k \in {0, 1}, NEW n \in 0 .. N - k
    PROVE  /\ Frames(s, t, k, n) \in Seq(Elems) /\ Len(Frames(s, t, k, n)) = n
           /\ \A i \in 1 .. n : /\ Frames(s, t, k, n)[i] = s[(t + k + i - 1) % N]
                               /\ (t + k + i - 1) % N \in Slots
                               /\ Gap((t + k + i - 1) % N, t) = k + i - 1
<1>1. N \in Nat /\ N > 2
  BY RingAssumption
<1>2. ASSUME NEW i \in 1 .. n
      PROVE  (t + k + i - 1) % N \in Slots /\ Gap((t + k + i - 1) % N, t) = k + i - 1
  <2>1. PICK j \in 0 .. N - 1 : j = k + i - 1
    BY <1>1
  <2>2. t + k + i - 1 = t + j
    BY <1>1, <2>1 DEF Slots
  <2> QED BY <2>1, <2>2, SlotAt
<1>3. Frames(s, t, k, n) \in [1 .. n -> Elems]
  BY <1>2 DEF Frames
<1>4. n \in Nat
  BY <1>1
<1>5. Frames(s, t, k, n) \in Seq(Elems) /\ Len(Frames(s, t, k, n)) = n
  BY <1>3, <1>4, SeqOfFunction
<1> QED BY <1>2, <1>5 DEF Frames

\* A frame saved at the head comes after the others.
LEMMA FrameAdded ==
    ASSUME NEW s \in [Slots -> Elems], NEW t \in Slots, NEW h \in Slots, NEW k \in {0, 1},
           k <= Gap(h, t), Up(h) # t, NEW m \in Elems
    PROVE  Frames([s EXCEPT ![h] = m], t, k, Gap(Up(h), t) - k) = Append(Frames(s, t, k, Gap(h, t) - k), m)
<1> DEFINE r == [s EXCEPT ![h] = m]
           n == Gap(h, t) - k
           old == Frames(s, t, k, n)
           new == Frames(r, t, k, n + 1)
<1>1. N \in Nat /\ N > 2 /\ r \in [Slots -> Elems]
  BY RingAssumption
<1>2. /\ Gap(Up(h), t) = Gap(h, t) + 1 /\ Gap(h, t) \in 0 .. N - 1
      /\ \A i \in Slots : Gap(i, t) = Gap(h, t) => i = h
  BY GapSteps, GapIsNum
<1>3. n \in 0 .. N - k /\ n + 1 \in 0 .. N - k /\ Gap(Up(h), t) - k = n + 1
  BY <1>1, <1>2
<1> HIDE DEF r, n
<1>4. /\ old \in Seq(Elems) /\ Len(old) = n
      /\ \A i \in 1 .. n : /\ old[i] = s[(t + k + i - 1) % N] /\ (t + k + i - 1) % N \in Slots
                          /\ Gap((t + k + i - 1) % N, t) = k + i - 1
  BY <1>3, FramesAre
<1>5. /\ new \in Seq(Elems) /\ Len(new) = n + 1
      /\ \A i \in 1 .. n + 1 : /\ new[i] = r[(t + k + i - 1) % N] /\ (t + k + i - 1) % N \in Slots
                              /\ Gap((t + k + i - 1) % N, t) = k + i - 1
  BY <1>1, <1>3, FramesAre
<1>6. /\ Append(old, m) \in Seq(Elems) /\ Len(Append(old, m)) = n + 1
      /\ \A i \in 1 .. n : Append(old, m)[i] = old[i]
      /\ Append(old, m)[n + 1] = m
  BY <1>4, AppendProperties
<1>7. ASSUME NEW i \in 1 .. n
      PROVE  new[i] = old[i]
  <2>1. i \in 1 .. n + 1
    BY <1>1, <1>3
  <2>2. PICK j \in Slots : j = (t + k + i - 1) % N /\ Gap(j, t) = k + i - 1 /\ old[i] = s[j]
    BY <1>4
  <2>3. new[i] = r[j]
    BY <1>5, <2>1, <2>2
  <2>4. j # h
    BY <1>1, <1>2, <2>2 DEF n
  <2> QED BY <2>2, <2>3, <2>4 DEF r
<1>8. new[n + 1] = m
  <2>1. n + 1 \in 1 .. n + 1
    BY <1>3, <1>1
  <2>2. PICK j \in Slots : Gap(j, t) = k + (n + 1) - 1 /\ new[n + 1] = r[j]
    BY <1>5, <2>1
  <2>3. j = h
    BY <1>1, <1>2, <2>2 DEF n
  <2> QED BY <2>2, <2>3 DEF r
<1>9. new = Append(old, m)
  <2>1. \A i \in 1 .. n + 1 : new[i] = Append(old, m)[i]
    BY <1>1, <1>3, <1>6, <1>7, <1>8
  <2> HIDE DEF new, old
  <2> QED BY <1>6, <1>5, <2>1, SeqEqual
<1> QED BY <1>3, <1>9 DEF r, n

\* With the oldest slot given back the others stay as they are.
LEMMA FrameTaken ==
    ASSUME NEW s \in [Slots -> Elems], NEW t \in Slots, NEW h \in Slots, h # t
    PROVE  LET new == Frames([s EXCEPT ![t] = "empty"], Up(t), 0, Gap(h, Up(t)))
           IN  /\ new = Frames(s, t, 1, Gap(h, t) - 1)
               /\ new = Tail(Frames(s, t, 0, Gap(h, t)))
               /\ Frames(s, t, 0, Gap(h, t)) # <<>> /\ Head(Frames(s, t, 0, Gap(h, t))) = s[t]
<1> DEFINE r == [s EXCEPT ![t] = "empty"]
           n == Gap(h, t) - 1
           all == Frames(s, t, 0, n + 1)
           rest == Frames(s, t, 1, n)
           new == Frames(r, Up(t), 0, n)
<1>1. N \in Nat /\ N > 2 /\ r \in [Slots -> Elems] /\ Up(t) \in Slots
  BY RingAssumption, NextSlot DEF Elems
<1>2. Gap(h, t) \in 0 .. N - 1 /\ Gap(h, t) # 0 /\ Gap(t, t) = 0 /\ Gap(h, Up(t)) = n
  BY GapSteps, GapIsNum
<1>3. n \in 0 .. N - 2 /\ Gap(h, t) = n + 1 /\ Gap(h, t) - 1 = n
  BY <1>1, <1>2
<1> HIDE DEF r, n
<1>4. n \in 0 .. N - 1 /\ n \in 0 .. N - 0 /\ n + 1 \in 0 .. N - 0 /\ n \in Nat
  BY <1>1, <1>3
<1>5. /\ all \in Seq(Elems) /\ Len(all) = n + 1
      /\ \A i \in 1 .. n + 1 : all[i] = s[(t + 0 + i - 1) % N]
  BY <1>4, FramesAre
<1>6. /\ rest \in Seq(Elems) /\ Len(rest) = n
      /\ \A i \in 1 .. n : /\ rest[i] = s[(t + 1 + i - 1) % N] /\ (t + 1 + i - 1) % N \in Slots
                          /\ Gap((t + 1 + i - 1) % N, t) = 1 + i - 1
  BY <1>4, FramesAre
<1>7. /\ new \in Seq(Elems) /\ Len(new) = n
      /\ \A i \in 1 .. n : new[i] = r[(Up(t) + 0 + i - 1) % N]
  BY <1>1, <1>4, FramesAre
<1>8. ASSUME NEW i \in 1 .. n
      PROVE  new[i] = rest[i] /\ all[i + 1] = rest[i]
  <2>1. PICK k \in 0 .. N - 1 : k = i - 1
    BY <1>1, <1>4
  <2>2. (t + k + 1) % N = (Up(t) + k) % N
    BY <2>1, SlotAt
  <2>3. t + 1 + i - 1 = t + k + 1 /\ Up(t) + 0 + i - 1 = Up(t) + k /\ t + 0 + (i + 1) - 1 = t + k + 1
    BY <1>1, <2>1 DEF Slots
  <2>4. (t + k + 1) % N \in Slots /\ (t + k + 1) % N # t
    BY <1>1, <1>2, <1>4, <1>6, <2>3
  <2>5. new[i] = r[(t + k + 1) % N] /\ rest[i] = s[(t + k + 1) % N]
    BY <1>6, <1>7, <2>2, <2>3
  <2>6. all[i + 1] = s[(t + k + 1) % N]
    <3>1. i + 1 \in 1 .. n + 1
      BY <1>4
    <3> QED BY <1>5, <2>3, <3>1
  <2> QED BY <2>4, <2>5, <2>6 DEF r
<1>9. all # <<>> /\ Head(all) = s[t] /\ Tail(all) \in Seq(Elems) /\ Len(Tail(all)) = n
      /\ \A i \in 1 .. n : Tail(all)[i] = all[i + 1]
  <2>1. all[1] = s[t]
    <3>1. 1 \in 1 .. n + 1 /\ t + 0 + 1 - 1 = t
      BY <1>4 DEF Slots
    <3>2. N \in Nat \ {0} /\ t \in 0 .. 2 * N - 1 /\ t < N
      BY <1>1 DEF Slots
    <3>3. t % N = t
      BY <3>2, OnceAround
    <3> QED BY <1>5, <3>1, <3>3
  <2> HIDE DEF all
  <2>2. all # <<>> /\ Head(all) = all[1]
    BY <1>4, <1>5
  <2> QED BY <1>4, <1>5, <2>1, <2>2, HeadTailProperties
<1>10. new = rest
  <2> HIDE DEF new, rest
  <2> QED BY <1>6, <1>7, <1>8, SeqEqual
<1>11. new = Tail(all)
  <2> HIDE DEF new, rest, all
  <2> QED BY <1>7, <1>8, <1>9, SeqEqual
<1> QED BY <1>2, <1>3, <1>9, <1>10, <1>11 DEF r

\* Before a step and after it.
LEMMA ContentIs ==
    ASSUME TypeOK, TypeOK'
    PROVE  /\ Content = Frames(slot, tail, Skip, Gap(head, tail) - Skip)
           /\ Content' = Frames(slot', tail', Skip', Gap(head', tail') - Skip')
<1>1. num_in_data_queue = Gap(head, tail)
  BY GapIsNum DEF TypeOK, num_in_data_queue
<1>2. num_in_data_queue' = Gap(head', tail')
  BY GapIsNum DEF TypeOK, num_in_data_queue
<1> QED BY <1>1, <1>2 DEF Content, Frames, Skip

LEMMA SaveSends ==
    ASSUME RingInv, TypeOK', SaveDone, ~overrun', ~spoiled
    PROVE  [Lossy!Next]_<<Content, got>>
<1>0. /\ head \in Slots /\ tail \in Slots /\ slot \in [Slots -> Elems] /\ out \in Types
      /\ "empty" \notin Types /\ Types \subseteq Elems /\ Threads /\ Idle /\ flag \in BOOLEAN
      /\ head' = Up(head) /\ tail' = tail /\ got' = got /\ head' # tail /\ recv = "write"
  BY NextSlot, TypesAreTypes DEF RingInv, TypeOK, Threads, SaveDone, encoder, Elems
<1>1. /\ Content = Frames(slot, tail, Skip, Gap(head, tail) - Skip)
      /\ Content' = Frames(slot', tail, Skip', Gap(Up(head), tail) - Skip')
  BY <1>0, ContentIs DEF RingInv
<1>2. CASE bufs
  <2>1. slot' = [slot EXCEPT ![head] = out]
    BY <1>2 DEF SaveDone
  <2>2. Skip' = Skip /\ Skip \in {0, 1}
    BY <1>0, <2>1 DEF Skip
  <2>3. Skip <= Gap(head, tail)
    <3>1. Gap(head, tail) \in 0 .. N - 1 /\ (Gap(head, tail) = 0 <=> head = tail)
      BY <1>0, GapIsNum, GapSteps
    <3> QED BY <3>1 DEF Skip
  <2>4. Content' = Append(Content, out)
    BY <1>0, <1>1, <2>1, <2>2, <2>3, FrameAdded
  <2> QED BY <1>0, <2>4 DEF Lossy!Next, Lossy!Send
<1>3. CASE ~bufs
  <2>1. head = 0 /\ tail = 0 /\ NoFrames /\ slot' = slot
    BY <1>0, <1>3 DEF Threads, Idle, SaveDone
  <2>2. Gap(head, tail) = 0 /\ Gap(Up(head), tail) = 1 /\ Skip = 0 /\ Skip' = 1
    BY <1>0, <2>1, RingAssumption DEF Gap, Up, Skip, NoFrames
  <2>3. Content = [i \in 1 .. 0 |-> slot[(tail + 0 + i - 1) % N]]
    BY <1>1, <2>2 DEF Frames
  <2>4. Content' = [i \in 1 .. 0 |-> slot'[(tail + 1 + i - 1) % N]]
    BY <1>1, <2>2 DEF Frames
  <2>5. Content = <<>> /\ Content' = <<>>
    BY <2>3, <2>4
  <2> QED BY <1>0, <2>5
<1> QED BY <1>2, <1>3

LEMMA GetGets ==
    ASSUME RingInv, TypeOK', encoded_data_get, ~overrun, ~spoiled
    PROVE  [Lossy!Next]_<<Content, got>>
<1>0. /\ head \in Slots /\ tail \in Slots /\ slot \in [Slots -> Elems] /\ Full /\ flag
      /\ head # tail /\ copied = slot[tail]
      /\ head' = head /\ tail' = Up(tail) /\ Up(tail) \in Slots /\ Up(tail) # tail
      /\ slot' = [slot EXCEPT ![tail] = "empty"]
  BY NextSlot DEF RingInv, TypeOK, Copying, encoded_data_get, Elems
<1>1. /\ Content = Frames(slot, tail, Skip, Gap(head, tail) - Skip)
      /\ Content' = Frames(slot', Up(tail), Skip', Gap(head, Up(tail)) - Skip')
  BY <1>0, ContentIs DEF RingInv
<1>2. /\ Gap(head, Up(tail)) = Gap(head, tail) - 1 /\ Gap(head, tail) \in 0 .. N - 1
      /\ Gap(Up(tail), tail) = 1 /\ (Gap(head, Up(tail)) = 0 <=> head = Up(tail)) /\ N \in Nat
  BY <1>0, GapSteps, GapIsNum, RingAssumption
<1>3. Skip' = 0
  <2>1. CASE head = Up(tail)
    BY <1>0, <2>1 DEF Skip
  <2>2. CASE head # Up(tail)
    <3>1. Gap(Up(tail), tail) < Gap(head, tail)
      <4>1. Gap(head, tail) - 1 # 0 /\ Gap(head, tail) # 0
        BY <1>0, <1>2, <2>2, GapSteps
      <4> QED BY <1>2, <4>1
    <3>2. slot[Up(tail)] # "empty"
      BY <1>0, <3>1 DEF Full
    <3> QED BY <1>0, <3>2 DEF Skip
  <2> QED BY <2>1, <2>2
<1>4. /\ Content' = Frames([slot EXCEPT ![tail] = "empty"], Up(tail), 0, Gap(head, Up(tail)))
      /\ Content' = Frames(slot, tail, 1, Gap(head, tail) - 1)
      /\ Content' = Tail(Frames(slot, tail, 0, Gap(head, tail)))
      /\ Frames(slot, tail, 0, Gap(head, tail)) # <<>>
      /\ Head(Frames(slot, tail, 0, Gap(head, tail))) = slot[tail]
  <2>1. Content' = Frames([slot EXCEPT ![tail] = "empty"], Up(tail), 0, Gap(head, Up(tail)))
    BY <1>0, <1>1, <1>2, <1>3
  <2> QED BY <1>0, <2>1, FrameTaken
<1>5. CASE slot[tail] = "empty"
  <2>1. Skip = 1 /\ got' = got
    BY <1>0, <1>5 DEF Skip, encoded_data_get, Deliver
  <2>2. Content' = Content
    BY <1>1, <1>4, <2>1
  <2> QED BY <2>1, <2>2
<1>6. CASE slot[tail] # "empty"
  <2>1. Skip = 0 /\ got' = slot[tail]
    BY <1>0, <1>6 DEF Skip, encoded_data_get, Deliver
  <2>2. Content = Frames(slot, tail, 0, Gap(head, tail))
    BY <1>1, <1>2, <2>1
  <2> QED BY <1>4, <2>1, <2>2 DEF Lossy!Next, Lossy!Get
<1> QED BY <1>5, <1>6

LEMMA StopLoses ==
    ASSUME RingInv, TypeOK', video_recv_stop, got' = got
    PROVE  [Lossy!Next]_<<Content, got>>
<1>1. CASE flag
  <2>1. head' = 0 /\ tail' = 0 /\ 0 \in Slots /\ head \in Slots /\ tail \in Slots
        /\ slot \in [Slots -> Elems]
    BY <1>1, RingAssumption DEF video_recv_stop, Slots, RingInv, TypeOK, Elems
  <2>2. Gap(0, 0) = 0 /\ Skip' = 0
    BY <2>1, GapSteps DEF Skip
  <2>3. Content' = [i \in 1 .. 0 |-> slot'[(tail' + 0 + i - 1) % N]]
    BY <2>1, <2>2, ContentIs DEF RingInv, Frames
  <2>4. Content' = <<>>
    BY <2>3
  <2>5. Len(Content) \in Nat
    <3>1. Skip \in {0, 1} /\ Gap(head, tail) - Skip \in 0 .. N - Skip
      <4>1. Gap(head, tail) \in 0 .. N - 1 /\ (Gap(head, tail) = 0 <=> head = tail) /\ N \in Nat
        BY <2>1, GapIsNum, GapSteps, RingAssumption
      <4> QED BY <4>1 DEF Skip
    <3>2. Len(Content) = Gap(head, tail) - Skip
      BY <2>1, <3>1, ContentIs, FramesAre DEF RingInv
    <3> QED BY <3>1, <3>2, RingAssumption
  <2>6. SubSeq(Content, Len(Content) + 1, Len(Content)) = <<>>
    BY <2>5, SubSeqEmpty
  <2>7. Len(Content) \in 0 .. Len(Content)
    BY <2>5
  <2> QED BY <2>4, <2>6, <2>7 DEF Lossy!Next, Lossy!LoseOldest
<1>2. CASE ~flag
  <2>1. UNCHANGED ring
    BY <1>2, StopSteps DEF RingInv
  <2>2. Content' = Content
    BY <2>1 DEF Content, num_in_data_queue, ring
  <2> QED BY <2>2
<1> QED BY <1>1, <1>2

\* What the encoder got changes only as it gets a frame.
LEMMA GotSteps ==
    ASSUME [Next]_vars
    PROVE  encoded_data_get \/ UNCHANGED got
BY DEF Next, Receiver, Capture, Encoder, Conductor, encoded_data_save, vars, encoder, video_packet_recv,
   RecvEnds, SaveDiscards, SaveChecks, SaveDone, video_recv_start, CaptureEnds, encoded_data_trigger,
   InitEncode, EncodeFrame, DeletePeerConnection, StartCapture, EndCall, StopCapture

\* Whatever the threads and the calls do, the encoder never gets a frame twice, or one
\* before another that was saved earlier, or a torn one, while no slot ran over and no
\* buffer was freed under its copy.
THEOREM Ordered == Spec => FramesInOrder
<1>1. RingInv /\ [Next]_vars => RingInv'
  BY RingInvStep
<1>2. RingInv /\ RingInv' /\ [Next]_vars => [Lossy!Next \/ overrun' \/ spoiled']_<<Content, got>>
  <2> SUFFICES ASSUME RingInv, RingInv', [Next]_vars, ~overrun', ~spoiled'
               PROVE  [Lossy!Next]_<<Content, got>>
    OBVIOUS
  <2>0. ~spoiled /\ TypeOK' /\ Threads /\ Idle /\ slot \in [Slots -> Types \cup {"empty"}]
    BY Marks DEF RingInv, TypeOK
  <2>1. CASE SaveDone
    BY <2>0, <2>1, SaveSends
  <2>2. CASE encoded_data_get
    <3>1. ~overrun
      BY <2>2 DEF encoded_data_get
    <3> QED BY <2>0, <2>2, <3>1, GetGets
  <2>3. CASE UNCHANGED ring /\ UNCHANGED got
    BY <2>3 DEF Content, num_in_data_queue, ring
  <2>4. CASE video_recv_start
    <3>1. UNCHANGED <<head, tail, got>> /\ slot' = [i \in Slots |-> "empty"]
      BY <2>4 DEF video_recv_start, encoder
    <3>2. NoFrames
      BY <2>0, <2>4 DEF video_recv_start, Threads, Idle
    <3>3. slot' = slot
      BY <2>0, <3>1, <3>2 DEF NoFrames
    <3> QED BY <2>3, <3>1, <3>3 DEF ring
  <2>5. CASE (CaptureEnds \/ DeletePeerConnection) /\ UNCHANGED got
    BY <2>0, <2>3, <2>5, StopsWhere, StopLoses
  <2> QED BY <2>1, <2>2, <2>3, <2>4, <2>5, OtherSteps, GotSteps
<1> QED BY <1>1, <1>2, InitRingInv, PTL DEF Spec, FramesInOrder
=============================================================================
