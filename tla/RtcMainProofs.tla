--------------------------- MODULE RtcMainProofs ---------------------------
(***************************************************************************)
(* For any queue sizes, any commands and any number of deaths, between any *)
(* two steps: a process that is started again, and left alone, goes back   *)
(* to the server chosen last, if that choice was carried out to the end;   *)
(* the variables stay within their types; and the queues between the       *)
(* processes lose messages but never reorder or repeat them.               *)
(***************************************************************************)
EXTENDS RtcMain, SequenceTheorems, TLAPS

\* The command start-up has to send first, for the choice of the last process.
Setting == IF wanted = "rtc" THEN "RTC_SERVER_SET" ELSE "MESH_SERVER_SET"
Own == {Setting, "LOGIN"}

\* The contents of the file that go with a server.
FileOf(s) == IF s = "rtc" THEN "rtc" ELSE ""

\* The file is what the process before was told.
Remembered == wanted # "switched" => file = FileOf(wanted)

\* The setting is the next command to be fetched.
SettingNext ==
    \/ ring # <<>> /\ Head(ring) = Setting
    \/ ring = <<>> /\ hand = Setting
    \/ ring = <<>> /\ hand = "none" /\ sysv # <<>> /\ Head(sysv) = Setting

NothingSent == sysv = <<>> /\ ring = <<>> /\ hand = "none" /\ slot = "none" /\ doing = "none"

Queues ==
    /\ sysv \in Seq(Messages) /\ ring \in Seq(Messages) /\ list \in Seq(Messages)
    /\ {hand, slot, doing} \subseteq Messages \cup {"none"}

Values ==
    /\ file \in Addresses \cup {""} /\ args \in Addresses \cup {""}
    /\ server \in {"none", "mesh", "rtc", "switched"}
    /\ wanted \in {"mesh", "rtc", "switched"}
    /\ cut \in BOOLEAN /\ whole \in BOOLEAN
    /\ step \in {"idle", "check", "open", "write", "tell"}

\* What a process that is down, or starts, has not yet, and what CfgCmdProc saves.
Stages ==
    /\ main = "down" => ring = <<>> /\ hand = "none" /\ server = "none" /\ ~cut
    /\ main \in {"down", "restore"} => list = <<>>
    /\ slot # "none" \/ step # "idle" => main = "loop"
    /\ step = "idle" <=> doing = "none"
    /\ step \in {"open", "write", "tell"} => doing \in RtcChoices \cup {"MESH_SERVER_SET"}
    /\ step \in {"open", "write", "tell"} /\ doing = "MESH_SERVER_SET" => server = "mesh"

\* Between choices, the file has the one of this process, or else that of the last.
FileKept ==
    step \in {"idle", "check"} /\ ~cut =>
        /\ server \in {"mesh", "rtc"} => file = FileOf(server)
        /\ server = "none" /\ whole => Remembered

\* In the middle of a choice with which nothing went wrong so far.
FileChanging ==
    step \in {"open", "write", "tell"} /\ ~cut =>
        /\ doing = "SWITCH_TO_RTC_SERVER" => args = "rtc"
        /\ step = "write" => file = ""
        /\ step = "tell" => file = IF doing = "MESH_SERVER_SET" THEN "" ELSE args

\* The start is left alone, and finds a choice it can restore.
Kept == alone /\ whole /\ wanted # "switched" /\ main # "down"

\* As long as nobody else sends, the setting comes first and is not lost.
Undisturbed ==
    Kept =>
        /\ list = <<>>
        /\ sysv \in Seq(Own) /\ ring \in Seq(Own)
        /\ {hand, slot, doing} \subseteq Own \cup {"none"}
        /\ server \in {"none", wanted}
        /\ main \in {"restore", "drain", "local server", "remote server"} =>
               NothingSent /\ Remembered
        /\ main \in {"drain", "remote server"} => wanted = "rtc"
        /\ main = "local server" => wanted = "mesh"
        /\ slot = Setting \/ doing = Setting => args = AddressOf(Setting)
        /\ main \in {"local login", "remote login", "resend", "loop"} =>
               server = wanted \/ slot = Setting \/ doing = Setting \/ SettingNext

RestoreInv == Queues /\ Values /\ Stages /\ FileKept /\ FileChanging /\ Undisturbed

USE MessagesAssumption, MainMessagesAssumption, RingNumAssumption, SysvNumAssumption

(***************************************************************************)
(* The three RTC_SERVER_SET commands, and the addresses of a start's own.  *)
(***************************************************************************)
LEMMA Commands ==
    /\ RtcServerSet["rtc"] = "RTC_SERVER_SET"
    /\ RtcServerSets = {"RTC_SERVER_SET", "RTC_SERVER_SET name", "RTC_SERVER_SET mesh"}
    /\ \A a \in Addresses : RtcServerSet[a] \in Messages
    /\ AddressOf("RTC_SERVER_SET") = "rtc"
    /\ AddressOf("MESH_SERVER_SET") = "mesh"
    /\ AddressOf("LOGIN") = ""
    /\ \A m \in Messages : AddressOf(m) \in Addresses \cup {""}
<1>1. /\ RtcServerSet["rtc"] = "RTC_SERVER_SET"
      /\ RtcServerSet["name"] = "RTC_SERVER_SET name"
      /\ RtcServerSet["mesh"] = "RTC_SERVER_SET mesh"
  BY DEF RtcServerSet
<1>2. RtcServerSets = {"RTC_SERVER_SET", "RTC_SERVER_SET name", "RTC_SERVER_SET mesh"}
  BY <1>1 DEF RtcServerSets, Addresses
<1>3. \A a \in Addresses : RtcServerSet[a] \in Messages
  BY DEF RtcServerSets
<1> QED BY <1>1, <1>2, <1>3 DEF AddressOf, MeshChoices, Addresses

(***************************************************************************)
(* What a send does to the System V queue: the first message stays first.  *)
(***************************************************************************)
LEMMA SendKeepsOrder ==
    ASSUME NEW S, NEW m \in S, sysv \in Seq(S), ipc_msg_send(m)
    PROVE  /\ sysv' \in Seq(S)
           /\ sysv # <<>> => sysv' # <<>> /\ Head(sysv') = Head(sysv)
           /\ sysv = <<>> => sysv' # <<>> /\ Head(sysv') = m
<1>1. Append(sysv, m) \in Seq(S) /\ Append(sysv, m) # <<>>
  BY AppendProperties
<1>2. Head(Append(sysv, m)) = IF sysv = <<>> THEN m ELSE Head(sysv)
  BY HeadTailAppend
<1>3. sysv = <<>> => Len(sysv) = 0
  BY EmptySeq
<1> QED BY <1>1, <1>2, <1>3 DEF ipc_msg_send

(***************************************************************************)
(* The same for the ring: what is put there when it has entries changes    *)
(* nothing about the first.                                                *)
(***************************************************************************)
LEMMA PutKeepsOrder ==
    ASSUME NEW S, hand \in S, ring \in Seq(S), ThreadPut
    PROVE  /\ ring' \in Seq(S)
           /\ ring # <<>> => ring' # <<>> /\ Head(ring') = Head(ring)
           /\ ring = <<>> => ring' # <<>> /\ Head(ring') = hand
<1>1. Append(ring, hand) \in Seq(S) /\ Append(ring, hand) # <<>>
  BY AppendProperties
<1>2. Head(Append(ring, hand)) = IF ring = <<>> THEN hand ELSE Head(ring)
  BY HeadTailAppend
<1>3. ring = <<>> => Len(ring) = 0
  BY EmptySeq
<1> QED BY <1>1, <1>2, <1>3 DEF ThreadPut

LEMMA InitRestoreInv == Init => RestoreInv
<1>1. <<>> \in Seq(Messages)
  BY EmptySeq
<1> QED
  BY <1>1 DEF Init, IpcInit, RestoreInv, Queues, Values, Addresses, Stages, FileKept, FileChanging,
              FileOf, Remembered, Undisturbed, Kept

(***************************************************************************)
(* Start-up keeps the invariant: up to the message with the setting it has *)
(* sent nothing, and the file is as it was.                                *)
(***************************************************************************)
LEMMA StartUpKeepsInv == RestoreInv /\ StartUp => RestoreInv'
<1> SUFFICES ASSUME RestoreInv, StartUp PROVE RestoreInv'
  OBVIOUS
<1> USE DEF RestoreInv, choice, history, rtc, ipc, process
<1>1. CASE Start
  <2>1. /\ UNCHANGED <<ipc, list, rtc, choice, wanted, whole>>
        /\ main = "down" /\ main' = "restore"
    BY <1>1 DEF Start
  <2>2. Queues' /\ Values' /\ Stages' /\ FileKept' /\ FileChanging'
    BY <2>1 DEF Queues, Values, Stages, FileKept, FileChanging, Remembered, FileOf
  <2>3. /\ ring = <<>> /\ hand = "none" /\ slot = "none" /\ doing = "none" /\ step = "idle"
        /\ server = "none" /\ list = <<>> /\ ~cut
    BY <2>1 DEF Stages
  <2>4. <<>> \in Seq(Own)
    BY EmptySeq
  <2>5. Undisturbed'
    <3>1. alone' => sysv = <<>>
      BY <1>1 DEF Start
    <3>2. whole => Remembered
      BY <2>3 DEF FileKept
    <3>3. Setting' = Setting /\ Own' = Own /\ (Remembered => Remembered')
      BY <2>1 DEF Setting, Own, Remembered
    <3> QED BY <2>1, <2>3, <2>4, <3>1, <3>2, <3>3 DEF Undisturbed, Kept, NothingSent, Setting, Own
  <2> QED BY <2>2, <2>5
<1>2. CASE RestorePrevStat
  <2>1. UNCHANGED <<ipc, list, rtc, choice, history>> /\ main = "restore"
    BY <1>2 DEF RestorePrevStat
  <2>2. main' = IF file # "" THEN "drain" ELSE "local server"
    BY <1>2 DEF RestorePrevStat
  <2>3. Queues' /\ Values' /\ Stages' /\ FileKept' /\ FileChanging'
    BY <2>1, <2>2 DEF Queues, Values, Stages, FileKept, FileChanging, Remembered, FileOf
  <2>4. Undisturbed'
    BY <2>1, <2>2 DEF Undisturbed, Kept, Remembered, FileOf, NothingSent, Own, Setting, Values
  <2> QED BY <2>3, <2>4
<1>3. CASE Drain
  <2>1. UNCHANGED <<rtc, choice, history>> /\ main = "drain"
    BY <1>3 DEF Drain
  <2>2. CASE ipc_msg_get /\ list' = Append(list, fetched') /\ main' = main
    <3>1. ring # <<>> /\ ring' = Tail(ring) /\ fetched' = Head(ring) /\ UNCHANGED <<sysv, hand>>
      BY <2>2 DEF ipc_msg_get
    <3>2. ring' \in Seq(Messages) /\ fetched' \in Messages
      BY <3>1, HeadTailProperties DEF Queues
    <3>3. list' \in Seq(Messages)
      BY <2>2, <3>2, AppendProperties DEF Queues
    <3>4. Queues' /\ Values' /\ Stages' /\ FileKept' /\ FileChanging'
      BY <2>1, <2>2, <3>1, <3>2, <3>3
         DEF Queues, Values, Stages, FileKept, FileChanging, Remembered, FileOf
    <3>5. ~Kept
      BY <2>1, <3>1 DEF Undisturbed, NothingSent
    <3> QED BY <2>1, <2>2, <3>4, <3>5 DEF Undisturbed, Kept
  <2>3. CASE UNCHANGED <<ipc, list>> /\ main' = "remote server"
    <3>1. Queues' /\ Values' /\ Stages' /\ FileKept' /\ FileChanging'
      BY <2>1, <2>3 DEF Queues, Values, Stages, FileKept, FileChanging, Remembered, FileOf
    <3>2. Undisturbed'
      BY <2>1, <2>3 DEF Undisturbed, Kept, Remembered, NothingSent, Own, Setting
    <3> QED BY <3>1, <3>2
  <2> QED BY <1>3, <2>2, <2>3 DEF Drain
<1>4. ASSUME NEW m \in Messages, NEW at, NEW next,
             \/ at = "local server" /\ next = "local login" /\ m = "MESH_SERVER_SET"
             \/ /\ at = "remote server" /\ next = "remote login"
                /\ file # "" /\ m = RtcServerSet[file],
             SendsOwn(at, m, next)
      PROVE  RestoreInv'
  <2>1. main = at /\ main' = next /\ ipc_msg_send(m) /\ UNCHANGED <<list, rtc, choice, history>>
    BY <1>4 DEF SendsOwn
  <2>2. UNCHANGED <<hand, ring>>
    BY <2>1 DEF ipc_msg_send
  <2>3. sysv' \in Seq(Messages)
    BY <2>1, SendKeepsOrder DEF Queues
  <2>4. Queues' /\ Values' /\ Stages' /\ FileKept' /\ FileChanging'
    BY <1>4, <2>1, <2>2, <2>3
       DEF Queues, Values, Stages, FileKept, FileChanging, Remembered, FileOf
  <2>5. Undisturbed'
    <3> SUFFICES ASSUME Kept PROVE Undisturbed'
      BY <1>4, <2>1 DEF Undisturbed, Kept
    <3>1. NothingSent /\ Remembered
      BY <1>4, <2>1 DEF Undisturbed
    <3>2. m = Setting /\ m \in Own
      <4>1. CASE at = "local server"
        BY <1>4, <2>1, <4>1 DEF Undisturbed, Setting, Own
      <4>2. CASE at = "remote server"
        <5>1. wanted = "rtc" /\ file = "rtc"
          BY <2>1, <3>1, <4>2 DEF Undisturbed, Kept, Remembered, FileOf
        <5> QED BY <1>4, <4>2, <5>1, Commands DEF Setting, Own
      <4> QED BY <1>4, <4>1, <4>2
    <3>3. sysv' \in Seq(Own) /\ sysv' # <<>> /\ Head(sysv') = Setting
      BY <2>1, <3>1, <3>2, SendKeepsOrder DEF Undisturbed, NothingSent
    <3>4. SettingNext'
      BY <2>1, <2>2, <3>1, <3>3 DEF SettingNext, NothingSent, Setting
    <3>5. Own' = Own /\ Setting' = Setting
      BY <2>1 DEF Own, Setting
    <3>6. main' \in {"local login", "remote login"}
      BY <1>4, <2>1
    <3> QED BY <2>1, <2>2, <3>3, <3>4, <3>5, <3>6 DEF Undisturbed, Kept
  <2> QED BY <2>4, <2>5
<1>5. ASSUME NEW at \in {"local login", "remote login"}, NEW next \in {"loop", "resend"},
             SendsOwn(at, "LOGIN", next)
      PROVE  RestoreInv'
  <2>1. main = at /\ main' = next /\ ipc_msg_send("LOGIN")
        /\ UNCHANGED <<list, rtc, choice, history>>
    BY <1>5 DEF SendsOwn
  <2>2. UNCHANGED <<hand, ring>>
    BY <2>1 DEF ipc_msg_send
  <2>3. sysv' \in Seq(Messages)
    BY <2>1, SendKeepsOrder DEF Queues
  <2>4. Queues' /\ Values' /\ Stages' /\ FileKept' /\ FileChanging'
    BY <2>1, <2>2, <2>3 DEF Queues, Values, Stages, FileKept, FileChanging, Remembered, FileOf
  <2>5. Undisturbed'
    <3> SUFFICES ASSUME Kept PROVE Undisturbed'
      BY <2>1 DEF Undisturbed, Kept
    <3>1. sysv' \in Seq(Own) /\ (sysv # <<>> => sysv' # <<>> /\ Head(sysv') = Head(sysv))
      BY <2>1, SendKeepsOrder DEF Undisturbed, Own
    <3>2. SettingNext => SettingNext'
      BY <2>1, <2>2, <3>1 DEF SettingNext, Setting
    <3>3. Own' = Own /\ Setting' = Setting
      BY <2>1 DEF Own, Setting
    <3> QED BY <2>1, <2>2, <3>1, <3>2, <3>3 DEF Undisturbed, Kept
  <2> QED BY <2>4, <2>5
<1>6. CASE Resend
  <2>1. UNCHANGED <<rtc, choice, history>> /\ main = "resend"
    BY <1>6 DEF Resend
  <2>2. CASE list # <<>> /\ list' = Tail(list) /\ main' = main
             /\ (UNCHANGED ipc \/ ipc_msg_send(Head(list)))
    <3>1. list' \in Seq(Messages) /\ Head(list) \in Messages
      BY <2>2, HeadTailProperties DEF Queues
    <3>2. sysv' \in Seq(Messages) /\ UNCHANGED <<hand, ring>>
      BY <2>2, <3>1, SendKeepsOrder DEF Queues, ipc_msg_send
    <3>3. Queues' /\ Values' /\ Stages' /\ FileKept' /\ FileChanging'
      BY <2>1, <2>2, <3>1, <3>2
         DEF Queues, Values, Stages, FileKept, FileChanging, Remembered, FileOf
    <3>4. ~Kept
      BY <2>1, <2>2 DEF Undisturbed
    <3> QED BY <2>1, <2>2, <3>3, <3>4 DEF Undisturbed, Kept
  <2>3. CASE UNCHANGED <<ipc, list>> /\ main' = "loop"
    <3>1. Queues' /\ Values' /\ Stages' /\ FileKept' /\ FileChanging'
      BY <2>1, <2>3 DEF Queues, Values, Stages, FileKept, FileChanging, Remembered, FileOf
    <3>2. SettingNext => SettingNext'
      BY <2>1, <2>3 DEF SettingNext, Setting
    <3>3. Own' = Own /\ Setting' = Setting
      BY <2>1 DEF Own, Setting
    <3>4. Undisturbed'
      BY <2>1, <2>3, <3>2, <3>3 DEF Undisturbed, Kept
    <3> QED BY <3>1, <3>4
  <2>4. list = <<>> => Len(list) = 0
    BY EmptySeq
  <2> QED BY <1>6, <2>2, <2>3, <2>4, BoundsAssumption DEF Resend
<1>7. CASE login_local_rtc_server
  BY <1>4, <1>5, <1>7 DEF login_local_rtc_server
<1>8. CASE login_remote_rtc_server
  <2>1. CASE file # "" /\ SendsOwn("remote server", RtcServerSet[file], "remote login")
    <3>1. RtcServerSet[file] \in Messages
      BY <2>1, Commands DEF Values
    <3> QED BY <1>4, <2>1, <3>1
  <2>2. CASE SendsOwn("remote login", "LOGIN", "resend")
    BY <1>5, <2>2
  <2> QED BY <1>8, <2>1, <2>2 DEF login_remote_rtc_server
<1> QED BY <1>1, <1>2, <1>3, <1>6, <1>7, <1>8 DEF StartUp

(***************************************************************************)
(* What neither changes a command nor the choices leaves the file right.   *)
(***************************************************************************)
LEMMA FilesStay ==
    ASSUME Values, Stages, FileKept, FileChanging,
           UNCHANGED <<main, list, slot, args, doing, step, file, server, cut, wanted, whole>>,
           main = "down" => ring' = <<>> /\ hand' = "none"
    PROVE  Values' /\ Stages' /\ FileKept' /\ FileChanging'
<1>1. /\ main' = main /\ list' = list /\ slot' = slot /\ args' = args /\ doing' = doing
      /\ step' = step /\ file' = file /\ server' = server /\ cut' = cut /\ wanted' = wanted
      /\ whole' = whole
  OBVIOUS
<1>b. (cut' <=> cut) /\ (whole' <=> whole)
  BY <1>1
<1>2. Values'
  BY <1>1 DEF Values
<1>3. Stages'
  BY <1>1 DEF Stages
<1>4. FileKept'
  <2>1. FileOf(server)' = FileOf(server) /\ FileOf(wanted)' = FileOf(wanted)
    BY <1>1 DEF FileOf
  <2>2. Remembered' <=> Remembered
    BY <1>1, <2>1 DEF Remembered
  <2> QED BY <1>1, <1>b, <2>1, <2>2, Zenon DEF FileKept
<1>5. FileChanging'
  BY <1>1, <1>b, Zenon DEF FileChanging
<1> QED BY <1>2, <1>3, <1>4, <1>5

(***************************************************************************)
(* The commands of CfgCmdProc keep the invariant, step by step.            *)
(***************************************************************************)
LEMMA CfgKeepsInv == RestoreInv /\ CfgCmdProc => RestoreInv'
<1> SUFFICES ASSUME RestoreInv, CfgCmdProc PROVE RestoreInv'
  OBVIOUS
<1> USE DEF RestoreInv
<1>s. /\ UNCHANGED <<sysv, hand, ring, main, list, args, wanted, whole, alone>>
      /\ Setting' = Setting /\ Own' = Own /\ SettingNext' = SettingNext
  BY DEF CfgCmdProc, CfgCmdTake, CfgCmdCheck, SaveOpen, SaveWrite, CfgCmdTell, ipc, choice, history,
         Setting, Own, SettingNext
<1>1. CASE CfgCmdTake
  <2>1. /\ step = "idle" /\ slot # "none" /\ main = "loop"
        /\ slot' = "none" /\ doing' = slot /\ step' = "check" /\ UNCHANGED choice
    BY <1>1 DEF CfgCmdTake, Stages
  <2>2. Queues' /\ Values' /\ Stages' /\ FileKept' /\ FileChanging'
    BY <1>s, <2>1
       DEF Queues, Values, Stages, FileKept, FileChanging, Remembered, FileOf, choice
  <2>3. Undisturbed'
    BY <1>s, <2>1 DEF Undisturbed, Kept, choice, Stages, Setting
  <2> QED BY <2>2, <2>3
<1>2. CASE CfgCmdCheck
  <2>1. step = "check" /\ main = "loop" /\ UNCHANGED <<slot, file>>
    BY <1>2 DEF CfgCmdCheck, Stages
  <2>2. CASE /\ \/ doing \in RtcServerSets /\ args \in {"rtc", "name"}
                \/ doing = "SWITCH_TO_RTC_SERVER" /\ args = "rtc"
             /\ step' = "open" /\ cut' = FALSE /\ UNCHANGED <<doing, server>>
    <3>1. Queues' /\ Values' /\ Stages' /\ FileKept' /\ FileChanging'
      BY <1>s, <2>1, <2>2, Commands
         DEF Queues, Values, Stages, FileKept, FileChanging, RtcChoices
    <3>2. Undisturbed'
      BY <1>s, <2>1, <2>2 DEF Undisturbed, Kept
    <3> QED BY <3>1, <3>2
  <2>3. CASE /\ doing = "MESH_SERVER_SET" /\ args = "mesh"
             /\ step' = "open" /\ cut' = FALSE /\ server' = "mesh" /\ UNCHANGED doing
    <3>1. Queues' /\ Values' /\ Stages' /\ FileKept' /\ FileChanging'
      BY <1>s, <2>1, <2>3 DEF Queues, Values, Stages, FileKept, FileChanging
    <3>2. Undisturbed'
      <4> SUFFICES ASSUME Kept PROVE Undisturbed'
        BY <1>s DEF Undisturbed, Kept
      <4>1. wanted = "mesh"
        BY <2>1, <2>3 DEF Undisturbed, Kept, Own, Setting, Values
      <4> QED BY <1>s, <2>1, <2>3, <4>1 DEF Undisturbed
    <3> QED BY <3>1, <3>2
  <2>4. CASE /\ doing = "SWITCH_TO_MESH_SERVER" /\ args = "mesh"
             /\ step' = "idle" /\ doing' = "none" /\ cut' = FALSE /\ server' = "switched"
    <3>1. Queues' /\ Values' /\ Stages' /\ FileKept' /\ FileChanging'
      BY <1>s, <2>1, <2>4 DEF Queues, Values, Stages, FileKept, FileChanging
    <3>2. Undisturbed'
      BY <1>s, <2>4 DEF Undisturbed, Kept, Own, Setting
    <3> QED BY <3>1, <3>2
  <2>5. CASE /\ doing \in RtcServerSets => args \notin {"rtc", "name"}
             /\ doing \in MeshChoices => args # "mesh"
             /\ step' = "idle" /\ doing' = "none" /\ UNCHANGED <<server, cut>>
    <3>1. Queues' /\ Values' /\ Stages' /\ FileKept' /\ FileChanging'
      BY <1>s, <2>1, <2>5
         DEF Queues, Values, Stages, FileKept, FileChanging, Remembered, FileOf
    <3>2. Undisturbed'
      <4> SUFFICES ASSUME Kept PROVE Undisturbed'
        BY <1>s DEF Undisturbed, Kept
      <4>1. doing # Setting
        <5>1. doing = Setting => args = AddressOf(Setting)
          BY DEF Undisturbed
        <5> QED BY <2>5, <5>1, Commands DEF Setting, MeshChoices
      <4> QED BY <1>s, <2>1, <2>5, <4>1 DEF Undisturbed, Setting
    <3> QED BY <3>1, <3>2
  <2> QED BY <1>2, <2>2, <2>3, <2>4, <2>5 DEF CfgCmdCheck
<1>3. CASE SaveOpen
  <2>1. step = "open" /\ main = "loop" /\ UNCHANGED <<slot, doing, server>>
    BY <1>3 DEF SaveOpen, Stages
  <2>2. \/ file' = "" /\ step' = "write" /\ UNCHANGED cut
        \/ step' = "tell" /\ cut' = TRUE /\ UNCHANGED file
    BY <1>3 DEF SaveOpen
  <2>3. Queues' /\ Values' /\ Stages' /\ FileKept' /\ FileChanging'
    BY <1>s, <2>1, <2>2 DEF Queues, Values, Stages, FileKept, FileChanging
  <2>4. Undisturbed'
    BY <1>s, <2>1 DEF Undisturbed, Kept
  <2> QED BY <2>3, <2>4
<1>4. CASE SaveWrite
  <2>1. step = "write" /\ step' = "tell" /\ main = "loop" /\ UNCHANGED <<slot, doing, server>>
    BY <1>4 DEF SaveWrite, Stages
  <2>2. \/ file' = (IF doing = "MESH_SERVER_SET" THEN "" ELSE args) /\ UNCHANGED cut
        \/ cut' = TRUE /\ UNCHANGED file
    BY <1>4 DEF SaveWrite
  <2>3. Queues' /\ Values' /\ Stages' /\ FileKept' /\ FileChanging'
    BY <1>s, <2>1, <2>2 DEF Queues, Values, Stages, FileKept, FileChanging
  <2>4. Undisturbed'
    BY <1>s, <2>1 DEF Undisturbed, Kept
  <2> QED BY <2>3, <2>4
<1>5. CASE CfgCmdTell
  <2>1. step = "tell" /\ step' = "idle" /\ doing' = "none" /\ main = "loop" /\ UNCHANGED <<slot, file>>
    BY <1>5 DEF CfgCmdTell, Stages
  <2>2. doing \in RtcChoices \cup {"MESH_SERVER_SET"}
    BY <2>1 DEF Stages
  <2>3. CASE doing = "MESH_SERVER_SET" /\ UNCHANGED <<server, cut>>
    <3>1. Queues' /\ Values' /\ Stages' /\ FileKept' /\ FileChanging'
      BY <1>s, <2>1, <2>3 DEF Queues, Values, Stages, FileKept, FileChanging, FileOf
    <3>2. Undisturbed'
      <4> SUFFICES ASSUME Kept PROVE Undisturbed'
        BY <1>s DEF Undisturbed, Kept
      <4>1. server = "mesh"
        BY <2>1, <2>3 DEF Stages
      <4>2. wanted = "mesh" /\ "RTC_SERVER_SET" # doing
        BY <2>3 DEF Undisturbed, Own, Setting, Values, Kept
      <4>3. Setting # "none"
        BY DEF Setting
      <4> QED BY <1>s, <2>1, <2>3, <4>1, <4>2, <4>3 DEF Undisturbed
    <3> QED BY <3>1, <3>2
  <2>4. CASE doing \in RtcServerSets /\ args # "rtc" /\ cut' = TRUE /\ UNCHANGED server
    <3>1. Queues' /\ Values' /\ Stages' /\ FileKept' /\ FileChanging'
      BY <1>s, <2>1, <2>4 DEF Queues, Values, Stages, FileKept, FileChanging
    <3>2. Undisturbed'
      <4> SUFFICES ASSUME Kept PROVE Undisturbed'
        BY <1>s DEF Undisturbed, Kept
      <4>1. doing # Setting
        <5>1. doing = Setting => args = AddressOf(Setting)
          BY DEF Undisturbed
        <5> QED BY <2>4, <5>1, Commands DEF Setting
      <4> QED BY <1>s, <2>1, <2>4, <4>1 DEF Undisturbed, Setting
    <3> QED BY <3>1, <3>2
  <2>5. CASE /\ doing \in RtcServerSets => args = "rtc"
             /\ doing # "MESH_SERVER_SET" /\ server' = "rtc" /\ UNCHANGED cut
    <3>1. ~cut => file = "rtc"
      BY <2>1, <2>2, <2>5 DEF FileChanging, RtcChoices
    <3>2. Queues' /\ Values' /\ Stages' /\ FileKept' /\ FileChanging'
      BY <1>s, <2>1, <2>5, <3>1 DEF Queues, Values, Stages, FileKept, FileChanging, FileOf
    <3>3. Undisturbed'
      <4> SUFFICES ASSUME Kept PROVE Undisturbed'
        BY <1>s DEF Undisturbed, Kept
      <4>1. wanted = "rtc"
        BY <2>2, <2>5, Commands DEF Undisturbed, Own, Setting, RtcChoices
      <4>2. server' = wanted' /\ wanted' = wanted /\ main' = "loop"
        BY <1>s, <2>1, <2>5, <4>1
      <4>3. Setting # "none"
        BY DEF Setting
      <4> QED BY <1>s, <2>1, <4>2, <4>3 DEF Undisturbed
    <3> QED BY <3>2, <3>3
  <2> QED BY <1>5, <2>3, <2>4, <2>5 DEF CfgCmdTell
<1> QED BY <1>1, <1>2, <1>3, <1>4, <1>5 DEF CfgCmdProc

(***************************************************************************)
(* The loop and the threads keep the invariant, and so does a death.       *)
(***************************************************************************)
LEMMA LoopKeepsInv == RestoreInv /\ (FetchCmd \/ IpcThread \/ Crash \/ UiSends) => RestoreInv'
<1> SUFFICES ASSUME RestoreInv, FetchCmd \/ IpcThread \/ Crash \/ UiSends
             PROVE  RestoreInv'
  OBVIOUS
<1> USE DEF RestoreInv, choice, history, rtc, ipc, process
<1>1. CASE FetchCmd
  <2>1. main = "loop" /\ slot = "none" /\ ring # <<>> /\ ring' = Tail(ring) /\ slot' = Head(ring)
    BY <1>1 DEF FetchCmd, ipc_msg_get
  <2>2. UNCHANGED <<sysv, hand, main, list, doing, step, file, server, history>>
    BY <1>1 DEF FetchCmd, ipc_msg_get
  <2>3. ring' \in Seq(Messages) /\ slot' \in Messages
    BY <2>1, HeadTailProperties DEF Queues
  <2>4. \/ /\ AddressOf(slot') # "" /\ args' = AddressOf(slot')
           /\ cut' = (cut \/ step \in {"open", "write", "tell"})
        \/ AddressOf(slot') = "" /\ UNCHANGED <<args, cut>>
    BY <1>1 DEF FetchCmd, ipc_msg_get
  <2>5. args' \in Addresses \cup {""}
    BY <2>3, <2>4, Commands DEF Values
  <2>6. Queues' /\ Values' /\ Stages' /\ FileKept' /\ FileChanging'
    <3>1. /\ main' = main /\ list' = list /\ doing' = doing /\ step' = step /\ file' = file
          /\ server' = server /\ wanted' = wanted /\ whole' = whole /\ sysv' = sysv /\ hand' = hand
      BY <2>2
    <3>2. Queues' /\ cut' \in BOOLEAN
      BY <2>2, <2>3, <2>4 DEF Queues, Values
    <3>3. Values'
      BY <2>5, <3>1, <3>2 DEF Values
    <3>4. Stages'
      BY <2>1, <3>1 DEF Stages
    <3>5. ~cut' => ~cut /\ (step \in {"open", "write", "tell"} => args' = args)
      BY <2>4
    <3>6. FileKept'
      <4>1. FileOf(server)' = FileOf(server) /\ FileOf(wanted)' = FileOf(wanted)
        BY <3>1 DEF FileOf
      <4>2. Remembered' <=> Remembered
        BY <3>1, <4>1 DEF Remembered
      <4>3. whole' <=> whole
        BY <3>1
      <4> QED BY <3>1, <3>5, <4>1, <4>2, <4>3, Zenon DEF FileKept
    <3>7. FileChanging'
      BY <3>1, <3>5, Zenon DEF FileChanging
    <3> QED BY <3>2, <3>3, <3>4, <3>6, <3>7
  <2>7. Undisturbed'
    <3> SUFFICES ASSUME Kept PROVE Undisturbed'
      BY <2>2 DEF Undisturbed, Kept
    <3>1. ring' \in Seq(Own) /\ slot' \in Own
      BY <2>1, HeadTailProperties DEF Undisturbed
    <3>2. server = wanted \/ doing = Setting \/ slot' = Setting
      BY <2>1 DEF Undisturbed, SettingNext, Setting
    <3>3. Own' = Own /\ Setting' = Setting
      BY <2>2 DEF Own, Setting
    <3>4. slot' = Setting \/ doing = Setting => args' = AddressOf(Setting)
      BY <2>1, <2>4, <3>1, Commands DEF Undisturbed, Own, Setting
    <3> QED BY <2>1, <2>2, <3>1, <3>2, <3>3, <3>4 DEF Undisturbed
  <2> QED BY <2>6, <2>7
<1>3. CASE IpcThread
  <2>1. main # "down" /\ UNCHANGED <<main, list, rtc, choice, history>>
    BY <1>3 DEF IpcThread
  <2>s. UNCHANGED <<main, list, slot, args, doing, step, file, server, cut, wanted, whole, alone>>
    BY <2>1
  <2>2. CASE ThreadReceive
    <3>1. hand = "none" /\ sysv # <<>> /\ hand' = Head(sysv) /\ sysv' = Tail(sysv) /\ ring' = ring
      BY <2>2 DEF ThreadReceive
    <3>2. sysv' \in Seq(Messages) /\ hand' \in Messages
      BY <3>1, HeadTailProperties DEF Queues
    <3>3. Queues' /\ Values' /\ Stages' /\ FileKept' /\ FileChanging'
      BY <2>1, <2>s, <3>1, <3>2, FilesStay DEF Queues
    <3>4. Undisturbed'
      <4> SUFFICES ASSUME Kept PROVE Undisturbed'
        BY <2>1 DEF Undisturbed, Kept
      <4>1. sysv' \in Seq(Own) /\ hand' \in Own
        BY <2>1, <3>1, HeadTailProperties DEF Undisturbed
      <4>2. Own' = Own /\ Setting' = Setting
        BY <2>1 DEF Own, Setting
      <4>3. SettingNext => SettingNext'
        BY <3>1, <4>2 DEF SettingNext, Setting
      <4>4. ~NothingSent
        BY <3>1 DEF NothingSent
      <4> QED BY <2>1, <3>1, <4>1, <4>2, <4>3, <4>4 DEF Undisturbed
    <3> QED BY <3>3, <3>4
  <2>3. CASE ThreadPut
    <3>1. hand # "none" /\ hand' = "none" /\ sysv' = sysv
      BY <2>3 DEF ThreadPut
    <3>2. ring' \in Seq(Messages)
      BY <2>3, <3>1, PutKeepsOrder DEF Queues
    <3>3. Queues' /\ Values' /\ Stages' /\ FileKept' /\ FileChanging'
      BY <2>1, <2>s, <3>1, <3>2, FilesStay DEF Queues
    <3>4. Undisturbed'
      <4> SUFFICES ASSUME Kept PROVE Undisturbed'
        BY <2>1 DEF Undisturbed, Kept
      <4>1. /\ ring' \in Seq(Own)
            /\ ring # <<>> => ring' # <<>> /\ Head(ring') = Head(ring)
            /\ ring = <<>> => ring' # <<>> /\ Head(ring') = hand
        BY <2>1, <2>3, <3>1, PutKeepsOrder DEF Undisturbed
      <4>2. Own' = Own /\ Setting' = Setting
        BY <2>1 DEF Own, Setting
      <4>3. SettingNext => SettingNext'
        BY <3>1, <4>1, <4>2 DEF SettingNext
      <4>4. ~NothingSent
        BY <3>1 DEF NothingSent
      <4> QED BY <2>1, <3>1, <4>1, <4>2, <4>3, <4>4 DEF Undisturbed
    <3> QED BY <3>3, <3>4
  <2> QED BY <1>3, <2>2, <2>3 DEF IpcThread
<1>4. CASE Crash
  <2>1. /\ main' = "down" /\ list' = <<>> /\ slot' = "none" /\ args' = "" /\ doing' = "none"
        /\ step' = "idle" /\ server' = "none" /\ cut' = FALSE
        /\ hand' = "none" /\ ring' = <<>> /\ UNCHANGED <<sysv, file>>
        /\ wanted' = IF server = "none" THEN wanted ELSE server
        /\ whole' = (~cut /\ step \in {"idle", "check"} /\ (server = "none" => whole))
    BY <1>4 DEF Crash, IpcRestart
  <2>2. <<>> \in Seq(Messages)
    BY EmptySeq
  <2>3. Queues' /\ Values' /\ Stages' /\ FileChanging'
    BY <2>1, <2>2 DEF Queues, Values, Stages, FileChanging
  <2>4. FileKept'
    BY <2>1 DEF FileKept, Remembered, FileOf, Values
  <2>5. Undisturbed'
    BY <2>1 DEF Undisturbed, Kept
  <2> QED BY <2>3, <2>4, <2>5
<1>5. CASE UiSends
  <2>1. alone' = FALSE /\ UNCHANGED <<main, list, rtc, choice, wanted, whole>>
    BY <1>5 DEF UiSends
  <2>2. PICK m \in UiCmds \cap faults : ipc_msg_send(m)
    BY <1>5 DEF UiSends
  <2>3. sysv' \in Seq(Messages) /\ UNCHANGED <<hand, ring>>
    BY <2>2, SendKeepsOrder, UiCmdsAssumption DEF Queues, ipc_msg_send
  <2>4. UNCHANGED <<main, list, slot, args, doing, step, file, server, cut, wanted, whole>>
    BY <2>1
  <2>5. Queues' /\ Values' /\ Stages' /\ FileKept' /\ FileChanging'
    <3>1. main = "down" => ring' = <<>> /\ hand' = "none"
      BY <2>3 DEF Stages
    <3> QED BY <2>3, <2>4, <3>1, FilesStay DEF Queues
  <2>6. Undisturbed'
    BY <2>1 DEF Undisturbed, Kept
  <2> QED BY <2>5, <2>6
<1> QED BY <1>1, <1>3, <1>4, <1>5

(***************************************************************************)
(* Neither does anything else, or nothing, disturb it.                     *)
(***************************************************************************)
LEMMA OthersKeepInv ==
    ASSUME RestoreInv, UNCHANGED <<ipc, process, choice, history>>
    PROVE  RestoreInv'
<1>1. UNCHANGED <<main, list, slot, args, doing, step, file, server, cut, wanted, whole>>
  BY DEF process, rtc, choice, history
<1>2. UNCHANGED <<sysv, hand, ring, alone>>
  BY DEF ipc, history
<1>3. Queues' /\ Values' /\ Stages' /\ FileKept' /\ FileChanging'
  <2>1. main = "down" => ring' = <<>> /\ hand' = "none"
    BY <1>2 DEF RestoreInv, Stages
  <2> QED BY <1>1, <1>2, <2>1, FilesStay DEF RestoreInv, Queues
<1>4. Undisturbed'
  <2> SUFFICES ASSUME Kept PROVE Undisturbed'
    BY <1>1, <1>2 DEF Undisturbed, Kept
  <2>1. Setting' = Setting /\ Own' = Own
    BY <1>1 DEF Setting, Own
  <2>2. NothingSent' = NothingSent /\ SettingNext' = SettingNext
    BY <1>1, <1>2, <2>1 DEF NothingSent, SettingNext
  <2>3. Remembered' = Remembered
    BY <1>1 DEF Remembered, FileOf
  <2> QED BY <1>1, <1>2, <2>1, <2>2, <2>3 DEF RestoreInv, Undisturbed
<1> QED BY <1>3, <1>4 DEF RestoreInv

LEMMA NextKeepsRestoreInv == RestoreInv /\ [Next]_vars => RestoreInv'
<1> SUFFICES ASSUME RestoreInv, [Next]_vars PROVE RestoreInv'
  OBVIOUS
<1>1. CASE StartUp
  BY <1>1, StartUpKeepsInv
<1>2. CASE FetchCmd \/ IpcThread \/ Crash \/ UiSends
  BY <1>2, LoopKeepsInv
<1>3. CASE CfgCmdProc
  BY <1>3, CfgKeepsInv
<1>4. CASE CheckAv
  BY <1>4, OthersKeepInv DEF CheckAv
<1>5. CASE AvSteps
  BY <1>5, OthersKeepInv DEF AvSteps
<1>6. CASE UNCHANGED vars
  BY <1>6, OthersKeepInv DEF vars
<1> QED BY <1>1, <1>2, <1>3, <1>4, <1>5, <1>6 DEF Next

LEMMA SettledMeansServer == RestoreInv => RestoresChoice
<1> SUFFICES ASSUME RestoreInv, alone, Settled, whole, wanted # "switched" PROVE server = wanted
  BY DEF RestoresChoice
<1> USE DEF RestoreInv
<1>1. main = "loop" /\ slot = "none" /\ doing = "none" /\ UnderWay = <<>>
  BY DEF Settled, Stages
<1> DEFINE held == IF hand = "none" THEN <<>> ELSE <<hand>>
<1>2. ring \in Seq(Messages) /\ sysv \in Seq(Messages) /\ held \in Seq(Messages)
  BY EmptySeq DEF Queues
<1>3. ring = <<>> /\ sysv = <<>> /\ held = <<>>
  <2>1. UnderWay = ring \o held \o sysv
    BY DEF UnderWay
  <2>2. ring \o held \in Seq(Messages)
    BY <1>2, ConcatProperties
  <2>3. ring \o held = <<>> /\ sysv = <<>>
    BY <1>1, <1>2, <2>1, <2>2, ConcatEqualIffEmpty, SMTT(30)
  <2> QED BY <1>2, <2>3, ConcatEqualIffEmpty
<1>4. ~SettingNext /\ slot # Setting /\ doing # Setting
  <2>1. hand = "none"
    BY <1>3
  <2> QED BY <1>1, <1>3, <2>1 DEF SettingNext, Setting
<1> QED BY <1>1, <1>4 DEF Undisturbed, Kept

(***************************************************************************)
(* A process that is started again, and left alone, goes back to the       *)
(* server chosen last, provided that choice was told and saved to the end, *)
(* whatever queue sizes, and wherever processes died since.                *)
(***************************************************************************)
THEOREM RestartRestoresChoice == Spec => []RestoresChoice
<1>1. Init => RestoreInv
  BY InitRestoreInv
<1>2. RestoreInv /\ [Next]_vars => RestoreInv'
  BY NextKeepsRestoreInv
<1>3. RestoreInv => RestoresChoice
  BY SettledMeansServer
<1> QED BY <1>1, <1>2, <1>3, PTL DEF Spec

-----------------------------------------------------------------------------
(* The types.                                                                *)

\* What stays within its type: TypeOK, the queues by Queues and the rest by Values.
Bounds == Len(sysv) <= SysvNum /\ Len(ring) <= RingNum - 1 /\ Len(list) <= MaxDrain

TypeInv ==
    /\ RestoreInv
    /\ Bounds
    /\ AvTypeOK
    /\ fetched \in Messages \cup {"none"}
    /\ alone \in BOOLEAN
    /\ main \in {"down", "restore", "drain", "local server", "local login", "remote server",
                 "remote login", "resend", "loop"}
    /\ main \notin {"drain", "remote server", "remote login", "resend"} => list = <<>>

\* A bounded sequence is a sequence that is not too long.
LEMMA BoundedList ==
    ASSUME NEW S, NEW n \in Nat, NEW s \in Seq(S), Len(s) <= n
    PROVE  s \in BoundedSeq(S, n)
<1>1. Len(s) \in 0 .. n /\ s \in [1 .. Len(s) -> S]
  BY LenProperties
<1> QED BY <1>1 DEF BoundedSeq, SeqOf

\* The invariant says all that TypeOK does.
LEMMA InvTypeOK == TypeInv => TypeOK
<1> SUFFICES ASSUME TypeInv PROVE TypeOK
  OBVIOUS
<1>1. list \in BoundedSeq(Messages, MaxDrain)
  BY BoundsAssumption, BoundedList DEF TypeInv, Bounds, RestoreInv, Queues
<1>2. IpcTypeOK
  BY DEF TypeInv, Bounds, RestoreInv, Queues, IpcTypeOK
<1>3. {slot, doing} \subseteq Messages \cup {"none"} /\ {cut, whole, alone} \subseteq BOOLEAN
  BY DEF TypeInv, RestoreInv, Queues, Values
<1>4. /\ {server, wanted} \subseteq {"none", "mesh", "rtc", "switched"}
      /\ {args, file} \subseteq Addresses \cup {""}
      /\ step \in {"idle", "check", "open", "write", "tell"}
  BY DEF TypeInv, RestoreInv, Values
<1> QED BY <1>1, <1>2, <1>3, <1>4 DEF TypeInv, TypeOK

\* Every step of the link to the AV module keeps its types.
LEMMA AvStepKeepsType ==
    ASSUME AvTypeOK, av_module_conn_check \/ AvRestart \/ AvModule \/ UNCHANGED av
    PROVE  AvTypeOK'
<1> USE DEF AvTypeOK, link, module, av
<1>1. CASE HelloFails
  BY <1>1 DEF HelloFails, StatusDown
<1>2. CASE HelloWrongSn
  BY <1>2 DEF HelloWrongSn, StatusDown
<1>3. CASE HelloConnected
  BY <1>3 DEF HelloConnected, HelloAnswered
<1>4. CASE AvReboot
  BY <1>4 DEF AvReboot, HelloAnswered
<1>5. CASE AvConfigure
  <2>1. av_cfg' \in {av_cfg, TRUE} /\ unseen' \in {unseen, TRUE}
    BY <1>5 DEF AvConfigure
  <2>2. av_cfg' \in BOOLEAN /\ unseen' \in BOOLEAN
    BY <2>1
  <2>3. av_status' = 1 /\ av_lost' = 0 /\ sn' = "last" /\ UNCHANGED <<av_up, av_ip, av_reboot, calm>>
    BY <1>5 DEF AvConfigure, HelloAnswered
  <2> QED BY <2>2, <2>3
<1>6. CASE AvRestart
  BY <1>6 DEF AvRestart
<1>7. CASE AvStops
  BY <1>7 DEF AvStops
<1>8. CASE AvStarts
  BY <1>8 DEF AvStarts
<1>9. CASE AvCalms
  BY <1>9 DEF AvCalms
<1> QED BY <1>1, <1>2, <1>3, <1>4, <1>5, <1>6, <1>7, <1>8, <1>9 DEF av_module_conn_check, AvModule

\* The queues keep to their sizes, and what is fetched is a message.
LEMMA QueueStepKeepsBounds ==
    ASSUME Queues, Len(sysv) <= SysvNum, Len(ring) <= RingNum - 1,
           fetched \in Messages \cup {"none"},
           \/ \E m \in Messages : ipc_msg_send(m)
           \/ ThreadReceive \/ ThreadPut \/ ipc_msg_get \/ IpcRestart
           \/ UNCHANGED ipc
    PROVE  /\ Len(sysv') <= SysvNum /\ Len(ring') <= RingNum - 1
           /\ fetched' \in Messages \cup {"none"}
<1> USE DEF Queues
<1>0. Len(sysv) \in Nat /\ Len(ring) \in Nat
  BY LenProperties
<1>1. ASSUME NEW m \in Messages, ipc_msg_send(m)
      PROVE  Len(sysv') <= SysvNum /\ UNCHANGED <<ring, fetched>>
  <2>1. Len(Append(sysv, m)) = Len(sysv) + 1
    BY AppendProperties
  <2> QED BY <1>0, <1>1, <2>1 DEF ipc_msg_send
<1>2. CASE ThreadReceive
  <2>1. Len(Tail(sysv)) = Len(sysv) - 1
    BY <1>2, HeadTailProperties DEF ThreadReceive
  <2> QED BY <1>0, <1>2, <2>1 DEF ThreadReceive
<1>3. CASE ThreadPut
  <2>1. Len(Append(ring, hand)) = Len(ring) + 1
    BY <1>3, AppendProperties DEF ThreadPut
  <2> QED BY <1>0, <1>3, <2>1 DEF ThreadPut
<1>4. CASE ipc_msg_get
  <2>1. Len(Tail(ring)) = Len(ring) - 1 /\ Head(ring) \in Messages
    BY <1>4, HeadTailProperties DEF ipc_msg_get
  <2> QED BY <1>0, <1>4, <2>1 DEF ipc_msg_get
<1>5. CASE IpcRestart
  <2>1. Len(ring') = 0
    BY <1>5, EmptySeq DEF IpcRestart
  <2> QED BY <1>5, <2>1 DEF IpcRestart
<1>6. CASE UNCHANGED ipc
  BY <1>6 DEF ipc
<1> QED BY <1>1, <1>2, <1>3, <1>4, <1>5, <1>6

\* What a step does to the queues is a step of the queues.
LEMMA IpcSteps ==
    ASSUME Queues, Values, [Next]_vars
    PROVE  \/ \E m \in Messages : ipc_msg_send(m)
           \/ ThreadReceive \/ ThreadPut \/ ipc_msg_get \/ (IpcRestart /\ Crash)
           \/ UNCHANGED ipc
<1>1. CASE Start \/ RestorePrevStat \/ CheckAv \/ CfgCmdProc \/ AvSteps \/ UNCHANGED vars
  BY <1>1 DEF Start, RestorePrevStat, CheckAv, CfgCmdProc, CfgCmdTake, CfgCmdCheck, SaveOpen,
              SaveWrite, CfgCmdTell, AvSteps, vars
<1>2. CASE Drain
  BY <1>2 DEF Drain
<1>3. CASE login_local_rtc_server \/ login_remote_rtc_server
  <2>1. RtcServerSet[file] \in Messages \/ file = ""
    BY Commands DEF Values
  <2> QED BY <1>3, <2>1 DEF login_local_rtc_server, login_remote_rtc_server, SendsOwn
<1>4. CASE Resend
  <2>1. list # <<>> => Head(list) \in Messages
    BY HeadTailProperties DEF Queues
  <2>2. list = <<>> => Len(list) = 0
    BY EmptySeq
  <2> QED BY <1>4, <2>1, <2>2, BoundsAssumption DEF Resend
<1>5. CASE FetchCmd
  BY <1>5 DEF FetchCmd
<1>6. CASE IpcThread
  BY <1>6 DEF IpcThread
<1>7. CASE Crash
  BY <1>7 DEF Crash
<1>8. CASE UiSends
  BY <1>8, UiCmdsAssumption DEF UiSends
<1> QED BY <1>1, <1>2, <1>3, <1>4, <1>5, <1>6, <1>7, <1>8 DEF Next, StartUp

LEMMA InitTypeInv == Init => TypeInv
<1> SUFFICES ASSUME Init PROVE TypeInv
  OBVIOUS
<1>1. RestoreInv
  BY InitRestoreInv
<1>2. Len(<<>>) = 0
  BY EmptySeq
<1>3. Bounds
  <2>1. sysv = <<>> /\ ring = <<>> /\ list = <<>>
    BY Zenon DEF Init, IpcInit
  <2> QED BY <1>2, <2>1, BoundsAssumption DEF Bounds
<1>4. AvTypeOK
  <2>1. av_cfg \in BOOLEAN /\ av_reboot \in BOOLEAN /\ unseen \in BOOLEAN
    BY DEF Init, AvInit
  <2>2. av_up \in BOOLEAN /\ av_ip \in BOOLEAN /\ calm \in BOOLEAN
    BY DEF Init, AvInit
  <2>3. av_status = 1 /\ av_lost = 2 /\ sn = "zero"
    BY DEF Init, AvInit
  <2> QED BY <2>1, <2>2, <2>3 DEF AvTypeOK
<1> QED BY <1>1, <1>3, <1>4 DEF Init, IpcInit, TypeInv

LEMMA NextKeepsTypeInv == TypeInv /\ [Next]_vars => TypeInv'
<1> SUFFICES ASSUME TypeInv, [Next]_vars PROVE TypeInv'
  OBVIOUS
<1>1. RestoreInv' /\ Queues /\ Values
  BY NextKeepsRestoreInv DEF TypeInv, RestoreInv
<1>2. Len(sysv') <= SysvNum /\ Len(ring') <= RingNum - 1 /\ fetched' \in Messages \cup {"none"}
  BY <1>1, IpcSteps, QueueStepKeepsBounds DEF TypeInv, Bounds
<1>3. AvTypeOK'
  <2>1. av_module_conn_check \/ AvRestart \/ AvModule \/ UNCHANGED av
    BY DEF Next, StartUp, Start, RestorePrevStat, Drain, login_local_rtc_server,
           login_remote_rtc_server, SendsOwn, Resend, FetchCmd, CheckAv, CfgCmdProc, CfgCmdTake,
           CfgCmdCheck, SaveOpen, SaveWrite, CfgCmdTell, IpcThread, Crash, UiSends, AvSteps, vars
  <2> QED BY <2>1, AvStepKeepsType DEF TypeInv
<1>4. Len(list') <= MaxDrain
  <2>1. Len(list) \in Nat /\ Len(list) <= MaxDrain
    BY <1>1, LenProperties DEF TypeInv, Bounds, Queues
  <2>2. Len(<<>>) = 0
    BY EmptySeq
  <2>3. CASE Drain
    <3>1. CASE UNCHANGED list
      BY <2>1, <3>1
    <3>2. CASE Len(list) < MaxDrain /\ ipc_msg_get /\ list' = Append(list, fetched')
      <4>1. fetched' \in Messages
        BY <1>1, <3>2, HeadTailProperties DEF ipc_msg_get, Queues
      <4>2. Len(list') = Len(list) + 1
        BY <1>1, <3>2, <4>1, AppendProperties DEF Queues
      <4> QED BY <2>1, <3>2, <4>2, BoundsAssumption
    <3> QED BY <2>3, <3>1, <3>2 DEF Drain
  <2>4. CASE Resend
    <3>1. CASE UNCHANGED list
      BY <2>1, <3>1
    <3>2. CASE list # <<>> /\ list' = Tail(list)
      <4>1. Len(list') = Len(list) - 1
        BY <1>1, <3>2, HeadTailProperties DEF Queues
      <4> QED BY <2>1, <4>1, BoundsAssumption
    <3> QED BY <2>2, <2>4, <3>1, <3>2, BoundsAssumption DEF Resend
  <2>5. CASE Crash
    <3>1. list' = <<>>
      BY <2>5 DEF Crash
    <3> QED BY <2>2, <3>1, BoundsAssumption
  <2>6. CASE ~(Drain \/ Resend \/ Crash)
    <3>1. UNCHANGED list
      BY <2>6 DEF Next, StartUp, Start, RestorePrevStat, login_local_rtc_server,
             login_remote_rtc_server, SendsOwn, FetchCmd, CheckAv, CfgCmdProc, CfgCmdTake,
             CfgCmdCheck, SaveOpen, SaveWrite, CfgCmdTell, IpcThread, UiSends, AvSteps, vars, process
    <3> QED BY <2>1, <3>1
  <2> QED BY <2>3, <2>4, <2>5, <2>6
<1>5. alone' \in BOOLEAN
  <2>1. alone' \in {alone, FALSE, sysv = <<>>}
    BY DEF Next, StartUp, Start, RestorePrevStat, Drain, login_local_rtc_server,
           login_remote_rtc_server, SendsOwn, Resend, FetchCmd, CheckAv, CfgCmdProc, CfgCmdTake,
           CfgCmdCheck, SaveOpen, SaveWrite, CfgCmdTell, IpcThread, Crash, UiSends, AvSteps, vars,
           history
  <2> QED BY <2>1 DEF TypeInv
<1>6. /\ main' \in {"down", "restore", "drain", "local server", "local login", "remote server",
                    "remote login", "resend", "loop"}
      /\ main' \notin {"drain", "remote server", "remote login", "resend"} => list' = <<>>
  <2>1. CASE StartUp
    BY <2>1 DEF TypeInv, StartUp, Start, RestorePrevStat, Drain, login_local_rtc_server,
           login_remote_rtc_server, SendsOwn, Resend
  <2>2. CASE Crash
    BY <2>2 DEF Crash
  <2>3. CASE UNCHANGED <<main, list>>
    BY <2>3 DEF TypeInv
  <2>4. \/ StartUp \/ Crash \/ UNCHANGED <<main, list>>
    BY DEF Next, FetchCmd, CheckAv, CfgCmdProc, CfgCmdTake, CfgCmdCheck, SaveOpen, SaveWrite,
           CfgCmdTell, IpcThread, UiSends, AvSteps, vars, process
  <2> QED BY <2>1, <2>2, <2>3, <2>4
<1> QED BY <1>1, <1>2, <1>3, <1>4, <1>5, <1>6 DEF TypeInv, Bounds

(***************************************************************************)
(* Every variable stays within its type, the queues within their sizes.    *)
(***************************************************************************)
THEOREM Types == Spec => []TypeOK
<1>1. Init => TypeInv
  BY InitTypeInv
<1>2. TypeInv /\ [Next]_vars => TypeInv'
  BY NextKeepsTypeInv
<1>3. TypeInv => TypeOK
  BY InvTypeOK
<1> QED BY <1>1, <1>2, <1>3, PTL DEF Spec

-----------------------------------------------------------------------------
(* The channel: what is under way keeps its order, and comes once.           *)

Held == IF hand = "none" THEN <<>> ELSE <<hand>>

(***************************************************************************)
(* The two parts of a concatenation are found in it again.                 *)
(***************************************************************************)
LEMMA PartsOfConcat ==
    ASSUME NEW S, NEW s \in Seq(S), NEW t \in Seq(S)
    PROVE  /\ SubSeq(s \o t, 1, Len(s)) = s
           /\ SubSeq(s \o t, Len(s) + 1, Len(s) + Len(t)) = t
<1> DEFINE u == s \o t
           p == SubSeq(u, 1, Len(s))
           q == SubSeq(u, Len(s) + 1, Len(s) + Len(t))
<1>1. Len(s) \in Nat /\ Len(t) \in Nat
  BY LenProperties
<1>2. /\ u \in Seq(S) /\ Len(u) = Len(s) + Len(t)
      /\ \A i \in 1 .. Len(s) + Len(t) : u[i] = IF i <= Len(s) THEN s[i] ELSE t[i - Len(s)]
  BY ConcatProperties
<1>3. \A i \in 1 .. Len(u) : u[i] \in S
  BY <1>2, ElementOfSeq
<1> HIDE DEF u
<1>4. p = s
  <2>1. \A i \in 1 .. Len(s) : u[i] \in S
    BY <1>1, <1>2, <1>3
  <2>2. /\ p \in Seq(S) /\ Len(p) = IF 1 <= Len(s) THEN Len(s) - 1 + 1 ELSE 0
        /\ \A i \in 1 .. Len(s) - 1 + 1 : p[i] = u[1 + i - 1]
    BY <1>1, <2>1, SubSeqProperties
  <2>3. Len(p) = Len(s)
    BY <1>1, <2>2
  <2>4. ASSUME NEW i \in 1 .. Len(p) PROVE p[i] = s[i]
    BY <1>1, <1>2, <2>2, <2>3
  <2> QED BY <2>2, <2>3, <2>4, SeqEqual
<1>5. q = t
  <2>1. \A i \in Len(s) + 1 .. Len(s) + Len(t) : u[i] \in S
    BY <1>1, <1>2, <1>3
  <2>2. /\ q \in Seq(S)
        /\ Len(q) = IF Len(s) + 1 <= Len(s) + Len(t) THEN Len(s) + Len(t) - (Len(s) + 1) + 1 ELSE 0
        /\ \A i \in 1 .. Len(s) + Len(t) - (Len(s) + 1) + 1 : q[i] = u[Len(s) + 1 + i - 1]
    BY <1>1, <2>1, SubSeqProperties
  <2>3. Len(q) = Len(t)
    BY <1>1, <2>2
  <2>4. ASSUME NEW i \in 1 .. Len(q) PROVE q[i] = t[i]
    <3>1. q[i] = u[Len(s) + i]
      BY <1>1, <2>2, <2>3
    <3> QED BY <1>1, <1>2, <2>3, <3>1
  <2> QED BY <2>2, <2>3, <2>4, SeqEqual
<1> QED BY <1>4, <1>5 DEF u

\* A sequence that is not empty is its first element before the rest of it.
LEMMA FirstAndRest ==
    ASSUME NEW S, NEW s \in Seq(S), s # <<>>
    PROVE  s = <<Head(s)>> \o Tail(s)
<1>1. Len(s) \in Nat \ {0} /\ 1 \in 1 .. Len(s) /\ Len(s) \in 1 .. Len(s)
  BY EmptySeq
<1>2. SubSeq(s, 1, Len(s)) = <<s[1]>> \o SubSeq(s, 1 + 1, Len(s))
  BY <1>1, SubSeqRecursiveFirst
<1>3. SubSeq(s, 1, Len(s)) = s /\ Tail(s) = SubSeq(s, 2, Len(s))
  BY SubSeqFull, TailIsSubSeq
<1> QED BY <1>2, <1>3

\* What follows an element is the tail of what begins with it.
LEMMA HeadTailConcat ==
    ASSUME NEW S, NEW s \in Seq(S), NEW t \in Seq(S), s # <<>>
    PROVE  s \o t # <<>> /\ Head(s \o t) = Head(s) /\ Tail(s \o t) = Tail(s) \o t
<1> DEFINE u == s \o t
           v == Tail(s) \o t
<1>1. Len(s) \in Nat \ {0} /\ Len(t) \in Nat
  BY EmptySeq, LenProperties
<1>2. /\ u \in Seq(S) /\ Len(u) = Len(s) + Len(t)
      /\ \A i \in 1 .. Len(s) + Len(t) : u[i] = IF i <= Len(s) THEN s[i] ELSE t[i - Len(s)]
  BY ConcatProperties
<1>3. u # <<>> /\ Head(u) = u[1] /\ Head(s) = s[1]
  BY <1>1, <1>2, EmptySeq
<1>4. /\ Tail(s) \in Seq(S) /\ Len(Tail(s)) = Len(s) - 1
      /\ \A i \in 1 .. Len(s) - 1 : Tail(s)[i] = s[i + 1]
  BY HeadTailProperties
<1>5. /\ v \in Seq(S) /\ Len(v) = Len(s) - 1 + Len(t)
      /\ \A i \in 1 .. Len(s) - 1 + Len(t) :
             v[i] = IF i <= Len(s) - 1 THEN Tail(s)[i] ELSE t[i - (Len(s) - 1)]
  BY <1>4, ConcatProperties
<1> HIDE DEF u, v
<1>6. /\ Tail(u) \in Seq(S) /\ Len(Tail(u)) = Len(u) - 1
      /\ \A i \in 1 .. Len(Tail(u)) : Tail(u)[i] = u[i + 1]
  BY <1>2, <1>3, HeadTailProperties
<1>7. Tail(u) = v
  <2>1. Len(Tail(u)) = Len(v)
    BY <1>1, <1>2, <1>5, <1>6
  <2>2. ASSUME NEW i \in 1 .. Len(v) PROVE Tail(u)[i] = v[i]
    <3>1. i \in 1 .. Len(s) - 1 + Len(t) /\ i + 1 \in 1 .. Len(s) + Len(t)
      BY <1>1, <1>5
    <3>2. Tail(u)[i] = u[i + 1]
      BY <1>6, <2>1
    <3>3. CASE i <= Len(s) - 1
      <4>1. u[i + 1] = s[i + 1] /\ v[i] = Tail(s)[i] /\ Tail(s)[i] = s[i + 1]
        BY <1>1, <1>2, <1>4, <1>5, <3>1, <3>3
      <4> QED BY <3>2, <4>1
    <3>4. CASE ~(i <= Len(s) - 1)
      <4>1. u[i + 1] = t[i + 1 - Len(s)] /\ v[i] = t[i - (Len(s) - 1)]
        BY <1>1, <1>2, <1>5, <3>1, <3>4
      <4>2. i + 1 - Len(s) = i - (Len(s) - 1)
        BY <1>1, <3>1
      <4> QED BY <3>2, <4>1, <4>2
    <3> QED BY <3>3, <3>4
  <2> QED BY <1>5, <1>6, <2>1, <2>2, SeqEqual
<1>8. Head(u) = Head(s)
  BY <1>1, <1>2, <1>3
<1> QED BY <1>3, <1>7, <1>8 DEF u, v

(***************************************************************************)
(* Taking out the element between two sequences joins them.                *)
(***************************************************************************)
LEMMA RemoveBetween ==
    ASSUME NEW S, NEW s \in Seq(S), NEW e \in S, NEW t \in Seq(S)
    PROVE  \E i \in 1 .. Len((s \o <<e>>) \o t) : RemoveAt((s \o <<e>>) \o t, i) = s \o t
<1> DEFINE w == s \o <<e>>
           u == w \o t
           k == Len(s) + 1
           x == <<e>> \o t
<1>1. <<e>> \in Seq(S) /\ Len(<<e>>) = 1
  OBVIOUS
<1>2. Len(s) \in Nat /\ Len(t) \in Nat
  BY LenProperties
<1>3. w \in Seq(S) /\ Len(w) = Len(s) + 1 /\ x \in Seq(S)
  BY <1>1, ConcatProperties
<1>4. u = s \o x
  BY <1>1, ConcatAssociative
<1> HIDE DEF w, x
<1>5. u \in Seq(S) /\ Len(u) = Len(s) + 1 + Len(t)
  BY <1>3, ConcatProperties
<1>6. SubSeq(u, 1, Len(s)) = s
  BY <1>3, <1>4, PartsOfConcat
<1>7. SubSeq(u, Len(w) + 1, Len(w) + Len(t)) = t
  BY <1>3, PartsOfConcat
<1> HIDE DEF u
<1>8. k - 1 = Len(s) /\ k + 1 = Len(w) + 1 /\ Len(u) = Len(w) + Len(t)
  BY <1>2, <1>3, <1>5
<1> HIDE DEF k
<1>9. RemoveAt(u, k) = SubSeq(u, 1, k - 1) \o SubSeq(u, k + 1, Len(u))
  BY DEF RemoveAt
<1>10. k \in 1 .. Len(u)
  BY <1>2, <1>5 DEF k
<1> QED BY <1>6, <1>7, <1>8, <1>9, <1>10 DEF u, w, k

\* What is under way, in the two ways its parts can be put together.
LEMMA UnderWayParts ==
    ASSUME Queues
    PROVE  /\ Held \in Seq(Messages) /\ ring \o Held \in Seq(Messages) /\ UnderWay \in Seq(Messages)
           /\ UnderWay = (ring \o Held) \o sysv
           /\ UnderWay = ring \o (Held \o sysv)
<1>1. Held \in Seq(Messages)
  BY EmptySeq DEF Held, Queues
<1>2. ring \in Seq(Messages) /\ sysv \in Seq(Messages)
  BY DEF Queues
<1>3. ring \o Held \in Seq(Messages) /\ (ring \o Held) \o sysv \in Seq(Messages)
  BY <1>1, <1>2, ConcatProperties
<1>4. UnderWay = (ring \o Held) \o sysv
  BY DEF UnderWay, Held
<1>5. (ring \o Held) \o sysv = ring \o (Held \o sysv)
  BY <1>1, <1>2, ConcatAssociative
<1> QED BY <1>1, <1>3, <1>4, <1>5

(***************************************************************************)
(* Each step of the queues is a step of the channel, or none: messages go  *)
(* in at one end and come out at the other, the thread that moves them     *)
(* loses the one it holds at most, and a restart what is oldest.           *)
(***************************************************************************)
LEMMA SendIsSend ==
    ASSUME Queues, NEW m \in Messages, ipc_msg_send(m)
    PROVE  [Channel!Next]_<<UnderWay, fetched>>
<1>1. UNCHANGED <<hand, ring, fetched>> /\ sysv' = IF Len(sysv) < SysvNum THEN Append(sysv, m) ELSE sysv
  BY DEF ipc_msg_send
<1>2. UnderWay' = (ring \o Held) \o sysv'
  BY <1>1 DEF UnderWay, Held
<1>3. CASE sysv' = sysv
  BY <1>1, <1>2, <1>3, UnderWayParts
<1>4. CASE sysv' = Append(sysv, m)
  <2>1. sysv \in Seq(Messages) /\ <<m>> \in Seq(Messages)
    BY DEF Queues
  <2>2. sysv' = sysv \o <<m>>
    BY <1>4, <2>1, AppendIsConcat
  <2>3. (ring \o Held) \o (sysv \o <<m>>) = ((ring \o Held) \o sysv) \o <<m>>
    BY <2>1, UnderWayParts, ConcatAssociative
  <2>4. UnderWay' = UnderWay \o <<m>>
    BY <1>2, <2>2, <2>3, UnderWayParts
  <2>5. UnderWay' = Append(UnderWay, m)
    BY <2>4, UnderWayParts, AppendIsConcat
  <2> QED BY <1>1, <2>5 DEF Channel!Next, Channel!Send
<1> QED BY <1>1, <1>3, <1>4

LEMMA ReceiveIsNone ==
    ASSUME Queues, ThreadReceive
    PROVE  [Channel!Next]_<<UnderWay, fetched>>
<1>1. /\ hand = "none" /\ sysv # <<>> /\ hand' = Head(sysv) /\ sysv' = Tail(sysv)
      /\ UNCHANGED <<ring, fetched>>
  BY DEF ThreadReceive
<1>2. ring \in Seq(Messages) /\ sysv \in Seq(Messages)
  BY DEF Queues
<1>3. Head(sysv) \in Messages /\ Tail(sysv) \in Seq(Messages) /\ sysv = <<Head(sysv)>> \o Tail(sysv)
  BY <1>1, <1>2, HeadTailProperties, FirstAndRest
<1>4. Held = <<>> /\ UnderWay = ring \o sysv
  BY <1>1, <1>2, UnderWayParts, ConcatEmptySeq DEF Held
<1>5. UnderWay' = (ring \o <<Head(sysv)>>) \o Tail(sysv)
  BY <1>1, <1>3 DEF UnderWay
<1>6. <<Head(sysv)>> \in Seq(Messages)
  BY <1>3
<1>7. (ring \o <<Head(sysv)>>) \o Tail(sysv) = ring \o (<<Head(sysv)>> \o Tail(sysv))
  BY <1>2, <1>3, <1>6, ConcatAssociative
<1> QED BY <1>1, <1>3, <1>4, <1>5, <1>7

LEMMA PutIsLoss ==
    ASSUME Queues, ThreadPut
    PROVE  [Channel!Next]_<<UnderWay, fetched>>
<1>1. /\ hand # "none" /\ hand' = "none" /\ UNCHANGED <<sysv, fetched>>
      /\ ring' = IF Len(ring) < RingNum - 1 THEN Append(ring, hand) ELSE ring
  BY DEF ThreadPut
<1>2. ring \in Seq(Messages) /\ sysv \in Seq(Messages) /\ hand \in Messages
  BY <1>1 DEF Queues
<1>3. UnderWay = (ring \o <<hand>>) \o sysv
  BY <1>1 DEF UnderWay
<1>4. ring' \in Seq(Messages)
  BY <1>1, <1>2, AppendProperties
<1>5. UnderWay' = ring' \o sysv
  <2>1. UnderWay' = (ring' \o <<>>) \o sysv
    BY <1>1 DEF UnderWay
  <2>2. ring' \o <<>> = ring'
    BY <1>4, ConcatEmptySeq
  <2> QED BY <2>1, <2>2
<1>6. CASE ring' = Append(ring, hand)
  <2>1. ring' = ring \o <<hand>>
    BY <1>2, <1>6, AppendIsConcat
  <2> QED BY <1>1, <1>3, <1>5, <2>1
<1>7. CASE ring' = ring
  <2>1. \E i \in 1 .. Len(UnderWay) : RemoveAt(UnderWay, i) = ring \o sysv
    <3>1. \A s \in Seq(Messages) : \A e \in Messages : \A t \in Seq(Messages) :
             \E i \in 1 .. Len((s \o <<e>>) \o t) : RemoveAt((s \o <<e>>) \o t, i) = s \o t
      BY RemoveBetween, Zenon
    <3>2. \E i \in 1 .. Len((ring \o <<hand>>) \o sysv) :
             RemoveAt((ring \o <<hand>>) \o sysv, i) = ring \o sysv
      BY <1>2, <3>1, Zenon DEF RemoveAt
    <3> QED BY <1>3, <3>2 DEF RemoveAt
  <2>2. \E i \in 1 .. Len(UnderWay) : UnderWay' = Channel!RemoveAt(UnderWay, i)
    BY <1>5, <1>7, <2>1 DEF RemoveAt, Channel!RemoveAt
  <2> QED BY <1>1, <2>2 DEF Channel!Next, Channel!Lose
<1> QED BY <1>1, <1>6, <1>7

LEMMA GetIsGet ==
    ASSUME Queues, ipc_msg_get
    PROVE  [Channel!Next]_<<UnderWay, fetched>>
<1>1. ring # <<>> /\ fetched' = Head(ring) /\ ring' = Tail(ring) /\ UNCHANGED <<sysv, hand>>
  BY DEF ipc_msg_get
<1>2. ring \in Seq(Messages) /\ sysv \in Seq(Messages)
  BY DEF Queues
<1>3. Tail(ring) \in Seq(Messages)
  BY <1>1, <1>2, HeadTailProperties
<1>4. Held \o sysv \in Seq(Messages) /\ UnderWay = ring \o (Held \o sysv)
  BY <1>2, UnderWayParts, ConcatProperties
<1>5. UnderWay # <<>> /\ Head(UnderWay) = Head(ring) /\ Tail(UnderWay) = Tail(ring) \o (Held \o sysv)
  BY <1>1, <1>2, <1>4, HeadTailConcat
<1>6. UnderWay' = (Tail(ring) \o Held) \o sysv
  BY <1>1 DEF UnderWay, Held
<1>7. (Tail(ring) \o Held) \o sysv = Tail(ring) \o (Held \o sysv)
  <2>1. Held \in Seq(Messages)
    BY UnderWayParts
  <2> QED BY <1>2, <1>3, <2>1, ConcatAssociative
<1>8. UnderWay' = Tail(UnderWay)
  BY <1>5, <1>6, <1>7
<1>9. fetched' = Head(UnderWay)
  BY <1>1, <1>5
<1> QED BY <1>5, <1>8, <1>9 DEF Channel!Next, Channel!Get

LEMMA RestartLosesOldest ==
    ASSUME Queues, IpcRestart
    PROVE  [Channel!Next]_<<UnderWay, fetched>>
<1>1. hand' = "none" /\ ring' = <<>> /\ UNCHANGED <<sysv, fetched>>
  BY DEF IpcRestart
<1>2. sysv \in Seq(Messages) /\ <<>> \in Seq(Messages)
  BY EmptySeq DEF Queues
<1>3. UnderWay' = sysv
  <2>1. UnderWay' = (<<>> \o <<>>) \o sysv
    BY <1>1 DEF UnderWay
  <2>2. <<>> \o <<>> = <<>> /\ <<>> \o sysv = sysv
    BY <1>2, ConcatEmptySeq
  <2> QED BY <2>1, <2>2
<1> DEFINE gone == ring \o Held
<1>4. gone \in Seq(Messages) /\ UnderWay = gone \o sysv
  BY UnderWayParts
<1> HIDE DEF gone
<1>5. Len(gone) \in Nat /\ Len(sysv) \in Nat /\ Len(UnderWay) = Len(gone) + Len(sysv)
  BY <1>2, <1>4, LenProperties, ConcatProperties
<1>6. SubSeq(UnderWay, Len(gone) + 1, Len(UnderWay)) = sysv
  BY <1>2, <1>4, <1>5, PartsOfConcat
<1>7. Len(gone) \in 0 .. Len(UnderWay)
  BY <1>5
<1> QED BY <1>1, <1>3, <1>6, <1>7 DEF Channel!Next, Channel!LoseOldest

(***************************************************************************)
(* The queues between the processes are a channel that loses messages but  *)
(* delivers none twice and none out of order, whatever process is killed.  *)
(***************************************************************************)
THEOREM InOrder == Spec => ChannelInOrder
<1>1. Init => RestoreInv
  BY InitRestoreInv
<1>2. RestoreInv /\ [Next]_vars => RestoreInv'
  BY NextKeepsRestoreInv
<1>3. Init => Channel!Init
  <2>1. <<>> \o <<>> = <<>>
    BY EmptySeq, ConcatEmptySeq
  <2> QED BY <2>1 DEF Init, IpcInit, Channel!Init, UnderWay
<1>4. RestoreInv /\ [Next]_vars => [Channel!Next]_<<UnderWay, fetched>>
  <2> SUFFICES ASSUME RestoreInv, [Next]_vars PROVE [Channel!Next]_<<UnderWay, fetched>>
    OBVIOUS
  <2>1. Queues /\ Values
    BY DEF RestoreInv
  <2>2. CASE UNCHANGED ipc
    BY <2>2 DEF ipc, UnderWay
  <2> QED BY <2>1, <2>2, IpcSteps, SendIsSend, ReceiveIsNone, PutIsLoss, GetIsGet, RestartLosesOldest
<1> QED BY <1>1, <1>2, <1>3, <1>4, PTL DEF Spec, ChannelInOrder, Channel!Spec
=============================================================================
