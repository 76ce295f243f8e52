------------------------------- MODULE RtcMain -------------------------------
(***************************************************************************)
(* rtc_main.cc: start-up, restarts included, and the main loop, with the   *)
(* queue its commands come through and the link to the AV module.          *)
(*                                                                         *)
(* Only the commands that choose a server are told apart (ConnCtrl has     *)
(* them all): the choice is saved in a file, and a new process logs in to  *)
(* the server it finds there.  "LOGIN" stands for the login commands.      *)
(* CfgCmdProc is taken apart into the steps between which the process may  *)
(* die: checks, opening the file, which empties it, writing it, telling.   *)
(***************************************************************************)
EXTENDS IpcQueue, AvLink, SequencesExt

CONSTANTS
    UiCmds,   \* commands the other processes send
    Replay,   \* drained messages that are sent again (3)
    MaxDrain, \* bound: messages drained at a start
    FaultSets \* for each run, which of Faults may happen and which of UiCmds are sent

Faults == {"av", "crash"}

\* What a command may carry as an address: an IPv4 address with a port ("rtc"), another
\* name with a port, and an IPv4 address without one ("mesh").
Addresses == {"rtc", "name", "mesh"}

\* The command RTC_SERVER_SET with each of them.
RtcServerSet ==
    [rtc |-> "RTC_SERVER_SET", name |-> "RTC_SERVER_SET name", mesh |-> "RTC_SERVER_SET mesh"]
RtcServerSets == {RtcServerSet[a] : a \in Addresses}

RtcChoices == RtcServerSets \cup {"SWITCH_TO_RTC_SERVER"}
MeshChoices == {"MESH_SERVER_SET", "SWITCH_TO_MESH_SERVER"}

\* The address a command carries, if it does.
AddressOf(m) ==
    CASE m \in {"RTC_SERVER_SET", "SWITCH_TO_RTC_SERVER"} -> "rtc"
      [] m = "RTC_SERVER_SET name" -> "name"
      [] m \in MeshChoices \cup {"RTC_SERVER_SET mesh"} -> "mesh"
      [] OTHER -> ""

ASSUME UiCmdsAssumption == UiCmds \subseteq Messages
ASSUME MainMessagesAssumption == RtcServerSets \cup {"MESH_SERVER_SET", "LOGIN"} \subseteq Messages
ASSUME BoundsAssumption == Replay \in Nat \ {0} /\ MaxDrain \in Nat \ {0}
ASSUME FaultSetsAssumption == FaultSets \subseteq SUBSET (Faults \cup UiCmds)

VARIABLES
    main,   \* where the main thread is; "down" when there is no process
    list,   \* msg_list
    slot,   \* the command the rtc thread has not taken yet
    args,   \* args of ConnCtrl
    doing,  \* the command CfgCmdProc has taken
    step,   \* where in it the rtc thread is: "idle", "check", "open", "write" or "tell"
    file,   \* the contents of rtc_server_addr_file, "" if there is none
    server, \* the server this process was told to use, "switched" by SWITCH_TO_MESH_SERVER
    cut,    \* history: the last choice of this process failed to be saved, or to be told
    wanted, \* history: the server of the last process that was told one
    whole,  \* history: its last choice was told and saved to the end
    alone,  \* history: since the start no message but those of the start was under way
    faults  \* what may happen in this run; never changes

rtc == <<slot, args, doing, step>>
process == <<main, list, rtc>>
choice == <<file, server, cut>>
history == <<wanted, whole, alone>>
vars == <<ipc, av, process, choice, history, faults>>

Init ==
    /\ IpcInit
    /\ AvInit
    /\ faults \in FaultSets
    /\ "av" \notin faults => calm /\ av_up /\ av_ip
    /\ main = "down" /\ list = <<>>
    /\ slot = "none" /\ args = "" /\ doing = "none" /\ step = "idle"
    /\ \/ file = "" /\ wanted = "mesh"
       \/ file = "rtc" /\ wanted = "rtc"
    /\ server = "none" /\ cut = FALSE
    /\ whole = TRUE /\ alone = FALSE

-----------------------------------------------------------------------------
(* Start-up.                                                                 *)

Start ==
    /\ main = "down"
    /\ main' = "restore"
    /\ AvRestart
    /\ alone' = (sysv = <<>>)
    /\ UNCHANGED <<ipc, list, rtc, choice, wanted, whole, faults>>

\* restore_prev_stat: no saved server means the local one.
RestorePrevStat ==
    /\ main = "restore"
    /\ main' = IF file # "" THEN "drain" ELSE "local server"
    /\ UNCHANGED <<ipc, av, list, rtc, choice, history, faults>>

\* Messages of the last process are put aside, as far as the thread has got.
Drain ==
    /\ main = "drain"
    /\ \/ /\ Len(list) < MaxDrain
          /\ ipc_msg_get
          /\ list' = Append(list, fetched')
          /\ UNCHANGED main
       \/ /\ ring = <<>>
          /\ main' = "remote server"
          /\ UNCHANGED <<ipc, list>>
    /\ UNCHANGED <<av, rtc, choice, history, faults>>

SendsOwn(at, m, next) ==
    /\ main = at
    /\ ipc_msg_send(m)
    /\ main' = next
    /\ UNCHANGED <<av, list, rtc, choice, history, faults>>

login_local_rtc_server ==
    \/ SendsOwn("local server", "MESH_SERVER_SET", "local login")
    \/ SendsOwn("local login", "LOGIN", "loop")

login_remote_rtc_server ==
    \/ file # "" /\ SendsOwn("remote server", RtcServerSet[file], "remote login")
    \/ SendsOwn("remote login", "LOGIN", "resend")

\* Of the messages put aside the last ones go back into the queue.
Resend ==
    /\ main = "resend"
    /\ \/ /\ Len(list) > Replay
          /\ list' = Tail(list)
          /\ UNCHANGED <<ipc, main>>
       \/ /\ Len(list) \in 1..Replay
          /\ ipc_msg_send(Head(list))
          /\ list' = Tail(list)
          /\ UNCHANGED main
       \/ /\ list = <<>>
          /\ main' = "loop"
          /\ UNCHANGED <<ipc, list>>
    /\ UNCHANGED <<av, rtc, choice, history, faults>>

-----------------------------------------------------------------------------
(* The main loop, and the threads beside it.                                 *)

\* A command is fetched when none waits to be taken, and set (AppCmdSet): its address
\* replaces args whatever CfgCmdProc is doing with them.
FetchCmd ==
    /\ main = "loop"
    /\ slot = "none"
    /\ ipc_msg_get
    /\ slot' = fetched'
    /\ IF AddressOf(fetched') # ""
       THEN args' = AddressOf(fetched') /\ cut' = (cut \/ step \in {"open", "write", "tell"})
       ELSE UNCHANGED <<args, cut>>
    /\ UNCHANGED <<av, main, list, doing, step, file, server, history, faults>>

\* Every second.
CheckAv ==
    /\ main = "loop"
    /\ av_module_conn_check
    /\ UNCHANGED <<ipc, process, choice, history, faults>>

-----------------------------------------------------------------------------
(* The rtc thread: CfgCmdProc.                                               *)

CfgCmdTake ==
    /\ step = "idle"
    /\ slot # "none"
    /\ slot' = "none" /\ doing' = slot /\ step' = "check"
    /\ UNCHANGED <<ipc, av, main, list, args, choice, history, faults>>

\* What comes before the file, if it is not the end.  RTC_SERVER_SET only looks for the
\* port; MESH_SERVER_SET sets the server (in a mesh client that is not idle the old one
\* stays, a mesh server as well); SWITCH_TO_MESH_SERVER never comes to the file.
CfgCmdCheck ==
    /\ step = "check"
    /\ \/ /\ \/ doing \in RtcServerSets /\ args \in {"rtc", "name"}
             \/ doing = "SWITCH_TO_RTC_SERVER" /\ args = "rtc"
          /\ step' = "open" /\ cut' = FALSE
          /\ UNCHANGED <<doing, server>>
       \/ /\ doing = "MESH_SERVER_SET" /\ args = "mesh"
          /\ step' = "open" /\ cut' = FALSE
          /\ server' = "mesh"
          /\ UNCHANGED doing
       \/ /\ doing = "SWITCH_TO_MESH_SERVER" /\ args = "mesh"
          /\ step' = "idle" /\ doing' = "none" /\ cut' = FALSE
          /\ server' = "switched"
       \/ /\ doing \in RtcServerSets => args \notin {"rtc", "name"}
          /\ doing = "SWITCH_TO_RTC_SERVER" => args # "rtc"
          /\ doing \in MeshChoices => args # "mesh"
          /\ step' = "idle" /\ doing' = "none"
          /\ UNCHANGED <<server, cut>>
    /\ UNCHANGED <<ipc, av, main, list, slot, args, file, history, faults>>

\* Mutant: MESH_SERVER_SET leaves the file.
SaveOpenNoClean ==
    /\ step = "open"
    /\ \/ doing # "MESH_SERVER_SET" /\ file' = "" /\ step' = "write" /\ UNCHANGED cut
       \/ doing = "MESH_SERVER_SET" /\ step' = "tell" /\ UNCHANGED <<file, cut>>
    /\ UNCHANGED <<ipc, av, main, list, slot, args, doing, server, history, faults>>

\* av_tmp_rtc_server_save: the file is emptied as it is opened, if it can be opened;
\* nobody looks at the result.
SaveOpen ==
    /\ step = "open"
    /\ \/ file' = "" /\ step' = "write" /\ UNCHANGED cut
       \/ step' = "tell" /\ cut' = TRUE /\ UNCHANGED file
    /\ UNCHANGED <<ipc, av, main, list, slot, args, doing, server, history, faults>>

\* Then it is written, if there is room.
SaveWrite ==
    /\ step = "write"
    /\ step' = "tell"
    /\ \/ file' = (IF doing = "MESH_SERVER_SET" THEN "" ELSE args) /\ UNCHANGED cut
       \/ cut' = TRUE /\ UNCHANGED file
    /\ UNCHANGED <<ipc, av, main, list, slot, args, doing, server, history, faults>>

\* RTC_SERVER_SET looks at the address only now.
CfgCmdTell ==
    /\ step = "tell"
    /\ step' = "idle" /\ doing' = "none"
    /\ \/ doing = "MESH_SERVER_SET" /\ UNCHANGED <<server, cut>>
       \/ doing \in RtcServerSets /\ args # "rtc" /\ cut' = TRUE /\ UNCHANGED server
       \/ /\ doing \in RtcServerSets => args = "rtc"
          /\ doing # "MESH_SERVER_SET"
          /\ server' = "rtc"
          /\ UNCHANGED cut
    /\ UNCHANGED <<ipc, av, main, list, slot, args, file, history, faults>>

CfgCmdProc == CfgCmdTake \/ CfgCmdCheck \/ SaveOpen \/ SaveWrite \/ CfgCmdTell

-----------------------------------------------------------------------------
IpcThread ==
    /\ main # "down"
    /\ ThreadReceive \/ ThreadPut
    /\ UNCHANGED <<av, process, choice, history, faults>>

\* The process ends, wherever its threads are: killed, or by the exit of AppCmdWaiting.
Crash ==
    /\ "crash" \in faults
    /\ main # "down"
    /\ main' = "down" /\ list' = <<>>
    /\ slot' = "none" /\ args' = "" /\ doing' = "none" /\ step' = "idle"
    /\ IpcRestart
    /\ server' = "none" /\ cut' = FALSE
    /\ wanted' = IF server = "none" THEN wanted ELSE server
    /\ whole' = /\ ~cut /\ step \in {"idle", "check"}
                /\ server = "none" => whole
    /\ UNCHANGED <<av, file, alone, faults>>

\* Other processes send whatever becomes of this one.
UiSends ==
    /\ \E m \in UiCmds \cap faults : ipc_msg_send(m)
    /\ alone' = FALSE
    /\ UNCHANGED <<av, process, choice, wanted, whole, faults>>

AvSteps ==
    /\ AvModule
    /\ UNCHANGED <<ipc, process, choice, history, faults>>

-----------------------------------------------------------------------------
StartUp ==
    \/ Start \/ RestorePrevStat \/ Drain \/ login_local_rtc_server \/ login_remote_rtc_server
    \/ Resend

Next == StartUp \/ FetchCmd \/ CheckAv \/ CfgCmdProc \/ IpcThread \/ Crash \/ UiSends \/ AvSteps

Spec == Init /\ [][Next]_vars

\* The process is started again, its threads run, and a module that is off is
\* switched on.
FairSpec ==
    /\ Spec
    /\ WF_vars(StartUp)
    /\ WF_vars(CheckAv)
    /\ WF_vars(IpcThread)
    /\ WF_vars(AvStarts /\ UNCHANGED <<ipc, process, choice, history, faults>>)

-----------------------------------------------------------------------------
(* Properties *)

\* The variables stay within their types; only the loop, and a start, use the rest.
TypeOK ==
    /\ IpcTypeOK
    /\ AvTypeOK
    /\ main \in {"down", "restore", "drain", "local server", "local login", "remote server",
                 "remote login", "resend", "loop"}
    /\ list \in BoundedSeq(Messages, MaxDrain)
    /\ {slot, doing} \subseteq Messages \cup {"none"}
    /\ step \in {"idle", "check", "open", "write", "tell"}
    /\ {args, file} \subseteq Addresses \cup {""}
    /\ {server, wanted} \subseteq {"none", "mesh", "rtc", "switched"}
    /\ {cut, whole, alone} \subseteq BOOLEAN
    /\ main \notin {"drain", "remote server", "remote login", "resend"} => list = <<>>

\* Everything start-up sent has been executed, or lost.
Settled == main = "loop" /\ UnderWay = <<>> /\ slot = "none" /\ step = "idle"

\* A process that is started again, and that no other process sends to meanwhile, goes
\* back to the server the process before it was told to use last, however often and
\* wherever processes died since, with three exceptions.  The last choice was not carried
\* out to the end (~whole): the process died between the first and the last step of it,
\* the file could not be opened or written, RTC_SERVER_SET came with an address that is
\* saved and then refused (the next process then sends itself that address, and has no
\* server at all), or the next command replaced args under it.  The choice was
\* SWITCH_TO_MESH_SERVER, which does not touch the file.  Or messages of others were
\* there (~alone): those put aside or sent before may be executed after the start's own.
RestoresChoice == alone /\ Settled /\ whole /\ wanted # "switched" => server = wanted

\* From sender to ipc_msg_get messages may be lost, but none comes twice or passes
\* another, whenever the process is killed.
ChannelInOrder == Channel!Spec

\* A module that works, and answers, is connected in the end, for good, whatever
\* restarts of either side, wrong numbers and wrong addresses came before.  (The
\* process has to get to its loop: Drain does not end as long as others keep sending.)
AvComesUp == <>[](calm /\ main = "loop") => <>[]AvReady
=============================================================================
