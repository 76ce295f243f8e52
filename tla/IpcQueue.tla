------------------------------ MODULE IpcQueue ------------------------------
(***************************************************************************)
(* ipc_msg.c and ipc_thread.c: the queue through which other processes     *)
(* send commands.  A System V queue, which outlives the process, is        *)
(* emptied by a thread into a ring (CircularQueue models its stores) that  *)
(* the main thread gets messages from.                                     *)
(***************************************************************************)
EXTENDS Integers, Sequences

CONSTANTS
    Messages, \* message contents
    SysvNum,  \* messages the System V queue has room for (msg_qbytes)
    RingNum   \* IPC_QUEUE_MSG_NUM

ASSUME MessagesAssumption == "none" \notin Messages
ASSUME SysvNumAssumption == SysvNum \in Nat \ {0}
ASSUME RingNumAssumption == RingNum \in Nat \ {0, 1}

VARIABLES
    sysv,   \* the System V queue
    hand,   \* what thread_ipc_msg has received and not yet put
    ring,   \* queue_out
    fetched \* history: the last message ipc_msg_get returned

ipc == <<sysv, hand, ring, fetched>>

IpcInit == sysv = <<>> /\ hand = "none" /\ ring = <<>> /\ fetched = "none"

\* ipc_msg_send_inner: with the queue full for ten tries the message is dropped and
\* the result is the same.
ipc_msg_send(m) ==
    /\ sysv' = IF Len(sysv) < SysvNum THEN Append(sysv, m) ELSE sysv
    /\ UNCHANGED <<hand, ring, fetched>>

\* thread_ipc_msg
ThreadReceive ==
    /\ hand = "none" /\ sysv # <<>>
    /\ hand' = Head(sysv)
    /\ sysv' = Tail(sysv)
    /\ UNCHANGED <<ring, fetched>>

\* Mutant: the ring is filled to its last slot.
ThreadPutFull ==
    /\ hand # "none"
    /\ hand' = "none"
    /\ ring' = IF Len(ring) < RingNum THEN Append(ring, hand) ELSE ring
    /\ UNCHANGED <<sysv, fetched>>

\* Mutant: a message that finds the ring full goes back to the System V queue.
ThreadPutBack ==
    /\ hand # "none"
    /\ hand' = "none"
    /\ IF Len(ring) < RingNum - 1
       THEN ring' = Append(ring, hand) /\ UNCHANGED sysv
       ELSE sysv' = Append(sysv, hand) /\ UNCHANGED ring
    /\ UNCHANGED fetched

\* A full ring drops the message.
ThreadPut ==
    /\ hand # "none"
    /\ hand' = "none"
    /\ ring' = IF Len(ring) < RingNum - 1 THEN Append(ring, hand) ELSE ring
    /\ UNCHANGED <<sysv, fetched>>

ipc_msg_get ==
    /\ ring # <<>>
    /\ fetched' = Head(ring)
    /\ ring' = Tail(ring)
    /\ UNCHANGED <<sysv, hand>>

\* The process goes, and the System V queue stays.
IpcRestart ==
    /\ hand' = "none"
    /\ ring' = <<>>
    /\ UNCHANGED <<sysv, fetched>>

IpcTypeOK ==
    /\ sysv \in Seq(Messages) /\ Len(sysv) <= SysvNum
    /\ ring \in Seq(Messages) /\ Len(ring) <= RingNum - 1
    /\ {hand, fetched} \subseteq Messages \cup {"none"}

\* All that is under way, oldest first.
UnderWay == ring \o (IF hand = "none" THEN <<>> ELSE <<hand>>) \o sysv

Channel == INSTANCE LossyFifo WITH content <- UnderWay, got <- fetched
=============================================================================
