---------------------------- MODULE BoundedFifo ----------------------------
(***************************************************************************)
(* What a circular queue promises its two users: a bounded FIFO of         *)
(* messages.  A put succeeds exactly when there is room (or fails for want *)
(* of memory), a get returns the oldest message, and discards it unread    *)
(* when it exceeds the caller's buffer.                                    *)
(***************************************************************************)
EXTENDS Naturals, Sequences

CONSTANTS
    Data,       \* messages
    TooBig,     \* the messages longer than the max_size of the getter
    Capacity    \* how many messages fit

VARIABLES
    alive,      \* the queue exists
    fifo,       \* messages put and not yet got, oldest first
    putRet,     \* result of the last put
    getRet      \* result of the last get

vars == <<alive, fifo, putRet, getRet>>

Init ==
    /\ alive = TRUE
    /\ fifo = <<>>
    /\ putRet = "none"
    /\ getRet = "none"

Put(d) ==
    /\ alive
    /\ Len(fifo) < Capacity
    /\ fifo' = Append(fifo, d)
    /\ putRet' = "ok"
    /\ UNCHANGED <<alive, getRet>>

PutFull ==
    /\ alive
    /\ Len(fifo) = Capacity
    /\ putRet' = "full"
    /\ UNCHANGED <<alive, fifo, getRet>>

PutNoMem ==
    /\ alive
    /\ Len(fifo) < Capacity
    /\ putRet' = "nomem"
    /\ UNCHANGED <<alive, fifo, getRet>>

Get ==
    /\ alive
    /\ fifo # <<>>
    /\ getRet' = IF Head(fifo) \in TooBig THEN "toobig" ELSE Head(fifo)
    /\ fifo' = Tail(fifo)
    /\ UNCHANGED <<alive, putRet>>

GetEmpty ==
    /\ alive
    /\ fifo = <<>>
    /\ getRet' = "empty"
    /\ UNCHANGED <<alive, fifo, putRet>>

Delete ==
    /\ alive
    /\ alive' = FALSE
    /\ fifo' = <<>>
    /\ UNCHANGED <<putRet, getRet>>

Create ==
    /\ ~alive
    /\ alive' = TRUE
    /\ fifo' = <<>>
    /\ putRet' = "none"
    /\ getRet' = "none"

Next ==
    \/ \E d \in Data : Put(d)
    \/ PutFull
    \/ PutNoMem
    \/ Get
    \/ GetEmpty
    \/ Delete
    \/ Create

Spec == Init /\ [][Next]_vars
=============================================================================
