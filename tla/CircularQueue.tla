--------------------------- MODULE CircularQueue ---------------------------
(***************************************************************************)
(* gbcom_common/queue/circular_queue.c, as its users run it: one thread    *)
(* puts, another gets, and each touches the shared ring in several steps.  *)
(* The websocket sessions hold a mutex around both operations; the http,   *)
(* ipc and rtp queues do not (ipc locks the getter only), so their two     *)
(* operations interleave, and on the aarch64 target the two stores of a    *)
(* put may become visible in either order.  (A get's two may as well, but  *)
(* the slot it leaves is not written before another get has moved tail.)   *)
(***************************************************************************)
EXTENDS Integers, Sequences, FiniteSets

CONSTANTS
    Data,       \* messages
    TooBig,     \* messages longer than the getter's max_size
    UnitNum,    \* data_num, the number of slots
    Syncs       \* the disciplines under which a queue of this run may be used

PutResults == {"none", "ok", "full", "nomem"}
GetResults == {"none", "empty", "toobig"}

\* A freed, never written or NULL buffer.
NoBuf == "nobuf"

ASSUME UnitNumAssumption == UnitNum \in Nat \ {0}
ASSUME SyncsAssumption == Syncs \subseteq {"mutex", "program", "weak"}
ASSUME DataAssumption == /\ TooBig \subseteq Data
                         /\ NoBuf \notin Data
                         /\ GetResults \cap Data = {}

VARIABLES
    sync,       \* how this queue is used, for good: "mutex", both operations
                \* locked; "program", unlocked, a put's stores seen in program
                \* order; "weak", unlocked, its stores seen in either order
    alive,      \* the queue exists
    head, tail, \* next slot to write, next slot to read
    slot,       \* data_list: the message whose buffer each slot owns
    lost,       \* a data_list that no queue points to is still allocated
    lock,       \* holder of the caller's mutex
    ppc,        \* the putting thread: "idle", "alloc" or "store"
    ptodo,      \* its stores not yet visible to the getter
    pdata,      \* its message
    pret,       \* result of its last put
    gpc,        \* the getting thread: "idle", "copy", "release" or "advance"
    gdata,      \* what it read from the slot
    gret        \* result of its last get

putter == <<ppc, ptodo, pdata, pret>>
getter == <<gpc, gdata, gret>>
ring == <<alive, head, tail, slot>>
vars == <<sync, ring, lost, lock, putter, getter>>

Slots == 0 .. UnitNum - 1
\* Mutant: the index is not wrapped.
SuccNoWrap(i) == i + 1

Succ(i) == (i + 1) % UnitNum
Pred(i) == (i + UnitNum - 1) % UnitNum

Lock(who) == IF sync = "mutex" THEN lock = "free" /\ lock' = who ELSE UNCHANGED lock
Unlock == lock' = "free"

Init ==
    /\ sync \in Syncs
    /\ alive = TRUE
    /\ head = 0
    /\ tail = 0
    /\ slot = [i \in Slots |-> NoBuf]
    /\ lost = FALSE
    /\ lock = "free"
    /\ ppc = "idle"
    /\ ptodo = {}
    /\ pdata = NoBuf
    /\ pret = "none"
    /\ gpc = "idle"
    /\ gdata = NoBuf
    /\ gret = "none"

-----------------------------------------------------------------------------
(* circular_queue_put *)

\* Mutant: full is reported one message early.
PutFullEarly ==
    /\ alive /\ ppc = "idle"
    /\ Succ(head) = tail \/ Succ(Succ(head)) = tail
    /\ pret' = "full"
    /\ UNCHANGED <<ring, lock, ppc, ptodo, pdata, getter>>

\* The ring is full: the message is discarded.
PutFull ==
    /\ alive /\ ppc = "idle"
    /\ sync = "mutex" => lock = "free"
    /\ Succ(head) = tail
    /\ pret' = "full"
    /\ UNCHANGED <<ring, lock, ppc, ptodo, pdata, getter>>

\* Mutant: the fullness check is missing.
PutUnchecked(d) ==
    /\ alive /\ ppc = "idle"
    /\ Lock("put")
    /\ ppc' = "alloc"
    /\ pdata' = d
    /\ UNCHANGED <<ring, ptodo, pret, getter>>

\* The fullness check passes; the slot at head is now the putter's.
PutCheck(d) ==
    /\ alive /\ ppc = "idle"
    /\ Lock("put")
    /\ Succ(head) # tail
    /\ ppc' = "alloc"
    /\ pdata' = d
    /\ UNCHANGED <<ring, ptodo, pret, getter>>

PutAlloc ==
    /\ ppc = "alloc"
    /\ ppc' = "store"
    /\ ptodo' = {"slot", "head"}
    /\ UNCHANGED <<ring, lock, pdata, pret, getter>>

\* malloc fails: the slot's pointer is left NULL and head is not moved.
PutNoMem ==
    /\ ppc = "alloc"
    /\ slot' = [slot EXCEPT ![head] = NoBuf]
    /\ ppc' = "idle"
    /\ pdata' = NoBuf
    /\ pret' = "nomem"
    /\ Unlock
    /\ UNCHANGED <<alive, head, tail, ptodo, getter>>

PutDone ==
    /\ ppc' = "idle"
    /\ pdata' = NoBuf
    /\ pret' = "ok"
    /\ Unlock

\* memcpy into the buffer, and the buffer pointer and size into the slot.
StoreSlot ==
    /\ ppc = "store" /\ "slot" \in ptodo
    /\ slot' = [slot EXCEPT ![IF "head" \in ptodo THEN head ELSE Pred(head)] = pdata]
    /\ ptodo' = ptodo \ {"slot"}
    /\ IF "head" \in ptodo THEN UNCHANGED <<ppc, pdata, pret, lock>> ELSE PutDone
    /\ UNCHANGED <<alive, head, tail, getter>>

\* Mutant: head is advanced before the slot is written.
StoreHeadFirst ==
    /\ ppc = "store" /\ "head" \in ptodo
    /\ head' = Succ(head)
    /\ ptodo' = ptodo \ {"head"}
    /\ IF "slot" \in ptodo THEN UNCHANGED <<ppc, pdata, pret, lock>> ELSE PutDone
    /\ UNCHANGED <<alive, tail, slot, getter>>

\* head = (head + 1) % data_num: the message is published.
StoreHead ==
    /\ ppc = "store" /\ "head" \in ptodo
    /\ sync = "weak" \/ "slot" \notin ptodo
    /\ head' = Succ(head)
    /\ ptodo' = ptodo \ {"head"}
    /\ IF "slot" \in ptodo THEN UNCHANGED <<ppc, pdata, pret, lock>> ELSE PutDone
    /\ UNCHANGED <<alive, tail, slot, getter>>

-----------------------------------------------------------------------------
(* circular_queue_get *)

GetEmpty ==
    /\ alive /\ gpc = "idle"
    /\ sync = "mutex" => lock = "free"
    /\ head = tail
    /\ gret' = "empty"
    /\ UNCHANGED <<ring, lock, putter, gpc, gdata>>

GetCheck ==
    /\ alive /\ gpc = "idle"
    /\ Lock("get")
    /\ head # tail
    /\ gpc' = "copy"
    /\ UNCHANGED <<ring, putter, gdata, gret>>

\* Mutant: an oversized message is refused and left at the tail.
GetCopyFitting ==
    /\ gpc = "copy"
    /\ gdata' = IF slot[tail] \in TooBig THEN gdata ELSE slot[tail]
    /\ gpc' = IF slot[tail] \in TooBig THEN "idle" ELSE "release"
    /\ gret' = IF slot[tail] \in TooBig THEN "toobig" ELSE gret
    /\ lock' = IF slot[tail] \in TooBig THEN "free" ELSE lock
    /\ UNCHANGED <<ring, putter>>

\* Under "weak" the slot may hold no message yet, or an old one; what is copied then (or
\* whether the process survives copying from NULL) is anybody's guess, NoBuf here.
GetCopy ==
    /\ gpc = "copy"
    /\ gdata' = slot[tail]
    /\ gpc' = "release"
    /\ UNCHANGED <<ring, lock, putter, gret>>

\* Mutant: the buffer is not released.
GetNoRelease ==
    /\ gpc = "release"
    /\ gpc' = "advance"
    /\ UNCHANGED <<ring, lock, putter, gdata, gret>>

\* free(queue_data->buf); queue_data->buf = NULL
GetRelease ==
    /\ gpc = "release"
    /\ slot' = [slot EXCEPT ![tail] = NoBuf]
    /\ gpc' = "advance"
    /\ UNCHANGED <<alive, head, tail, lock, putter, gdata, gret>>

GetAdvance ==
    /\ gpc = "advance"
    /\ tail' = Succ(tail)
    /\ gret' = IF gdata \in TooBig THEN "toobig" ELSE gdata
    /\ gdata' = NoBuf
    /\ gpc' = "idle"
    /\ Unlock
    /\ UNCHANGED <<alive, head, slot, putter>>

-----------------------------------------------------------------------------
\* circular_queue_delete walks from tail to head freeing what it finds, then frees the
\* queue, but not data_list.  Its callers run it when neither operation is in progress:
\* in the thread that owns the queue, after the other side can no longer find it.
InWindow(i) == IF tail <= head THEN tail <= i /\ i < head ELSE tail <= i \/ i < head

Delete ==
    /\ alive /\ ppc = "idle" /\ gpc = "idle"
    /\ alive' = FALSE
    /\ slot' = [i \in Slots |-> IF InWindow(i) THEN NoBuf ELSE slot[i]]
    /\ tail' = head
    /\ lost' = TRUE
    /\ UNCHANGED <<head, lock, putter, getter>>

\* circular_queue_create for the next session, with a data_list of its own.
Create ==
    /\ ~alive
    /\ alive' = TRUE
    /\ head' = 0
    /\ tail' = 0
    /\ slot' = [i \in Slots |-> NoBuf]
    /\ pret' = "none"
    /\ gret' = "none"
    /\ UNCHANGED <<lost, lock, ppc, ptodo, pdata, gpc, gdata>>

PutStep == UNCHANGED <<sync, lost>> /\ (PutAlloc \/ PutNoMem \/ StoreSlot \/ StoreHead)
GetStep == UNCHANGED <<sync, lost>> /\ (GetCheck \/ GetCopy \/ GetRelease \/ GetAdvance)

Next ==
    \/ PutStep
    \/ GetStep
    \/ /\ UNCHANGED <<sync, lost>>
       /\ \/ PutFull
          \/ \E d \in Data : PutCheck(d)
          \/ GetEmpty
    \/ UNCHANGED sync /\ (Delete \/ Create)

Spec == Init /\ [][Next]_vars

\* Each thread finishes the operation it is in, and the getter keeps polling
\* (the session threads and ConnCtrl::Process loop for ever); strong fairness,
\* because every user sleeps between two operations and so frees the mutex.
FairSpec == Spec /\ WF_vars(PutStep) /\ SF_vars(GetStep)

-----------------------------------------------------------------------------
(* The abstract queue this one implements: messages between tail and head,   *)
(* the one being got counted until tail moves.                               *)

Count == IF tail <= head THEN head - tail ELSE head - tail + UnitNum
Index(k) == IF tail + k < UnitNum THEN tail + k ELSE tail + k - UnitNum

Contents ==
    [k \in 1 .. Count |-> IF k = 1 /\ gpc \in {"release", "advance"}
                          THEN gdata ELSE slot[Index(k - 1)]]

Fifo == INSTANCE BoundedFifo
            WITH Capacity <- UnitNum - 1, fifo <- Contents,
                 putRet <- pret, getRet <- gret

-----------------------------------------------------------------------------
(* Properties *)

\* The state stays within its types; head and tail stay on the ring.
TypeOK ==
    /\ sync \in Syncs
    /\ alive \in BOOLEAN /\ lost \in BOOLEAN
    /\ head \in Slots /\ tail \in Slots
    /\ slot \in [Slots -> Data \cup {NoBuf}]
    /\ lock \in {"free", "put", "get"}
    /\ ppc \in {"idle", "alloc", "store"}
    /\ ptodo \in SUBSET {"slot", "head"}
    /\ pdata \in Data \cup {NoBuf} /\ gdata \in Data \cup {NoBuf}
    /\ pret \in PutResults
    /\ gpc \in {"idle", "copy", "release", "advance"}
    /\ gret \in GetResults \cup Data \cup {NoBuf}

\* A put whose head the getter sees already, and whose message it does not see yet.
Racing == sync = "weak" /\ ppc = "store" /\ ptodo = {"slot"}

\* Between tail and head every slot holds the message put there, with or without a lock
\* and whatever the order of the stores, except the one whose buffer the getter has just
\* freed and the last one while the put that published it is Racing.
Filled ==
    \A i \in Slots :
        \/ ~InWindow(i)
        \/ slot[i] \in Data
        \/ i = tail /\ gpc = "advance"
        \/ i = Pred(head) /\ Racing

\* circular_queue_get is let into a slot without a message only when it has come to the
\* last one, in the moment in which the stores of the put that published it are seen the
\* wrong way round; where stores keep their order (x86) or a lock is held, never.
NoTornRead ==
    /\ gpc = "copy" /\ slot[tail] \notin Data => Racing /\ tail = Pred(head)
    /\ gpc \in {"release", "advance"} /\ gdata \notin Data => sync = "weak"

\* What the users of an unlocked ring rely on: what is got is what was put.  Not so under
\* "weak"; the theorem TornReads has it for the other disciplines.
WholeMessages == gpc \in {"release", "advance"} => gdata \in Data

PutterOwnsHead == ppc = "alloc" \/ (ppc = "store" /\ "head" \in ptodo)

\* The slot a put writes is never one the getter may read, whatever the other
\* thread did since the fullness check, and a full ring never reads as empty.
SlotsDisjoint == PutterOwnsHead => ~InWindow(head) /\ Succ(head) # tail

\* Message buffers are neither leaked nor freed twice, if stores are seen in their order:
\* the slots that own one are those between tail and head, less the one just released,
\* plus the one just stored; so circular_queue_delete, which only walks that window,
\* frees them all.  (The buffers of the messages: the list itself is leaked
\* by every Delete, see lost.)
NoLeak ==
    sync # "weak" =>
        \A i \in Slots :
            slot[i] # NoBuf <=>
                \/ InWindow(i) /\ ~(i = tail /\ gpc = "advance")
                \/ i = head /\ ppc = "store" /\ ptodo = {"head"}

\* How far each operation has got: the strengthening that makes the conjunction
\* below inductive.  An operation under way keeps the queue alive and, for the
\* getter, non-empty; a put's stores are issued slot first, unless "weak".
Progress ==
    /\ ppc = "store" => ptodo \in {{"slot", "head"}, {"head"}} \/ Racing
    /\ ppc # "store" => ptodo = {}
    /\ ppc = "store" /\ ptodo = {"head"} => slot[head] = pdata
    /\ ppc # "idle" => alive /\ pdata \in Data
    /\ gpc # "idle" => alive /\ head # tail
    /\ ~alive => head = tail

IInv == TypeOK /\ Progress /\ Filled /\ NoTornRead /\ SlotsDisjoint /\ NoLeak

\* The ring implements the bounded FIFO, as long as stores are seen in their order.
Refines == Fifo!Init /\ [][Fifo!Next \/ sync = "weak"]_(Fifo!vars)

\* A message at the tail is eventually taken, unless the queue is deleted (or the process
\* ends, copying from NULL).
Drained == \A i \in Slots : (tail = i /\ head # i) ~> (tail # i \/ ~alive)
=============================================================================
