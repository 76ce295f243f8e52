------------------------ MODULE CircularQueueProofs ------------------------
(***************************************************************************)
(* For every ring size and message set, whatever the discipline: the two   *)
(* operations of circular_queue.c keep IInv, so that the one torn read     *)
(* possible is that of the last message, while it is being published by    *)
(* stores seen in the wrong order; and as long as stores are seen in their *)
(* order the ring implements the bounded FIFO of UnitNum - 1 messages.     *)
(***************************************************************************)
EXTENDS CircularQueue, SequenceTheorems, TLAPS

(***************************************************************************)
(* The modular increment of head and tail, without the modulus.            *)
(***************************************************************************)
LEMMA SuccValue ==
    ASSUME NEW i \in Slots
    PROVE  /\ Succ(i) \in Slots
           /\ Succ(i) = IF i = UnitNum - 1 THEN 0 ELSE i + 1
           /\ Pred(i) \in Slots
           /\ Pred(i) = IF i = 0 THEN UnitNum - 1 ELSE i - 1
           /\ Pred(Succ(i)) = i
<1>1. Succ(i) \in Slots /\ Succ(i) = IF i = UnitNum - 1 THEN 0 ELSE i + 1
  <2>1. CASE i = UnitNum - 1
    BY <2>1, UnitNumAssumption DEF Succ, Slots
  <2>2. CASE i # UnitNum - 1
    BY <2>2, UnitNumAssumption DEF Succ, Slots
  <2> QED BY <2>1, <2>2
<1>2. ASSUME NEW j \in Slots
      PROVE  Pred(j) \in Slots /\ Pred(j) = IF j = 0 THEN UnitNum - 1 ELSE j - 1
  <2>1. CASE j = 0
    BY <2>1, UnitNumAssumption DEF Pred, Slots
  <2>2. CASE j # 0
    <3>1. j + UnitNum - 1 = (j - 1) + UnitNum /\ j - 1 \in 0 .. UnitNum - 1
      BY <2>2, UnitNumAssumption DEF Slots
    <3>2. ((j - 1) + UnitNum) % UnitNum = j - 1
      BY <3>1, UnitNumAssumption
    <3> QED BY <2>2, <3>1, <3>2 DEF Pred, Slots
  <2> QED BY <2>1, <2>2
<1>3. Pred(Succ(i)) = i
  BY <1>1, <1>2, UnitNumAssumption DEF Slots
<1> QED BY <1>1, <1>2, <1>3

(***************************************************************************)
(* A freshly created ring satisfies the invariant.                         *)
(***************************************************************************)
LEMMA InitIInv == Init => IInv
<1> SUFFICES ASSUME Init PROVE IInv
  OBVIOUS
<1>1. TypeOK
  <2>1. alive \in BOOLEAN /\ lost \in BOOLEAN
    BY DEF Init
  <2>2. 0 \in Slots /\ slot \in [Slots -> Data \cup {NoBuf}]
    BY UnitNumAssumption DEF Init, Slots
  <2>3. /\ sync \in Syncs /\ head = 0 /\ tail = 0 /\ lock = "free" /\ ppc = "idle" /\ ptodo = {}
        /\ pdata = NoBuf /\ pret = "none" /\ gpc = "idle" /\ gdata = NoBuf /\ gret = "none"
    BY DEF Init
  <2> QED BY <2>1, <2>2, <2>3 DEF TypeOK, PutResults, GetResults
<1>2. ASSUME NEW i \in Slots
      PROVE  ~InWindow(i) /\ slot[i] = NoBuf
  BY UnitNumAssumption DEF Init, InWindow, Slots
<1> QED
  BY <1>1, <1>2
     DEF Init, IInv, TypeOK, Progress, Filled, NoTornRead, SlotsDisjoint, NoLeak,
         PutterOwnsHead,
       InWindow, Slots, PutResults, GetResults

(***************************************************************************)
(* No step of either thread breaks it.                                     *)
(***************************************************************************)
LEMMA NextIInv == IInv /\ [Next]_vars => IInv'
<1> SUFFICES ASSUME IInv, [Next]_vars
             PROVE  IInv'
  OBVIOUS
<1>s. sync' = sync /\ sync \in Syncs
  BY DEF Next, PutStep, GetStep, vars, IInv, TypeOK
<1>l. lost' \in BOOLEAN
  <2>1. lost' = TRUE \/ lost' = lost
    BY DEF Next, PutStep, GetStep, Delete, Create, vars
  <2> QED BY <2>1 DEF IInv, TypeOK
<1>t. /\ {"slot", "head"} # {"head"} /\ {"slot", "head"} # {"slot"} /\ {"slot"} # {"head"}
      /\ {"slot", "head"} \ {"slot"} = {"head"} /\ {"slot", "head"} \ {"head"} = {"slot"}
      /\ {"slot"} \ {"slot"} = {} /\ {"head"} \ {"head"} = {}
  OBVIOUS
<1> USE <1>s, UnitNumAssumption, DataAssumption DEF PutResults, GetResults
<1>h. /\ head \in Slots /\ tail \in Slots
      /\ Succ(head) \in Slots /\ Succ(tail) \in Slots
      /\ Succ(head) = IF head = UnitNum - 1 THEN 0 ELSE head + 1
      /\ Succ(tail) = IF tail = UnitNum - 1 THEN 0 ELSE tail + 1
      /\ Pred(head) \in Slots /\ Pred(Succ(head)) = head
      /\ Pred(head) = IF head = 0 THEN UnitNum - 1 ELSE head - 1
  BY SuccValue DEF IInv, TypeOK
<1>1. CASE PutFull
  <2>1. TypeOK'
    BY <1>h, <1>l, <1>1 DEF PutFull, ring, getter, IInv, TypeOK
  <2>2. Progress'
    BY <1>h, <1>t, <1>1 DEF PutFull, ring, getter, IInv, TypeOK, Progress, Racing
  <2>3. Filled'
    BY <1>h, <1>1
       DEF PutFull, ring, getter, IInv, TypeOK, Progress, Filled, Racing, SlotsDisjoint,
           PutterOwnsHead, InWindow, Slots
  <2>4. NoTornRead'
    BY <1>h, <1>1
       DEF PutFull, ring, getter, IInv, TypeOK, Progress, Filled, Racing, NoTornRead,
           SlotsDisjoint, PutterOwnsHead, InWindow, Slots
  <2>5. SlotsDisjoint'
    BY <1>h, <1>1
       DEF PutFull, ring, getter, IInv, TypeOK, Progress, Racing, SlotsDisjoint,
           PutterOwnsHead, InWindow, Slots
  <2>6. NoLeak'
    BY <1>h, <1>1
       DEF PutFull, ring, getter, IInv, TypeOK, Progress, Filled, Racing, SlotsDisjoint,
           PutterOwnsHead, NoLeak, InWindow, Slots
  <2> QED BY <2>1, <2>2, <2>3, <2>4, <2>5, <2>6 DEF IInv
<1>2. ASSUME NEW d \in Data, PutCheck(d)
      PROVE  IInv'
  <2>1. TypeOK'
    BY <1>h, <1>l, <1>2 DEF PutCheck, Lock, ring, getter, IInv, TypeOK
  <2>2. Progress'
    BY <1>h, <1>t, <1>2 DEF PutCheck, Lock, ring, getter, IInv, TypeOK, Progress, Racing
  <2>3. Filled'
    BY <1>h, <1>2
       DEF PutCheck, Lock, ring, getter, IInv, TypeOK, Progress, Filled, Racing, SlotsDisjoint,
           PutterOwnsHead, InWindow, Slots
  <2>4. NoTornRead'
    BY <1>h, <1>2
       DEF PutCheck, Lock, ring, getter, IInv, TypeOK, Progress, Filled, Racing, NoTornRead,
           SlotsDisjoint, PutterOwnsHead, InWindow, Slots
  <2>5. SlotsDisjoint'
    BY <1>h, <1>2
       DEF PutCheck, Lock, ring, getter, IInv, TypeOK, Progress, Racing, SlotsDisjoint,
           PutterOwnsHead, InWindow, Slots
  <2>6. NoLeak'
    BY <1>h, <1>2
       DEF PutCheck, Lock, ring, getter, IInv, TypeOK, Progress, Filled, Racing, SlotsDisjoint,
           PutterOwnsHead, NoLeak, InWindow, Slots
  <2> QED BY <2>1, <2>2, <2>3, <2>4, <2>5, <2>6 DEF IInv
<1>3. CASE PutAlloc
  <2>1. TypeOK'
    BY <1>h, <1>l, <1>3 DEF PutAlloc, ring, getter, IInv, TypeOK
  <2>2. Progress'
    BY <1>h, <1>t, <1>3 DEF PutAlloc, ring, getter, IInv, TypeOK, Progress, Racing
  <2>3. Filled'
    BY <1>h, <1>3
       DEF PutAlloc, ring, getter, IInv, TypeOK, Progress, Filled, Racing, SlotsDisjoint,
           PutterOwnsHead, InWindow, Slots
  <2>4. NoTornRead'
    BY <1>h, <1>3
       DEF PutAlloc, ring, getter, IInv, TypeOK, Progress, Filled, Racing, NoTornRead,
           SlotsDisjoint, PutterOwnsHead, InWindow, Slots
  <2>5. SlotsDisjoint'
    BY <1>h, <1>3
       DEF PutAlloc, ring, getter, IInv, TypeOK, Progress, Racing, SlotsDisjoint,
           PutterOwnsHead, InWindow, Slots
  <2>6. NoLeak'
    BY <1>h, <1>t, <1>3
       DEF PutAlloc, ring, getter, IInv, TypeOK, Progress, Filled, Racing, SlotsDisjoint,
           PutterOwnsHead, NoLeak, InWindow, Slots
  <2> QED BY <2>1, <2>2, <2>3, <2>4, <2>5, <2>6 DEF IInv
<1>4. CASE PutNoMem
  <2>1. TypeOK'
    BY <1>h, <1>l, <1>4 DEF PutNoMem, Unlock, getter, IInv, TypeOK
  <2>2. Progress'
    BY <1>h, <1>t, <1>4 DEF PutNoMem, Unlock, getter, IInv, TypeOK, Progress, Racing
  <2>3. Filled'
    BY <1>h, <1>4
       DEF PutNoMem, Unlock, getter, IInv, TypeOK, Progress, Filled, Racing, SlotsDisjoint,
           PutterOwnsHead, InWindow, Slots
  <2>4. NoTornRead'
    BY <1>h, <1>4
       DEF PutNoMem, Unlock, getter, IInv, TypeOK, Progress, Filled, Racing, NoTornRead,
           SlotsDisjoint, PutterOwnsHead, InWindow, Slots
  <2>5. SlotsDisjoint'
    BY <1>h, <1>4
       DEF PutNoMem, Unlock, getter, IInv, TypeOK, Progress, Racing, SlotsDisjoint,
           PutterOwnsHead, InWindow, Slots
  <2>6. NoLeak'
    BY <1>h, <1>4
       DEF PutNoMem, Unlock, getter, IInv, TypeOK, Progress, Filled, Racing, SlotsDisjoint,
           PutterOwnsHead, NoLeak, InWindow, Slots
  <2> QED BY <2>1, <2>2, <2>3, <2>4, <2>5, <2>6 DEF IInv
<1>5. CASE StoreSlot
  <2>1. TypeOK'
    BY <1>h, <1>l, <1>5 DEF StoreSlot, PutDone, Unlock, getter, IInv, TypeOK
  <2>2. Progress'
    BY <1>h, <1>t, <1>5 DEF StoreSlot, PutDone, Unlock, getter, IInv, TypeOK, Progress, Racing
  <2>3. Filled'
    BY <1>h, <1>5
       DEF StoreSlot, PutDone, Unlock, getter, IInv, TypeOK, Progress, Filled, Racing,
           SlotsDisjoint, PutterOwnsHead, InWindow, Slots
  <2>4. NoTornRead'
    BY <1>h, <1>5
       DEF StoreSlot, PutDone, Unlock, getter, IInv, TypeOK, Progress, Filled, Racing,
           NoTornRead, SlotsDisjoint, PutterOwnsHead, InWindow, Slots
  <2>5. SlotsDisjoint'
    BY <1>h, <1>5
       DEF StoreSlot, PutDone, Unlock, getter, IInv, TypeOK, Progress, Racing, SlotsDisjoint,
           PutterOwnsHead, InWindow, Slots
  <2>6. NoLeak'
    BY <1>h, <1>5
       DEF StoreSlot, PutDone, Unlock, getter, IInv, TypeOK, Progress, Filled, Racing,
           SlotsDisjoint, PutterOwnsHead, NoLeak, InWindow, Slots
  <2> QED BY <2>1, <2>2, <2>3, <2>4, <2>5, <2>6 DEF IInv
<1>6. CASE StoreHead
  <2>1. TypeOK'
    BY <1>h, <1>l, <1>6 DEF StoreHead, PutDone, Unlock, getter, IInv, TypeOK
  <2>2. Progress'
    <3>1. /\ ppc = "store" /\ "head" \in ptodo /\ ptodo' = ptodo \ {"head"}
          /\ sync = "weak" \/ "slot" \notin ptodo
          /\ alive /\ pdata \in Data /\ UNCHANGED <<alive, tail, slot, gpc>>
          /\ head' = Succ(head) /\ Succ(head) # tail
      BY <1>6 DEF StoreHead, getter, IInv, Progress, SlotsDisjoint, PutterOwnsHead
    <3>2. CASE "slot" \in ptodo
      <4>1. ptodo' = {"slot"} /\ UNCHANGED <<ppc, pdata>>
        BY <1>t, <1>6, <3>1, <3>2 DEF StoreHead, IInv, Progress, Racing
      <4> QED BY <1>t, <3>1, <3>2, <4>1 DEF Progress, Racing
    <3>3. CASE "slot" \notin ptodo
      <4>1. ptodo' = {} /\ ppc' = "idle"
        BY <1>t, <1>6, <3>1, <3>3 DEF StoreHead, PutDone, IInv, Progress, Racing
      <4> QED BY <3>1, <4>1 DEF Progress
    <3> QED BY <3>2, <3>3
  <2>3. Filled'
    BY <1>h, <1>6
       DEF StoreHead, PutDone, Unlock, getter, IInv, TypeOK, Progress, Filled, Racing,
           SlotsDisjoint, PutterOwnsHead, InWindow, Slots
  <2>4. NoTornRead'
    BY <1>h, <1>6
       DEF StoreHead, PutDone, Unlock, getter, IInv, TypeOK, Progress, Filled, Racing,
           NoTornRead, SlotsDisjoint, PutterOwnsHead, InWindow, Slots
  <2>5. SlotsDisjoint'
    BY <1>h, <1>6
       DEF StoreHead, PutDone, Unlock, getter, IInv, TypeOK, Progress, Racing, SlotsDisjoint,
           PutterOwnsHead, InWindow, Slots
  <2>6. NoLeak'
    BY <1>h, <1>6
       DEF StoreHead, PutDone, Unlock, getter, IInv, TypeOK, Progress, Filled, Racing,
           SlotsDisjoint, PutterOwnsHead, NoLeak, InWindow, Slots
  <2> QED BY <2>1, <2>2, <2>3, <2>4, <2>5, <2>6 DEF IInv
<1>7. CASE GetEmpty
  <2>1. TypeOK'
    BY <1>h, <1>l, <1>7 DEF GetEmpty, ring, putter, IInv, TypeOK
  <2>2. Progress'
    BY <1>h, <1>t, <1>7 DEF GetEmpty, ring, putter, IInv, TypeOK, Progress, Racing
  <2>3. Filled'
    BY <1>h, <1>7
       DEF GetEmpty, ring, putter, IInv, TypeOK, Progress, Filled, Racing, SlotsDisjoint,
           PutterOwnsHead, InWindow, Slots
  <2>4. NoTornRead'
    BY <1>h, <1>7
       DEF GetEmpty, ring, putter, IInv, TypeOK, Progress, Filled, Racing, NoTornRead,
           SlotsDisjoint, PutterOwnsHead, InWindow, Slots
  <2>5. SlotsDisjoint'
    BY <1>h, <1>7
       DEF GetEmpty, ring, putter, IInv, TypeOK, Progress, Racing, SlotsDisjoint,
           PutterOwnsHead, InWindow, Slots
  <2>6. NoLeak'
    BY <1>h, <1>7
       DEF GetEmpty, ring, putter, IInv, TypeOK, Progress, Filled, Racing, SlotsDisjoint,
           PutterOwnsHead, NoLeak, InWindow, Slots
  <2> QED BY <2>1, <2>2, <2>3, <2>4, <2>5, <2>6 DEF IInv
<1>8. CASE GetCheck
  <2>1. TypeOK'
    BY <1>h, <1>l, <1>8 DEF GetCheck, Lock, ring, putter, IInv, TypeOK
  <2>2. Progress'
    BY <1>h, <1>t, <1>8 DEF GetCheck, Lock, ring, putter, IInv, TypeOK, Progress, Racing
  <2>3. Filled'
    BY <1>h, <1>8
       DEF GetCheck, Lock, ring, putter, IInv, TypeOK, Progress, Filled, Racing, SlotsDisjoint,
           PutterOwnsHead, InWindow, Slots
  <2>4. NoTornRead'
    BY <1>h, <1>8
       DEF GetCheck, Lock, ring, putter, IInv, TypeOK, Progress, Filled, Racing, NoTornRead,
           SlotsDisjoint, PutterOwnsHead, InWindow, Slots
  <2>5. SlotsDisjoint'
    BY <1>h, <1>8
       DEF GetCheck, Lock, ring, putter, IInv, TypeOK, Progress, Racing, SlotsDisjoint,
           PutterOwnsHead, InWindow, Slots
  <2>6. NoLeak'
    BY <1>h, <1>8
       DEF GetCheck, Lock, ring, putter, IInv, TypeOK, Progress, Filled, Racing, SlotsDisjoint,
           PutterOwnsHead, NoLeak, InWindow, Slots
  <2> QED BY <2>1, <2>2, <2>3, <2>4, <2>5, <2>6 DEF IInv
<1>9. CASE GetCopy
  <2>1. TypeOK'
    BY <1>h, <1>l, <1>9 DEF GetCopy, ring, putter, IInv, TypeOK
  <2>2. Progress'
    BY <1>h, <1>t, <1>9 DEF GetCopy, ring, putter, IInv, TypeOK, Progress, Racing
  <2>3. Filled'
    BY <1>h, <1>9
       DEF GetCopy, ring, putter, IInv, TypeOK, Progress, Filled, Racing, SlotsDisjoint,
           PutterOwnsHead, InWindow, Slots
  <2>4. NoTornRead'
    BY <1>h, <1>9
       DEF GetCopy, ring, putter, IInv, TypeOK, Progress, Filled, Racing, NoTornRead,
           SlotsDisjoint, PutterOwnsHead, InWindow, Slots
  <2>5. SlotsDisjoint'
    BY <1>h, <1>9
       DEF GetCopy, ring, putter, IInv, TypeOK, Progress, Racing, SlotsDisjoint,
           PutterOwnsHead, InWindow, Slots
  <2>6. NoLeak'
    BY <1>h, <1>9
       DEF GetCopy, ring, putter, IInv, TypeOK, Progress, Filled, Racing, SlotsDisjoint,
           PutterOwnsHead, NoLeak, InWindow, Slots
  <2> QED BY <2>1, <2>2, <2>3, <2>4, <2>5, <2>6 DEF IInv
<1>10. CASE GetRelease
  <2>1. TypeOK'
    BY <1>h, <1>l, <1>10 DEF GetRelease, putter, IInv, TypeOK
  <2>2. Progress'
    BY <1>h, <1>t, <1>10 DEF GetRelease, putter, IInv, TypeOK, Progress, Racing
  <2>3. Filled'
    BY <1>h, <1>10
       DEF GetRelease, putter, IInv, TypeOK, Progress, Filled, Racing, SlotsDisjoint,
           PutterOwnsHead, InWindow, Slots
  <2>4. NoTornRead'
    BY <1>h, <1>10
       DEF GetRelease, putter, IInv, TypeOK, Progress, Filled, Racing, NoTornRead,
           SlotsDisjoint, PutterOwnsHead, InWindow, Slots
  <2>5. SlotsDisjoint'
    BY <1>h, <1>10
       DEF GetRelease, putter, IInv, TypeOK, Progress, Racing, SlotsDisjoint, PutterOwnsHead,
           InWindow, Slots
  <2>6. NoLeak'
    BY <1>h, <1>10
       DEF GetRelease, putter, IInv, TypeOK, Progress, Filled, Racing, SlotsDisjoint,
           PutterOwnsHead, NoLeak, InWindow, Slots
  <2> QED BY <2>1, <2>2, <2>3, <2>4, <2>5, <2>6 DEF IInv
<1>11. CASE GetAdvance
  <2>1. TypeOK'
    BY <1>h, <1>l, <1>11 DEF GetAdvance, Unlock, putter, IInv, TypeOK
  <2>2. Progress'
    BY <1>h, <1>t, <1>11 DEF GetAdvance, Unlock, putter, IInv, TypeOK, Progress, Racing
  <2>3. Filled'
    BY <1>h, <1>11
       DEF GetAdvance, Unlock, putter, IInv, TypeOK, Progress, Filled, Racing, SlotsDisjoint,
           PutterOwnsHead, InWindow, Slots
  <2>4. NoTornRead'
    BY <1>h, <1>11
       DEF GetAdvance, Unlock, putter, IInv, TypeOK, Progress, Filled, Racing, NoTornRead,
           SlotsDisjoint, PutterOwnsHead, InWindow, Slots
  <2>5. SlotsDisjoint'
    BY <1>h, <1>11
       DEF GetAdvance, Unlock, putter, IInv, TypeOK, Progress, Racing, SlotsDisjoint,
           PutterOwnsHead, InWindow, Slots
  <2>6. NoLeak'
    BY <1>h, <1>11
       DEF GetAdvance, Unlock, putter, IInv, TypeOK, Progress, Filled, Racing, SlotsDisjoint,
           PutterOwnsHead, NoLeak, InWindow, Slots
  <2> QED BY <2>1, <2>2, <2>3, <2>4, <2>5, <2>6 DEF IInv
<1>12. CASE Delete
  <2>1. slot' = [i \in Slots |-> IF InWindow(i) THEN NoBuf ELSE slot[i]]
    BY <1>12 DEF Delete
  <2>2. TypeOK'
    BY <1>h, <1>l, <1>12, <2>1 DEF Delete, IInv, TypeOK, putter, getter
  <2>3. ASSUME NEW i \in Slots
        PROVE  ~InWindow(i)'
    BY <1>h, <1>12 DEF Delete, InWindow, Slots
  <2>4. Progress' /\ Filled' /\ NoTornRead' /\ SlotsDisjoint'
    BY <1>12, <2>3
       DEF Delete, IInv, Progress, Filled, NoTornRead, SlotsDisjoint, PutterOwnsHead,
       Racing, putter, getter
  <2>5. ASSUME sync # "weak", NEW i \in Slots
        PROVE  slot'[i] = NoBuf
    BY <1>12, <2>1, <2>5 DEF Delete, IInv, NoLeak
  <2>6. NoLeak'
    BY <1>12, <2>3, <2>5 DEF Delete, NoLeak, putter, getter
  <2> QED BY <2>2, <2>4, <2>6 DEF IInv
<1>13. CASE Create
  <2>1. TypeOK'
    BY <1>h, <1>l, <1>13 DEF Create, IInv, TypeOK, Slots
  <2>2. ASSUME NEW i \in Slots
        PROVE  ~InWindow(i)' /\ slot'[i] = NoBuf
    BY <1>13 DEF Create, InWindow, Slots
  <2>3. Progress' /\ Filled' /\ NoTornRead' /\ SlotsDisjoint'
    BY <1>13, <2>2
       DEF Create, IInv, Progress, Filled, NoTornRead, SlotsDisjoint, PutterOwnsHead,
       Racing
  <2>4. NoLeak'
    BY <1>13, <2>2 DEF Create, IInv, Progress, NoLeak
  <2> QED BY <2>1, <2>3, <2>4 DEF IInv
<1>14. CASE UNCHANGED vars
  BY <1>14 DEF vars, ring, putter, getter, IInv, TypeOK, Progress, Filled, Racing, NoTornRead,
     SlotsDisjoint, NoLeak, PutterOwnsHead, InWindow
<1> QED
  BY <1>1, <1>2, <1>3, <1>4, <1>5, <1>6, <1>7, <1>8, <1>9, <1>10, <1>11, <1>12, <1>13, <1>14
     DEF Next, PutStep, GetStep

(***************************************************************************)
(* The mapped queue is a sequence of as many messages as the ring counts.  *)
(***************************************************************************)
Entries == Data \cup {NoBuf}

ContentsFacts ==
    /\ Count \in 0 .. UnitNum - 1
    /\ Contents \in Seq(Entries)
    /\ Len(Contents) = Count
    /\ \A k \in 1 .. Count :
          /\ InWindow(Index(k - 1))
          /\ Index(k - 1) \in Slots
          /\ Index(k - 1) = tail <=> k = 1
          /\ Contents[k] = IF k = 1 /\ gpc \in {"release", "advance"}
                           THEN gdata ELSE slot[Index(k - 1)]

LEMMA ContentsSeq == IInv => ContentsFacts
<1> SUFFICES ASSUME IInv PROVE ContentsFacts
  OBVIOUS
<1>1. /\ UnitNum \in Nat \ {0}
      /\ head \in 0 .. UnitNum - 1
      /\ tail \in 0 .. UnitNum - 1
  BY UnitNumAssumption DEF IInv, TypeOK, Slots
<1>2. Count \in 0 .. UnitNum - 1
  BY <1>1 DEF Count
<1>3. ASSUME NEW k \in 1 .. Count
      PROVE  /\ InWindow(Index(k - 1))
             /\ Index(k - 1) \in Slots
             /\ Index(k - 1) = tail <=> k = 1
  BY <1>1 DEF Count, Index, InWindow, Slots
<1>4. ASSUME NEW k \in 1 .. Count
      PROVE  (IF k = 1 /\ gpc \in {"release", "advance"}
              THEN gdata ELSE slot[Index(k - 1)]) \in Entries
  BY <1>3 DEF IInv, TypeOK, Entries
<1>5. Contents \in [1 .. Count -> Entries]
  BY <1>4 DEF Contents
<1>6. Contents \in Seq(Entries)
  BY <1>2, <1>5, SeqDef
<1>7. Len(Contents) = Count
  BY <1>2, <1>5, <1>6, LenProperties
<1>8. ASSUME NEW k \in 1 .. Count
      PROVE  Contents[k] = IF k = 1 /\ gpc \in {"release", "advance"}
                           THEN gdata ELSE slot[Index(k - 1)]
  BY DEF Contents
<1> QED BY <1>2, <1>3, <1>6, <1>7, <1>8 DEF ContentsFacts

(***************************************************************************)
(* A step that moves neither head nor tail and leaves every message of the *)
(* window as it was leaves the mapped queue as it was.                     *)
(***************************************************************************)
LEMMA ContentsSame ==
    ASSUME ContentsFacts, ContentsFacts', head' = head, tail' = tail,
           \A k \in 1 .. Count : Contents'[k] = Contents[k]
    PROVE  Contents' = Contents
<1>1. Count' = Count
  BY DEF Count
<1>2. Contents \in Seq(Entries) /\ Contents' \in Seq(Entries) /\ Len(Contents') = Len(Contents)
  BY <1>1 DEF ContentsFacts
<1>3. \A k \in 1 .. Len(Contents) : Contents'[k] = Contents[k]
  BY DEF ContentsFacts
<1> QED BY <1>2, <1>3, SeqEqual

(***************************************************************************)
(* Each step of the ring is a step of the bounded FIFO or leaves it alone, *)
(* as long as the stores of a put are seen in their order.                 *)
(***************************************************************************)
LEMMA StepRefines ==
    ASSUME sync # "weak", IInv, IInv', ContentsFacts, ContentsFacts', [Next]_vars
    PROVE  [Fifo!Next]_(Fifo!vars)
<1>s. sync' = sync /\ sync \in Syncs /\ sync # "weak"
  BY DEF Next, PutStep, GetStep, vars, IInv, TypeOK
<1> USE <1>s, UnitNumAssumption, DataAssumption
<1>h. /\ head \in 0 .. UnitNum - 1 /\ tail \in 0 .. UnitNum - 1
      /\ Succ(head) = IF head = UnitNum - 1 THEN 0 ELSE head + 1
      /\ Succ(tail) = IF tail = UnitNum - 1 THEN 0 ELSE tail + 1
  BY SuccValue DEF IInv, TypeOK, Slots
<1>c. Len(Contents) = Count /\ Contents \in Seq(Entries)
  BY DEF ContentsFacts
<1>room. Count < UnitNum - 1 <=> Succ(head) # tail
  BY <1>h DEF Count
<1>empty. Contents = <<>> <=> head = tail
  <2>1. Count = 0 <=> head = tail
    BY <1>h DEF Count
  <2> QED BY <1>c, <2>1, EmptySeq
<1>u. ASSUME Contents' = Contents, UNCHANGED <<alive, pret, gret>>
      PROVE  UNCHANGED Fifo!vars
  BY <1>u DEF Fifo!vars
<1>1. CASE PutFull
  <2>1. Contents' = Contents
    BY <1>1 DEF PutFull, Contents, Count, Index, ring, getter
  <2>2. Count = UnitNum - 1
    BY <1>1, <1>h, <1>room DEF PutFull, Count
  <2>3. Fifo!PutFull
    BY <1>1, <1>c, <2>1, <2>2 DEF PutFull, Fifo!PutFull, ring, getter
  <2> QED BY <2>3 DEF Fifo!Next
<1>2. ASSUME NEW d \in Data, PutCheck(d)
      PROVE  UNCHANGED Fifo!vars
  BY <1>2, <1>u DEF PutCheck, Contents, Count, Index, ring, getter
<1>3. CASE PutAlloc
  BY <1>3, <1>u DEF PutAlloc, Contents, Count, Index, ring, getter
<1>4. CASE PutNoMem
  <2>1. ASSUME NEW k \in 1 .. Count
        PROVE  Contents'[k] = Contents[k]
    <3>1. Index(k - 1) # head
      BY <1>4 DEF PutNoMem, ContentsFacts, IInv, SlotsDisjoint, PutterOwnsHead
    <3>2. Count' = Count /\ Index(k - 1)' = Index(k - 1) /\ slot'[Index(k - 1)] = slot[Index(k - 1)]
      BY <1>4, <3>1 DEF PutNoMem, Count, Index, IInv, TypeOK, ContentsFacts
    <3> QED BY <1>4, <3>2 DEF PutNoMem, ContentsFacts, getter
  <2>2. Contents' = Contents
    BY <1>4, <2>1, ContentsSame DEF PutNoMem
  <2>3. Count < UnitNum - 1
    BY <1>4, <1>room DEF PutNoMem, IInv, SlotsDisjoint, PutterOwnsHead
  <2>4. Fifo!PutNoMem
    BY <1>4, <1>c, <2>2, <2>3 DEF PutNoMem, Fifo!PutNoMem, IInv, Progress, getter
  <2> QED BY <2>4 DEF Fifo!Next
<1>5. CASE StoreSlot
  <2>1. /\ "head" \in ptodo
        /\ slot' = [slot EXCEPT ![head] = pdata]
        /\ UNCHANGED <<alive, head, tail, pret, gpc, gdata, gret>>
    BY <1>5 DEF StoreSlot, IInv, Progress, Racing, getter
  <2>2. ASSUME NEW k \in 1 .. Count
        PROVE  Contents'[k] = Contents[k]
    <3>1. Index(k - 1) # head
      <4>1. ~InWindow(head)
        BY <1>5, <2>1 DEF StoreSlot, IInv, SlotsDisjoint, PutterOwnsHead
      <4>2. InWindow(Index(k - 1))
        BY DEF ContentsFacts
      <4> QED BY <4>1, <4>2
    <3>2. Count' = Count /\ Index(k - 1)' = Index(k - 1)
      BY <2>1 DEF Count, Index
    <3>3. slot'[Index(k - 1)] = slot[Index(k - 1)]
      BY <2>1, <3>1 DEF IInv, TypeOK, ContentsFacts
    <3> QED BY <2>1, <3>2, <3>3 DEF ContentsFacts
  <2>3. Contents' = Contents
    BY <2>1, <2>2, ContentsSame
  <2> QED BY <1>u, <2>1, <2>3
<1>6. CASE StoreHead
  <2>1. /\ ptodo = {"head"} /\ alive /\ pdata \in Data /\ slot[head] = pdata
        /\ head' = Succ(head) /\ pret' = "ok"
        /\ Succ(head) # tail
        /\ UNCHANGED <<alive, tail, slot, gpc, gdata, gret>>
    BY <1>6 DEF StoreHead, PutDone, IInv, Progress, SlotsDisjoint, PutterOwnsHead, getter
  <2>2. Count' = Count + 1
    BY <1>h, <2>1 DEF Count
  <2>3. ASSUME NEW k \in 1 .. Count
        PROVE  Contents'[k] = Append(Contents, pdata)[k]
    <3>1. k \in 1 .. Count'
      BY <2>2 DEF ContentsFacts
    <3>2. Index(k - 1)' = Index(k - 1)
      BY <2>1 DEF Index
    <3>3. Contents'[k] = Contents[k]
      BY <2>1, <3>1, <3>2 DEF ContentsFacts
    <3> QED BY <1>c, <2>1, <3>3, AppendProperties
  <2>4. Contents'[Count + 1] = pdata
    <3>1. head = IF tail + Count < UnitNum THEN tail + Count ELSE tail + Count - UnitNum
      BY <1>h DEF Count
    <3>2. Count + 1 \in 1 .. Count' /\ (Count + 1) - 1 = Count
      BY <2>2 DEF ContentsFacts
    <3>3. ~(Count + 1 = 1 /\ gpc \in {"release", "advance"})
      BY <1>h DEF IInv, Progress, Count
    <3> QED BY <2>1, <3>1, <3>2, <3>3 DEF ContentsFacts, Index
  <2>5. Contents' = Append(Contents, pdata)
    <3>1. /\ Append(Contents, pdata) \in Seq(Entries)
          /\ Len(Append(Contents, pdata)) = Count + 1
          /\ Append(Contents, pdata)[Count + 1] = pdata
      BY <1>c, <2>1, AppendProperties DEF Entries
    <3>2. \A k \in 1 .. Count + 1 : Contents'[k] = Append(Contents, pdata)[k]
      BY <2>3, <2>4, <3>1 DEF ContentsFacts
    <3>3. Contents' \in Seq(Entries) /\ Len(Contents') = Count + 1
      BY <2>2 DEF ContentsFacts
    <3> QED BY <3>1, <3>2, <3>3, SeqEqual
  <2>6. Fifo!Put(pdata)
    BY <1>c, <1>room, <2>1, <2>5 DEF Fifo!Put
  <2> QED BY <2>1, <2>6 DEF Fifo!Next
<1>7. CASE GetEmpty
  <2>1. Contents' = Contents
    BY <1>7 DEF GetEmpty, Contents, Count, Index, ring
  <2>2. Fifo!GetEmpty
    BY <1>7, <1>empty, <2>1 DEF GetEmpty, Fifo!GetEmpty, ring, putter
  <2> QED BY <2>2 DEF Fifo!Next
<1>8. CASE GetCheck
  BY <1>8, <1>u DEF GetCheck, Contents, Count, Index, ring, putter
<1>9. CASE GetCopy
  <2>1. UNCHANGED <<alive, head, tail, slot, pret, gret>>
    BY <1>9 DEF GetCopy, ring, putter
  <2>2. ASSUME NEW k \in 1 .. Count
        PROVE  Contents'[k] = Contents[k]
    <3>1. Count' = Count /\ Index(k - 1)' = Index(k - 1)
      BY <2>1 DEF Count, Index
    <3>2. gpc = "copy" /\ gpc' = "release" /\ gdata' = slot[tail]
      BY <1>9 DEF GetCopy
    <3>3. k \in 1 .. Count'
      BY <3>1
    <3>4. CASE k = 1
      <4>1. Contents[k] = slot[tail]
        BY <3>2, <3>4 DEF ContentsFacts
      <4>2. Contents'[k] = gdata'
        BY <3>2, <3>3, <3>4 DEF ContentsFacts
      <4> QED BY <3>2, <4>1, <4>2
    <3>5. CASE k # 1
      <4>1. Contents[k] = slot[Index(k - 1)]
        BY <3>5 DEF ContentsFacts
      <4>2. Contents'[k] = slot'[Index(k - 1)']
        BY <3>3, <3>5 DEF ContentsFacts
      <4> QED BY <2>1, <3>1, <4>1, <4>2
    <3> QED BY <3>4, <3>5
  <2>3. Contents' = Contents
    BY <2>1, <2>2, ContentsSame
  <2> QED BY <1>u, <2>1, <2>3
<1>10. CASE GetRelease
  <2>1. /\ UNCHANGED <<alive, head, tail, pret, gdata, gret>>
        /\ slot' = [slot EXCEPT ![tail] = NoBuf]
    BY <1>10 DEF GetRelease, putter
  <2>2. ASSUME NEW k \in 1 .. Count
        PROVE  Contents'[k] = Contents[k]
    <3>1. Count' = Count /\ Index(k - 1)' = Index(k - 1)
      BY <2>1 DEF Count, Index
    <3>2. CASE k = 1
      BY <1>10, <2>1, <3>1, <3>2 DEF GetRelease, ContentsFacts
    <3>3. CASE k # 1
      <4>1. slot'[Index(k - 1)] = slot[Index(k - 1)]
        BY <2>1, <3>3 DEF ContentsFacts, IInv, TypeOK
      <4> QED BY <3>1, <3>3, <4>1 DEF ContentsFacts
    <3> QED BY <3>2, <3>3
  <2>3. Contents' = Contents
    BY <2>1, <2>2, ContentsSame
  <2> QED BY <1>u, <2>1, <2>3
<1>11. CASE GetAdvance
  <2>1. /\ gpc = "advance" /\ gpc' = "idle" /\ alive /\ head # tail
        /\ tail' = Succ(tail)
        /\ gret' = IF gdata \in TooBig THEN "toobig" ELSE gdata
        /\ UNCHANGED <<alive, head, slot, pret>>
    BY <1>11 DEF GetAdvance, IInv, Progress, putter
  <2>2. Count' = Count - 1 /\ Count >= 1
    BY <1>h, <2>1 DEF Count
  <2>3. Contents # <<>>
    BY <1>empty, <2>1
  <2>4. Head(Contents) = gdata
    <3>1. Contents[1] = gdata
      BY <2>1, <2>2 DEF ContentsFacts
    <3> QED BY <2>3, <3>1, <1>c
  <2>5. ASSUME NEW k \in 1 .. Count - 1
        PROVE  Contents'[k] = Tail(Contents)[k]
    <3>1. Index(k - 1)' = Index(k)
      BY <1>h, <2>1, <2>2 DEF Index, Count
    <3>2. k + 1 \in 1 .. Count /\ (k + 1) - 1 = k /\ k \in 1 .. Count'
      BY <2>2 DEF ContentsFacts
    <3>3. Contents'[k] = slot[Index(k)]
      BY <2>1, <3>1, <3>2 DEF ContentsFacts
    <3>4. Contents[k + 1] = slot[Index(k)]
      BY <3>2 DEF ContentsFacts
    <3> QED BY <1>c, <2>3, <3>3, <3>4, HeadTailProperties
  <2>6. Contents' = Tail(Contents)
    <3>1. Tail(Contents) \in Seq(Entries) /\ Len(Tail(Contents)) = Count - 1
      BY <1>c, <2>3, HeadTailProperties
    <3>2. Contents' \in Seq(Entries) /\ Len(Contents') = Count - 1
      BY <2>2 DEF ContentsFacts
    <3> QED BY <2>5, <3>1, <3>2, SeqEqual
  <2>7. Fifo!Get
    BY <2>1, <2>3, <2>4, <2>6 DEF Fifo!Get
  <2> QED BY <2>7 DEF Fifo!Next
<1>12. CASE Delete
  <2>1. Contents' = <<>>
    <3>1. Count' = 0
      BY <1>h, <1>12 DEF Delete, Count
    <3> QED BY <3>1, EmptySeq DEF ContentsFacts
  <2>2. Fifo!Delete
    BY <1>12, <2>1 DEF Delete, Fifo!Delete, putter, getter
  <2> QED BY <2>2 DEF Fifo!Next
<1>13. CASE Create
  <2>1. Contents' = <<>>
    <3>1. Count' = 0
      BY <1>13 DEF Create, Count
    <3> QED BY <3>1, EmptySeq DEF ContentsFacts
  <2>2. Fifo!Create
    BY <1>13, <2>1 DEF Create, Fifo!Create
  <2> QED BY <2>2 DEF Fifo!Next
<1>14. CASE UNCHANGED vars
  BY <1>14, <1>u DEF vars, ring, putter, getter, Contents, Count, Index
<1> QED
  BY <1>1, <1>2, <1>3, <1>4, <1>5, <1>6, <1>7, <1>8, <1>9, <1>10, <1>11, <1>12, <1>13, <1>14
     DEF Next, PutStep, GetStep

(***************************************************************************)
(* The inductive invariant of circular_queue.c holds in every state of two *)
(* threads, whether they lock it or not and whatever the order in which    *)
(* the stores of a put are seen.                                           *)
(***************************************************************************)
THEOREM Invariance == Spec => []IInv
BY InitIInv, NextIInv, PTL DEF Spec

(***************************************************************************)
(* head and tail never leave the ring, and no operation its places.        *)
(***************************************************************************)
THEOREM Types == Spec => []TypeOK
<1>1. IInv => TypeOK
  BY DEF IInv
<1> QED BY <1>1, Invariance, PTL

(***************************************************************************)
(* circular_queue_put never writes a slot that circular_queue_get may      *)
(* read, whatever the getter did since the check for room.                 *)
(***************************************************************************)
THEOREM Disjoint == Spec => []SlotsDisjoint
<1>1. IInv => SlotsDisjoint
  BY DEF IInv
<1> QED BY <1>1, Invariance, PTL

(***************************************************************************)
(* circular_queue_get comes to a slot that no put has filled only if that  *)
(* is the last one, and the put that published it without a lock has its   *)
(* two stores seen in the wrong order at that moment; never, if no queue   *)
(* is used in a way that allows that.                                      *)
(***************************************************************************)
THEOREM TornReads == Spec => []NoTornRead /\ ("weak" \notin Syncs => []WholeMessages)
<1>1. IInv => NoTornRead
  BY DEF IInv
<1>2. Spec => []NoTornRead
  BY <1>1, Invariance, PTL
<1>3. CASE "weak" \notin Syncs
  <2>1. IInv => WholeMessages
    BY <1>3 DEF IInv, TypeOK, NoTornRead, WholeMessages
  <2> QED BY <1>2, <2>1, Invariance, PTL
<1>4. CASE "weak" \in Syncs
  BY <1>2, <1>4
<1> QED BY <1>3, <1>4

(***************************************************************************)
(* Exactly the slots of the window own a buffer, so none leaks and none is *)
(* freed twice, in a queue whose stores are seen in their order.           *)
(***************************************************************************)
THEOREM Leaks == Spec => []NoLeak
<1>1. IInv => NoLeak
  BY DEF IInv
<1> QED BY <1>1, Invariance, PTL

(***************************************************************************)
(* The ring implements a FIFO of UnitNum - 1 messages (data_num - 1), as   *)
(* long as stores are seen in their order.                                 *)
(***************************************************************************)
THEOREM Refinement == Spec => Refines
<1>1. Init => Fifo!Init
  <2> SUFFICES ASSUME Init PROVE Fifo!Init
    OBVIOUS
  <2>1. ContentsFacts /\ Count = 0
    BY InitIInv, ContentsSeq DEF Init, Count
  <2>2. Contents = <<>>
    BY <2>1, EmptySeq DEF ContentsFacts
  <2> QED BY <2>2 DEF Init, Fifo!Init
<1>2. IInv /\ IInv' /\ ContentsFacts /\ ContentsFacts' /\ [Next]_vars
          => [Fifo!Next \/ sync = "weak"]_(Fifo!vars)
  BY StepRefines
<1>3. IInv => ContentsFacts
  BY ContentsSeq
<1> QED BY <1>1, <1>2, <1>3, Invariance, PTL DEF Spec, Refines
=============================================================================
