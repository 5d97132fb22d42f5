-------------------------- MODULE B43TxRing_proofs --------------------------
(***************************************************************************)
(* Theorems about B43TxRing for every ring size, every set of frames and   *)
(* every number of faults and restarts.                                    *)
(*                                                                         *)
(* The inductive invariant is IInv: the types, the exact count of used      *)
(* slots, and who holds each frame.  UsedExact alone is not inductive: that *)
(* the count does not underflow when a slot is reaped needs the ring to be  *)
(* empty while it is not allocated (Unallocated), and that the device only *)
(* reads live frames needs every frame to have one holder (Ownership).      *)
(*                                                                         *)
(* That the ring implements B43TxFifo needs two more: OwnedWindow, by which *)
(* the frames in flight are a sequence that grows at cur_tx and shrinks at  *)
(* the device's end, and SentInv, by which a frame in a slot the device has *)
(* given back was transmitted, and a frame still queued was not.            *)
(***************************************************************************)
EXTENDS B43TxRing, FiniteSetTheorems, SequenceTheorems, TLAPS

(* A ring that does not exist holds nothing, so nothing is ever reaped from *)
(* it, and the device owns a descriptor only of a filled slot.              *)
Unallocated == ~allocated => Occupied = {}

OwnedFilled == \A i \in Slots : hwOwns[i] => slotM[i] # NoMbuf

(* Each frame has at most one holder: one slot, one place in the queue, or *)
(* nobody once it is freed.                                                *)
SlotsDistinct ==
  \A i, j \in Slots : slotM[i] = slotM[j] /\ slotM[i] # NoMbuf => i = j

QueueDistinct == \A k, l \in DOMAIN ifq : ifq[k] = ifq[l] => k = l

QueueApart == \A k \in DOMAIN ifq, i \in Slots : ifq[k] # slotM[i]

Held(m) == m \in handed /\ freed[m] = 0

SlotsHeld == \A i \in Slots : slotM[i] # NoMbuf => Held(slotM[i])

QueueHeld == \A k \in DOMAIN ifq : Held(ifq[k])

NewUnfreed == \A m \in Mbufs \ handed : freed[m] = 0

FreedAtMostOnce == \A m \in Mbufs : freed[m] <= 1

InQueue(m) == \E k \in DOMAIN ifq : ifq[k] = m

NoneLeaked == \A m \in handed : freed[m] = 1 \/ InRing(m) \/ InQueue(m)

(* The ring exists, and a handler touches it, only while the interface runs. *)
DownUnallocated == ~running => ~allocated /\ pc = "idle"

Ownership ==
  /\ SlotsDistinct
  /\ QueueDistinct
  /\ QueueApart
  /\ SlotsHeld
  /\ QueueHeld
  /\ NewUnfreed
  /\ FreedAtMostOnce
  /\ NoneLeaked

Counted == TypeOK /\ UsedExact /\ Unallocated /\ OwnedFilled

IInv == Counted /\ DownUnallocated /\ Ownership

-----------------------------------------------------------------------------
(* Counting slots.                                                         *)

(* The ring has NSlots slots.                                             *)
LEMMA SlotsFinite ==
  /\ IsFiniteSet(Slots)
  /\ Cardinality(Slots) = NSlots
  BY FS_Interval, TxRingAssumption DEF Slots

(* The slot after a slot of the ring is a slot of the ring.               *)
LEMMA FollowingType == ASSUME NEW i \in Slots PROVE Following(i) \in Slots
  BY TxRingAssumption DEF Slots, Following

(* Any set of slots is finite and has at most NSlots members.              *)
LEMMA SlotSubset ==
  ASSUME NEW S \in SUBSET Slots
  PROVE  IsFiniteSet(S) /\ Cardinality(S) \in 0 .. NSlots
<1>1. IsFiniteSet(S) /\ Cardinality(S) <= Cardinality(Slots)
  BY SlotsFinite, FS_Subset
<1>2. Cardinality(S) \in Nat
  BY <1>1, FS_CardinalityType
<1> QED
  BY <1>1, <1>2, SlotsFinite

(* Filling an empty slot adds one to the count and stays within the ring.  *)
LEMMA FillCount ==
  ASSUME NEW S \in SUBSET Slots, NEW i \in Slots, i \notin S
  PROVE  Cardinality(S \cup {i}) = Cardinality(S) + 1
         /\ Cardinality(S) + 1 \in 0 .. NSlots
<1>1. Cardinality(S \cup {i}) = Cardinality(S) + 1
  BY SlotSubset, FS_AddElement
<1>2. S \cup {i} \in SUBSET Slots
  OBVIOUS
<1> QED
  BY <1>1, <1>2, SlotSubset

(* Emptying a filled slot takes one from the count, which was not zero.    *)
LEMMA EmptyCount ==
  ASSUME NEW S \in SUBSET Slots, NEW i \in S
  PROVE  Cardinality(S \ {i}) = Cardinality(S) - 1
         /\ Cardinality(S) - 1 \in 0 .. NSlots
<1>1. Cardinality(S \ {i}) = Cardinality(S) - 1
  BY SlotSubset, FS_RemoveElement
<1>2. S \ {i} \in SUBSET Slots
  OBVIOUS
<1> QED
  BY <1>1, <1>2, SlotSubset

(* The effect of filling and of emptying a slot on the set of filled ones. *)
LEMMA OccupiedFill ==
  ASSUME TypeOK, NEW m \in Mbufs, slotM[curTx] = NoMbuf,
         slotM' = [slotM EXCEPT ![curTx] = m]
  PROVE  Occupied' = Occupied \cup {curTx} /\ curTx \notin Occupied
  BY TxRingAssumption DEF TypeOK, Occupied

(* Reaping a slot removes it, and only it, from the filled ones.          *)
LEMMA OccupiedEmpty ==
  ASSUME TypeOK, NEW i \in Slots, slotM' = [slotM EXCEPT ![i] = NoMbuf]
  PROVE  Occupied' = Occupied \ {i}
  BY DEF TypeOK, Occupied

(* b43bsd_dma_init and b43bsd_dma_free leave no slot filled.               *)
LEMMA OccupiedNone ==
  ASSUME NoSlots
  PROVE  /\ Occupied' = {}
         /\ Cardinality(Occupied') = 0
         /\ slotM' \in [Slots -> Mbufs \cup {NoMbuf}]
         /\ hwOwns' \in [Slots -> BOOLEAN]
         /\ OwnedFilled'
<1>1. Occupied' = {}
  BY DEF NoSlots, Occupied
<1> QED
  BY <1>1, FS_EmptySet DEF NoSlots, OwnedFilled

-----------------------------------------------------------------------------
(* Types and the count of used slots.                                      *)

(* Before the first b43bsd_dma_init the count is right: nothing is posted. *)
LEMMA CountedInit == Init => Counted
<1> SUFFICES ASSUME Init PROVE Counted
  OBVIOUS
<1>1. TypeOK
  <2>1. /\ slotM \in [Slots -> Mbufs \cup {NoMbuf}]
        /\ hwOwns \in [Slots -> BOOLEAN]
        /\ freed \in [Mbufs -> Nat]
    BY DEF Init
  <2>2. /\ curTx \in Slots /\ hwNext \in Slots
        /\ used \in 0 .. NSlots /\ scan \in 0 .. NSlots
        /\ faults \in 0 .. MaxFaults /\ restarts \in 0 .. MaxRestarts
    BY TxRingAssumption DEF Init, Slots
  <2>3. ifq \in Seq(Mbufs) /\ wire \in Seq(Mbufs)
    BY DEF Init
  <2> QED
    BY <2>1, <2>2, <2>3 DEF Init, TypeOK
<1>2. Occupied = {}
  BY DEF Init, Occupied
<1> QED
  BY <1>1, <1>2, FS_EmptySet DEF Init, Counted, UsedExact, Unallocated, OwnedFilled

(* b43bsd_dma_tx_start                                                     *)
LEMMA CountedPost ==
  ASSUME Counted, NEW m \in Mbufs, TxPost(m)
  PROVE  /\ slotM' \in [Slots -> Mbufs \cup {NoMbuf}]
         /\ hwOwns' \in [Slots -> BOOLEAN]
         /\ curTx' \in Slots
         /\ used' \in 0 .. NSlots
         /\ UsedExact' /\ Unallocated' /\ OwnedFilled'
<1> USE DEF Counted
<1>1. /\ slotM[curTx] = NoMbuf
      /\ allocated
      /\ slotM' = [slotM EXCEPT ![curTx] = m]
      /\ hwOwns' = [hwOwns EXCEPT ![curTx] = TRUE]
      /\ curTx' = Following(curTx)
      /\ used' = used + 1
      /\ allocated' = allocated
  BY DEF TxPost, TxRefused
<1>2. Occupied' = Occupied \cup {curTx} /\ curTx \notin Occupied
  BY <1>1, OccupiedFill
<1>3. /\ Cardinality(Occupied') = Cardinality(Occupied) + 1
      /\ Cardinality(Occupied) + 1 \in 0 .. NSlots
  <2>1. Occupied \in SUBSET Slots /\ curTx \in Slots
    BY DEF Occupied, TypeOK
  <2> QED
    BY <1>2, <2>1, FillCount
<1>4. used = Cardinality(Occupied)
  BY <1>1 DEF UsedExact
<1>5. /\ slotM' \in [Slots -> Mbufs \cup {NoMbuf}]
      /\ hwOwns' \in [Slots -> BOOLEAN]
      /\ curTx' \in Slots
  BY <1>1, FollowingType DEF TypeOK
<1>6. OwnedFilled'
  BY <1>1, TxRingAssumption DEF OwnedFilled, TypeOK
<1> QED
  BY <1>1, <1>3, <1>4, <1>5, <1>6 DEF UsedExact, Unallocated

(* The actions that leave the ring as it is.                               *)
LEMMA CountedSameRing ==
  ASSUME Counted, UNCHANGED ringVars
  PROVE  /\ slotM' \in [Slots -> Mbufs \cup {NoMbuf}]
         /\ hwOwns' \in [Slots -> BOOLEAN]
         /\ curTx' \in Slots
         /\ used' \in 0 .. NSlots
         /\ allocated' \in BOOLEAN
         /\ engine' \in {"run", "stopped", "error", "off"}
         /\ hwNext' \in Slots
         /\ rxFatal' \in BOOLEAN
         /\ UsedExact' /\ Unallocated' /\ OwnedFilled'
  BY DEF Counted, TypeOK, ringVars, UsedExact, Unallocated, OwnedFilled, Occupied

(* m_freem of one frame, and of every frame in a slot.                     *)
LEMMA FreeType ==
  ASSUME TypeOK, NEW m \in Mbufs, Free(m)
  PROVE  freed' \in [Mbufs -> Nat]
  BY DEF TypeOK, Free

(* Freeing the frames of all slots keeps every count in its type.         *)
LEMMA FreeAllType ==
  ASSUME TypeOK, FreeAll
  PROVE  freed' \in [Mbufs -> Nat]
<1>1. \A m \in Mbufs : Cardinality({i \in Slots : slotM[i] = m}) \in Nat
  <2> SUFFICES ASSUME NEW m \in Mbufs
               PROVE  Cardinality({i \in Slots : slotM[i] = m}) \in Nat
    OBVIOUS
  <2>1. {i \in Slots : slotM[i] = m} \in SUBSET Slots
    OBVIOUS
  <2> QED
    BY <2>1, SlotSubset
<1>2. \A m \in Mbufs : freed[m] + Cardinality({i \in Slots : slotM[i] = m}) \in Nat
  <2>1. freed \in [Mbufs -> Nat]
    BY DEF TypeOK
  <2> QED
    BY <1>1, <2>1
<1> QED
  BY <1>2 DEF FreeAll

(* b43bsd_dma_init, whether it works or fails.                             *)
LEMMA BuiltType ==
  ASSUME Counted, NEW ok \in BOOLEAN, RingBuilt(ok), ok \/ faults < MaxFaults
  PROVE  /\ curTx' \in Slots
         /\ used' \in 0 .. NSlots
         /\ hwNext' \in Slots
         /\ allocated' \in BOOLEAN
         /\ engine' \in {"run", "stopped", "error", "off"}
         /\ rxFatal' \in BOOLEAN
         /\ faults' \in 0 .. MaxFaults
         /\ UsedExact' /\ Unallocated'
<1>1. curTx' \in Slots /\ used' = 0 /\ hwNext' \in Slots
  BY TxRingAssumption DEF RingBuilt, Restarted, Slots
<1>2. UsedExact' /\ Unallocated'
  BY <1>1, OccupiedNone DEF RingBuilt, UsedExact, Unallocated
<1>3. allocated' \in BOOLEAN /\ rxFatal' \in BOOLEAN
  BY DEF RingBuilt
<1>4. engine' \in {"run", "stopped", "error", "off"}
  BY DEF RingBuilt
<1>5. faults' \in 0 .. MaxFaults
  <2>1. CASE ok
    BY <2>1 DEF RingBuilt, Counted, TypeOK
  <2>2. CASE ~ok
    BY <2>2, TxRingAssumption DEF RingBuilt, Counted, TypeOK
  <2> QED
    BY <2>1, <2>2
<1> QED
  BY <1>1, <1>2, <1>3, <1>4, <1>5, TxRingAssumption

(* b43bsd_start returns to its caller or to the rest of the handler.      *)
LEMMA StartExitType == StartExit \in {"idle", "dma"}
  BY DEF StartExit, AfterTxDone

(* Every step of the driver, the device and the stack keeps the count.    *)
LEMMA CountedStep == Counted /\ [Next]_vars => Counted'
<1> SUFFICES ASSUME Counted, [Next]_vars PROVE Counted'
  OBVIOUS
<1> USE DEF irqVars, queueVars, cpuVars, countVars
<1>t. TypeOK
  BY DEF Counted
<1>1. ASSUME NEW m \in Mbufs, Enqueue(m) PROVE Counted'
  BY <1>1, <1>t, CountedSameRing DEF Enqueue, Counted, TypeOK
<1>2. CASE CallStart
  BY <1>2, <1>t, CountedSameRing DEF CallStart, Counted, TypeOK
<1>3. CASE StartPosts
  <2>1. ifq \in Seq(Mbufs) /\ ifq # <<>>
    BY <1>3, <1>t DEF StartPosts, TypeOK
  <2>2. Head(ifq) \in Mbufs /\ Tail(ifq) \in Seq(Mbufs)
    BY <2>1
  <2> QED
    BY <1>3, <1>t, <2>2, CountedPost DEF StartPosts, TxPost, Counted, TypeOK
<1>4. CASE StartDrops
  <2>1. ifq \in Seq(Mbufs) /\ ifq # <<>>
    BY <1>4, <1>t DEF StartDrops, TypeOK
  <2>2. Head(ifq) \in Mbufs /\ Tail(ifq) \in Seq(Mbufs)
    BY <2>1
  <2>3. freed' \in [Mbufs -> Nat]
    BY <1>4, <1>t, <2>2, FreeType DEF StartDrops
  <2>4. faults' \in 0 .. MaxFaults
    BY <1>4, <1>t, TxRingAssumption DEF StartDrops, TxFails, TypeOK
  <2> QED
    BY <1>4, <1>t, <2>2, <2>3, <2>4, CountedSameRing, StartExitType
    DEF StartDrops, Counted, TypeOK
<1>5. CASE StartReturns
  BY <1>5, <1>t, CountedSameRing, StartExitType DEF StartReturns, Counted, TypeOK
<1>6. ASSUME NEW m \in Mbufs, DirectPosts(m) PROVE Counted'
  BY <1>6, <1>t, CountedPost DEF DirectPosts, TxPost, Counted, TypeOK
<1>7. ASSUME NEW m \in Mbufs, DirectDrops(m) PROVE Counted'
  <2>1. freed' \in [Mbufs -> Nat]
    BY <1>7, <1>t, FreeType DEF DirectDrops
  <2>2. faults' \in 0 .. MaxFaults
    BY <1>7, <1>t, TxRingAssumption DEF DirectDrops, TxFails, TypeOK
  <2> QED
    BY <1>7, <1>t, <2>1, <2>2, CountedSameRing DEF DirectDrops, Counted, TypeOK
<1>8. CASE Intr \/ IntrStorms
  <2>1. CASE Intr
    <3>1. scan' \in 0 .. NSlots
      BY <2>1, TxRingAssumption DEF Intr
    <3> QED
      BY <2>1, <3>1, <1>t, CountedSameRing DEF Intr, Counted, TypeOK
  <2>2. CASE IntrStorms
    BY <2>2, <1>t, CountedSameRing DEF IntrStorms, Counted, TypeOK
  <2> QED
    BY <1>8, <2>1, <2>2
<1>9. CASE ReapFrees
  <2>1. scan \in Slots /\ scan + 1 \in 0 .. NSlots
    BY <1>9, <1>t, TxRingAssumption DEF ReapFrees, TypeOK, Slots
  <2>2. scan \in Occupied /\ slotM[scan] \in Mbufs /\ ~hwOwns[scan]
    BY <1>9, <1>t, <2>1 DEF ReapFrees, Reapable, Occupied, TypeOK
  <2>3. freed' \in [Mbufs -> Nat]
    BY <1>9, <1>t, <2>2, FreeType DEF ReapFrees
  <2>4. allocated /\ used = Cardinality(Occupied)
    BY <2>2 DEF Counted, Unallocated, UsedExact
  <2>5. Occupied' = Occupied \ {scan}
    BY <1>9, <1>t, <2>1, OccupiedEmpty DEF ReapFrees
  <2>6. Cardinality(Occupied') = used - 1 /\ used - 1 \in 0 .. NSlots
    <3>1. Occupied \in SUBSET Slots
      BY DEF Occupied
    <3> QED
      BY <2>2, <2>4, <2>5, <3>1, EmptyCount
  <2>7. UsedExact' /\ Unallocated' /\ OwnedFilled'
    BY <1>9, <1>t, <2>1, <2>2, <2>4, <2>6
    DEF ReapFrees, Counted, UsedExact, Unallocated, OwnedFilled, TypeOK
  <2> QED
    BY <1>9, <1>t, <2>1, <2>3, <2>6, <2>7 DEF ReapFrees, Counted, TypeOK
<1>10. CASE ReapSkips
  BY <1>10, <1>t, CountedSameRing, TxRingAssumption DEF ReapSkips, Counted, TypeOK
<1>11. CASE ReapEnds
  BY <1>11, <1>t, CountedSameRing DEF ReapEnds, AfterTxDone, Counted, TypeOK
<1>12. CASE RecoverRebuilds
  <2>1. PICK ok \in BOOLEAN : (ok \/ faults < MaxFaults) /\ RingBuilt(ok)
    BY <1>12 DEF RecoverRebuilds
  <2>2. freed' \in [Mbufs -> Nat]
    BY <1>12, <1>t, FreeAllType DEF RecoverRebuilds
  <2>3. NoSlots
    BY <2>1 DEF RingBuilt
  <2> QED
    BY <1>12, <1>t, <2>1, <2>2, <2>3, OccupiedNone, BuiltType
    DEF RecoverRebuilds, Counted, TypeOK
<1>13. CASE RecoverRestarts
  BY <1>13, <1>t DEF RecoverRestarts, Counted, TypeOK, UsedExact, Unallocated,
     OwnedFilled, Occupied
<1>14. CASE Stop
  <2>1. freed' \in [Mbufs -> Nat]
    BY <1>14, <1>t, FreeAllType DEF Stop, RingFreed
  <2>2. NoSlots /\ ~allocated' /\ engine' = "off" /\ ~rxFatal'
    BY <1>14 DEF Stop, RingFreed
  <2> QED
    BY <1>14, <1>t, <2>1, <2>2, OccupiedNone
    DEF Stop, RingFreed, Counted, TypeOK, UsedExact, Unallocated
<1>15. CASE Up
  <2>1. PICK ok \in BOOLEAN :
          (ok \/ faults < MaxFaults) /\ RingBuilt(ok) /\ running' = ok
    BY <1>15 DEF Up
  <2>2. running' \in BOOLEAN /\ restarts' \in 0 .. MaxRestarts
    BY <1>15, <2>1, <1>t, TxRingAssumption DEF Up, TypeOK
  <2>3. NoSlots
    BY <2>1 DEF RingBuilt
  <2> QED
    BY <1>15, <1>t, <2>1, <2>2, <2>3, OccupiedNone, BuiltType
    DEF Up, Counted, TypeOK
<1>16. CASE HwConsume
  <2>1. slotM[hwNext] \in Mbufs
    BY <1>16, <1>t DEF HwConsume, Counted, OwnedFilled, TypeOK
  <2>2. hwNext' \in Slots /\ hwOwns' \in [Slots -> BOOLEAN]
    BY <1>16, <1>t, FollowingType DEF HwConsume, TypeOK
  <2>3. UsedExact' /\ Unallocated' /\ OwnedFilled'
    BY <1>16, <1>t DEF HwConsume, Counted, UsedExact, Unallocated, OwnedFilled,
       Occupied, TypeOK
  <2> QED
    BY <1>16, <1>t, <2>1, <2>2, <2>3 DEF HwConsume, Counted, TypeOK
<1>17. CASE HwFault
  <2>1. faults' \in 0 .. MaxFaults
    BY <1>17, <1>t, TxRingAssumption DEF HwFault, TypeOK
  <2>2. /\ engine' \in {"run", "stopped", "error", "off"}
        /\ rxFatal' \in BOOLEAN
        /\ irq' \subseteq {"TX_OK", "DMA"}
    BY <1>17, <1>t DEF HwFault, TypeOK
  <2>3. UsedExact' /\ Unallocated' /\ OwnedFilled'
    BY <1>17 DEF HwFault, Counted, UsedExact, Unallocated, OwnedFilled, Occupied
  <2> QED
    BY <1>17, <1>t, <2>1, <2>2, <2>3 DEF HwFault, Counted, TypeOK
<1>18. CASE UNCHANGED vars
  BY <1>18, <1>t, CountedSameRing DEF vars, Counted, TypeOK
<1> QED
  BY <1>1, <1>2, <1>3, <1>4, <1>5, <1>6, <1>7, <1>8, <1>9, <1>10, <1>11, <1>12,
     <1>13, <1>14, <1>15, <1>16, <1>17, <1>18 DEF Next

(* Every reachable state is well typed, for every ring size and every      *)
(* number of frames, faults and restarts.                                  *)
THEOREM TypeCorrect == Spec => []TypeOK
<1>1. Counted => TypeOK
  BY DEF Counted
<1> QED
  BY <1>1, CountedInit, CountedStep, PTL DEF Spec

(* The counter that decides whether a stalled queue is restarted is exact.  *)
THEOREM UsedIsExact == Spec => []UsedExact
<1>1. Counted => UsedExact
  BY DEF Counted
<1> QED
  BY <1>1, CountedInit, CountedStep, PTL DEF Spec

-----------------------------------------------------------------------------
(* Who holds each frame.                                                   *)

(* The stack appends a frame nobody has seen before to the queue.          *)
LEMMA OwnershipEnqueue ==
  ASSUME Counted, Ownership, NEW m \in Mbufs, Enqueue(m)
  PROVE  Ownership'
<1> USE DEF Ownership, Counted
<1>1. /\ m \notin handed
      /\ handed' = handed \cup {m}
      /\ ifq' = Append(ifq, m)
      /\ slotM' = slotM
      /\ freed' = freed
  BY DEF Enqueue, ringVars
<1>2. /\ ifq \in Seq(Mbufs)
      /\ slotM \in [Slots -> Mbufs \cup {NoMbuf}]
      /\ handed \subseteq Mbufs
      /\ freed \in [Mbufs -> Nat]
  BY DEF TypeOK
<1>3. /\ DOMAIN ifq' = DOMAIN ifq \cup {Len(ifq) + 1}
      /\ Len(ifq) + 1 \notin DOMAIN ifq
      /\ \A k \in DOMAIN ifq : ifq'[k] = ifq[k]
      /\ ifq'[Len(ifq) + 1] = m
  BY <1>1, <1>2
<1>4. \A k \in DOMAIN ifq : ifq[k] # m
  BY <1>1 DEF QueueHeld, Held
<1>5. \A i \in Slots : slotM[i] # m
  BY <1>1, TxRingAssumption DEF SlotsHeld, Held
<1>6. freed[m] = 0
  BY <1>1 DEF NewUnfreed
<1>7. SlotsDistinct' /\ QueueDistinct' /\ QueueApart'
  BY <1>1, <1>3, <1>4, <1>5 DEF SlotsDistinct, QueueDistinct, QueueApart
<1>8. SlotsHeld' /\ QueueHeld' /\ NewUnfreed' /\ FreedAtMostOnce'
  BY <1>1, <1>3, <1>6 DEF SlotsHeld, QueueHeld, Held, NewUnfreed, FreedAtMostOnce
<1>9. NoneLeaked'
  BY <1>1, <1>3 DEF NoneLeaked, InRing, InQueue
<1> QED
  BY <1>7, <1>8, <1>9

(* What taking the head off the queue does to its domain.                  *)
LEMMA Dequeue ==
  ASSUME TypeOK, ifq # <<>>, ifq' = Tail(ifq)
  PROVE  /\ Head(ifq) \in Mbufs
         /\ 1 \in DOMAIN ifq /\ Head(ifq) = ifq[1]
         /\ \A k \in DOMAIN ifq' : k + 1 \in DOMAIN ifq /\ k + 1 # 1 /\ k \in Nat
                                   /\ ifq'[k] = ifq[k + 1]
         /\ \A k \in DOMAIN ifq : k # 1 =>
               k - 1 \in DOMAIN ifq' /\ ifq'[k - 1] = ifq[k]
<1>1. ifq \in Seq(Mbufs) /\ Len(ifq) \in Nat \ {0}
  BY DEF TypeOK
<1>2. /\ DOMAIN ifq = 1 .. Len(ifq)
      /\ DOMAIN ifq' = 1 .. Len(ifq) - 1
      /\ \A k \in 1 .. Len(ifq) - 1 : ifq'[k] = ifq[k + 1]
      /\ Head(ifq) = ifq[1] /\ Head(ifq) \in Mbufs
  BY <1>1
<1> QED
  BY <1>1, <1>2

(* b43bsd_start moves the head of the queue into an empty slot.            *)
LEMMA OwnershipStartPosts ==
  ASSUME Counted, Ownership, StartPosts
  PROVE  Ownership'
<1> USE DEF Ownership, Counted
<1> DEFINE m == Head(ifq)
<1>1. /\ ifq # <<>>
      /\ ifq' = Tail(ifq)
      /\ slotM[curTx] = NoMbuf
      /\ slotM' = [slotM EXCEPT ![curTx] = m]
      /\ handed' = handed
      /\ freed' = freed
  BY DEF StartPosts, TxPost, TxRefused
<1>2. /\ slotM \in [Slots -> Mbufs \cup {NoMbuf}]
      /\ curTx \in Slots
      /\ m \in Mbufs
      /\ m # NoMbuf
  BY <1>1, Dequeue, TxRingAssumption DEF TypeOK
<1>3. /\ m = ifq[1] /\ 1 \in DOMAIN ifq
      /\ \A k \in DOMAIN ifq' : k + 1 \in DOMAIN ifq /\ k + 1 # 1 /\ k \in Nat
                                /\ ifq'[k] = ifq[k + 1]
      /\ \A k \in DOMAIN ifq : k # 1 =>
            k - 1 \in DOMAIN ifq' /\ ifq'[k - 1] = ifq[k]
  BY <1>1, Dequeue
<1> HIDE DEF m
<1>4. \A i \in Slots : slotM'[i] = IF i = curTx THEN m ELSE slotM[i]
  BY <1>1, <1>2
<1>5. \A k \in DOMAIN ifq' : ifq'[k] # m
  BY <1>3 DEF QueueDistinct
<1>6. \A i \in Slots : slotM[i] # m
  BY <1>3 DEF QueueApart
<1>7. SlotsDistinct'
  BY <1>4, <1>6 DEF SlotsDistinct
<1>8. QueueDistinct'
  <2> SUFFICES ASSUME NEW k \in DOMAIN ifq', NEW l \in DOMAIN ifq', ifq'[k] = ifq'[l]
               PROVE  k = l
    BY DEF QueueDistinct
  <2>1. k + 1 = l + 1 /\ k \in Nat /\ l \in Nat
    BY <1>3 DEF QueueDistinct
  <2> QED
    BY <2>1
<1>9. QueueApart'
  BY <1>3, <1>4, <1>5 DEF QueueApart
<1>10. SlotsHeld' /\ QueueHeld' /\ NewUnfreed' /\ FreedAtMostOnce'
  BY <1>1, <1>3, <1>4 DEF SlotsHeld, QueueHeld, Held, NewUnfreed, FreedAtMostOnce
<1>11. NoneLeaked'
  <2> SUFFICES ASSUME NEW n \in handed PROVE freed[n] = 1 \/ InRing(n)' \/ InQueue(n)'
    BY <1>1 DEF NoneLeaked, InRing, InQueue
  <2>1. CASE freed[n] = 1
    BY <2>1
  <2>2. CASE InRing(n)
    <3>1. PICK i \in Slots : slotM[i] = n
      BY <2>2 DEF InRing
    <3>2. CASE i = curTx
      <4>1. n = NoMbuf
        BY <1>1, <3>1, <3>2
      <4>2. n \in Mbufs
        BY DEF TypeOK
      <4> QED
        BY <4>1, <4>2, TxRingAssumption
    <3>3. CASE i # curTx
      BY <1>4, <3>1, <3>3 DEF InRing
    <3> QED
      BY <3>2, <3>3
  <2>3. CASE InQueue(n)
    <3>1. PICK k \in DOMAIN ifq : ifq[k] = n
      BY <2>3 DEF InQueue
    <3>2. CASE k = 1
      BY <1>2, <1>3, <1>4, <3>1, <3>2 DEF InRing
    <3>3. CASE k # 1
      BY <1>3, <3>1, <3>3 DEF InQueue
    <3> QED
      BY <3>2, <3>3
  <2> QED
    BY <2>1, <2>2, <2>3 DEF NoneLeaked
<1> QED
  BY <1>7, <1>8, <1>9, <1>10, <1>11

(* b43bsd_start drops the head of the queue.                               *)
LEMMA OwnershipStartDrops ==
  ASSUME Counted, Ownership, StartDrops
  PROVE  Ownership'
<1> USE DEF Ownership, Counted
<1> DEFINE m == Head(ifq)
<1>1. /\ ifq # <<>>
      /\ ifq' = Tail(ifq)
      /\ slotM' = slotM
      /\ handed' = handed
      /\ freed' = [freed EXCEPT ![m] = @ + 1]
  BY DEF StartDrops, Free, ringVars
<1>2. m \in Mbufs
  BY <1>1, Dequeue
<1>3. /\ m = ifq[1] /\ 1 \in DOMAIN ifq
      /\ \A k \in DOMAIN ifq' : k + 1 \in DOMAIN ifq /\ k + 1 # 1 /\ k \in Nat
                                /\ ifq'[k] = ifq[k + 1]
      /\ \A k \in DOMAIN ifq : k # 1 =>
            k - 1 \in DOMAIN ifq' /\ ifq'[k - 1] = ifq[k]
  BY <1>1, Dequeue
<1> HIDE DEF m
<1>4. /\ freed'[m] = 1
      /\ \A n \in Mbufs : n # m => freed'[n] = freed[n]
      /\ m \in handed
  <2>1. freed[m] = 0 /\ m \in handed
    BY <1>3 DEF QueueHeld, Held
  <2> QED
    BY <1>1, <1>2, <2>1 DEF TypeOK
<1>5. \A k \in DOMAIN ifq' : ifq'[k] # m /\ ifq'[k] \in Mbufs
  <2>1. \A k \in DOMAIN ifq : ifq[k] \in Mbufs
    BY DEF TypeOK
  <2> QED
    BY <1>3, <2>1 DEF QueueDistinct
<1>6. \A i \in Slots : slotM[i] # m
  BY <1>3 DEF QueueApart
<1>7. QueueDistinct'
  <2> SUFFICES ASSUME NEW k \in DOMAIN ifq', NEW l \in DOMAIN ifq', ifq'[k] = ifq'[l]
               PROVE  k = l
    BY DEF QueueDistinct
  <2>1. k + 1 = l + 1 /\ k \in Nat /\ l \in Nat
    BY <1>3 DEF QueueDistinct
  <2> QED
    BY <2>1
<1>8. SlotsDistinct' /\ QueueApart'
  BY <1>1, <1>3 DEF SlotsDistinct, QueueApart
<1>9. SlotsHeld'
  BY <1>1, <1>4, <1>6 DEF SlotsHeld, Held, TypeOK
<1>10. QueueHeld'
  BY <1>1, <1>3, <1>4, <1>5 DEF QueueHeld, Held
<1>11. NewUnfreed' /\ FreedAtMostOnce'
  BY <1>1, <1>4 DEF NewUnfreed, FreedAtMostOnce
<1>12. NoneLeaked'
  <2> SUFFICES ASSUME NEW n \in handed, n # m
               PROVE  freed'[n] = 1 \/ InRing(n)' \/ InQueue(n)'
    BY <1>1, <1>4 DEF NoneLeaked, InRing, InQueue
  <2>1. CASE freed[n] = 1
    BY <1>4, <2>1 DEF TypeOK
  <2>2. CASE InRing(n)
    BY <1>1, <2>2 DEF InRing
  <2>3. CASE InQueue(n)
    BY <1>3, <2>3 DEF InQueue
  <2> QED
    BY <2>1, <2>2, <2>3 DEF NoneLeaked
<1> QED
  BY <1>7, <1>8, <1>9, <1>10, <1>11, <1>12

(* A frame nobody has seen before goes straight into an empty slot.        *)
LEMMA OwnershipDirectPosts ==
  ASSUME Counted, Ownership, NEW m \in Mbufs, DirectPosts(m)
  PROVE  Ownership'
<1> USE DEF Ownership, Counted
<1>1. /\ m \notin handed
      /\ handed' = handed \cup {m}
      /\ ifq' = ifq
      /\ slotM[curTx] = NoMbuf
      /\ slotM' = [slotM EXCEPT ![curTx] = m]
      /\ freed' = freed
  BY DEF DirectPosts, TxPost, TxRefused
<1>2. m # NoMbuf /\ curTx \in Slots
  BY TxRingAssumption DEF TypeOK
<1>3. \A i \in Slots : slotM'[i] = IF i = curTx THEN m ELSE slotM[i]
  BY <1>1, <1>2 DEF TypeOK
<1>4. \A i \in Slots : slotM[i] # m
  BY <1>1, <1>2 DEF SlotsHeld, Held
<1>5. \A k \in DOMAIN ifq : ifq[k] # m
  BY <1>1 DEF QueueHeld, Held
<1>6. freed[m] = 0
  BY <1>1 DEF NewUnfreed
<1>7. SlotsDistinct' /\ QueueDistinct' /\ QueueApart'
  BY <1>1, <1>3, <1>4, <1>5 DEF SlotsDistinct, QueueDistinct, QueueApart
<1>8. SlotsHeld' /\ QueueHeld' /\ NewUnfreed' /\ FreedAtMostOnce'
  BY <1>1, <1>3, <1>6 DEF SlotsHeld, QueueHeld, Held, NewUnfreed, FreedAtMostOnce
<1>9. NoneLeaked'
  <2> SUFFICES ASSUME NEW n \in handed \cup {m}
               PROVE  freed[n] = 1 \/ InRing(n)' \/ InQueue(n)
    BY <1>1 DEF NoneLeaked, InRing, InQueue
  <2>1. CASE n = m
    BY <1>2, <1>3, <2>1 DEF InRing
  <2>2. CASE n # m /\ InRing(n)
    <3>1. PICK i \in Slots : slotM[i] = n
      BY <2>2 DEF InRing
    <3>2. n # NoMbuf
      BY <2>2, TxRingAssumption DEF TypeOK
    <3> QED
      BY <1>1, <1>3, <3>1, <3>2 DEF InRing
  <2>3. CASE n # m /\ ~InRing(n)
    BY <2>3 DEF NoneLeaked
  <2> QED
    BY <2>1, <2>2, <2>3
<1> QED
  BY <1>7, <1>8, <1>9

(* A frame nobody has seen before is refused and freed at once.            *)
LEMMA OwnershipDirectDrops ==
  ASSUME Counted, Ownership, NEW m \in Mbufs, DirectDrops(m)
  PROVE  Ownership'
<1> USE DEF Ownership, Counted
<1>1. /\ m \notin handed
      /\ handed' = handed \cup {m}
      /\ ifq' = ifq
      /\ slotM' = slotM
      /\ freed' = [freed EXCEPT ![m] = @ + 1]
  BY DEF DirectDrops, Free, ringVars
<1>2. \A n \in Mbufs : freed'[n] = IF n = m THEN 1 ELSE freed[n]
  <2>1. freed[m] = 0
    BY <1>1 DEF NewUnfreed
  <2> QED
    BY <1>1, <2>1 DEF TypeOK
<1>3. \A i \in Slots : slotM[i] # m
  BY <1>1, TxRingAssumption DEF SlotsHeld, Held
<1>4. \A k \in DOMAIN ifq : ifq[k] # m /\ ifq[k] \in Mbufs
  BY <1>1 DEF QueueHeld, Held, TypeOK
<1>5. SlotsDistinct' /\ QueueDistinct' /\ QueueApart'
  BY <1>1 DEF SlotsDistinct, QueueDistinct, QueueApart
<1>6. SlotsHeld' /\ QueueHeld'
  BY <1>1, <1>2, <1>3, <1>4 DEF SlotsHeld, QueueHeld, Held, TypeOK
<1>7. NewUnfreed' /\ FreedAtMostOnce'
  BY <1>1, <1>2 DEF NewUnfreed, FreedAtMostOnce
<1>8. NoneLeaked'
  BY <1>1, <1>2 DEF NoneLeaked, InRing, InQueue, TypeOK
<1> QED
  BY <1>5, <1>6, <1>7, <1>8

(* b43bsd_dma_tx_done empties a slot and frees its frame.                  *)
LEMMA OwnershipReapFrees ==
  ASSUME Counted, Ownership, ReapFrees
  PROVE  Ownership'
<1> USE DEF Ownership, Counted
<1> DEFINE m == slotM[scan]
<1>1. /\ scan \in Slots
      /\ m # NoMbuf
      /\ handed' = handed
      /\ ifq' = ifq
      /\ slotM' = [slotM EXCEPT ![scan] = NoMbuf]
      /\ freed' = [freed EXCEPT ![m] = @ + 1]
  BY TxRingAssumption DEF ReapFrees, Reapable, Free, queueVars, Slots, TypeOK
<1>2. /\ m \in Mbufs /\ m \in handed
      /\ \A n \in Mbufs : freed'[n] = IF n = m THEN 1 ELSE freed[n]
  <2>1. freed[m] = 0 /\ m \in handed /\ m \in Mbufs
    BY <1>1 DEF SlotsHeld, Held, TypeOK
  <2> QED
    BY <1>1, <2>1 DEF TypeOK
<1>3. \A i \in Slots : slotM'[i] = IF i = scan THEN NoMbuf ELSE slotM[i]
  BY <1>1 DEF TypeOK
<1>4. \A i \in Slots : i # scan => slotM[i] # m
  BY <1>1 DEF SlotsDistinct
<1>5. \A k \in DOMAIN ifq : ifq[k] # m /\ ifq[k] \in Mbufs /\ ifq[k] # NoMbuf
  BY <1>1, TxRingAssumption DEF QueueApart, TypeOK
<1>6. SlotsDistinct' /\ QueueDistinct' /\ QueueApart'
  BY <1>1, <1>3, <1>5 DEF SlotsDistinct, QueueDistinct, QueueApart
<1>7. SlotsHeld' /\ QueueHeld'
  BY <1>1, <1>2, <1>3, <1>4, <1>5 DEF SlotsHeld, QueueHeld, Held, TypeOK
<1>8. NewUnfreed' /\ FreedAtMostOnce'
  BY <1>1, <1>2 DEF NewUnfreed, FreedAtMostOnce
<1>9. NoneLeaked'
  BY <1>1, <1>2, <1>3 DEF NoneLeaked, InRing, InQueue, TypeOK
<1> QED
  BY <1>6, <1>7, <1>8, <1>9

(* b43bsd_dma_free_ring frees the frame of every slot, then there are none. *)
LEMMA OwnershipFreeAll ==
  ASSUME Counted, Ownership, FreeAll, NoSlots, ifq' = ifq, handed' = handed
  PROVE  Ownership'
<1> USE DEF Ownership, Counted
<1>1. ASSUME NEW m \in Mbufs, ~InRing(m)
      PROVE  freed'[m] = freed[m]
  <2>1. {i \in Slots : slotM[i] = m} = {}
    BY <1>1 DEF InRing
  <2>2. Cardinality({i \in Slots : slotM[i] = m}) = 0
    BY <2>1, FS_EmptySet
  <2> QED
    BY <2>2 DEF FreeAll, TypeOK
<1>2. ASSUME NEW m \in Mbufs, InRing(m)
      PROVE  freed'[m] = 1 /\ m \in handed
  <2>1. PICK i \in Slots : slotM[i] = m
    BY <1>2 DEF InRing
  <2>2. m # NoMbuf
    BY TxRingAssumption
  <2>3. {j \in Slots : slotM[j] = m} = {i}
    BY <2>1, <2>2 DEF SlotsDistinct
  <2>4. Cardinality({j \in Slots : slotM[j] = m}) = 1
    BY <2>3, FS_Singleton
  <2>5. freed[m] = 0 /\ m \in handed
    BY <2>1, <2>2 DEF SlotsHeld, Held
  <2> QED
    BY <2>4, <2>5 DEF FreeAll
<1>3. \A i \in Slots : slotM'[i] = NoMbuf
  BY DEF NoSlots
<1>4. \A k \in DOMAIN ifq : ifq[k] \in Mbufs /\ ifq[k] # NoMbuf /\ ~InRing(ifq[k])
  BY TxRingAssumption DEF QueueApart, InRing, TypeOK
<1>5. SlotsDistinct' /\ QueueDistinct' /\ QueueApart' /\ SlotsHeld'
  BY <1>3, <1>4 DEF SlotsDistinct, QueueDistinct, QueueApart, SlotsHeld
<1>6. QueueHeld'
  BY <1>1, <1>4 DEF QueueHeld, Held
<1>7. NewUnfreed' /\ FreedAtMostOnce'
  BY <1>1, <1>2 DEF NewUnfreed, FreedAtMostOnce, TypeOK
<1>8. NoneLeaked'
  BY <1>1, <1>2 DEF NoneLeaked, InQueue, TypeOK
<1> QED
  BY <1>5, <1>6, <1>7, <1>8

(* b43bsd_dma_init on a ring that does not exist loses nothing.            *)
LEMMA OwnershipRebuilt ==
  ASSUME Counted, Ownership, ~allocated, NoSlots,
         freed' = freed, ifq' = ifq, handed' = handed
  PROVE  Ownership'
<1> USE DEF Ownership, Counted
<1>1. \A i \in Slots : slotM[i] = NoMbuf /\ slotM'[i] = NoMbuf
  BY DEF Unallocated, Occupied, NoSlots
<1>2. SlotsDistinct' /\ QueueDistinct' /\ QueueApart' /\ SlotsHeld' /\ QueueHeld'
  BY <1>1 DEF SlotsDistinct, QueueDistinct, QueueApart, SlotsHeld, QueueHeld, Held
<1>3. NewUnfreed' /\ FreedAtMostOnce' /\ NoneLeaked'
  BY <1>1 DEF NewUnfreed, FreedAtMostOnce, NoneLeaked, InRing, InQueue
<1> QED
  BY <1>2, <1>3

(* A step that moves no frame keeps every owner.                          *)
LEMMA OwnershipSame ==
  ASSUME Ownership, UNCHANGED <<slotM, ifq, handed, freed>>
  PROVE  Ownership'
<1>1. SlotsDistinct' /\ QueueDistinct' /\ QueueApart' /\ SlotsHeld' /\ QueueHeld'
  BY DEF Ownership, SlotsDistinct, QueueDistinct, QueueApart, SlotsHeld, QueueHeld, Held
<1>2. NewUnfreed' /\ FreedAtMostOnce' /\ NoneLeaked'
  BY DEF Ownership, NewUnfreed, FreedAtMostOnce, NoneLeaked, InRing, InQueue
<1> QED
  BY <1>1, <1>2 DEF Ownership

-----------------------------------------------------------------------------
(* The invariant and its consequences.                                     *)

(* The strengthened invariant holds initially.                            *)
LEMMA InvInit == Init => IInv
<1> SUFFICES ASSUME Init PROVE IInv
  OBVIOUS
<1>1. Counted
  BY CountedInit
<1>2. DOMAIN ifq = {} /\ handed = {} /\ \A i \in Slots : slotM[i] = NoMbuf
  BY DEF Init
<1>3. \A m \in Mbufs : freed[m] = 0
  BY DEF Init
<1>4. Ownership
  BY <1>2, <1>3 DEF Ownership, SlotsDistinct, QueueDistinct, QueueApart, SlotsHeld,
     QueueHeld, NewUnfreed, FreedAtMostOnce, NoneLeaked
<1> QED
  BY <1>1, <1>4 DEF Init, IInv, DownUnallocated

(* Every step leaves each frame with exactly one owner.                   *)
LEMMA OwnershipStep == IInv /\ [Next]_vars => Ownership'
<1> SUFFICES ASSUME IInv, [Next]_vars PROVE Ownership'
  OBVIOUS
<1> USE DEF IInv, ringVars, queueVars
<1>1. ASSUME NEW m \in Mbufs, Enqueue(m) PROVE Ownership'
  BY <1>1, OwnershipEnqueue
<1>2. CASE CallStart
  BY <1>2, OwnershipSame DEF CallStart
<1>3. CASE StartPosts
  BY <1>3, OwnershipStartPosts
<1>4. CASE StartDrops
  BY <1>4, OwnershipStartDrops
<1>5. CASE StartReturns
  BY <1>5, OwnershipSame DEF StartReturns
<1>6. ASSUME NEW m \in Mbufs, DirectPosts(m) PROVE Ownership'
  BY <1>6, OwnershipDirectPosts
<1>7. ASSUME NEW m \in Mbufs, DirectDrops(m) PROVE Ownership'
  BY <1>7, OwnershipDirectDrops
<1>8. CASE Intr \/ IntrStorms
  BY <1>8, OwnershipSame DEF Intr, IntrStorms
<1>9. CASE ReapFrees
  BY <1>9, OwnershipReapFrees
<1>10. CASE ReapSkips
  BY <1>10, OwnershipSame DEF ReapSkips
<1>11. CASE ReapEnds
  BY <1>11, OwnershipSame DEF ReapEnds
<1>12. CASE RecoverRebuilds
  BY <1>12, OwnershipFreeAll DEF RecoverRebuilds, RingBuilt
<1>13. CASE RecoverRestarts
  BY <1>13, OwnershipSame DEF RecoverRestarts
<1>14. CASE Stop
  BY <1>14, OwnershipFreeAll DEF Stop, RingFreed
<1>15. CASE Up
  <2>1. ~allocated
    BY <1>15 DEF Up, DownUnallocated
  <2> QED
    BY <1>15, <2>1, OwnershipRebuilt DEF Up, RingBuilt
<1>16. CASE HwConsume
  BY <1>16, OwnershipSame DEF HwConsume
<1>17. CASE HwFault
  BY <1>17, OwnershipSame DEF HwFault
<1>18. CASE UNCHANGED vars
  BY <1>18, OwnershipSame DEF vars
<1> QED
  BY <1>1, <1>2, <1>3, <1>4, <1>5, <1>6, <1>7, <1>8, <1>9, <1>10, <1>11, <1>12,
     <1>13, <1>14, <1>15, <1>16, <1>17, <1>18 DEF Next

(* The ring of a stopped interface stays unallocated: only b43bsd_init      *)
(* builds it then, and it sets the RUNNING flag exactly when that works.    *)
LEMMA DownStep == IInv /\ [Next]_vars => DownUnallocated'
<1> SUFFICES ASSUME IInv, [Next]_vars PROVE DownUnallocated'
  OBVIOUS
<1> USE DEF IInv, DownUnallocated, ringVars, cpuVars
<1>1. ASSUME UNCHANGED <<running, allocated>>, running \/ UNCHANGED pc
      PROVE  DownUnallocated'
  BY <1>1
<1>2. CASE RecoverRebuilds
  <2>1. running
    BY <1>2 DEF RecoverRebuilds
  <2> QED
    BY <1>2, <2>1 DEF RecoverRebuilds
<1>3. CASE Stop
  BY <1>3 DEF Stop, RingFreed
<1>4. CASE Up
  BY <1>4 DEF Up, RingBuilt
<1>5. ASSUME NEW m \in Mbufs, Enqueue(m) \/ DirectPosts(m) \/ DirectDrops(m)
      PROVE  DownUnallocated'
  BY <1>1, <1>5 DEF Enqueue, DirectPosts, DirectDrops, TxPost
<1>6. CASE CallStart
  BY <1>1, <1>6 DEF CallStart
<1>7. CASE StartStep
  BY <1>1, <1>7 DEF StartStep, StartPosts, StartDrops, StartReturns, TxPost, InStart
<1>8. CASE Intr \/ IntrStorms
  BY <1>1, <1>8 DEF Intr, IntrStorms, IntrDue
<1>9. CASE ReapStep
  BY <1>1, <1>9 DEF ReapStep, ReapFrees, ReapSkips, ReapEnds
<1>10. CASE RecoverRestarts
  BY <1>1, <1>10 DEF RecoverRestarts
<1>11. CASE HwConsume \/ HwFault \/ UNCHANGED vars
  BY <1>1, <1>11 DEF HwConsume, HwFault, vars
<1> QED
  BY <1>2, <1>3, <1>4, <1>5, <1>6, <1>7, <1>8, <1>9, <1>10, <1>11
  DEF Next, StartStep, ReapStep

(* The strengthened invariant holds of the whole transmit path.           *)
THEOREM InvHolds == Spec => []IInv
<1>1. IInv /\ [Next]_vars => IInv'
  BY CountedStep, OwnershipStep, DownStep DEF IInv
<1> QED
  BY <1>1, InvInit, PTL DEF Spec

(* The device never reads freed memory: what it owns is in a live ring and  *)
(* still held by the driver.                                               *)
THEOREM DmaMemoryIsLive == Spec => []DmaMemoryLive
<1>1. IInv => DmaMemoryLive
  <2> SUFFICES ASSUME IInv, NEW i \in Slots, hwOwns[i]
               PROVE  allocated /\ slotM[i] # NoMbuf /\ freed[slotM[i]] = 0
    BY DEF DmaMemoryLive
  <2>1. slotM[i] # NoMbuf
    BY DEF IInv, Counted, OwnedFilled
  <2>2. freed[slotM[i]] = 0
    BY <2>1 DEF IInv, Ownership, SlotsHeld, Held
  <2>3. allocated
    BY <2>1 DEF IInv, Counted, Unallocated, Occupied
  <2> QED
    BY <2>1, <2>2, <2>3
<1> QED
  BY <1>1, InvHolds, PTL

(* Every frame the stack hands over is freed exactly once, by its one owner. *)
THEOREM EveryFrameHasOneOwner == Spec => []SingleOwner
<1>1. ASSUME IInv, NEW m \in Mbufs
      PROVE  Cardinality({i \in Slots : slotM[i] = m}) = IF InRing(m) THEN 1 ELSE 0
  <2>1. CASE InRing(m)
    <3>1. PICK i \in Slots : slotM[i] = m
      BY <2>1 DEF InRing
    <3>2. {j \in Slots : slotM[j] = m} = {i}
      BY <1>1, <3>1, TxRingAssumption DEF IInv, Ownership, SlotsDistinct
    <3> QED
      BY <2>1, <3>2, FS_Singleton
  <2>2. CASE ~InRing(m)
    <3>1. {j \in Slots : slotM[j] = m} = {}
      BY <2>2 DEF InRing
    <3> QED
      BY <2>2, <3>1, FS_EmptySet
  <2> QED
    BY <2>1, <2>2
<1>2. ASSUME IInv, NEW m \in Mbufs
      PROVE  Cardinality({k \in DOMAIN ifq : ifq[k] = m}) = IF InQueue(m) THEN 1 ELSE 0
  <2>1. CASE InQueue(m)
    <3>1. PICK k \in DOMAIN ifq : ifq[k] = m
      BY <2>1 DEF InQueue
    <3>2. {l \in DOMAIN ifq : ifq[l] = m} = {k}
      BY <1>2, <3>1 DEF IInv, Ownership, QueueDistinct
    <3> QED
      BY <2>1, <3>2, FS_Singleton
  <2>2. CASE ~InQueue(m)
    <3>1. {l \in DOMAIN ifq : ifq[l] = m} = {}
      BY <2>2 DEF InQueue
    <3> QED
      BY <2>2, <3>1, FS_EmptySet
  <2> QED
    BY <2>1, <2>2
<1>3. ASSUME IInv, NEW m \in Mbufs
      PROVE  (IF InQueue(m) THEN 1 ELSE 0) + (IF InRing(m) THEN 1 ELSE 0) + freed[m]
               = IF m \in handed THEN 1 ELSE 0
  <2>1. freed[m] \in {0, 1}
    BY <1>3 DEF IInv, Counted, TypeOK, Ownership, FreedAtMostOnce
  <2>2. InRing(m) => m \in handed /\ freed[m] = 0 /\ ~InQueue(m)
    BY <1>3, TxRingAssumption
    DEF IInv, Ownership, SlotsHeld, Held, QueueApart, InRing, InQueue
  <2>3. InQueue(m) => m \in handed /\ freed[m] = 0
    BY <1>3 DEF IInv, Ownership, QueueHeld, Held, InQueue
  <2>4. m \notin handed => freed[m] = 0
    BY <1>3 DEF IInv, Ownership, NewUnfreed
  <2>5. m \in handed => freed[m] = 1 \/ InRing(m) \/ InQueue(m)
    BY <1>3 DEF IInv, Ownership, NoneLeaked
  <2> QED
    BY <2>1, <2>2, <2>3, <2>4, <2>5
<1>4. IInv => SingleOwner
  BY <1>1, <1>2, <1>3 DEF SingleOwner
<1> QED
  BY <1>4, InvHolds, PTL

-----------------------------------------------------------------------------
(* The window of descriptors the device owns.                              *)

(* The slot k places after slot h.                                         *)
Place(h, k) == (h + k) % NSlots

Owned == {i \in Slots : hwOwns[i]}

(* At most one lap is walked, so the remainder is a subtraction.            *)
LEMMA PlaceValue ==
  ASSUME NEW h \in Slots, NEW k \in 0 .. NSlots
  PROVE  Place(h, k) = IF h + k < NSlots THEN h + k ELSE h + k - NSlots
<1>1. NSlots \in Nat /\ NSlots > 0 /\ h \in Nat /\ h < NSlots /\ k \in Nat /\ k <= NSlots
  BY TxRingAssumption DEF Slots
<1>2. CASE h + k < NSlots
  <2>1. (h + k) % NSlots = h + k
    BY <1>1, <1>2
  <2> QED
    BY <1>2, <2>1 DEF Place
<1>3. CASE ~(h + k < NSlots)
  <2> DEFINE r == h + k - NSlots
  <2>1. r \in Nat /\ r < NSlots /\ h + k = r + NSlots
    BY <1>1, <1>3
  <2> HIDE DEF r
  <2>2. (r + NSlots) % NSlots = r
    BY <1>1, <2>1
  <2> QED
    BY <1>1, <1>3, <2>1, <2>2 DEF Place, r
<1> QED
  BY <1>2, <1>3

(* Walking the ring meets every slot once.                                 *)
LEMMA PlaceFacts ==
  ASSUME NEW h \in Slots
  PROVE  /\ \A k \in 0 .. NSlots : Place(h, k) \in Slots
         /\ Place(h, 0) = h
         /\ \A k, l \in 0 .. NSlots - 1 : Place(h, k) = Place(h, l) => k = l
         /\ \A i \in Slots : \E k \in 0 .. NSlots - 1 : i = Place(h, k)
         /\ \A k \in 0 .. NSlots - 1 : Following(Place(h, k)) = Place(h, k + 1)
         /\ \A k \in 0 .. NSlots - 1 : Place(Following(h), k) = Place(h, k + 1)
<1>0. NSlots \in Nat /\ NSlots > 0 /\ h \in Nat /\ h < NSlots
  BY TxRingAssumption DEF Slots
<1>1. \A k \in 0 .. NSlots : Place(h, k) \in Slots
  BY <1>0, PlaceValue DEF Slots
<1>2. Place(h, 0) = h
  BY <1>0, PlaceValue
<1>3. \A k, l \in 0 .. NSlots - 1 : Place(h, k) = Place(h, l) => k = l
  BY <1>0, PlaceValue
<1>4. ASSUME NEW i \in Slots PROVE \E k \in 0 .. NSlots - 1 : i = Place(h, k)
  <2>1. CASE h <= i
    <3>1. i - h \in 0 .. NSlots - 1 /\ Place(h, i - h) = i
      BY <1>0, <2>1, PlaceValue DEF Slots
    <3> QED
      BY <3>1
  <2>2. CASE i < h
    <3>1. i - h + NSlots \in 0 .. NSlots - 1 /\ Place(h, i - h + NSlots) = i
      BY <1>0, <2>2, PlaceValue DEF Slots
    <3> QED
      BY <3>1
  <2> QED
    BY <1>0, <2>1, <2>2 DEF Slots
<1>5. \A i \in Slots : Following(i) = IF i + 1 < NSlots THEN i + 1 ELSE i + 1 - NSlots
  <2>1. \A i \in Slots : Following(i) = Place(i, 1)
    BY DEF Following, Place
  <2>2. 1 \in 0 .. NSlots
    BY <1>0
  <2> QED
    BY <2>1, <2>2, PlaceValue
<1>6. ASSUME NEW k \in 0 .. NSlots - 1
      PROVE  /\ Following(Place(h, k)) = Place(h, k + 1)
             /\ Place(Following(h), k) = Place(h, k + 1)
  <2>1. Place(h, k) = (IF h + k < NSlots THEN h + k ELSE h + k - NSlots) /\ Place(h, k) \in Slots
    BY <1>0, <1>1, PlaceValue
  <2>2. Place(h, k + 1) = IF h + k + 1 < NSlots THEN h + k + 1 ELSE h + k + 1 - NSlots
    BY <1>0, PlaceValue
  <2>3. Following(h) = (IF h + 1 < NSlots THEN h + 1 ELSE h + 1 - NSlots) /\ Following(h) \in Slots
    BY <1>5, FollowingType
  <2>4. Place(Following(h), k) = IF Following(h) + k < NSlots THEN Following(h) + k
                                 ELSE Following(h) + k - NSlots
    BY <1>0, <2>3, PlaceValue
  <2> QED
    BY <1>0, <1>5, <2>1, <2>2, <2>3, <2>4
<1> QED
  BY <1>1, <1>2, <1>3, <1>4, <1>6

(* The contents s of the n slots from slot h on.                            *)
Path(h, n, s) == [k \in 1 .. n |-> s[Place(h, k - 1)]]

(* The slots of a path hold frames.                                        *)
PathFilled(h, n, s) ==
  /\ s \in [Slots -> Mbufs \cup {NoMbuf}]
  /\ \A k \in 0 .. n - 1 : s[Place(h, k)] # NoMbuf

(* A path as InFlight writes it.                                           *)
LEMMA PathWords ==
  ASSUME NEW h \in Slots, NEW n \in 0 .. NSlots, NEW s
  PROVE  [k \in 1 .. n |-> s[(h + k - 1) % NSlots]] = Path(h, n, s)
<1>1. h \in Int /\ NSlots \in Nat
  BY TxRingAssumption DEF Slots
<1>2. \A k \in 1 .. n : h + k - 1 = h + (k - 1)
  BY <1>1
<1>3. \A k \in 1 .. n : s[(h + k - 1) % NSlots] = s[Place(h, k - 1)]
  BY <1>2 DEF Place
<1> QED
  BY <1>3 DEF Path

(* A path is a sequence of frames.                                         *)
LEMMA PathSeq ==
  ASSUME NEW h \in Slots, NEW n \in 0 .. NSlots, NEW s, PathFilled(h, n, s)
  PROVE  /\ Path(h, n, s) \in Seq(Mbufs)
         /\ Len(Path(h, n, s)) = n /\ DOMAIN Path(h, n, s) = 1 .. n
         /\ \A k \in 1 .. n : Path(h, n, s)[k] = s[Place(h, k - 1)]
<1>0. NSlots \in Nat
  BY TxRingAssumption
<1>1. \A k \in 1 .. n : k - 1 \in 0 .. n - 1 /\ Place(h, k - 1) \in Slots
  BY <1>0, PlaceFacts
<1>2. \A k \in 1 .. n : s[Place(h, k - 1)] \in Mbufs
  BY <1>1 DEF PathFilled
<1>3. Path(h, n, s) \in [1 .. n -> Mbufs] /\ n \in Nat
  BY <1>0, <1>2 DEF Path
<1>4. \A k \in 1 .. n : Path(h, n, s)[k] = s[Place(h, k - 1)]
  BY DEF Path
<1> HIDE DEF Path
<1>5. Path(h, n, s) \in Seq(Mbufs) /\ Len(Path(h, n, s)) = n
  BY <1>3
<1> QED
  BY <1>3, <1>4, <1>5

(* Filling the slot after a path appends to it.                             *)
LEMMA PathAppend ==
  ASSUME NEW h \in Slots, NEW n \in 0 .. NSlots - 1, NEW s, PathFilled(h, n, s),
         NEW m \in Mbufs, NEW t \in [Slots -> Mbufs \cup {NoMbuf}],
         t[Place(h, n)] = m, \A i \in Slots : i # Place(h, n) => t[i] = s[i]
  PROVE  Path(h, n + 1, t) = Append(Path(h, n, s), m)
<1>0. NSlots \in Nat /\ n \in 0 .. NSlots /\ n + 1 \in 0 .. NSlots /\ m # NoMbuf
  BY TxRingAssumption
<1>1. Place(h, n) \in Slots
  BY <1>0, PlaceFacts
<1>2. \A k \in 0 .. n - 1 : Place(h, k) \in Slots /\ Place(h, k) # Place(h, n)
  <2>1. \A k \in 0 .. n - 1 : k \in 0 .. NSlots - 1 /\ k # n /\ k \in 0 .. NSlots
    BY <1>0
  <2> QED
    BY <2>1, PlaceFacts
<1>3. /\ t[Place(h, n)] = m
      /\ \A k \in 0 .. n - 1 : t[Place(h, k)] = s[Place(h, k)]
  BY <1>1, <1>2
<1>4. PathFilled(h, n + 1, t)
  <2>2. \A k \in 0 .. (n + 1) - 1 : k = n \/ k \in 0 .. n - 1
    BY <1>0
  <2> QED
    BY <1>0, <1>3, <2>2 DEF PathFilled
<1> DEFINE p == Path(h, n, s)
           q == Path(h, n + 1, t)
<1>5. /\ p \in Seq(Mbufs) /\ Len(p) = n
      /\ \A k \in 1 .. n : p[k] = s[Place(h, k - 1)]
  BY <1>0, PathSeq
<1>6. /\ q \in Seq(Mbufs) /\ Len(q) = n + 1
      /\ \A k \in 1 .. n + 1 : q[k] = t[Place(h, k - 1)]
  BY <1>0, <1>4, PathSeq
<1> HIDE DEF p, q
<1>7. /\ Append(p, m) \in Seq(Mbufs) /\ Len(Append(p, m)) = n + 1
      /\ \A k \in 1 .. n : Append(p, m)[k] = p[k]
      /\ Append(p, m)[n + 1] = m
  BY <1>5
<1>8. \A k \in 1 .. n + 1 : q[k] = Append(p, m)[k]
  <2> TAKE k \in 1 .. n + 1
  <2>1. CASE k = n + 1
    <3>1. k - 1 = n
      BY <1>0, <2>1
    <3> QED
      BY <1>3, <1>6, <1>7, <2>1, <3>1
  <2>2. CASE k # n + 1
    <3>1. k \in 1 .. n /\ k - 1 \in 0 .. n - 1
      BY <1>0, <2>2
    <3> QED
      BY <1>3, <1>5, <1>6, <1>7, <3>1
  <2> QED
    BY <2>1, <2>2
<1>9. q = Append(p, m)
  BY <1>6, <1>7, <1>8, SeqEqual
<1> QED
  BY <1>9 DEF p, q

(* Leaving out the first slot of a path takes the head off it.              *)
LEMMA PathTail ==
  ASSUME NEW h \in Slots, NEW n \in 1 .. NSlots, NEW s, PathFilled(h, n, s)
  PROVE  /\ Path(h, n, s) # << >> /\ Head(Path(h, n, s)) = s[h]
         /\ PathFilled(Following(h), n - 1, s)
         /\ Path(Following(h), n - 1, s) = Tail(Path(h, n, s))
<1>0. NSlots \in Nat /\ n \in 0 .. NSlots /\ n - 1 \in 0 .. NSlots /\ Following(h) \in Slots
  BY TxRingAssumption, FollowingType
<1>1. \A k \in 0 .. n - 2 : /\ Place(Following(h), k) = Place(h, k + 1)
                            /\ k + 1 \in 0 .. n - 1
  <2>1. \A k \in 0 .. n - 2 : k \in 0 .. NSlots - 1 /\ k + 1 \in 0 .. n - 1
    BY <1>0
  <2> QED
    BY <2>1, PlaceFacts
<1>2. PathFilled(Following(h), n - 1, s)
  <2>1. (n - 1) - 1 = n - 2
    BY <1>0
  <2> QED
    BY <1>1, <2>1 DEF PathFilled
<1> DEFINE p == Path(h, n, s)
           q == Path(Following(h), n - 1, s)
<1>3. /\ p \in Seq(Mbufs) /\ Len(p) = n
      /\ \A k \in 1 .. n : p[k] = s[Place(h, k - 1)]
  BY <1>0, PathSeq
<1>4. /\ q \in Seq(Mbufs) /\ Len(q) = n - 1
      /\ \A k \in 1 .. n - 1 : q[k] = s[Place(Following(h), k - 1)]
  BY <1>0, <1>2, PathSeq
<1> HIDE DEF p, q
<1>5. p # << >> /\ Head(p) = p[1]
  BY <1>0, <1>3
<1>6. p[1] = s[h]
  <2>1. 1 \in 1 .. n /\ 1 - 1 = 0
    BY <1>0
  <2>2. Place(h, 0) = h
    BY PlaceFacts
  <2>3. p[1] = s[Place(h, 1 - 1)]
    BY <1>3, <2>1
  <2> QED
    BY <2>1, <2>2, <2>3
<1>7. /\ Tail(p) \in Seq(Mbufs) /\ Len(Tail(p)) = n - 1
      /\ \A k \in 1 .. n - 1 : Tail(p)[k] = p[k + 1]
  BY <1>0, <1>3
<1>8. \A k \in 1 .. n - 1 : q[k] = Tail(p)[k]
  <2> TAKE k \in 1 .. n - 1
  <2>1. k - 1 \in 0 .. n - 2 /\ (k - 1) + 1 = k /\ k + 1 \in 1 .. n /\ (k + 1) - 1 = k
    BY <1>0
  <2> QED
    BY <1>1, <1>3, <1>4, <1>7, <2>1
<1>9. q = Tail(p)
  BY <1>4, <1>7, <1>8, SeqEqual
<1> QED
  BY <1>2, <1>5, <1>6, <1>9 DEF p, q

(* What the window says of the ring.                                       *)
LEMMA WindowFacts ==
  ASSUME Counted, OwnedWindow
  PROVE  /\ OwnedCount \in 0 .. NSlots /\ OwnedCount = Cardinality(Owned)
         /\ Owned = {Place(hwNext, k) : k \in 0 .. OwnedCount - 1}
         /\ allocated => curTx = Place(hwNext, OwnedCount)
         /\ PathFilled(hwNext, OwnedCount, slotM)
         /\ InFlight = Path(hwNext, OwnedCount, slotM)
<1>1. Owned \in SUBSET Slots /\ OwnedCount = Cardinality(Owned)
  BY DEF Owned, OwnedCount
<1>2. OwnedCount \in 0 .. NSlots
  BY <1>1, SlotSubset
<1>3. /\ Owned = {Place(hwNext, k) : k \in 0 .. OwnedCount - 1}
      /\ allocated => curTx = Place(hwNext, OwnedCount)
  BY DEF OwnedWindow, Owned, Place
<1>4. PathFilled(hwNext, OwnedCount, slotM)
  <2>1. \A k \in 0 .. OwnedCount - 1 : Place(hwNext, k) \in Owned
    BY <1>3
  <2> QED
    BY <2>1 DEF Counted, TypeOK, OwnedFilled, Owned, PathFilled
<1>5. InFlight = Path(hwNext, OwnedCount, slotM)
  BY <1>2, PathWords DEF InFlight, Counted, TypeOK
<1> QED
  BY <1>1, <1>2, <1>3, <1>4, <1>5

(* The window after a step, given where it begins and how long it is.        *)
LEMMA WindowNext ==
  ASSUME NEW n \in 0 .. NSlots, hwNext' \in Slots, OwnedCount' = n,
         Owned' = {Place(hwNext', k) : k \in 0 .. n - 1},
         allocated' => curTx' = Place(hwNext', n)
  PROVE  OwnedWindow' /\ InFlight' = Path(hwNext', n, slotM')
<1>1. OwnedWindow'
  <2>1. {(hwNext' + k) % NSlots : k \in 0 .. n - 1} = {Place(hwNext', k) : k \in 0 .. n - 1}
    BY DEF Place
  <2>2. (hwNext' + n) % NSlots = Place(hwNext', n)
    BY DEF Place
  <2> QED
    BY <2>1, <2>2 DEF OwnedWindow, Owned
<1>2. InFlight' = Path(hwNext', n, slotM')
  BY PathWords DEF InFlight
<1> QED
  BY <1>1, <1>2

(* A posted frame is the last one in flight.                                *)
LEMMA WindowPost ==
  ASSUME Counted, OwnedWindow, NEW m \in Mbufs, TxPost(m)
  PROVE  OwnedWindow' /\ InFlight' = Append(InFlight, m)
<1> DEFINE n == OwnedCount
<1>1. /\ slotM[curTx] = NoMbuf /\ allocated /\ allocated' = allocated
      /\ slotM' = [slotM EXCEPT ![curTx] = m]
      /\ hwOwns' = [hwOwns EXCEPT ![curTx] = TRUE]
      /\ curTx' = Following(curTx) /\ hwNext' = hwNext
  BY DEF TxPost, TxRefused
<1>2. /\ hwNext \in Slots /\ curTx \in Slots /\ hwOwns \in [Slots -> BOOLEAN]
      /\ NSlots \in Nat
  BY TxRingAssumption DEF Counted, TypeOK
<1>3. /\ n \in 0 .. NSlots /\ n = Cardinality(Owned)
      /\ Owned = {Place(hwNext, k) : k \in 0 .. n - 1}
      /\ curTx = Place(hwNext, n)
      /\ PathFilled(hwNext, n, slotM) /\ InFlight = Path(hwNext, n, slotM)
  BY <1>1, WindowFacts
<1>4. curTx \notin Owned
  BY <1>1 DEF Counted, OwnedFilled, Owned
<1>5. Owned' = Owned \cup {curTx}
  BY <1>1, <1>2 DEF Owned
<1>6. OwnedCount' = n + 1
  <2>1. Owned \in SUBSET Slots
    BY DEF Owned
  <2>2. Cardinality(Owned \cup {curTx}) = Cardinality(Owned) + 1
    BY <1>2, <1>4, <2>1, FillCount
  <2>3. OwnedCount' = Cardinality(Owned')
    BY DEF OwnedCount, Owned
  <2> QED
    BY <1>3, <1>5, <2>2, <2>3
<1> HIDE DEF n
<1>7. n \in 0 .. NSlots - 1
  <2> SUFFICES ASSUME n = NSlots PROVE FALSE
    BY <1>2, <1>3
  <2>1. PICK k \in 0 .. NSlots - 1 : curTx = Place(hwNext, k)
    BY <1>2, PlaceFacts
  <2> QED
    BY <1>3, <1>4, <2>1
<1>8. Owned' = {Place(hwNext', k) : k \in 0 .. (n + 1) - 1}
  <2>1. 0 .. (n + 1) - 1 = 0 .. n - 1 \cup {n}
    BY <1>2, <1>7
  <2>2. Owned' = {Place(hwNext, k) : k \in 0 .. n - 1} \cup {Place(hwNext, n)}
    BY <1>3, <1>5
  <2> QED
    BY <1>1, <2>1, <2>2
<1>9. curTx' = Place(hwNext', n + 1)
  <2>1. Following(Place(hwNext, n)) = Place(hwNext, n + 1)
    BY <1>2, <1>7, PlaceFacts
  <2> QED
    BY <1>1, <1>3, <2>1
<1>10. n + 1 \in 0 .. NSlots
  BY <1>2, <1>7
<1>11. OwnedWindow' /\ InFlight' = Path(hwNext', n + 1, slotM')
  BY <1>1, <1>2, <1>6, <1>8, <1>9, <1>10, WindowNext
<1>12. Path(hwNext, n + 1, slotM') = Append(Path(hwNext, n, slotM), m)
  <2>1. slotM \in [Slots -> Mbufs \cup {NoMbuf}]
    BY DEF Counted, TypeOK
  <2>2. /\ slotM' \in [Slots -> Mbufs \cup {NoMbuf}] /\ slotM'[curTx] = m
        /\ \A i \in Slots : i # curTx => slotM'[i] = slotM[i]
    BY <1>1, <1>2, <2>1
  <2>3. slotM'[Place(hwNext, n)] = m
    BY <1>3, <2>2
  <2>4. \A i \in Slots : i # Place(hwNext, n) => slotM'[i] = slotM[i]
    BY <1>3, <2>2
  <2>5. PathFilled(hwNext, n, slotM) /\ hwNext \in Slots
    BY <1>2, <1>3
  <2>6. slotM' \in [Slots -> Mbufs \cup {NoMbuf}]
    BY <2>2
  <2> HIDE DEF Path, PathFilled, Place
  <2> QED
    BY ONLY <1>7, <2>3, <2>4, <2>5, <2>6, PathAppend, m \in Mbufs
<1> QED
  BY <1>1, <1>3, <1>11, <1>12

(* The device consumes the first frame in flight.                           *)
LEMMA WindowConsume ==
  ASSUME Counted, OwnedWindow, HwConsume
  PROVE  /\ OwnedWindow' /\ InFlight # << >>
         /\ slotM[hwNext] = Head(InFlight) /\ InFlight' = Tail(InFlight)
<1> DEFINE n == OwnedCount
<1>1. /\ hwOwns[hwNext] /\ allocated' = allocated /\ curTx' = curTx /\ slotM' = slotM
      /\ hwOwns' = [hwOwns EXCEPT ![hwNext] = FALSE]
      /\ hwNext' = Following(hwNext)
  BY DEF HwConsume
<1>2. /\ hwNext \in Slots /\ hwNext' \in Slots /\ hwOwns \in [Slots -> BOOLEAN]
      /\ NSlots \in Nat
  BY <1>1, TxRingAssumption, FollowingType DEF Counted, TypeOK
<1>3. /\ n \in 0 .. NSlots /\ n = Cardinality(Owned)
      /\ Owned = {Place(hwNext, k) : k \in 0 .. n - 1}
      /\ allocated => curTx = Place(hwNext, n)
      /\ PathFilled(hwNext, n, slotM) /\ InFlight = Path(hwNext, n, slotM)
  BY WindowFacts
<1>4. hwNext \in Owned
  BY <1>1, <1>2 DEF Owned
<1>5. Owned' = Owned \ {hwNext}
  BY <1>1, <1>2 DEF Owned
<1>6. OwnedCount' = n - 1
  <2>1. Owned \in SUBSET Slots
    BY DEF Owned
  <2>2. Cardinality(Owned \ {hwNext}) = Cardinality(Owned) - 1
    BY <1>4, <2>1, EmptyCount
  <2>3. OwnedCount' = Cardinality(Owned')
    BY DEF OwnedCount, Owned
  <2> QED
    BY <1>3, <1>5, <2>2, <2>3
<1> HIDE DEF n
<1>7. n \in 1 .. NSlots /\ n - 1 \in 0 .. NSlots - 1
  <2>1. \E k \in 0 .. n - 1 : TRUE
    BY <1>3, <1>4
  <2> QED
    BY <1>2, <1>3, <2>1
<1>8. Owned' = {Place(hwNext', k) : k \in 0 .. (n - 1) - 1}
  <2>1. \A k \in 0 .. n - 2 : Place(hwNext', k) = Place(hwNext, k + 1)
    <3>1. \A k \in 0 .. n - 2 : k \in 0 .. NSlots - 1
      BY <1>2, <1>7
    <3> QED
      BY <1>1, <1>2, <3>1, PlaceFacts
  <2>2. \A k \in 0 .. n - 1 : k \in 0 .. NSlots - 1 /\ 0 \in 0 .. NSlots - 1
    BY <1>2, <1>7
  <2>3. hwNext = Place(hwNext, 0)
    BY <1>2, PlaceFacts
  <2>4. \A k \in 0 .. n - 1 : Place(hwNext, k) = hwNext <=> k = 0
    <3>1. \A k \in 0 .. n - 1 : Place(hwNext, k) = Place(hwNext, 0) => k = 0
      BY <1>2, <2>2, PlaceFacts
    <3> QED
      BY <2>3, <3>1
  <2>5. ASSUME NEW i \in Owned' PROVE \E k \in 0 .. (n - 1) - 1 : i = Place(hwNext', k)
    <3>1. PICK k \in 0 .. n - 1 : i = Place(hwNext, k)
      BY <1>3, <1>5
    <3>2. k # 0
      BY <1>5, <2>4, <3>1
    <3>3. k - 1 \in 0 .. n - 2 /\ (k - 1) + 1 = k /\ (n - 1) - 1 = n - 2
      BY <1>7, <3>2
    <3>4. i = Place(hwNext', k - 1)
      BY <2>1, <3>1, <3>3
    <3> QED
      BY <3>3, <3>4
  <2>6. ASSUME NEW k \in 0 .. (n - 1) - 1 PROVE Place(hwNext', k) \in Owned'
    <3>1. k \in 0 .. n - 2 /\ k + 1 \in 0 .. n - 1 /\ k + 1 # 0
      BY <1>7
    <3> QED
      BY <1>3, <1>5, <2>1, <2>4, <3>1
  <2> QED
    BY <2>5, <2>6
<1>9. allocated' => curTx' = Place(hwNext', n - 1)
  <2>1. (n - 1) + 1 = n
    BY <1>7
  <2>2. Place(Following(hwNext), n - 1) = Place(hwNext, (n - 1) + 1)
    BY <1>2, <1>7, PlaceFacts
  <2> QED
    BY <1>1, <1>3, <2>1, <2>2
<1>10. n - 1 \in 0 .. NSlots
  BY <1>2, <1>7
<1>11. OwnedWindow' /\ InFlight' = Path(hwNext', n - 1, slotM')
  BY <1>2, <1>6, <1>8, <1>9, <1>10, WindowNext
<1>12. /\ Path(hwNext, n, slotM) # << >> /\ Head(Path(hwNext, n, slotM)) = slotM[hwNext]
       /\ Path(Following(hwNext), n - 1, slotM) = Tail(Path(hwNext, n, slotM))
  BY <1>2, <1>3, <1>7, PathTail
<1> QED
  BY <1>1, <1>3, <1>11, <1>12

(* A ring without frames has none in flight.                                *)
LEMMA WindowEmpty ==
  ASSUME NoSlots, hwNext' \in Slots, allocated' => curTx' = hwNext'
  PROVE  OwnedWindow' /\ InFlight' = << >>
<1>1. Owned' = {}
  BY DEF NoSlots, Owned
<1>2. OwnedCount' = 0
  <2>1. OwnedCount' = Cardinality(Owned')
    BY DEF OwnedCount, Owned
  <2> QED
    BY <1>1, <2>1, FS_EmptySet
<1>3. Owned' = {Place(hwNext', k) : k \in 0 .. 0 - 1}
  BY <1>1
<1>4. Place(hwNext', 0) = hwNext'
  BY PlaceFacts
<1>5. 0 \in 0 .. NSlots
  BY TxRingAssumption
<1>6. OwnedWindow' /\ InFlight' = Path(hwNext', 0, slotM')
  BY <1>2, <1>3, <1>4, <1>5, WindowNext
<1>7. Path(hwNext', 0, slotM') = << >>
  BY DEF Path
<1> QED
  BY <1>6, <1>7

(* A step that moves neither descriptors nor the frames in them.            *)
LEMMA WindowSame ==
  ASSUME Counted, OwnedWindow, UNCHANGED <<hwOwns, hwNext, curTx, allocated>>,
         \A i \in Owned : slotM'[i] = slotM[i]
  PROVE  OwnedWindow' /\ InFlight' = InFlight
<1> DEFINE n == OwnedCount
<1>1. /\ n \in 0 .. NSlots
      /\ Owned = {Place(hwNext, k) : k \in 0 .. n - 1}
      /\ allocated => curTx = Place(hwNext, n)
      /\ InFlight = Path(hwNext, n, slotM)
  BY WindowFacts
<1>2. hwNext \in Slots /\ NSlots \in Nat
  BY TxRingAssumption DEF Counted, TypeOK
<1>3. Owned' = Owned /\ OwnedCount' = n
  BY DEF Owned, OwnedCount
<1> HIDE DEF n
<1>4. OwnedWindow' /\ InFlight' = Path(hwNext', n, slotM')
  BY <1>1, <1>2, <1>3, WindowNext
<1>5. \A k \in 1 .. n : slotM'[Place(hwNext, k - 1)] = slotM[Place(hwNext, k - 1)]
  <2>1. \A k \in 1 .. n : k - 1 \in 0 .. n - 1
    BY <1>1, <1>2
  <2> QED
    BY <1>1, <2>1
<1>6. Path(hwNext, n, slotM') = Path(hwNext, n, slotM)
  BY <1>5 DEF Path
<1> QED
  BY <1>1, <1>4, <1>6

(* A reaped slot is not one the device owns.                                *)
LEMMA ReapSame ==
  ASSUME Counted, ReapFrees
  PROVE  /\ UNCHANGED <<hwOwns, hwNext, curTx, allocated, wire, ifq, handed>>
         /\ \A i \in Owned : slotM'[i] = slotM[i]
         /\ \A i \in Slots : slotM'[i] = slotM[i] \/ slotM'[i] = NoMbuf
<1>1. /\ ~hwOwns[scan] /\ slotM' = [slotM EXCEPT ![scan] = NoMbuf]
      /\ UNCHANGED <<hwOwns, hwNext, curTx, allocated, wire, ifq, handed>>
  BY DEF ReapFrees, Reapable, queueVars
<1> QED
  BY <1>1 DEF Counted, TypeOK, Owned

-----------------------------------------------------------------------------
(* The window is kept by every step.                                       *)

(* Before anything is posted the window is empty.                          *)
LEMMA WindowInit == Init => OwnedWindow
<1> SUFFICES ASSUME Init PROVE OwnedWindow
  OBVIOUS
<1>1. {i \in Slots : hwOwns[i]} = {}
  BY DEF Init
<1>2. OwnedCount = 0
  BY <1>1, FS_EmptySet DEF OwnedCount
<1>3. NSlots \in Nat \ {0} /\ 0 % NSlots = 0
  BY TxRingAssumption
<1>4. {(hwNext + k) % NSlots : k \in 0 .. 0 - 1} = {} /\ curTx = (hwNext + 0) % NSlots
  BY <1>3 DEF Init
<1> QED
  BY <1>1, <1>2, <1>4 DEF OwnedWindow

(* Only posting, the device, and a rebuilding or tearing down of the ring   *)
(* move the window; a reaped slot was not in it.                            *)
LEMMA WindowStep == IInv /\ OwnedWindow /\ [Next]_vars => OwnedWindow'
<1> SUFFICES ASSUME IInv, OwnedWindow, [Next]_vars PROVE OwnedWindow'
  OBVIOUS
<1>c. Counted
  BY DEF IInv
<1>w. OwnedWindow
  OBVIOUS
<1>n. 0 \in Slots
  BY TxRingAssumption DEF Slots
<1>s. ASSUME UNCHANGED <<slotM, hwOwns, hwNext, curTx, allocated>> PROVE OwnedWindow'
  BY <1>c, <1>s, WindowSame
<1> USE DEF ringVars
<1>1. CASE \E m \in Mbufs : Enqueue(m) \/ DirectDrops(m)
  BY <1>1, <1>s DEF Enqueue, DirectDrops
<1>2. CASE CallStart \/ StartDrops \/ StartReturns \/ Intr \/ IntrStorms
  BY <1>2, <1>s DEF CallStart, StartDrops, StartReturns, Intr, IntrStorms
<1>3. CASE ReapSkips \/ ReapEnds \/ RecoverRestarts \/ HwFault \/ UNCHANGED vars
  BY <1>3, <1>s DEF ReapSkips, ReapEnds, RecoverRestarts, HwFault, vars
<1>4. CASE StartPosts
  <2>1. Head(ifq) \in Mbufs
    BY <1>c, <1>4 DEF StartPosts, Counted, TypeOK
  <2> QED
    BY <1>c, <1>w, <1>4, <2>1, WindowPost DEF StartPosts
<1>5. ASSUME NEW m \in Mbufs, DirectPosts(m) PROVE OwnedWindow'
  BY <1>c, <1>w, <1>5, WindowPost DEF DirectPosts
<1>6. CASE ReapFrees
  BY <1>c, <1>w, <1>6, ReapSame, WindowSame DEF ReapFrees
<1>7. CASE RecoverRebuilds
  BY <1>7, <1>n, WindowEmpty DEF RecoverRebuilds, RingBuilt, Restarted
<1>8. CASE Stop
  BY <1>c, <1>8, WindowEmpty DEF Stop, RingFreed, Counted, TypeOK
<1>9. CASE Up
  BY <1>9, <1>n, WindowEmpty DEF Up, RingBuilt, Restarted
<1>10. CASE HwConsume
  BY <1>c, <1>w, <1>10, WindowConsume
<1> QED
  BY <1>1, <1>2, <1>3, <1>4, <1>5, <1>6, <1>7, <1>8, <1>9, <1>10 DEF Next

(* The device neither skips a posted descriptor nor stops early: what it    *)
(* owns is the cyclic interval from the descriptor it looks at next to      *)
(* cur_tx, even when slots are reaped out of order or the ring wraps.       *)
THEOREM OwnedIsWindow == Spec => []OwnedWindow
  BY WindowInit, WindowStep, InvHolds, PTL DEF Spec

-----------------------------------------------------------------------------
(* The ring is a FIFO.                                                     *)

OnWire(m) == \E k \in DOMAIN wire : wire[k] = m

(* A frame in a slot that the device has given back has been transmitted.   *)
GivenBackSent == \A i \in Slots : slotM[i] # NoMbuf /\ ~hwOwns[i] => OnWire(slotM[i])

(* A frame that has been transmitted is never queued again.                *)
SentLeftQueue == \A m \in Mbufs : OnWire(m) => m \in handed /\ ~InQueue(m)

SentInv == GivenBackSent /\ SentLeftQueue

(* Nothing has been sent before the first step.                            *)
LEMMA SentInit == Init => SentInv
  BY DEF Init, SentInv, GivenBackSent, SentLeftQueue, OnWire

(* No frame is transmitted, given back or queued: what was sent stays sent. *)
LEMMA SentSame ==
  ASSUME SentInv, UNCHANGED wire, handed \subseteq handed',
         \A m \in Mbufs : InQueue(m)' => InQueue(m) \/ m \notin handed,
         \A i \in Slots : slotM'[i] # NoMbuf /\ ~hwOwns'[i] =>
                            slotM'[i] = slotM[i] /\ ~hwOwns[i]
  PROVE  SentInv'
<1>1. \A m : OnWire(m)' <=> OnWire(m)
  BY DEF OnWire
<1>2. GivenBackSent'
  BY <1>1 DEF SentInv, GivenBackSent
<1>3. SentLeftQueue'
  BY <1>1 DEF SentInv, SentLeftQueue
<1> QED
  BY <1>2, <1>3 DEF SentInv

(* Taking the head off the queue adds nothing to it.                        *)
LEMMA QueueShrinks ==
  ASSUME TypeOK, ifq # << >>, ifq' = Tail(ifq)
  PROVE  \A m \in Mbufs : InQueue(m)' => InQueue(m)
  BY Dequeue DEF InQueue

(* What the stack enqueues is a new frame.                                 *)
LEMMA QueueGrows ==
  ASSUME TypeOK, NEW n \in Mbufs, ifq' = Append(ifq, n)
  PROVE  \A m \in Mbufs : InQueue(m)' => InQueue(m) \/ m = n
<1>1. \A k \in DOMAIN ifq' : ifq'[k] = n \/ (k \in DOMAIN ifq /\ ifq'[k] = ifq[k])
  BY DEF TypeOK
<1> QED
  BY <1>1 DEF InQueue

(* Only a posted slot is filled, and the device owns it.                   *)
LEMMA SlotsPost ==
  ASSUME TypeOK, NEW m \in Mbufs, TxPost(m)
  PROVE  \A i \in Slots : slotM'[i] # NoMbuf /\ ~hwOwns'[i] =>
                            slotM'[i] = slotM[i] /\ ~hwOwns[i]
<1>1. /\ slotM' = [slotM EXCEPT ![curTx] = m]
      /\ hwOwns' = [hwOwns EXCEPT ![curTx] = TRUE]
  BY DEF TxPost
<1> QED
  BY <1>1 DEF TypeOK

(* The device sends the frame of a slot as it gives the slot back.          *)
LEMMA SentConsume ==
  ASSUME IInv, SentInv, HwConsume
  PROVE  /\ SentInv' /\ slotM[hwNext] \in Mbufs
         /\ \A m : OnWire(m)' <=> OnWire(m) \/ m = slotM[hwNext]
<1>1. /\ hwOwns[hwNext] /\ slotM' = slotM /\ ifq' = ifq /\ handed' = handed
      /\ hwOwns' = [hwOwns EXCEPT ![hwNext] = FALSE]
      /\ wire' = Append(wire, slotM[hwNext])
  BY DEF HwConsume, queueVars
<1>2. /\ hwNext \in Slots /\ hwOwns \in [Slots -> BOOLEAN] /\ wire \in Seq(Mbufs)
      /\ slotM[hwNext] \in Mbufs /\ slotM[hwNext] # NoMbuf
  BY <1>1 DEF IInv, Counted, TypeOK, OwnedFilled
<1>3. \A m : OnWire(m)' <=> OnWire(m) \/ m = slotM[hwNext]
  <2>1. /\ DOMAIN wire' = 1 .. Len(wire) + 1 /\ DOMAIN wire = 1 .. Len(wire)
        /\ Len(wire) \in Nat
        /\ \A k \in 1 .. Len(wire) : wire'[k] = wire[k]
        /\ wire'[Len(wire) + 1] = slotM[hwNext]
    BY <1>1, <1>2
  <2>2. \A k \in 1 .. Len(wire) + 1 : k = Len(wire) + 1 \/ k \in 1 .. Len(wire)
    BY <2>1
  <2>3. Len(wire) + 1 \in DOMAIN wire' /\ DOMAIN wire \subseteq DOMAIN wire'
    BY <2>1
  <2> QED
    BY <2>1, <2>2, <2>3 DEF OnWire
<1>4. GivenBackSent'
  BY <1>1, <1>2, <1>3 DEF SentInv, GivenBackSent
<1>5. slotM[hwNext] \in handed /\ ~InQueue(slotM[hwNext])
  BY <1>2 DEF IInv, Ownership, SlotsHeld, Held, QueueApart, InQueue
<1>6. \A m : InQueue(m)' <=> InQueue(m)
  BY <1>1 DEF InQueue
<1>7. SentLeftQueue'
  BY <1>1, <1>3, <1>5, <1>6 DEF SentInv, SentLeftQueue
<1> QED
  BY <1>2, <1>3, <1>4, <1>7 DEF SentInv

(* Every step keeps what has been sent apart from what will be.            *)
LEMMA SentStep == IInv /\ SentInv /\ [Next]_vars => SentInv'
<1> SUFFICES ASSUME IInv, SentInv, [Next]_vars PROVE SentInv'
  OBVIOUS
<1>c. Counted /\ TypeOK
  BY DEF IInv, Counted
<1>s. ASSUME UNCHANGED <<slotM, hwOwns, wire, ifq, handed>> PROVE SentInv'
  BY <1>s, SentSame DEF InQueue
<1>z. ASSUME NoSlots, UNCHANGED <<wire, ifq, handed>> PROVE SentInv'
  BY <1>z, SentSame DEF InQueue, NoSlots
<1> USE DEF ringVars, queueVars
<1>1. ASSUME NEW m \in Mbufs, Enqueue(m) PROVE SentInv'
  BY <1>c, <1>1, QueueGrows, SentSame DEF Enqueue
<1>2. ASSUME NEW m \in Mbufs, DirectPosts(m) PROVE SentInv'
  <2>1. UNCHANGED <<wire, ifq>> /\ handed \subseteq handed'
    BY <1>2 DEF DirectPosts
  <2>2. \A n \in Mbufs : InQueue(n)' => InQueue(n)
    BY <2>1 DEF InQueue
  <2> QED
    BY <1>c, <1>2, <2>1, <2>2, SlotsPost, SentSame DEF DirectPosts
<1>3. ASSUME NEW m \in Mbufs, DirectDrops(m) PROVE SentInv'
  <2>1. UNCHANGED <<slotM, hwOwns, wire, ifq>> /\ handed \subseteq handed'
    BY <1>3 DEF DirectDrops
  <2>2. \A n \in Mbufs : InQueue(n)' => InQueue(n)
    BY <2>1 DEF InQueue
  <2> QED
    BY <2>1, <2>2, SentSame
<1>4. CASE StartPosts
  <2>1. Head(ifq) \in Mbufs
    BY <1>c, <1>4 DEF StartPosts, TypeOK
  <2> QED
    BY <1>c, <1>4, <2>1, SlotsPost, QueueShrinks, SentSame DEF StartPosts
<1>5. CASE StartDrops
  BY <1>c, <1>5, QueueShrinks, SentSame DEF StartDrops
<1>6. CASE ReapFrees
  <2>1. \A n \in Mbufs : InQueue(n)' => InQueue(n)
    BY <1>c, <1>6, ReapSame DEF InQueue
  <2> QED
    BY <1>c, <1>6, <2>1, ReapSame, SentSame
<1>7. CASE RecoverRebuilds
  BY <1>7, <1>z DEF RecoverRebuilds, RingBuilt
<1>8. CASE Stop
  BY <1>8, <1>z DEF Stop, RingFreed
<1>9. CASE Up
  BY <1>9, <1>z DEF Up, RingBuilt
<1>10. CASE HwConsume
  BY <1>10, SentConsume
<1>11. CASE CallStart \/ StartReturns \/ Intr \/ IntrStorms
  BY <1>11, <1>s DEF CallStart, StartReturns, Intr, IntrStorms
<1>12. CASE ReapSkips \/ ReapEnds \/ RecoverRestarts \/ HwFault \/ UNCHANGED vars
  BY <1>12, <1>s DEF ReapSkips, ReapEnds, RecoverRestarts, HwFault, vars
<1> QED
  BY <1>1, <1>2, <1>3, <1>4, <1>5, <1>6, <1>7, <1>8, <1>9, <1>10, <1>11, <1>12 DEF Next

(* The frames whose memory was given back, as B43TxFifo counts them.        *)
Released == {m \in Mbufs : freed[m] > 0}

(* What is in flight is what the slots hold that the device owns.           *)
LEMMA FlightHas ==
  ASSUME Counted, OwnedWindow, NEW m
  PROVE  m \in Fifo!Range(InFlight) <=> \E i \in Owned : slotM[i] = m
<1> DEFINE n == OwnedCount
<1>1. /\ n \in 0 .. NSlots /\ hwNext \in Slots
      /\ Owned = {Place(hwNext, k) : k \in 0 .. n - 1}
      /\ PathFilled(hwNext, n, slotM) /\ InFlight = Path(hwNext, n, slotM)
  BY WindowFacts DEF Counted, TypeOK
<1> HIDE DEF n
<1>2. /\ DOMAIN InFlight = 1 .. n
      /\ \A k \in 1 .. n : InFlight[k] = slotM[Place(hwNext, k - 1)]
  BY <1>1, PathSeq
<1>3. NSlots \in Nat
  BY TxRingAssumption
<1>4. /\ \A k \in 1 .. n : k - 1 \in 0 .. n - 1
      /\ \A k \in 0 .. n - 1 : k + 1 \in 1 .. n /\ (k + 1) - 1 = k
  BY <1>1, <1>3
<1> QED
  BY <1>1, <1>2, <1>4 DEF Fifo!Range

(* The frames transmitted, as a set.                                       *)
LEMMA WireHas == ASSUME NEW m PROVE m \in Fifo!Range(wire) <=> OnWire(m)
  BY DEF Fifo!Range, OnWire

(* A frame the stack submits, or one still in its queue, is new to the ring. *)
LEMMA NewToRing ==
  ASSUME IInv, OwnedWindow, SentInv, NEW m \in Mbufs, m \notin handed \/ InQueue(m)
  PROVE  Fifo!Unknown(m)
<1>1. ~InRing(m)
  BY TxRingAssumption
  DEF IInv, Ownership, SlotsHeld, Held, QueueApart, InRing, InQueue
<1>2. m \notin Fifo!Range(InFlight)
  BY <1>1, FlightHas DEF IInv, InRing, Owned
<1>3. m \notin Fifo!Range(wire)
  BY WireHas DEF SentInv, SentLeftQueue
<1>4. freed[m] = 0
  BY DEF IInv, Ownership, NewUnfreed, QueueHeld, Held, InQueue
<1> QED
  BY <1>2, <1>3, <1>4 DEF Fifo!Unknown, Released

(* m_freem releases one frame.                                             *)
LEMMA FreeReleases ==
  ASSUME TypeOK, NEW m \in Mbufs, Free(m)
  PROVE  Released' = Released \cup {m}
<1>1. \A n \in Mbufs : freed[n] \in Nat /\ freed'[n] = IF n = m THEN freed[n] + 1 ELSE freed[n]
  BY DEF TypeOK, Free
<1> QED
  BY <1>1 DEF Released

(* Freeing the ring releases what is in flight and what has been sent.      *)
LEMMA FreeAllReleases ==
  ASSUME IInv, OwnedWindow, SentInv, FreeAll
  PROVE  Released' = Released \cup Fifo!Range(InFlight) \cup Fifo!Range(wire)
<1>1. ASSUME NEW m \in Mbufs
      PROVE  freed'[m] > 0 <=> freed[m] > 0 \/ InRing(m)
  <2> DEFINE S == {i \in Slots : slotM[i] = m}
  <2>1. freed'[m] = freed[m] + Cardinality(S) /\ freed[m] \in Nat
    BY DEF FreeAll, IInv, Counted, TypeOK
  <2>2. S \in SUBSET Slots
    OBVIOUS
  <2>3. IsFiniteSet(S) /\ Cardinality(S) \in Nat
    BY <2>2, SlotSubset
  <2>4. Cardinality(S) = 0 <=> S = {}
    BY <2>3, FS_EmptySet
  <2>5. InRing(m) <=> S # {}
    BY DEF InRing
  <2> HIDE DEF S
  <2> QED
    BY <2>1, <2>3, <2>4, <2>5
<1>2. ASSUME NEW m \in Mbufs
      PROVE  freed[m] > 0 \/ InRing(m)
               <=> freed[m] > 0 \/ m \in Fifo!Range(InFlight) \/ m \in Fifo!Range(wire)
  <2>1. InRing(m) => m \in Fifo!Range(InFlight) \/ m \in Fifo!Range(wire)
    <3> SUFFICES ASSUME NEW i \in Slots, slotM[i] = m
                 PROVE  m \in Fifo!Range(InFlight) \/ OnWire(m)
      BY WireHas DEF InRing
    <3>1. CASE hwOwns[i]
      BY <3>1, FlightHas DEF IInv, Owned
    <3>2. CASE ~hwOwns[i]
      BY <3>2, TxRingAssumption DEF SentInv, GivenBackSent
    <3> QED
      BY <3>1, <3>2
  <2>2. m \in Fifo!Range(InFlight) => InRing(m)
    BY FlightHas DEF IInv, Owned, InRing
  <2>3. m \in Fifo!Range(wire) => freed[m] > 0 \/ InRing(m)
    <3>1. OnWire(m) => m \in handed /\ ~InQueue(m)
      BY DEF SentInv, SentLeftQueue
    <3> QED
      BY <3>1, WireHas DEF IInv, Ownership, NoneLeaked
  <2> QED
    BY <2>1, <2>2, <2>3
<1>3. Fifo!Range(InFlight) \subseteq Mbufs
  <2>1. \A i \in Owned : slotM[i] \in Mbufs
    BY DEF IInv, Counted, TypeOK, OwnedFilled, Owned
  <2> QED
    BY <2>1, FlightHas DEF IInv
<1>4. Fifo!Range(wire) \subseteq Mbufs
  BY DEF IInv, Counted, TypeOK, Fifo!Range
<1> QED
  BY <1>1, <1>2, <1>3, <1>4 DEF Released

(* The ring starts as the FIFO does.                                       *)
LEMMA FifoInit == Init => Fifo!Init
<1> SUFFICES ASSUME Init PROVE Fifo!Init
  OBVIOUS
<1>1. OwnedCount = 0
  <2>1. {i \in Slots : hwOwns[i]} = {}
    BY DEF Init
  <2> QED
    BY <2>1, FS_EmptySet DEF OwnedCount
<1>2. InFlight = << >>
  BY <1>1 DEF InFlight
<1>3. Released = {}
  BY DEF Init, Released
<1> QED
  BY <1>2, <1>3 DEF Init, Fifo!Init, Released

(* b43bsd_dma_tx_start posts a frame the ring has never had.                *)
LEMMA FifoPost ==
  ASSUME IInv, OwnedWindow, SentInv, NEW m \in Mbufs, m \notin handed \/ InQueue(m),
         TxPost(m), UNCHANGED <<freed, wire>>
  PROVE  Fifo!Post(m)
<1>1. InFlight' = Append(InFlight, m)
  BY WindowPost DEF IInv
<1>2. Fifo!Unknown(m)
  BY NewToRing
<1> QED
  BY <1>1, <1>2 DEF Fifo!Post

(* A frame it refuses is freed by its caller.                              *)
LEMMA FifoRefuse ==
  ASSUME IInv, OwnedWindow, SentInv, NEW m \in Mbufs, m \notin handed \/ InQueue(m),
         Free(m), UNCHANGED <<ringVars, wire>>
  PROVE  Fifo!Refuse(m)
<1>1. InFlight' = InFlight
  BY WindowSame DEF IInv, ringVars
<1>2. Fifo!Unknown(m)
  BY NewToRing
<1>3. Released' = Released \cup {m}
  BY FreeReleases DEF IInv, Counted
<1> QED
  BY <1>1, <1>2, <1>3 DEF Fifo!Refuse, Released

(* b43bsd_dma_tx_done frees a frame that has been transmitted.              *)
LEMMA FifoRelease ==
  ASSUME IInv, OwnedWindow, SentInv, ReapFrees
  PROVE  \E m \in Mbufs : Fifo!Release(m)
<1>0. /\ scan \in Slots /\ slotM[scan] \in Mbufs /\ slotM[scan] # NoMbuf
      /\ ~hwOwns[scan] /\ freed' = [freed EXCEPT ![slotM[scan]] = @ + 1]
  BY TxRingAssumption DEF ReapFrees, Reapable, Free, IInv, Counted, TypeOK, Slots
<1> PICK m \in Mbufs : m = slotM[scan]
  BY <1>0
<1>1. scan \in Slots /\ m = slotM[scan] /\ m # NoMbuf /\ ~hwOwns[scan] /\ Free(m)
  BY <1>0 DEF Free
<1>2. m \in Fifo!Range(wire)
  BY <1>1, WireHas DEF SentInv, GivenBackSent
<1>3. m \notin Released
  BY <1>1 DEF IInv, Ownership, SlotsHeld, Held, Released
<1>4. Released' = Released \cup {m}
  BY <1>1, FreeReleases DEF IInv, Counted
<1>5. InFlight' = InFlight /\ UNCHANGED wire
  BY ReapSame, WindowSame DEF IInv
<1>6. Fifo!Release(m)
  BY <1>2, <1>3, <1>4, <1>5 DEF Fifo!Release, Released
<1> QED
  BY <1>1, <1>6

(* The device transmits the oldest frame in flight.                        *)
LEMMA FifoTransmit ==
  ASSUME IInv, OwnedWindow, HwConsume
  PROVE  Fifo!Transmit
<1>1. /\ InFlight # << >> /\ slotM[hwNext] = Head(InFlight)
      /\ InFlight' = Tail(InFlight)
  BY WindowConsume DEF IInv
<1>2. wire' = Append(wire, slotM[hwNext]) /\ UNCHANGED freed
  BY DEF HwConsume
<1> QED
  BY <1>1, <1>2 DEF Fifo!Transmit

(* Recovery and b43bsd_stop drop what is in flight and release everything.  *)
LEMMA FifoTearDown ==
  ASSUME IInv, OwnedWindow, SentInv, FreeAll, NoSlots, UNCHANGED wire,
         hwNext' \in Slots, allocated' => curTx' = hwNext'
  PROVE  Fifo!TearDown
<1>1. InFlight' = << >>
  BY WindowEmpty
<1>2. Released' = Released \cup Fifo!Range(InFlight) \cup Fifo!Range(wire)
  BY FreeAllReleases
<1> QED
  BY <1>1, <1>2 DEF Fifo!TearDown, Released

(* b43bsd_init finds no ring, so it drops nothing.                         *)
LEMMA FifoUp ==
  ASSUME IInv, Up
  PROVE  UNCHANGED Fifo!vars
<1>1. Owned = {}
  <2>1. Occupied = {}
    BY DEF Up, IInv, DownUnallocated, Counted, Unallocated
  <2> QED
    BY <2>1 DEF IInv, Counted, OwnedFilled, Occupied, Owned
<1>2. OwnedCount = 0
  <2>1. OwnedCount = Cardinality(Owned)
    BY DEF OwnedCount, Owned
  <2> QED
    BY <1>1, <2>1, FS_EmptySet
<1>3. InFlight = << >>
  BY <1>2 DEF InFlight
<1>4. InFlight' = << >>
  <2>1. 0 \in Slots
    BY TxRingAssumption DEF Slots
  <2> QED
    BY <2>1, WindowEmpty DEF Up, RingBuilt, Restarted
<1> QED
  BY <1>3, <1>4 DEF Up, Fifo!vars

(* Every step of the ring is a step of the FIFO, or none.                   *)
LEMMA FifoStep ==
  IInv /\ OwnedWindow /\ SentInv /\ [Next]_vars => [Fifo!Next]_(Fifo!vars)
<1> SUFFICES ASSUME IInv, OwnedWindow, SentInv, [Next]_vars
             PROVE  Fifo!Next \/ UNCHANGED Fifo!vars
  OBVIOUS
<1>c. Counted /\ TypeOK /\ OwnedWindow
  BY DEF IInv, Counted
<1>s. ASSUME UNCHANGED <<ringVars, freed, wire>> PROVE UNCHANGED Fifo!vars
  <2>1. InFlight' = InFlight
    BY <1>c, <1>s, WindowSame DEF ringVars
  <2> QED
    BY <1>s, <2>1 DEF Fifo!vars
<1>h. ASSUME InStart, ifq # << >> PROVE Head(ifq) \in Mbufs /\ InQueue(Head(ifq))
  <2>1. Head(ifq) \in Mbufs /\ 1 \in DOMAIN ifq /\ Head(ifq) = ifq[1]
    BY <1>c, <1>h DEF TypeOK
  <2> QED
    BY <2>1 DEF InQueue
<1>1. CASE \E m \in Mbufs : Enqueue(m)
  BY <1>1, <1>s DEF Enqueue
<1>2. ASSUME NEW m \in Mbufs, DirectPosts(m) PROVE Fifo!Next
  <2>1. Fifo!Post(m)
    BY <1>2, FifoPost DEF DirectPosts
  <2> QED
    BY <2>1 DEF Fifo!Next
<1>3. ASSUME NEW m \in Mbufs, DirectDrops(m) PROVE Fifo!Next
  <2>1. Fifo!Refuse(m)
    BY <1>3, FifoRefuse DEF DirectDrops
  <2> QED
    BY <2>1 DEF Fifo!Next
<1>4. CASE StartPosts
  <2>1. PICK m \in Mbufs : m = Head(ifq) /\ InQueue(m)
    BY <1>4, <1>h DEF StartPosts
  <2>2. TxPost(m) /\ UNCHANGED <<freed, wire>>
    BY <1>4, <2>1 DEF StartPosts, TxPost
  <2>3. Fifo!Post(m)
    BY <2>1, <2>2, FifoPost
  <2> QED
    BY <2>3 DEF Fifo!Next
<1>5. CASE StartDrops
  <2>1. PICK m \in Mbufs : m = Head(ifq) /\ InQueue(m)
    BY <1>5, <1>h DEF StartDrops
  <2>2. Free(m) /\ UNCHANGED <<ringVars, wire>>
    BY <1>5, <2>1 DEF StartDrops, Free
  <2>3. Fifo!Refuse(m)
    BY <2>1, <2>2, FifoRefuse
  <2> QED
    BY <2>3 DEF Fifo!Next
<1>6. CASE ReapFrees
  BY <1>6, FifoRelease DEF Fifo!Next
<1>7. CASE RecoverRebuilds
  <2>1. 0 \in Slots
    BY TxRingAssumption DEF Slots
  <2>2. Fifo!TearDown
    BY <1>7, <2>1, FifoTearDown DEF RecoverRebuilds, RingBuilt, Restarted
  <2> QED
    BY <2>2 DEF Fifo!Next
<1>8. CASE Stop
  <2>1. Fifo!TearDown
    BY <1>c, <1>8, FifoTearDown DEF Stop, RingFreed, TypeOK
  <2> QED
    BY <2>1 DEF Fifo!Next
<1>9. CASE Up
  BY <1>9, FifoUp
<1>10. CASE HwConsume
  BY <1>10, FifoTransmit DEF Fifo!Next
<1>11. CASE CallStart \/ StartReturns \/ Intr \/ IntrStorms
  BY <1>11, <1>s DEF CallStart, StartReturns, Intr, IntrStorms
<1>12. CASE ReapSkips \/ ReapEnds
  BY <1>12, <1>s DEF ReapSkips, ReapEnds
<1>13. CASE RecoverRestarts \/ HwFault \/ UNCHANGED vars
  <2>1. UNCHANGED <<hwOwns, hwNext, curTx, allocated, slotM, freed, wire>>
    BY <1>13 DEF RecoverRestarts, HwFault, vars, ringVars
  <2>2. InFlight' = InFlight
    BY <1>c, <2>1, WindowSame
  <2> QED
    BY <2>1, <2>2 DEF Fifo!vars
<1> QED
  BY <1>1, <1>2, <1>3, <1>4, <1>5, <1>6, <1>7, <1>8, <1>9, <1>10, <1>11, <1>12, <1>13
  DEF Next

(* The transmit ring is a FIFO to the driver above it: frames go out in the *)
(* order posted, each once, and the memory of a frame is given back only    *)
(* after it was sent or when the ring is torn down.                         *)
THEOREM RefinesFifo == Spec => ImplementsFifo
<1>1. Spec => [](IInv /\ OwnedWindow /\ SentInv)
  BY InvInit, SentInit, SentStep, InvHolds, OwnedIsWindow, PTL DEF Spec
<1> QED
  BY <1>1, FifoInit, FifoStep, PTL DEF Spec, ImplementsFifo, Fifo!Spec

=============================================================================
