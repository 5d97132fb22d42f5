--------------------------- MODULE B43RxRing_proofs ---------------------------
(***************************************************************************)
(* Theorems about B43RxRing for every ring size, every number of frames    *)
(* and every number of faults.                                             *)
(*                                                                         *)
(* The inductive invariant is IInv: the types, that the device only owns    *)
(* slots with a buffer, and two facts the properties rest on.  FrameInv     *)
(* accounts for every frame the device stored, in a slot or gone from the   *)
(* ring, and never both.  OwnsRun says, of a device that keeps its position *)
(* when it is restarted, that the slots it owns are one run ending at       *)
(* cur_rx, which is what places the slots without a buffer.  DownEmpty, the  *)
(* other half of the invariant, says that an interface that is down has no  *)
(* buffers and no handler under way.                                       *)
(*                                                                         *)
(* That no frame is overtaken by a whole ring holds for a device that       *)
(* starts over at slot 0 too.  LapInv adds what that needs: the slots the   *)
(* device owns are at most two runs, TwoRuns, and the device comes to the   *)
(* slots with older frames first unless it is stranded at slot 0, Ordered.  *)
(***************************************************************************)
EXTENDS B43RxRing, FiniteSetTheorems, WellFoundedInduction, TLAPS

(* The parts of TypeOK.                                                    *)
RingTypes ==
  /\ buf \in [Slots -> BOOLEAN]
  /\ hwOwns \in [Slots -> BOOLEAN]
  /\ content \in [Slots -> 0 .. MaxFrames]
  /\ curRx \in Slots
  /\ faults \in 0 .. MaxFaults

HwTypes ==
  /\ engine \in {"run", "stopped", "error", "off"}
  /\ hwNext \in Slots
  /\ txFatal \in BOOLEAN
  /\ stored \in 0 .. MaxFrames
  /\ keepsPos \in BOOLEAN

CpuTypes ==
  /\ irq \subseteq Causes
  /\ reason \subseteq Causes
  /\ pc \in {"idle", "rx", "dma", "overflow"}
  /\ scan \in 0 .. NSlots

OutTypes ==
  /\ delivered \in Seq(Frames)
  /\ discarded \subseteq Frames

RunTypes ==
  /\ storm \in BOOLEAN
  /\ running \in BOOLEAN
  /\ restarts \in 0 .. MaxRestarts

Types == RingTypes /\ HwTypes /\ CpuTypes /\ OutTypes /\ RunTypes

(* A filled slot holds a frame that is in no other slot and has not left    *)
(* the ring.                                                               *)
Left(f) == f \in discarded \/ \E k \in DOMAIN delivered : delivered[k] = f

FilledFrames ==
  /\ \A i \in Slots : Filled(i) => content[i] \in 1 .. stored /\ ~Left(content[i])
  /\ \A i, j \in Slots : Filled(i) /\ Filled(j) /\ content[i] = content[j] => i = j

(* A frame that has left the ring was stored, and left it in one way.       *)
LeftOnce ==
  /\ discarded \subseteq 1 .. stored
  /\ \A k \in DOMAIN delivered : delivered[k] \in 1 .. stored \ discarded
  /\ \A k, l \in DOMAIN delivered : delivered[k] = delivered[l] => k = l

(* No frame is lost on the way.                                            *)
NoneLost ==
  \A f \in 1 .. stored : Left(f) \/ \E i \in Slots : Filled(i) /\ content[i] = f

FrameInv == FilledFrames /\ LeftOnce /\ NoneLost

(* The slot n places after slot i, and how far slot i is after hwNext.      *)
Ahead(i, n) == IF i + n < NSlots THEN i + n ELSE i + n - NSlots

Offset(i) == IF hwNext <= i THEN i - hwNext ELSE i - hwNext + NSlots

(* A device that keeps its position owns the run of slots from its own up    *)
(* to cur_rx, and no other: the empty and the filled ones follow cur_rx.     *)
OwnsRun ==
  running /\ keepsPos =>
    \E h \in 0 .. NSlots :
      /\ curRx = Ahead(hwNext, h)
      /\ \A i \in Slots : hwOwns[i] <=> Offset(i) < h

IInv == Types /\ BufferUnderDevice /\ FrameInv /\ OwnsRun

DownEmpty == ~running => pc = "idle" /\ \A i \in Slots : ~buf[i]

-----------------------------------------------------------------------------
(* Numbers and slots.                                                      *)

(* A nonempty set of naturals has a least member.                          *)
LEMMA LeastNatural ==
  ASSUME NEW S \in SUBSET Nat, S # {}
  PROVE  \E x \in S : \A y \in S : x <= y
<1> DEFINE Below(x) == {y \in S : y <= x}
           Downs == {Below(x) : x \in S}
<1>0. \A x \in S : x \in Nat
  OBVIOUS
<1>1. \A x \in S : Below(x) \in FiniteSubsetsOf(S)
  <2> TAKE x \in S
  <2>1. \A y \in Below(x) : y \in 0 .. x
    BY <1>0
  <2>2. IsFiniteSet(0 .. x)
    BY <1>0, FS_Interval
  <2>3. IsFiniteSet(Below(x))
    BY <2>1, <2>2, FS_Subset
  <2> QED
    BY <2>3 DEF FiniteSubsetsOf
<1>2. Downs \subseteq FiniteSubsetsOf(S) /\ Downs # {}
  BY <1>1
<1>3. \E D \in Downs : \A E \in Downs : <<E, D>> \notin StrictSubsetOrdering(S)
  BY <1>2, WFMin, FS_StrictSubsetOrderingWellFounded
<1>4. PICK x \in S : \A y \in S : <<Below(y), Below(x)>> \notin StrictSubsetOrdering(S)
  BY <1>3
<1>5. ASSUME NEW y \in S, y < x PROVE FALSE
  <2>1. \A z \in S : z <= y => z <= x
    BY <1>0, <1>5
  <2>2. x \in Below(x) /\ x \notin Below(y)
    BY <1>0, <1>5
  <2> QED
    BY <1>4, <2>1, <2>2 DEF StrictSubsetOrdering
<1> QED
  BY <1>0, <1>5

(* Positions wrap at most once.                                            *)
LEMMA Wrap ==
  ASSUME NEW i \in Slots, NEW n \in 0 .. NSlots
  PROVE  (i + n) % NSlots = Ahead(i, n) /\ Ahead(i, n) \in Slots
<1> USE RxRingAssumption DEF Slots, Ahead
<1>1. CASE i + n < NSlots
  BY <1>1
<1>2. CASE i + n >= NSlots
  <2>1. i + n - NSlots \in 0 .. NSlots - 1 /\ i + n = 1 * NSlots + (i + n - NSlots)
    BY <1>2
  <2> QED
    BY <2>1, <1>2
<1> QED
  BY <1>1, <1>2

(* The run of empty slots exists, and ends the first time a slot is not      *)
(* empty.                                                                  *)
LEMMA EmptyRunFacts ==
  ASSUME Types, NEW b \in [Slots -> BOOLEAN]
  PROVE  /\ EmptyRun(b) \in 0 .. NSlots
         /\ \A j \in 0 .. EmptyRun(b) - 1 : After(j) \in Slots /\ ~b[After(j)]
         /\ EmptyRun(b) = NSlots \/ b[After(EmptyRun(b))]
         /\ \A j \in 0 .. NSlots : After(j) = Ahead(curRx, j) /\ After(j) \in Slots
<1> DEFINE Ends == {n \in 0 .. NSlots : n = NSlots \/ b[After(n)]}
<1> USE RxRingAssumption
<1>1. PICK n \in Ends : \A m \in Ends : n <= m
  <2>1. Ends \in SUBSET Nat /\ NSlots \in Ends
    OBVIOUS
  <2> QED
    BY <2>1, LeastNatural
<1>2. \A j \in 0 .. n - 1 : ~b[After(j)]
  BY <1>1
<1>3. \E m \in 0 .. NSlots : /\ \A j \in 0 .. m - 1 : ~b[After(j)]
                             /\ m = NSlots \/ b[After(m)]
  BY <1>1, <1>2
<1>4. /\ EmptyRun(b) \in 0 .. NSlots
      /\ \A j \in 0 .. EmptyRun(b) - 1 : ~b[After(j)]
      /\ EmptyRun(b) = NSlots \/ b[After(EmptyRun(b))]
  BY <1>3 DEF EmptyRun
<1>5. \A j \in 0 .. NSlots : After(j) = Ahead(curRx, j) /\ After(j) \in Slots
  BY Wrap DEF After, Types, RingTypes
<1> QED
  BY <1>4, <1>5

-----------------------------------------------------------------------------
(* Refilling.                                                              *)

(* b43bsd_dma_rx puts a buffer under the device in each of the next k slots  *)
(* from cur_rx, all of them empty, and moves cur_rx past them.              *)
LEMMA RefillFacts ==
  ASSUME Types, NEW b \in [Slots -> BOOLEAN], \A i \in Slots : hwOwns[i] => b[i],
         Refill(b)
  PROVE  /\ buf' \in [Slots -> BOOLEAN] /\ hwOwns' \in [Slots -> BOOLEAN]
         /\ curRx' \in Slots /\ faults' \in 0 .. MaxFaults
         /\ \A i \in Slots : hwOwns'[i] => buf'[i]
         /\ \A i \in Slots : (buf'[i] /\ ~hwOwns'[i]) <=> (b[i] /\ ~hwOwns[i])
         /\ \E k \in 0 .. NSlots :
              /\ curRx' = Ahead(curRx, k)
              /\ \A j \in 0 .. k - 1 : ~b[Ahead(curRx, j)]
              /\ \A i \in Slots :
                   hwOwns'[i] <=> hwOwns[i] \/ \E j \in 0 .. k - 1 : i = Ahead(curRx, j)
<1>1. PICK k \in FillCounts(b) : Filling(b, k, k, After(k))
  BY DEF Refill
<1> DEFINE Next0 == {After(j) : j \in 0 .. k - 1}
<1>2. k \in 0 .. EmptyRun(b) /\ k \in 0 .. NSlots
  BY EmptyRunFacts, RxRingAssumption DEF FillCounts
<1>3. /\ \A j \in 0 .. k - 1 : ~b[After(j)] /\ After(j) \in Slots /\ j \in 0 .. NSlots
      /\ \A j \in 0 .. NSlots : After(j) = Ahead(curRx, j) /\ After(j) \in Slots
  BY <1>2, EmptyRunFacts, RxRingAssumption
<1>4. \A i \in Next0 : i \in Slots /\ ~b[i]
  BY <1>3
<1>5. /\ buf' = [i \in Slots |-> b[i] \/ i \in Next0]
      /\ hwOwns' = [i \in Slots |-> hwOwns[i] \/ i \in Next0]
      /\ curRx' = After(k)
  BY <1>1 DEF Filling
<1>6. buf' \in [Slots -> BOOLEAN] /\ hwOwns' \in [Slots -> BOOLEAN]
  <2>1. \A i \in Slots : (b[i] \/ i \in Next0) \in BOOLEAN
    OBVIOUS
  <2>2. \A i \in Slots : (hwOwns[i] \/ i \in Next0) \in BOOLEAN
    OBVIOUS
  <2> QED
    BY <1>5, <2>1, <2>2, Zenon
<1>7. curRx' \in Slots /\ curRx' = Ahead(curRx, k)
  BY <1>2, <1>3, <1>5
<1>8. faults' \in 0 .. MaxFaults
  <2>1. k < EmptyRun(b) => faults < MaxFaults
    BY DEF FillCounts
  <2>2. faults \in 0 .. MaxFaults
    BY DEF Types, RingTypes
  <2>3. faults' = IF k < EmptyRun(b) THEN faults + 1 ELSE faults
    BY <1>1 DEF Filling
  <2> QED
    BY <2>1, <2>2, <2>3, RxRingAssumption
<1>9. \A i \in Slots : hwOwns'[i] => buf'[i]
  BY <1>5
<1>10. \A i \in Slots : (buf'[i] /\ ~hwOwns'[i]) <=> (b[i] /\ ~hwOwns[i])
  BY <1>4, <1>5
<1>11. \A i \in Slots :
         hwOwns'[i] <=> hwOwns[i] \/ \E j \in 0 .. k - 1 : i = Ahead(curRx, j)
  BY <1>3, <1>5
<1>12. \A j \in 0 .. k - 1 : ~b[Ahead(curRx, j)]
  BY <1>3
<1> QED
  BY <1>2, <1>6, <1>7, <1>8, <1>9, <1>10, <1>11, <1>12

(* The frames do not notice a refill.                                      *)
LEMMA FramesKept ==
  ASSUME FrameInv, \A i \in Slots : Filled(i)' <=> Filled(i),
         UNCHANGED <<content, stored, delivered, discarded>>
  PROVE  FrameInv'
<1>1. \A f : Left(f)' <=> Left(f)
  BY DEF Left
<1>2. FilledFrames'
  BY <1>1 DEF FrameInv, FilledFrames
<1>3. LeftOnce'
  BY DEF FrameInv, LeftOnce
<1>4. NoneLost'
  BY <1>1 DEF FrameInv, NoneLost
<1> QED
  BY <1>2, <1>3, <1>4 DEF FrameInv

(* The run of the device's slots grows by the slots refilled.              *)
LEMMA RunGrows ==
  ASSUME Types, OwnsRun, NEW b \in [Slots -> BOOLEAN],
         \A i \in Slots : hwOwns[i] => b[i], Refill(b),
         UNCHANGED <<keepsPos, running>>, keepsPos => UNCHANGED hwNext
  PROVE  OwnsRun'
<1> USE RxRingAssumption
<1> SUFFICES ASSUME running, keepsPos
             PROVE  \E h \in 0 .. NSlots :
                      /\ curRx' = Ahead(hwNext, h)
                      /\ \A i \in Slots : hwOwns'[i] <=> Offset(i) < h
  BY DEF OwnsRun, Offset
<1>1. PICK h \in 0 .. NSlots : /\ curRx = Ahead(hwNext, h)
                               /\ \A i \in Slots : hwOwns[i] <=> Offset(i) < h
  BY DEF OwnsRun
<1>2. PICK k \in 0 .. NSlots :
              /\ curRx' = Ahead(curRx, k)
              /\ \A j \in 0 .. k - 1 : ~b[Ahead(curRx, j)]
              /\ \A i \in Slots :
                   hwOwns'[i] <=> hwOwns[i] \/ \E j \in 0 .. k - 1 : i = Ahead(curRx, j)
  BY RefillFacts
<1>3. curRx \in Slots /\ hwNext \in Slots
  BY DEF Types, RingTypes, HwTypes
<1>4. \A j \in 0 .. k - 1 : Ahead(curRx, j) \in Slots /\ ~hwOwns[Ahead(curRx, j)]
  BY <1>2, <1>3, Wrap
<1>5. \A j \in 0 .. k - 1 : ~(Offset(Ahead(curRx, j)) < h)
  BY <1>1, <1>4
<1>6. h + k <= NSlots
  <2> SUFFICES ASSUME h + k > NSlots PROVE FALSE
    OBVIOUS
  <2>1. NSlots - h \in 0 .. k - 1
    OBVIOUS
  <2>2. Ahead(curRx, NSlots - h) = hwNext
    BY <1>1, <1>3 DEF Ahead, Slots
  <2>3. Offset(hwNext) = 0 /\ h > 0
    BY <1>3, <2>1 DEF Offset, Slots
  <2> QED
    BY <1>5, <2>1, <2>2, <2>3
<1>7. curRx' = Ahead(hwNext, h + k)
  BY <1>1, <1>2, <1>3, <1>6 DEF Ahead, Slots
<1>8. ASSUME NEW i \in Slots PROVE hwOwns'[i] <=> Offset(i) < h + k
  <2>1. ASSUME NEW j \in 0 .. k - 1, i = Ahead(curRx, j) PROVE Offset(i) = h + j
    BY <1>1, <1>3, <1>6, <2>1 DEF Ahead, Offset, Slots
  <2>2. ASSUME Offset(i) >= h, Offset(i) < h + k
        PROVE  Offset(i) - h \in 0 .. k - 1 /\ i = Ahead(curRx, Offset(i) - h)
    BY <1>1, <1>3, <1>6, <2>2 DEF Ahead, Offset, Slots
  <2>3. Offset(i) \in 0 .. NSlots
    BY <1>3 DEF Offset, Slots
  <2> QED
    BY <1>1, <1>2, <2>1, <2>2, <2>3
<1> QED
  BY <1>6, <1>7, <1>8

-----------------------------------------------------------------------------
(* A new ring.                                                             *)

(* b43bsd_dma_init: the first k slots have buffers, the device is at slot 0 *)
(* and cur_rx is after them.                                               *)
LEMMA NewRing ==
  ASSUME NEW k \in 0 .. NSlots, buf' = [i \in Slots |-> i < k], hwOwns' = buf',
         curRx' = k % NSlots, hwNext' = 0
  PROVE  /\ buf' \in [Slots -> BOOLEAN] /\ hwOwns' \in [Slots -> BOOLEAN]
         /\ curRx' \in Slots /\ hwNext' \in Slots
         /\ BufferUnderDevice' /\ \A i \in Slots : ~Filled(i)'
         /\ OwnsRun'
<1> USE RxRingAssumption
<1>1. 0 \in Slots /\ k % NSlots = Ahead(0, k) /\ Ahead(0, k) \in Slots
  <2>1. 0 \in Slots /\ 0 + k = k
    BY DEF Slots
  <2>2. (0 + k) % NSlots = Ahead(0, k) /\ Ahead(0, k) \in Slots
    BY <2>1, Wrap
  <2> QED
    BY <2>1, <2>2
<1>2. \A i \in Slots : (i < k) \in BOOLEAN
  BY DEF Slots
<1>3. buf' \in [Slots -> BOOLEAN] /\ hwOwns' \in [Slots -> BOOLEAN]
  BY <1>2
<1>4. BufferUnderDevice' /\ \A i \in Slots : ~Filled(i)'
  BY DEF BufferUnderDevice, Filled
<1>5. curRx' = Ahead(hwNext', k) /\ \A i \in Slots : hwOwns'[i] <=> Offset(i)' < k
  <2>1. curRx' = Ahead(hwNext', k)
    BY <1>1
  <2>2. \A i \in Slots : hwOwns'[i] <=> i < k
    OBVIOUS
  <2>3. \A i \in Slots : Offset(i)' = i
    BY DEF Offset, Slots
  <2> QED
    BY <2>1, <2>2, <2>3
<1>6. OwnsRun'
  BY <1>5 DEF OwnsRun, Ahead
<1> QED
  BY <1>1, <1>3, <1>4, <1>6

(* The ring of b43bsd_dma_init satisfies the invariant.                    *)
LEMMA IInvInit == Init => IInv
<1> SUFFICES ASSUME Init PROVE IInv
  OBVIOUS
<1> USE RxRingAssumption
<1>1. PICK k \in 0 .. NSlots :
        /\ k = NSlots \/ MaxFaults > 0
        /\ buf = [i \in Slots |-> i < k] /\ hwOwns = buf /\ curRx = k % NSlots
        /\ faults = IF k = NSlots THEN 0 ELSE 1
  BY DEF Init
<1>2. 0 \in Slots /\ k % NSlots = Ahead(0, k) /\ Ahead(0, k) \in Slots
  <2>1. 0 \in Slots /\ 0 + k = k
    BY DEF Slots
  <2>2. (0 + k) % NSlots = Ahead(0, k) /\ Ahead(0, k) \in Slots
    BY <2>1, Wrap
  <2> QED
    BY <2>1, <2>2
<1>3. \A i \in Slots : (i < k) \in BOOLEAN
  BY DEF Slots
<1>4. buf \in [Slots -> BOOLEAN] /\ hwOwns \in [Slots -> BOOLEAN]
  BY <1>1, <1>3
<1>5. RingTypes
  BY <1>1, <1>2, <1>4 DEF RingTypes, Init
<1>6. HwTypes
  BY <1>2 DEF HwTypes, Init
<1>7. CpuTypes
  BY DEF CpuTypes, Init
<1>8. OutTypes
  BY DEF OutTypes, Init
<1>12. RunTypes
  <2>1. storm = FALSE /\ running = TRUE /\ restarts = 0
    BY DEF Init
  <2>2. storm \in BOOLEAN /\ running \in BOOLEAN
    BY <2>1, Zenon
  <2>3. restarts \in 0 .. MaxRestarts
    BY <2>1
  <2> QED
    BY <2>2, <2>3 DEF RunTypes
<1>9. BufferUnderDevice /\ \A i \in Slots : ~Filled(i)
  BY <1>1 DEF BufferUnderDevice, Filled
<1>10. FrameInv
  BY <1>9 DEF FrameInv, FilledFrames, LeftOnce, NoneLost, Left, Init
<1>11. OwnsRun
  <2>1. hwNext = 0
    BY DEF Init
  <2>2. \A i \in Slots : hwOwns[i] <=> i < k
    BY <1>1
  <2>3. \A i \in Slots : Offset(i) = i
    BY <2>1 DEF Offset, Slots
  <2>4. curRx = Ahead(hwNext, k)
    BY <1>1, <1>2, <2>1
  <2> QED
    BY <2>2, <2>3, <2>4 DEF OwnsRun
<1> QED
  BY <1>5, <1>6, <1>7, <1>8, <1>9, <1>10, <1>11, <1>12 DEF IInv, Types

-----------------------------------------------------------------------------
(* The steps.                                                              *)

(* Handing a filled buffer to the stack moves its frame, and only its, out  *)
(* of the ring.                                                            *)
LEMMA FrameDelivered ==
  ASSUME Types, FrameInv, NEW s \in Slots, Filled(s),
         \A i \in Slots : Filled(i)' <=> Filled(i) /\ i # s,
         delivered' = Append(delivered, content[s]),
         UNCHANGED <<content, stored, discarded>>
  PROVE  FrameInv' /\ delivered' \in Seq(Frames)
<1> DEFINE g == content[s]
           n == Len(delivered)
<1> USE RxRingAssumption
<1>1. delivered \in Seq(Frames) /\ n \in Nat /\ DOMAIN delivered = 1 .. n
  BY DEF Types, OutTypes
<1>2. g \in 1 .. stored /\ ~Left(g) /\ g \in Frames
  BY DEF FrameInv, FilledFrames, Types, HwTypes, Frames
<1>3. delivered' \in Seq(Frames)
  BY <1>1, <1>2
<1>4. /\ DOMAIN delivered' = 1 .. n + 1
      /\ \A k \in 1 .. n : delivered'[k] = delivered[k]
      /\ delivered'[n + 1] = g
  BY <1>1, <1>2
<1>5. \A f : Left(f)' <=> Left(f) \/ f = g
  BY <1>1, <1>4 DEF Left
<1>6. FilledFrames'
  BY <1>5 DEF FrameInv, FilledFrames
<1>7. LeftOnce'
  <2>1. \A k \in DOMAIN delivered' : delivered'[k] \in 1 .. stored \ discarded
    BY <1>1, <1>2, <1>4 DEF FrameInv, LeftOnce, Left
  <2>2. ASSUME NEW k \in DOMAIN delivered', NEW l \in DOMAIN delivered',
               delivered'[k] = delivered'[l]
        PROVE  k = l
    <3>1. CASE k \in 1 .. n /\ l \in 1 .. n
      BY <1>1, <1>4, <2>2, <3>1 DEF FrameInv, LeftOnce
    <3>2. CASE k = n + 1 /\ l \in 1 .. n
      BY <1>1, <1>2, <1>4, <2>2, <3>2 DEF Left
    <3>3. CASE k \in 1 .. n /\ l = n + 1
      BY <1>1, <1>2, <1>4, <2>2, <3>3 DEF Left
    <3> QED
      BY <1>1, <1>4, <3>1, <3>2, <3>3
  <2> QED
    BY <2>1, <2>2 DEF FrameInv, LeftOnce
<1>8. NoneLost'
  BY <1>5 DEF FrameInv, NoneLost
<1> QED
  BY <1>3, <1>6, <1>7, <1>8 DEF FrameInv

(* The device stores a new frame, in a slot that was not filled.            *)
LEMMA FrameStored ==
  ASSUME Types, FrameInv, BufferUnderDevice, HwStores
  PROVE  FrameInv'
<1> USE RxRingAssumption
<1>1. hwNext \in Slots /\ stored \in Nat
  BY DEF Types, HwTypes
<1>2. /\ content' = [content EXCEPT ![hwNext] = stored + 1]
      /\ hwOwns' = [hwOwns EXCEPT ![hwNext] = FALSE]
      /\ stored' = stored + 1 /\ hwOwns[hwNext]
      /\ UNCHANGED <<buf, delivered, discarded>>
  BY DEF HwStores, outVars
<1>3. \A i \in Slots : Filled(i)' <=> Filled(i) \/ i = hwNext
  BY <1>1, <1>2 DEF Filled, BufferUnderDevice, Types, RingTypes
<1>4. /\ \A i \in Slots : i # hwNext => content'[i] = content[i]
      /\ content'[hwNext] = stored + 1
      /\ ~Filled(hwNext)
  BY <1>1, <1>2 DEF Types, RingTypes, Filled
<1>5. \A f : Left(f)' <=> Left(f)
  BY <1>2 DEF Left
<1>6. \A f : Left(f) => f \in 1 .. stored
  BY DEF FrameInv, LeftOnce, Left
<1>7. stored + 1 \notin 1 .. stored /\ 1 .. stored + 1 = 1 .. stored \cup {stored + 1}
  BY <1>1
<1>8. FilledFrames'
  BY <1>1, <1>2, <1>3, <1>4, <1>5, <1>6, <1>7 DEF FrameInv, FilledFrames
<1>9. LeftOnce'
  BY <1>2, <1>7 DEF FrameInv, LeftOnce
<1>10. NoneLost'
  BY <1>1, <1>2, <1>3, <1>4, <1>5, <1>7 DEF FrameInv, NoneLost
<1> QED
  BY <1>8, <1>9, <1>10 DEF FrameInv

(* b43bsd_dma_free frees the frames of every filled slot.                  *)
LEMMA FramesDiscarded ==
  ASSUME Types, FrameInv, \A i \in Slots : ~Filled(i)',
         discarded' = discarded \cup {content[i] : i \in {j \in Slots : Filled(j)}},
         UNCHANGED <<stored, delivered>>
  PROVE  FrameInv' /\ discarded' \subseteq Frames
<1>1. \A i \in Slots : Filled(i) => content[i] \in 1 .. stored /\ ~Left(content[i])
  BY DEF FrameInv, FilledFrames
<1>2. \A f : f \in discarded' <=> f \in discarded \/ \E i \in Slots : Filled(i) /\ content[i] = f
  OBVIOUS
<1>3. 1 .. stored \subseteq Frames
  BY RxRingAssumption DEF Types, HwTypes, Frames
<1>4. FilledFrames'
  BY DEF FilledFrames
<1>5. discarded' \subseteq 1 .. stored
  BY <1>1, <1>2 DEF FrameInv, LeftOnce
<1>6. LeftOnce'
  BY <1>1, <1>2, <1>5 DEF FrameInv, LeftOnce, Left
<1>7. NoneLost'
  BY <1>2 DEF FrameInv, NoneLost, Left
<1> QED
  BY <1>3, <1>4, <1>5, <1>6, <1>7 DEF FrameInv

(* What a refill leaves of the invariant, given the frames' part.           *)
LEMMA RefillKeeps ==
  ASSUME IInv, NEW b \in [Slots -> BOOLEAN], \A i \in Slots : hwOwns[i] => b[i],
         Refill(b), UNCHANGED <<content, keepsPos, running>>,
         keepsPos => UNCHANGED hwNext
  PROVE  RingTypes' /\ BufferUnderDevice' /\ OwnsRun'
<1>1. RingTypes'
  BY RefillFacts DEF IInv, Types, RingTypes
<1>2. BufferUnderDevice'
  BY RefillFacts DEF IInv, BufferUnderDevice
<1>3. OwnsRun'
  BY RunGrows DEF IInv
<1> QED
  BY <1>1, <1>2, <1>3

(* A step that leaves the ring, the frames and the device's position alone.  *)
LEMMA RingKept ==
  ASSUME IInv, UNCHANGED <<ringVars, hwNext, stored, outVars, keepsPos, running>>
  PROVE  BufferUnderDevice' /\ FrameInv' /\ OwnsRun' /\ OutTypes'
<1>1. \A i \in Slots : Filled(i)' <=> Filled(i)
  BY DEF Filled, ringVars
<1>2. FrameInv'
  BY <1>1, FramesKept DEF IInv, ringVars, outVars
<1>3. BufferUnderDevice'
  BY DEF IInv, BufferUnderDevice, ringVars
<1>4. OwnsRun'
  BY DEF IInv, OwnsRun, Offset, ringVars
<1>5. OutTypes'
  BY DEF IInv, Types, OutTypes, outVars
<1> QED
  BY <1>2, <1>3, <1>4, <1>5

(* b43bsd_intr goes from one part to the next.                             *)
LEMMA PartTypes ==
  ASSUME NEW r
  PROVE  /\ OverflowOrDone(r) \in {"idle", "rx", "dma", "overflow"}
         /\ DmaOrLater(r) \in {"idle", "rx", "dma", "overflow"}
  BY DEF DmaOrLater, OverflowOrDone

LEMMA GoToTypes ==
  ASSUME CpuTypes, NEW part \in {"idle", "rx", "dma", "overflow"}, GoTo(part),
         irq' \subseteq Causes
  PROVE  CpuTypes'
  BY RxRingAssumption DEF CpuTypes, GoTo

(* A filled slot is given to the stack and refilled.                       *)
LEMMA DeliverStep == IInv /\ Deliver => IInv'
<1> SUFFICES ASSUME IInv, Deliver PROVE IInv'
  OBVIOUS
<1> DEFINE b == [buf EXCEPT ![scan] = FALSE]
<1> USE RxRingAssumption
<1>1. scan \in Slots /\ Filled(scan) /\ Refill(b)
  BY DEF Deliver, IInv, Types, CpuTypes, Slots
<1>2. b \in [Slots -> BOOLEAN] /\ \A i \in Slots : b[i] <=> buf[i] /\ i # scan
  BY <1>1 DEF IInv, Types, RingTypes
<1>3. \A i \in Slots : hwOwns[i] => b[i]
  BY <1>1, <1>2 DEF IInv, BufferUnderDevice, Filled
<1>4. RingTypes' /\ BufferUnderDevice' /\ OwnsRun'
  BY <1>1, <1>2, <1>3, RefillKeeps DEF Deliver, hwVars, runVars
<1>5. \A i \in Slots : Filled(i)' <=> Filled(i) /\ i # scan
  BY <1>1, <1>2, <1>3, RefillFacts DEF IInv, Filled
<1>6. FrameInv' /\ delivered' \in Seq(Frames)
  BY <1>1, <1>5, FrameDelivered DEF IInv, Deliver, hwVars
<1>7. HwTypes' /\ OutTypes' /\ RunTypes'
  BY <1>6 DEF IInv, Types, HwTypes, OutTypes, RunTypes, Deliver, hwVars, runVars
<1>8. CpuTypes'
  BY <1>1 DEF IInv, Types, CpuTypes, Deliver, Slots
<1> QED
  BY <1>4, <1>6, <1>7, <1>8 DEF IInv, Types

(* A stopped engine and an overflow: the engine starts again and the ring is *)
(* refilled.                                                               *)
LEMMA RestartStep ==
  ASSUME IInv, EngineRestarts, Refill(buf),
         NEW part \in {"idle", "rx", "dma", "overflow"}, GoTo(part),
         UNCHANGED <<content, txFatal, irq, runVars, stored, outVars, keepsPos>>
  PROVE  IInv'
<1> USE RxRingAssumption
<1>1. buf \in [Slots -> BOOLEAN] /\ \A i \in Slots : hwOwns[i] => buf[i]
  BY DEF IInv, Types, RingTypes, BufferUnderDevice
<1>2. keepsPos => hwNext' = hwNext
  BY DEF EngineRestarts
<1>3. RingTypes' /\ BufferUnderDevice' /\ OwnsRun'
  BY <1>1, <1>2, RefillKeeps DEF runVars
<1>4. \A i \in Slots : Filled(i)' <=> Filled(i)
  BY <1>1, RefillFacts DEF IInv, Filled
<1>5. FrameInv'
  BY <1>4, FramesKept DEF IInv, outVars
<1>6. hwNext' \in Slots /\ engine' = "run"
  BY DEF EngineRestarts, IInv, Types, HwTypes, Slots
<1>7. HwTypes' /\ OutTypes' /\ RunTypes'
  BY <1>6 DEF IInv, Types, HwTypes, OutTypes, RunTypes, outVars, runVars
<1>8. CpuTypes'
  BY GoToTypes DEF IInv, Types, CpuTypes
<1> QED
  BY <1>3, <1>5, <1>7, <1>8 DEF IInv, Types

(* b43bsd_dma_init, on an interface that is down or in the middle of         *)
(* recovery.                                                               *)
LEMMA RingBuiltFacts ==
  ASSUME Types, NEW ok, RingBuilt(ok)
  PROVE  /\ RingTypes' /\ BufferUnderDevice' /\ OwnsRun'
         /\ \A i \in Slots : ~Filled(i)' /\ (~ok => ~buf'[i])
         /\ hwNext' \in Slots /\ engine' \in {"run", "off"} /\ txFatal' \in BOOLEAN
<1> USE RxRingAssumption
<1>1. PICK k \in 0 .. NSlots :
        /\ ok \/ k = 0
        /\ Slotted(k) /\ curRx' = k % NSlots
        /\ engine' = IF ok THEN "run" ELSE "off"
        /\ \/ ok /\ k = NSlots /\ UNCHANGED faults
           \/ ~(ok /\ k = NSlots) /\ faults < MaxFaults /\ faults' = faults + 1
  BY DEF RingBuilt
<1>2. /\ buf' = [i \in Slots |-> i < k] /\ hwOwns' = buf' /\ hwNext' = 0
      /\ content' = [i \in Slots |-> 0] /\ txFatal' = FALSE
  BY <1>1 DEF Slotted
<1>3. /\ buf' \in [Slots -> BOOLEAN] /\ hwOwns' \in [Slots -> BOOLEAN]
      /\ curRx' \in Slots /\ hwNext' \in Slots
      /\ BufferUnderDevice' /\ \A i \in Slots : ~Filled(i)'
      /\ OwnsRun'
  BY <1>1, <1>2, NewRing
<1>4. faults' \in 0 .. MaxFaults
  BY <1>1 DEF Types, RingTypes
<1>5. content' \in [Slots -> 0 .. MaxFrames]
  BY <1>2
<1>6. ASSUME ~ok, NEW i \in Slots PROVE ~buf'[i]
  <2>1. k = 0 /\ ~(i < 0)
    BY <1>1, <1>6 DEF Slots
  <2> QED
    BY <1>2, <2>1
<1> QED
  BY <1>1, <1>2, <1>3, <1>4, <1>5, <1>6 DEF RingTypes

(* A fatal error: the ring is freed with its frames and built again, or not. *)
LEMMA RebuildStep == IInv /\ RecoverRebuilds => IInv'
<1> SUFFICES ASSUME IInv, RecoverRebuilds PROVE IInv'
  OBVIOUS
<1>1. PICK ok \in BOOLEAN : RingBuilt(ok)
  BY DEF RecoverRebuilds
<1>2. /\ RingTypes' /\ BufferUnderDevice' /\ OwnsRun' /\ \A i \in Slots : ~Filled(i)'
      /\ hwNext' \in Slots /\ engine' \in {"run", "off"} /\ txFatal' \in BOOLEAN
  BY <1>1, RingBuiltFacts DEF IInv
<1>3. FrameInv' /\ discarded' \subseteq Frames
  BY <1>2, FramesDiscarded DEF IInv, RecoverRebuilds, Discard
<1>4. HwTypes' /\ RunTypes'
  BY <1>2 DEF HwTypes, RunTypes, RecoverRebuilds, IInv, Types, runVars
<1>5. OutTypes'
  BY <1>3 DEF OutTypes, RecoverRebuilds, IInv, Types
<1>6. CpuTypes'
  BY PartTypes, GoToTypes DEF RecoverRebuilds, IInv, Types, CpuTypes
<1> QED
  BY <1>2, <1>3, <1>4, <1>5, <1>6 DEF IInv, Types

(* b43bsd_stop frees the ring with its frames.                             *)
LEMMA StopStep == IInv /\ Stop => IInv'
<1> SUFFICES ASSUME IInv, Stop PROVE IInv'
  OBVIOUS
<1> USE RxRingAssumption
<1>1. /\ buf' = [i \in Slots |-> i < 0] /\ hwOwns' = buf' /\ hwNext' = 0
      /\ content' = [i \in Slots |-> 0] /\ txFatal' = FALSE /\ UNCHANGED <<curRx, faults>>
  BY DEF Stop, Slotted
<1>2. \A i \in Slots : ~buf'[i] /\ ~hwOwns'[i]
  <2>1. \A i \in Slots : ~(i < 0)
    BY DEF Slots
  <2> QED
    BY <1>1, <2>1
<1>3. buf' \in [Slots -> BOOLEAN] /\ hwOwns' \in [Slots -> BOOLEAN]
  BY <1>1, <1>2
<1>4. RingTypes'
  BY <1>1, <1>3 DEF RingTypes, IInv, Types
<1>5. BufferUnderDevice' /\ \A i \in Slots : ~Filled(i)'
  BY <1>2 DEF BufferUnderDevice, Filled
<1>6. FrameInv' /\ discarded' \subseteq Frames
  BY <1>5, FramesDiscarded DEF IInv, Stop, Discard
<1>7. OwnsRun'
  BY DEF OwnsRun, Stop
<1>8. HwTypes' /\ RunTypes'
  <2>1. 0 \in Slots
    BY DEF Slots
  <2>2. HwTypes'
    BY <1>1, <2>1 DEF HwTypes, Stop, IInv, Types
  <2>3. storm' = storm /\ running' = FALSE /\ restarts' = restarts
    BY DEF Stop
  <2>4. storm' \in BOOLEAN /\ running' \in BOOLEAN
    BY <2>3, Zenon DEF RunTypes, IInv, Types
  <2>5. restarts' \in 0 .. MaxRestarts
    <3>1. restarts \in 0 .. MaxRestarts
      BY DEF RunTypes, IInv, Types
    <3> QED
      BY <2>3, <3>1
  <2> QED
    BY <2>2, <2>4, <2>5 DEF RunTypes
<1>9. OutTypes'
  BY <1>6 DEF OutTypes, Stop, IInv, Types
<1>10. CpuTypes'
  BY DEF CpuTypes, Stop, IInv, Types, cpuVars
<1> QED
  BY <1>4, <1>5, <1>6, <1>7, <1>8, <1>9, <1>10 DEF IInv, Types

(* b43bsd_init builds a ring where there was none, so no frame is lost.      *)
LEMMA UpStep == IInv /\ DownEmpty /\ Up => IInv' /\ DownEmpty'
<1> SUFFICES ASSUME IInv, DownEmpty, Up PROVE IInv' /\ DownEmpty'
  OBVIOUS
<1>1. PICK ok \in BOOLEAN : RingBuilt(ok) /\ running' = ok
  BY DEF Up
<1>2. /\ RingTypes' /\ BufferUnderDevice' /\ OwnsRun'
      /\ \A i \in Slots : ~Filled(i)' /\ (~ok => ~buf'[i])
      /\ hwNext' \in Slots /\ engine' \in {"run", "off"} /\ txFatal' \in BOOLEAN
  BY <1>1, RingBuiltFacts DEF IInv
<1>3. \A i \in Slots : ~Filled(i)
  BY DEF Up, DownEmpty, Filled
<1>4. FrameInv'
  <2>1. UNCHANGED <<stored, delivered, discarded>>
    BY DEF Up, outVars
  <2>2. \A f : Left(f)' <=> Left(f)
    BY <2>1 DEF Left
  <2>3. FilledFrames' /\ LeftOnce'
    BY <1>2, <2>1 DEF FrameInv, FilledFrames, LeftOnce, IInv
  <2>4. NoneLost'
    BY <1>3, <2>1, <2>2 DEF FrameInv, NoneLost, IInv
  <2> QED
    BY <2>3, <2>4 DEF FrameInv
<1>5. HwTypes'
  BY <1>2 DEF HwTypes, Up, IInv, Types
<1>6. RunTypes'
  <2>1. running' \in BOOLEAN /\ storm' = FALSE /\ restarts < MaxRestarts
        /\ restarts' = restarts + 1 /\ restarts \in 0 .. MaxRestarts
    BY <1>1 DEF Up, RunTypes, IInv, Types
  <2>2. restarts' \in 0 .. MaxRestarts
    BY <2>1, RxRingAssumption
  <2> QED
    BY <2>1, <2>2 DEF RunTypes
<1>7. OutTypes' /\ CpuTypes'
  BY DEF OutTypes, CpuTypes, Up, IInv, Types, outVars, cpuVars
<1>8. DownEmpty'
  BY <1>1, <1>2 DEF DownEmpty, Up, cpuVars
<1> QED
  BY <1>2, <1>4, <1>5, <1>6, <1>7, <1>8 DEF IInv, Types

(* The device stores a frame in the slot it is at and goes on to the next.  *)
LEMMA StoreStep == IInv /\ HwStores => IInv'
<1> SUFFICES ASSUME IInv, HwStores PROVE IInv'
  OBVIOUS
<1> USE RxRingAssumption
<1>1. /\ hwOwns' = [hwOwns EXCEPT ![hwNext] = FALSE] /\ hwOwns[hwNext]
      /\ content' = [content EXCEPT ![hwNext] = stored + 1]
      /\ hwNext' = (hwNext + 1) % NSlots
      /\ stored < MaxFrames /\ stored' = stored + 1
      /\ UNCHANGED <<buf, curRx, keepsPos, running>>
  BY DEF HwStores, runVars
<1>2. hwNext' = Ahead(hwNext, 1) /\ hwNext' \in Slots
  BY <1>1, Wrap DEF IInv, Types, HwTypes
<1>3. hwOwns' \in [Slots -> BOOLEAN]
  BY <1>1 DEF IInv, Types, RingTypes
<1>4. RingTypes'
  BY <1>1, <1>3 DEF IInv, Types, RingTypes, HwTypes, HwStores
<1>5. HwTypes' /\ OutTypes' /\ RunTypes'
  BY <1>1, <1>2 DEF IInv, Types, HwTypes, OutTypes, RunTypes, HwStores, outVars, runVars
<1>6. CpuTypes'
  BY DEF IInv, Types, CpuTypes, HwStores, cpuVars, Causes
<1>7. BufferUnderDevice'
  BY <1>1 DEF IInv, BufferUnderDevice, Types, RingTypes
<1>8. FrameInv'
  BY FrameStored DEF IInv
<1>9. OwnsRun'
  <2> SUFFICES ASSUME running, keepsPos
               PROVE  \E h \in 0 .. NSlots :
                        /\ curRx' = Ahead(hwNext', h)
                        /\ \A i \in Slots : hwOwns'[i] <=> Offset(i)' < h
    BY <1>1 DEF OwnsRun
  <2>1. PICK h \in 0 .. NSlots : /\ curRx = Ahead(hwNext, h)
                                 /\ \A i \in Slots : hwOwns[i] <=> Offset(i) < h
    BY DEF IInv, OwnsRun
  <2>2. hwNext \in Slots
    BY DEF IInv, Types, HwTypes
  <2>3. h > 0
    BY <1>1, <2>1, <2>2 DEF Offset, Slots
  <2>4. curRx' = Ahead(hwNext', h - 1)
    BY <1>1, <1>2, <2>1, <2>2, <2>3 DEF Ahead, Slots
  <2>5. ASSUME NEW i \in Slots PROVE hwOwns'[i] <=> Offset(i)' < h - 1
    <3>1. CASE i = hwNext
      <4>1. ~hwOwns'[i]
        BY <1>1, <2>2, <3>1 DEF IInv, Types, RingTypes
      <4>2. Offset(i)' = NSlots - 1
        BY <1>2, <2>2, <3>1 DEF Offset, Ahead, Slots
      <4> QED
        BY <4>1, <4>2, <2>3
    <3>2. CASE i # hwNext
      <4>1. hwOwns'[i] <=> hwOwns[i]
        BY <1>1, <3>2 DEF IInv, Types, RingTypes
      <4>2. Offset(i)' = Offset(i) - 1 /\ Offset(i) \in Int
        BY <1>2, <2>2, <3>2 DEF Offset, Ahead, Slots
      <4> QED
        BY <4>1, <4>2, <2>1
    <3> QED
      BY <3>1, <3>2
  <2> QED
    BY <2>3, <2>4, <2>5
<1> QED
  BY <1>4, <1>5, <1>6, <1>7, <1>8, <1>9 DEF IInv, Types

(* Every step preserves the invariant.                                     *)
LEMMA IInvNext == IInv /\ DownEmpty /\ [Next]_vars => IInv'
<1> SUFFICES ASSUME IInv, DownEmpty, [Next]_vars PROVE IInv'
  OBVIOUS
<1>1. CASE Intr
  <2>1. CpuTypes'
    BY <1>1, PartTypes, RxRingAssumption DEF Intr, CpuTypes, IInv, Types
  <2>2. RingTypes' /\ HwTypes' /\ RunTypes'
      /\ UNCHANGED <<ringVars, hwNext, stored, outVars, keepsPos, running>>
    BY <1>1 DEF Intr, RingTypes, HwTypes, RunTypes, IInv, Types, ringVars, hwVars,
       runVars
  <2> QED
    BY <2>1, <2>2, RingKept DEF IInv, Types
<1>2. CASE Deliver
  BY <1>2, DeliverStep
<1>3. CASE Skip
  <2>1. CpuTypes'
    BY <1>3, RxRingAssumption DEF Skip, CpuTypes, IInv, Types
  <2>2. RingTypes' /\ HwTypes' /\ RunTypes'
      /\ UNCHANGED <<ringVars, hwNext, stored, outVars, keepsPos, running>>
    BY <1>3 DEF Skip, RingTypes, HwTypes, RunTypes, IInv, Types, ringVars, hwVars,
       runVars
  <2> QED
    BY <2>1, <2>2, RingKept DEF IInv, Types
<1>4. CASE RxEnds
  <2>1. CpuTypes'
    BY <1>4, PartTypes, GoToTypes DEF RxEnds, CpuTypes, IInv, Types
  <2>2. RingTypes' /\ HwTypes' /\ RunTypes'
      /\ UNCHANGED <<ringVars, hwNext, stored, outVars, keepsPos, running>>
    BY <1>4 DEF RxEnds, RingTypes, HwTypes, RunTypes, IInv, Types, ringVars, hwVars,
       runVars
  <2> QED
    BY <2>1, <2>2, RingKept DEF IInv, Types
<1>5. CASE RecoverRebuilds
  BY <1>5, RebuildStep
<1>6. CASE RecoverRestarts
  BY <1>6, RestartStep, PartTypes DEF RecoverRestarts
<1>7. CASE RecoverNothing
  <2>1. CpuTypes'
    BY <1>7, PartTypes, GoToTypes DEF RecoverNothing, CpuTypes, IInv, Types
  <2>2. RingTypes' /\ HwTypes' /\ RunTypes'
      /\ UNCHANGED <<ringVars, hwNext, stored, outVars, keepsPos, running>>
    BY <1>7 DEF RecoverNothing, RingTypes, HwTypes, RunTypes, IInv, Types, ringVars, hwVars,
       runVars
  <2> QED
    BY <2>1, <2>2, RingKept DEF IInv, Types
<1>8. CASE Overflow
  BY <1>8, RestartStep DEF Overflow
<1>9. CASE HwStores
  BY <1>9, StoreStep
<1>10. CASE HwOverflows
  <2>1. CpuTypes'
    BY <1>10 DEF HwOverflows, CpuTypes, IInv, Types, cpuVars, Causes
  <2>2. RingTypes' /\ HwTypes' /\ RunTypes'
      /\ UNCHANGED <<ringVars, hwNext, stored, outVars, keepsPos, running>>
    BY <1>10 DEF HwOverflows, RingTypes, HwTypes, RunTypes, IInv, Types, ringVars, hwVars,
       runVars
  <2> QED
    BY <2>1, <2>2, RingKept DEF IInv, Types
<1>11. CASE HwFault
  <2>1. CpuTypes'
    BY <1>11 DEF HwFault, CpuTypes, IInv, Types, cpuVars, Causes
  <2>2. engine' \in {"run", "stopped", "error", "off"} /\ txFatal' \in BOOLEAN
    BY <1>11 DEF HwFault, IInv, Types, HwTypes
  <2>3. faults' \in 0 .. MaxFaults
    BY <1>11, RxRingAssumption DEF HwFault, IInv, Types, RingTypes
  <2>4. RingTypes' /\ HwTypes' /\ RunTypes'
      /\ UNCHANGED <<ringVars, hwNext, stored, outVars, keepsPos, running>>
    BY <1>11, <2>2, <2>3 DEF HwFault, RingTypes, HwTypes, RunTypes, IInv, Types,
       ringVars, runVars
  <2> QED
    BY <2>1, <2>4, RingKept DEF IInv, Types
<1>12. CASE HwTimer
  <2>1. CpuTypes'
    BY <1>12 DEF HwTimer, CpuTypes, IInv, Types, cpuVars, Causes
  <2>2. RingTypes' /\ HwTypes' /\ RunTypes'
      /\ UNCHANGED <<ringVars, hwNext, stored, outVars, keepsPos, running>>
    BY <1>12 DEF HwTimer, RingTypes, HwTypes, RunTypes, IInv, Types, ringVars, hwVars,
       runVars
  <2> QED
    BY <2>1, <2>2, RingKept DEF IInv, Types
<1>13. CASE UNCHANGED vars
  <2>1. CpuTypes'
    BY <1>13 DEF vars, CpuTypes, IInv, Types, cpuVars
  <2>2. RingTypes' /\ HwTypes' /\ RunTypes'
      /\ UNCHANGED <<ringVars, hwNext, stored, outVars, keepsPos, running>>
    BY <1>13 DEF vars, RingTypes, HwTypes, RunTypes, IInv, Types, ringVars, hwVars,
       runVars
  <2> QED
    BY <2>1, <2>2, RingKept DEF IInv, Types
<1>14. CASE IntrStorms
  <2>1. CpuTypes'
    BY <1>14 DEF IntrStorms, CpuTypes, IInv, Types, cpuVars
  <2>2. RingTypes' /\ HwTypes' /\ RunTypes'
      /\ UNCHANGED <<ringVars, hwNext, stored, outVars, keepsPos, running>>
    BY <1>14 DEF IntrStorms, RingTypes, HwTypes, RunTypes, IInv, Types, ringVars, hwVars
  <2> QED
    BY <2>1, <2>2, RingKept DEF IInv, Types
<1>15. CASE Stop
  BY <1>15, StopStep
<1>16. CASE Up
  BY <1>16, UpStep
<1> QED
  BY <1>1, <1>2, <1>3, <1>4, <1>5, <1>6, <1>7, <1>8, <1>9, <1>10, <1>11, <1>12, <1>13,
     <1>14, <1>15, <1>16 DEF Next

(* A handler runs only while the interface is up, and b43bsd_stop leaves no  *)
(* buffer.                                                                 *)
LEMMA DownEmptyNext == IInv /\ DownEmpty /\ [Next]_vars => DownEmpty'
<1> SUFFICES ASSUME IInv, DownEmpty, [Next]_vars PROVE DownEmpty'
  OBVIOUS
<1>1. CASE Intr \/ Deliver \/ Skip
  BY <1>1 DEF Intr, IntrDue, Deliver, Skip, DownEmpty, runVars
<1>2. CASE RxEnds \/ RecoverRebuilds \/ RecoverRestarts
  BY <1>2 DEF RxEnds, RecoverRebuilds, RecoverRestarts, DownEmpty, runVars
<1>3. CASE RecoverNothing \/ Overflow \/ IntrStorms
  BY <1>3 DEF RecoverNothing, Overflow, IntrStorms, DownEmpty, ringVars, cpuVars, runVars
<1>4. CASE Stop
  <2>1. \A i \in Slots : ~(i < 0)
    BY RxRingAssumption DEF Slots
  <2>2. buf' = [i \in Slots |-> i < 0] /\ pc' = "idle"
    BY <1>4 DEF Stop, Slotted, cpuVars
  <2> QED
    BY <2>1, <2>2 DEF DownEmpty
<1>5. CASE Up
  BY <1>5, UpStep
<1>6. CASE HwStores \/ HwOverflows \/ HwFault \/ HwTimer \/ UNCHANGED vars
  BY <1>6 DEF HwStores, HwOverflows, HwFault, HwTimer, vars, DownEmpty, ringVars, cpuVars,
     runVars
<1> QED
  BY <1>1, <1>2, <1>3, <1>4, <1>5, <1>6 DEF Next

-----------------------------------------------------------------------------
(* Theorems.                                                               *)

(* The inductive invariant holds of every run of the receive side.         *)
THEOREM Invariant == Spec => [](IInv /\ DownEmpty)
<1>1. Init => IInv /\ DownEmpty
  BY IInvInit DEF Init, DownEmpty
<1>2. IInv /\ DownEmpty /\ [Next]_vars => IInv' /\ DownEmpty'
  BY IInvNext, DownEmptyNext
<1> QED
  BY <1>1, <1>2, PTL DEF Spec

(* Every variable keeps its type.                                          *)
THEOREM TypeCorrect == Spec => []TypeOK
<1>1. IInv => TypeOK
  BY DEF IInv, Types, RingTypes, HwTypes, CpuTypes, OutTypes, RunTypes, TypeOK
<1> QED
  BY <1>1, Invariant, PTL

(* The device only ever writes to a buffer that is in its slot.            *)
THEOREM BufferIsThere == Spec => []BufferUnderDevice
<1>1. IInv => BufferUnderDevice
  BY DEF IInv
<1> QED
  BY <1>1, Invariant, PTL

(* A set with at most one member, all of whose members satisfy the same, is *)
(* counted by whether it has any.                                          *)
LEMMA CountOne ==
  ASSUME NEW S, \A x, y \in S : x = y
  PROVE  Cardinality(S) = IF S = {} THEN 0 ELSE 1
<1>1. CASE S = {}
  BY <1>1, FS_EmptySet
<1>2. CASE S # {}
  <2>1. PICK x \in S : S = {x}
    BY <1>2
  <2> QED
    BY <1>2, <2>1, FS_Singleton
<1> QED
  BY <1>1, <1>2

(* Every frame the device stored is in exactly one place.                  *)
THEOREM FrameInOnePlace == Spec => []FrameOnce
<1>1. IInv => FrameOnce
  <2> SUFFICES ASSUME IInv, NEW f \in Frames
               PROVE  Cardinality({i \in Slots : Filled(i) /\ content[i] = f})
                        + Cardinality({k \in DOMAIN delivered : delivered[k] = f})
                        + (IF f \in discarded THEN 1 ELSE 0)
                        = IF f <= stored THEN 1 ELSE 0
    BY DEF FrameOnce
  <2> DEFINE InRing == {i \in Slots : Filled(i) /\ content[i] = f}
             Out == {k \in DOMAIN delivered : delivered[k] = f}
  <2>1. Cardinality(InRing) = IF InRing = {} THEN 0 ELSE 1
    <3>1. \A i, j \in InRing : i = j
      BY DEF IInv, FrameInv, FilledFrames
    <3> QED
      BY <3>1, CountOne
  <2>2. Cardinality(Out) = IF Out = {} THEN 0 ELSE 1
    <3>1. \A k, l \in Out : k = l
      BY DEF IInv, FrameInv, LeftOnce
    <3> QED
      BY <3>1, CountOne
  <2>3. f \in 1 .. stored <=> f <= stored
    BY DEF IInv, Types, HwTypes, Frames
  <2>4. InRing # {} => f \in 1 .. stored /\ Out = {} /\ f \notin discarded
    BY DEF IInv, FrameInv, FilledFrames, Left
  <2>5. Out # {} => f \in 1 .. stored /\ f \notin discarded
    BY DEF IInv, FrameInv, LeftOnce
  <2>6. f \in discarded => f \in 1 .. stored
    BY DEF IInv, FrameInv, LeftOnce
  <2>7. f \in 1 .. stored => InRing # {} \/ Out # {} \/ f \in discarded
    BY DEF IInv, FrameInv, NoneLost, Left
  <2>8. /\ f <= stored => InRing # {} \/ Out # {} \/ f \in discarded
        /\ ~(f <= stored) => InRing = {} /\ Out = {} /\ f \notin discarded
    BY <2>3, <2>4, <2>5, <2>6, <2>7
  <2> HIDE DEF InRing, Out
  <2>9. Cardinality(InRing) + Cardinality(Out) + (IF f \in discarded THEN 1 ELSE 0)
          = IF f <= stored THEN 1 ELSE 0
    BY <2>1, <2>2, <2>4, <2>5, <2>8
  <2> QED
    BY <2>9 DEF InRing, Out
<1> QED
  BY <1>1, Invariant, PTL

(* Once everything stored is delivered, the next refill reaches every hole. *)
THEOREM EveryHoleReachable == Spec => []HolesReachable
<1>1. IInv /\ running => HolesReachable
  <2> SUFFICES ASSUME IInv, running, keepsPos, \A i \in Slots : ~Filled(i)
               PROVE  {i \in Slots : ~buf[i]} = {After(j) : j \in 0 .. EmptyRun(buf) - 1}
    BY DEF HolesReachable
  <2> DEFINE n == EmptyRun(buf)
  <2> USE RxRingAssumption
  <2>1. buf \in [Slots -> BOOLEAN] /\ curRx \in Slots /\ hwNext \in Slots
    BY DEF IInv, Types, RingTypes, HwTypes
  <2>2. /\ n \in 0 .. NSlots
        /\ \A j \in 0 .. n - 1 : After(j) \in Slots /\ ~buf[After(j)]
        /\ n = NSlots \/ buf[After(n)]
        /\ \A j \in 0 .. NSlots : After(j) = Ahead(curRx, j) /\ After(j) \in Slots
    BY <2>1, EmptyRunFacts DEF IInv
  <2> HIDE DEF n
  <2>3. PICK h \in 0 .. NSlots : /\ curRx = Ahead(hwNext, h)
                                 /\ \A i \in Slots : hwOwns[i] <=> Offset(i) < h
    BY DEF IInv, OwnsRun
  <2>4. \A i \in Slots : buf[i] <=> Offset(i) < h
    BY <2>3 DEF IInv, BufferUnderDevice, Filled
  <2>5. ASSUME NEW i \in Slots, ~buf[i]
        PROVE  \E j \in 0 .. n - 1 : i = After(j)
    <3> DEFINE j == Offset(i) - h
    <3>1. Offset(i) \in h .. NSlots - 1
      BY <2>1, <2>4, <2>5 DEF Offset, Slots
    <3>2. j \in 0 .. NSlots - 1 /\ Ahead(curRx, j) = i
      BY <2>1, <2>3, <3>1 DEF Offset, Ahead, Slots
    <3>3. i = After(j)
      BY <2>2, <3>2
    <3>4. ASSUME n <= j PROVE FALSE
      <4>1. buf[After(n)] /\ After(n) \in Slots /\ After(n) = Ahead(curRx, n)
        BY <2>2, <3>2, <3>4
      <4>2. Offset(Ahead(curRx, n)) = h + n
        BY <2>1, <2>2, <2>3, <3>1, <3>2, <3>4 DEF Offset, Ahead, Slots
      <4> QED
        BY <2>2, <2>4, <4>1, <4>2
    <3> QED
      BY <2>2, <3>2, <3>3, <3>4
  <2>6. {i \in Slots : ~buf[i]} = {After(j) : j \in 0 .. n - 1}
    <3>1. \A i \in {i \in Slots : ~buf[i]} : i \in {After(j) : j \in 0 .. n - 1}
      BY <2>5
    <3>2. \A i \in {After(j) : j \in 0 .. n - 1} : i \in {k \in Slots : ~buf[k]}
      BY <2>2
    <3> QED
      BY <3>1, <3>2, Zenon
  <2> QED
    BY <2>6 DEF n
<1>2. IInv /\ DownEmpty /\ ~running => HolesReachable
  <2> SUFFICES ASSUME IInv, \A i \in Slots : ~buf[i]
               PROVE  {i \in Slots : ~buf[i]} = {After(j) : j \in 0 .. EmptyRun(buf) - 1}
    BY DEF HolesReachable, DownEmpty
  <2> USE RxRingAssumption
  <2>1. buf \in [Slots -> BOOLEAN] /\ curRx \in Slots
    BY DEF IInv, Types, RingTypes
  <2>2. /\ EmptyRun(buf) = NSlots
        /\ \A j \in 0 .. NSlots - 1 : After(j) = Ahead(curRx, j) /\ After(j) \in Slots
    BY <2>1, EmptyRunFacts DEF IInv
  <2>3. ASSUME NEW i \in Slots PROVE \E j \in 0 .. NSlots - 1 : i = After(j)
    <3>1. CASE curRx <= i
      <4>1. i - curRx \in 0 .. NSlots - 1 /\ Ahead(curRx, i - curRx) = i
        BY <2>1, <3>1 DEF Ahead, Slots
      <4> QED
        BY <2>2, <4>1
    <3>2. CASE i < curRx
      <4>1. /\ i - curRx + NSlots \in 0 .. NSlots - 1
            /\ Ahead(curRx, i - curRx + NSlots) = i
        BY <2>1, <3>2 DEF Ahead, Slots
      <4> QED
        BY <2>2, <4>1
    <3> QED
      BY <2>1, <3>1, <3>2 DEF Slots
  <2>4. Slots = {After(j) : j \in 0 .. NSlots - 1}
    <3>1. \A i \in {After(j) : j \in 0 .. NSlots - 1} : i \in Slots
      BY <2>2
    <3> QED
      BY <2>3, <3>1, Zenon
  <2> QED
    BY <2>2, <2>4
<1>3. IInv /\ DownEmpty => HolesReachable
  BY <1>1, <1>2
<1> QED
  BY <1>3, Invariant, PTL

-----------------------------------------------------------------------------
(* No frame is overtaken by a whole ring, whether or not the device keeps   *)
(* its position.                                                           *)

(* The device owns a run of slots that ends at cur_rx and one that ends at   *)
(* the last slot, and is at the beginning of one of them or at slot 0.      *)
TwoRuns ==
  \E a \in 0 .. curRx, b \in curRx .. NSlots :
    /\ \A i \in Slots : hwOwns[i] <=> (a <= i /\ i < curRx) \/ b <= i
    /\ hwNext \in {a, b, 0}

(* A restarted device stands at slot 0, where there is no buffer, and        *)
(* cur_rx has all slots up to the last to fill before it comes there.       *)
Stranded == hwNext = 0 /\ ~hwOwns[0] /\ curRx # 0

(* The device never comes to a slot before an older frame was delivered:    *)
(* what it will overwrite first is older than every frame that waits.       *)
Ordered ==
  \A i, j \in Slots :
    Filled(i) /\ Offset(j) < Offset(i) =>
      content[j] < content[i] \/ (Stranded /\ curRx <= i)

(* While a frame waits, no later one is overwritten.                        *)
LaterKept ==
  \A i \in Slots : Filled(i) =>
    \A g \in content[i] .. stored : \E j \in Slots : content[j] = g

(* A slot holds a frame the device has stored.                              *)
ContentStored == \A i \in Slots : content[i] <= stored

(* What keeps the frames of the ring within one lap of each other.          *)
LapInv == TwoRuns /\ Ordered /\ LaterKept /\ ContentStored /\ OvertakenWithinRing

(* The two runs after the refill of the k slots from cur_rx.                *)
LEMMA TwoRunsRefill ==
  ASSUME Types, TwoRuns, NEW b \in [Slots -> BOOLEAN],
         \A i \in Slots : hwOwns[i] => b[i], Refill(b), hwNext' \in {hwNext, 0}
  PROVE  TwoRuns'
<1> USE RxRingAssumption
<1>1. PICK p \in 0 .. curRx, q \in curRx .. NSlots :
        /\ \A i \in Slots : hwOwns[i] <=> (p <= i /\ i < curRx) \/ q <= i
        /\ hwNext \in {p, q, 0}
  BY DEF TwoRuns
<1>2. PICK k \in 0 .. NSlots :
        /\ curRx' = Ahead(curRx, k)
        /\ \A j \in 0 .. k - 1 : ~b[Ahead(curRx, j)]
        /\ \A i \in Slots :
             hwOwns'[i] <=> hwOwns[i] \/ \E j \in 0 .. k - 1 : i = Ahead(curRx, j)
  BY RefillFacts
<1>3. curRx \in Slots /\ hwNext \in Slots
  BY DEF Types, RingTypes, HwTypes
<1>4. \A j \in 0 .. k - 1 : Ahead(curRx, j) \in Slots /\ ~hwOwns[Ahead(curRx, j)]
  BY <1>2, <1>3, Wrap
<1>5. CASE curRx + k < NSlots
  <2>1. curRx' = curRx + k
    BY <1>2, <1>5 DEF Ahead
  <2>2. ASSUME NEW i \in Slots
        PROVE  (\E j \in 0 .. k - 1 : i = Ahead(curRx, j)) <=> curRx <= i /\ i < curRx + k
    <3>1. \A j \in 0 .. k - 1 : Ahead(curRx, j) = curRx + j
      BY <1>3, <1>5 DEF Ahead, Slots
    <3>2. curRx <= i /\ i < curRx + k => i - curRx \in 0 .. k - 1 /\ i = curRx + (i - curRx)
      BY <1>3 DEF Slots
    <3> QED
      BY <1>3, <3>1, <3>2 DEF Slots
  <2>3. q >= curRx + k
    <3> SUFFICES ASSUME q < curRx + k PROVE FALSE
      BY <1>3 DEF Slots
    <3>1. q - curRx \in 0 .. k - 1 /\ Ahead(curRx, q - curRx) = q /\ q \in Slots
      BY <1>3, <1>5 DEF Ahead, Slots
    <3> QED
      BY <1>1, <1>4, <3>1
  <2>4. p \in 0 .. curRx' /\ q \in curRx' .. NSlots
    BY <1>3, <2>1, <2>3 DEF Slots
  <2>5. \A i \in Slots : hwOwns'[i] <=> (p <= i /\ i < curRx') \/ q <= i
    BY <1>1, <1>2, <1>3, <2>1, <2>2 DEF Slots
  <2> QED
    BY <1>1, <2>4, <2>5 DEF TwoRuns
<1>6. CASE curRx + k >= NSlots
  <2>1. curRx' = curRx + k - NSlots /\ curRx' <= curRx /\ curRx' >= 0
    BY <1>2, <1>3, <1>6 DEF Ahead, Slots
  <2>2. ASSUME NEW i \in Slots
        PROVE  (\E j \in 0 .. k - 1 : i = Ahead(curRx, j)) <=> curRx <= i \/ i < curRx'
    <3>1. curRx <= i => i - curRx \in 0 .. k - 1 /\ i = Ahead(curRx, i - curRx)
      BY <1>3, <1>6 DEF Ahead, Slots
    <3>2. i < curRx' => i - curRx + NSlots \in 0 .. k - 1
                        /\ i = Ahead(curRx, i - curRx + NSlots)
      BY <1>3, <2>1 DEF Ahead, Slots
    <3>3. ASSUME NEW j \in 0 .. k - 1, i = Ahead(curRx, j)
          PROVE  curRx <= i \/ i < curRx'
      BY <1>3, <2>1, <3>3 DEF Ahead, Slots
    <3> QED
      BY <3>1, <3>2, <3>3
  <2>3. q = NSlots
    <3> SUFFICES ASSUME q < NSlots PROVE FALSE
      BY <1>3 DEF Slots
    <3>1. q \in Slots /\ curRx <= q
      BY <1>3 DEF Slots
    <3> QED
      BY <1>1, <1>4, <2>2, <3>1
  <2>4. p >= curRx'
    <3> SUFFICES ASSUME p < curRx' PROVE FALSE
      BY <1>3, <2>1 DEF Slots
    <3>1. p \in Slots /\ p < curRx
      BY <1>3, <2>1 DEF Slots
    <3> QED
      BY <1>1, <1>4, <2>2, <3>1
  <2>5. 0 \in 0 .. curRx' /\ p \in curRx' .. NSlots
    BY <1>3, <2>1, <2>4 DEF Slots
  <2>6. \A i \in Slots : hwOwns'[i] <=> (0 <= i /\ i < curRx') \/ p <= i
    BY <1>1, <1>2, <1>3, <2>1, <2>2, <2>3, <2>4 DEF Slots
  <2>7. hwNext' \in {0, p}
    BY <1>1, <1>3, <2>3 DEF Slots
  <2> QED
    BY <2>5, <2>6, <2>7 DEF TwoRuns
<1> QED
  BY <1>3, <1>5, <1>6 DEF Slots

(* A restarted device finds the slots it comes to first older than those     *)
(* that wait, unless it is stranded.                                       *)
LEMMA OrderedRestart ==
  ASSUME Types, TwoRuns, Ordered, EngineRestarts
  PROVE  \A i, j \in Slots :
           Filled(i) /\ Offset(j)' < Offset(i)' =>
             \/ content[j] < content[i]
             \/ hwNext' = 0 /\ ~hwOwns[0] /\ curRx # 0 /\ curRx <= i
<1> USE RxRingAssumption
<1>1. hwNext' \in {hwNext, 0} /\ hwNext \in Slots /\ curRx \in Slots
  BY DEF EngineRestarts, Types, RingTypes, HwTypes
<1>2. CASE hwNext' = hwNext
  BY <1>2 DEF Ordered, Offset, Stranded
<1>3. CASE hwNext' = 0 /\ hwNext # 0
  <2> SUFFICES ASSUME NEW i \in Slots, NEW j \in Slots, Filled(i), Offset(j)' < Offset(i)'
               PROVE  \/ content[j] < content[i]
                      \/ hwNext' = 0 /\ ~hwOwns[0] /\ curRx # 0 /\ curRx <= i
    OBVIOUS
  <2>1. j < i
    BY <1>3 DEF Offset, Slots
  <2>2. CASE j < hwNext /\ hwNext <= i
    <3>1. PICK p \in 0 .. curRx, q \in curRx .. NSlots :
            /\ \A n \in Slots : hwOwns[n] <=> (p <= n /\ n < curRx) \/ q <= n
            /\ hwNext \in {p, q, 0}
      BY DEF TwoRuns
    <3>2. ~hwOwns[i]
      BY DEF Filled
    <3>3. hwNext # q
      BY <2>2, <3>1, <3>2
    <3>4. p = hwNext /\ p > 0 /\ q > 0 /\ curRx > 0 /\ curRx <= i
      BY <1>1, <1>3, <2>2, <3>1, <3>2, <3>3 DEF Slots
    <3>5. 0 \in Slots /\ ~hwOwns[0]
      BY <3>1, <3>4 DEF Slots
    <3> QED
      BY <1>3, <3>4, <3>5
  <2>3. CASE ~(j < hwNext /\ hwNext <= i)
    <3>1. Offset(j) < Offset(i)
      BY <1>1, <2>1, <2>3 DEF Offset, Slots
    <3> QED
      BY <1>3, <3>1 DEF Ordered, Stranded
  <2> QED
    BY <2>2, <2>3
<1> QED
  BY <1>1, <1>2, <1>3

(* A refill that reaches slot 0 has found nothing waiting on its way.        *)
LEMMA OrderedRefill ==
  ASSUME Types, NEW b \in [Slots -> BOOLEAN],
         \A i \in Slots : (hwOwns[i] => b[i]) /\ (b[i] => buf[i]), Refill(b),
         UNCHANGED content,
         \A i, j \in Slots :
           Filled(i) /\ Offset(j)' < Offset(i)' =>
             \/ content[j] < content[i]
             \/ hwNext' = 0 /\ ~hwOwns[0] /\ curRx # 0 /\ curRx <= i
  PROVE  Ordered'
<1> USE RxRingAssumption
<1>1. PICK k \in 0 .. NSlots :
        /\ curRx' = Ahead(curRx, k)
        /\ \A j \in 0 .. k - 1 : ~b[Ahead(curRx, j)]
        /\ \A i \in Slots :
             hwOwns'[i] <=> hwOwns[i] \/ \E j \in 0 .. k - 1 : i = Ahead(curRx, j)
  BY RefillFacts
<1>2. curRx \in Slots
  BY DEF Types, RingTypes
<1>3. \A i \in Slots : (buf'[i] /\ ~hwOwns'[i]) <=> (b[i] /\ ~hwOwns[i])
  BY RefillFacts
<1> SUFFICES ASSUME NEW i \in Slots, NEW j \in Slots, Filled(i)', Offset(j)' < Offset(i)'
             PROVE  content'[j] < content'[i] \/ (Stranded' /\ curRx' <= i)
  BY DEF Ordered
<1>4. b[i] /\ Filled(i)
  BY <1>3 DEF Filled
<1>5. CASE content[j] < content[i]
  BY <1>5
<1>6. CASE hwNext' = 0 /\ ~hwOwns[0] /\ curRx # 0 /\ curRx <= i
  <2>1. curRx + k <= i
    <3> SUFFICES ASSUME i < curRx + k PROVE FALSE
      BY <1>2 DEF Slots
    <3>1. i - curRx \in 0 .. k - 1 /\ Ahead(curRx, i - curRx) = i
      BY <1>2, <1>6 DEF Ahead, Slots
    <3> QED
      BY <1>1, <1>4, <3>1
  <2>2. curRx' = curRx + k /\ curRx' # 0 /\ curRx' <= i
    BY <1>1, <1>2, <1>6, <2>1 DEF Ahead, Slots
  <2>3. \A n \in 0 .. k - 1 : Ahead(curRx, n) # 0
    BY <1>2, <1>6, <2>1 DEF Ahead, Slots
  <2>4. ~hwOwns'[0]
    BY <1>1, <1>6, <2>3 DEF Slots
  <2> QED
    BY <1>6, <2>2, <2>4 DEF Stranded
<1> QED
  BY <1>4, <1>5, <1>6

(* Nothing is overwritten, and nothing more waits.                          *)
LEMMA LaterKeptSame ==
  ASSUME LaterKept, \A i \in Slots : Filled(i)' => Filled(i), UNCHANGED <<content, stored>>
  PROVE  LaterKept'
  BY DEF LaterKept

(* The device takes the first slot of a run and overwrites what is older    *)
(* than everything that waits.                                             *)
LEMMA LapStore ==
  ASSUME IInv, LapInv, HwStores
  PROVE  LapInv'
<1> USE RxRingAssumption
<1>0. PICK w \in Slots : w = hwNext
  BY DEF IInv, Types, HwTypes
<1>1. /\ hwOwns' = [hwOwns EXCEPT ![w] = FALSE] /\ hwOwns[w]
      /\ content' = [content EXCEPT ![w] = stored + 1]
      /\ hwNext' = (w + 1) % NSlots /\ stored' = stored + 1
      /\ UNCHANGED <<buf, curRx, delivered>>
  BY <1>0 DEF HwStores, outVars
<1>2. /\ w \in Slots /\ curRx \in Slots /\ stored \in Nat
      /\ \A i \in Slots : content[i] \in Nat
  BY DEF IInv, Types, RingTypes, HwTypes
<1>3. hwNext' = Ahead(w, 1) /\ hwNext' \in Slots
  BY <1>1, <1>2, Wrap
<1>4. \A i \in Slots : hwOwns'[i] <=> hwOwns[i] /\ i # w
  BY <1>1, <1>2 DEF IInv, Types, RingTypes
<1>5. \A i \in Slots : Filled(i)' => Filled(i) \/ i = w
  BY <1>1, <1>4 DEF Filled
<1>6. content'[w] = stored + 1 /\ \A i \in Slots : i # w => content'[i] = content[i]
  BY <1>1, <1>2 DEF IInv, Types, RingTypes
<1>7. /\ Offset(w)' = NSlots - 1 /\ Offset(w) = 0
      /\ \A i \in Slots : Offset(i) \in 0 .. NSlots - 1
      /\ \A i \in Slots : i # w => Offset(i)' = Offset(i) - 1 /\ Offset(i) > 0
  BY <1>0, <1>2, <1>3 DEF Offset, Ahead, Slots
<1>8. TwoRuns'
  <2>1. PICK p \in 0 .. curRx, q \in curRx .. NSlots :
          /\ \A i \in Slots : hwOwns[i] <=> (p <= i /\ i < curRx) \/ q <= i
          /\ w \in {p, q, 0}
    BY <1>0 DEF LapInv, TwoRuns
  <2>2. w = q \/ (w = p /\ p < curRx)
    BY <1>1, <1>2, <2>1 DEF Slots
  <2>3. CASE w = q
    <3>1. q + 1 \in curRx .. NSlots /\ hwNext' \in {q + 1, 0}
      BY <1>2, <1>3, <2>3 DEF Slots, Ahead
    <3>2. \A i \in Slots : hwOwns'[i] <=> (p <= i /\ i < curRx) \/ q + 1 <= i
      BY <1>2, <1>4, <2>1, <2>3 DEF Slots
    <3> QED
      BY <1>1, <2>1, <3>1, <3>2 DEF TwoRuns
  <2>4. CASE w = p /\ p < curRx
    <3>1. p + 1 \in 0 .. curRx /\ hwNext' = p + 1
      BY <1>2, <1>3, <2>4 DEF Slots, Ahead
    <3>2. \A i \in Slots : hwOwns'[i] <=> (p + 1 <= i /\ i < curRx) \/ q <= i
      BY <1>2, <1>4, <2>1, <2>4 DEF Slots
    <3> QED
      BY <1>1, <2>1, <3>1, <3>2 DEF TwoRuns
  <2> QED
    BY <2>2, <2>3, <2>4
<1>9. \A i, j \in Slots : Filled(i) /\ Offset(j) < Offset(i) => content[j] < content[i]
  BY <1>0, <1>1 DEF LapInv, Ordered, Stranded
<1>10. Ordered'
  <2> SUFFICES ASSUME NEW i \in Slots, NEW j \in Slots, Filled(i)', Offset(j)' < Offset(i)'
               PROVE  content'[j] < content'[i]
    BY DEF Ordered
  <2>1. j # w
    <3> SUFFICES ASSUME j = w PROVE FALSE
      OBVIOUS
    <3>1. Offset(j)' = NSlots - 1
      BY <1>7
    <3>2. Offset(i)' \in -1 .. NSlots - 1
      BY <1>7
    <3> QED
      BY <3>1, <3>2
  <2>2. CASE i = w
    BY <1>2, <1>6, <2>1, <2>2 DEF LapInv, ContentStored
  <2>3. CASE i # w
    BY <1>5, <1>6, <1>7, <1>9, <2>1, <2>3
  <2> QED
    BY <2>2, <2>3
<1>11. LaterKept'
  <2> SUFFICES ASSUME NEW i \in Slots, Filled(i)', NEW g \in content'[i] .. stored'
               PROVE  \E j \in Slots : content'[j] = g
    BY DEF LaterKept
  <2>1. CASE g = stored + 1
    BY <1>2, <1>6, <2>1
  <2>2. CASE g # stored + 1
    <3>1. i # w
      BY <1>1, <1>2, <1>6, <2>2
    <3>2. g \in content[i] .. stored /\ Filled(i)
      BY <1>1, <1>2, <1>5, <1>6, <2>2, <3>1
    <3>3. PICK j \in Slots : content[j] = g
      BY <3>2 DEF LapInv, LaterKept
    <3>4. j # w
      BY <1>2, <1>7, <1>9, <3>1, <3>2, <3>3
    <3> QED
      BY <1>6, <3>3, <3>4
  <2> QED
    BY <2>1, <2>2
<1>12. ContentStored'
  BY <1>1, <1>2, <1>6 DEF LapInv, ContentStored
<1>13. OvertakenWithinRing'
  BY <1>1 DEF LapInv, OvertakenWithinRing
<1> QED
  BY <1>8, <1>10, <1>11, <1>12, <1>13 DEF LapInv

(* In a ring just built the device owns one run, from slot 0 to cur_rx.     *)
LEMMA LapNew ==
  ASSUME NEW k \in 0 .. NSlots, buf' = [i \in Slots |-> i < k], hwOwns' = buf',
         curRx' = k % NSlots, hwNext' = 0, content' = [i \in Slots |-> 0],
         stored' \in Nat
  PROVE  TwoRuns' /\ Ordered' /\ LaterKept' /\ ContentStored'
<1> USE RxRingAssumption
<1>1. 0 \in Slots /\ curRx' = Ahead(0, k) /\ Ahead(0, k) \in Slots
  <2>1. 0 \in Slots /\ 0 + k = k
    BY DEF Slots
  <2>2. (0 + k) % NSlots = Ahead(0, k) /\ Ahead(0, k) \in Slots
    BY <2>1, Wrap
  <2> QED
    BY <2>1, <2>2
<1>2. \A i \in Slots : ~Filled(i)'
  BY DEF Filled
<1>3. \A i \in Slots : hwOwns'[i] <=> i < k
  OBVIOUS
<1>4. TwoRuns'
  <2>1. CASE k < NSlots
    <3>1. curRx' = k /\ 0 \in 0 .. curRx' /\ NSlots \in curRx' .. NSlots
      BY <1>1, <2>1 DEF Ahead
    <3>2. \A i \in Slots : hwOwns'[i] <=> (0 <= i /\ i < curRx') \/ NSlots <= i
      <4> SUFFICES ASSUME NEW i \in Slots
                   PROVE  hwOwns'[i] <=> (0 <= i /\ i < curRx') \/ NSlots <= i
        OBVIOUS
      <4>1. 0 <= i /\ i < NSlots /\ i \in Int
        BY DEF Slots
      <4>2. hwOwns'[i] <=> i < k
        BY <1>3
      <4> QED
        BY <3>1, <4>1, <4>2
    <3> QED
      BY <3>1, <3>2 DEF TwoRuns
  <2>2. CASE k = NSlots
    <3>1. curRx' = 0 /\ 0 \in 0 .. curRx' /\ 0 \in curRx' .. NSlots
      BY <1>1, <2>2 DEF Ahead
    <3>2. \A i \in Slots : hwOwns'[i] <=> (0 <= i /\ i < curRx') \/ 0 <= i
      BY <1>3, <2>2, <3>1 DEF Slots
    <3> QED
      BY <3>1, <3>2 DEF TwoRuns
  <2> QED
    BY <2>1, <2>2
<1>5. Ordered' /\ LaterKept' /\ ContentStored'
  BY <1>2 DEF Ordered, LaterKept, ContentStored
<1> QED
  BY <1>4, <1>5

(* Without a ring the device owns no slot and nothing waits.               *)
LEMMA LapStop ==
  ASSUME IInv, LapInv, Stop
  PROVE  LapInv'
<1> USE RxRingAssumption
<1>1. /\ buf' = [i \in Slots |-> i < 0] /\ hwOwns' = buf' /\ hwNext' = 0
      /\ content' = [i \in Slots |-> 0] /\ UNCHANGED <<curRx, stored, delivered>>
  BY DEF Stop, Slotted
<1>2. \A i \in Slots : ~hwOwns'[i] /\ ~buf'[i] /\ content'[i] = 0
  <2>1. \A i \in Slots : ~(i < 0)
    BY DEF Slots
  <2> QED
    BY <1>1, <2>1
<1>3. curRx' \in Slots /\ stored' \in Nat
  BY <1>1 DEF IInv, Types, RingTypes, HwTypes
<1>4. TwoRuns'
  <2>1. curRx' \in 0 .. curRx' /\ NSlots \in curRx' .. NSlots
    BY <1>3 DEF Slots
  <2>2. \A i \in Slots : hwOwns'[i] <=> (curRx' <= i /\ i < curRx') \/ NSlots <= i
    BY <1>2, <1>3 DEF Slots
  <2> QED
    BY <1>1, <2>1, <2>2 DEF TwoRuns
<1>5. Ordered' /\ LaterKept'
  BY <1>2 DEF Ordered, LaterKept, Filled
<1>6. ContentStored' /\ OvertakenWithinRing'
  BY <1>1, <1>2, <1>3 DEF ContentStored, LapInv, OvertakenWithinRing
<1> QED
  BY <1>4, <1>5, <1>6 DEF LapInv

(* The ring of b43bsd_dma_init has delivered nothing yet.                   *)
LEMMA LapInit == Init => LapInv
<1> SUFFICES ASSUME Init PROVE LapInv
  OBVIOUS
<1> USE RxRingAssumption
<1>1. PICK k \in 0 .. NSlots :
        buf = [i \in Slots |-> i < k] /\ hwOwns = buf /\ curRx = k % NSlots
  BY DEF Init
<1>2. 0 \in Slots /\ curRx = Ahead(0, k)
  <2>1. 0 \in Slots /\ 0 + k = k
    BY DEF Slots
  <2> QED
    BY <1>1, <2>1, Wrap
<1>3. \A i \in Slots : ~Filled(i) /\ content[i] = 0
  BY <1>1 DEF Filled, Init
<1>4. \A i \in Slots : 0 <= i /\ i < NSlots /\ (hwOwns[i] <=> i < k)
  <2>1. \A i \in Slots : 0 <= i /\ i < NSlots
    BY DEF Slots
  <2>2. \A i \in Slots : hwOwns[i] <=> i < k
    BY <1>1
  <2> QED
    BY <2>1, <2>2
<1>5. TwoRuns
  <2>1. CASE k < NSlots
    <3>1. curRx = k /\ 0 \in 0 .. curRx /\ NSlots \in curRx .. NSlots
      BY <1>2, <2>1 DEF Ahead
    <3>2. \A i \in Slots : hwOwns[i] <=> (0 <= i /\ i < curRx) \/ NSlots <= i
      BY <1>4, <3>1 DEF Slots
    <3> QED
      BY <3>1, <3>2 DEF TwoRuns, Init
  <2>2. CASE k = NSlots
    <3>1. curRx = 0 /\ 0 \in 0 .. curRx /\ 0 \in curRx .. NSlots
      BY <1>2, <2>2 DEF Ahead
    <3>2. \A i \in Slots : hwOwns[i] <=> (0 <= i /\ i < curRx) \/ 0 <= i
      BY <1>4, <2>2, <3>1 DEF Slots
    <3> QED
      BY <3>1, <3>2 DEF TwoRuns, Init
  <2> QED
    BY <2>1, <2>2
<1>6. Ordered /\ LaterKept
  BY <1>3 DEF Ordered, LaterKept
<1>7. ContentStored /\ OvertakenWithinRing
  BY <1>3 DEF Init, ContentStored, OvertakenWithinRing
<1> QED
  BY <1>5, <1>6, <1>7 DEF LapInv

(* Fewer than a ring of frames have been stored after one that waits.       *)
LEMMA WithinLap ==
  ASSUME Types, LaterKept, NEW i \in Slots, Filled(i), content[i] <= stored
  PROVE  stored - content[i] < NSlots
<1> USE RxRingAssumption
<1> DEFINE C == {content[j] : j \in Slots}
           f == content[i]
<1>1. f \in Nat /\ stored \in Nat
  BY DEF Types, RingTypes, HwTypes
<1>2. IsFiniteSet(Slots) /\ Cardinality(Slots) = NSlots
  BY FS_Interval DEF Slots
<1>3. IsFiniteSet(C) /\ Cardinality(C) <= Cardinality(Slots)
  <2>1. content \in Surjection(Slots, C)
    BY DEF Types, RingTypes, Surjection
  <2> QED
    BY <1>2, <2>1, FS_Surjection
<1>4. f .. stored \subseteq C
  BY DEF LaterKept
<1>5. Cardinality(f .. stored) <= Cardinality(C)
  BY <1>3, <1>4, FS_Subset
<1>6. Cardinality(f .. stored) = stored - f + 1
  BY <1>1, FS_Interval
<1>7. Cardinality(C) \in Nat
  BY <1>3, FS_CardinalityType
<1> HIDE DEF C, f
<1>8. stored - f < NSlots
  BY <1>1, <1>2, <1>3, <1>5, <1>6, <1>7
<1> QED
  BY <1>8 DEF f

(* A delivered frame joins those before it.                                *)
LEMMA LapDeliver ==
  ASSUME IInv, LapInv, Deliver
  PROVE  LapInv'
<1> DEFINE b == [buf EXCEPT ![scan] = FALSE]
           n == Len(delivered)
<1> USE RxRingAssumption
<1>1. scan \in Slots /\ Filled(scan) /\ Refill(b)
  BY DEF Deliver, IInv, Types, CpuTypes, Slots
<1>2. b \in [Slots -> BOOLEAN] /\ \A i \in Slots : b[i] <=> buf[i] /\ i # scan
  BY <1>1 DEF IInv, Types, RingTypes
<1>3. \A i \in Slots : (hwOwns[i] => b[i]) /\ (b[i] => buf[i])
  BY <1>1, <1>2 DEF IInv, BufferUnderDevice, Filled
<1>4. UNCHANGED <<content, hwNext, stored>> /\ delivered' = Append(delivered, content[scan])
  BY DEF Deliver, hwVars
<1> HIDE DEF b
<1>5. \A i \in Slots : Filled(i)' => Filled(i)
  <2>1. \A i \in Slots : (buf'[i] /\ ~hwOwns'[i]) <=> (b[i] /\ ~hwOwns[i])
    BY <1>1, <1>2, <1>3, RefillFacts DEF IInv
  <2> QED
    BY <1>3, <2>1 DEF Filled
<1>6. TwoRuns'
  BY <1>1, <1>2, <1>3, <1>4, TwoRunsRefill DEF IInv, LapInv
<1>7. Ordered'
  <2>1. \A i, j \in Slots :
           Filled(i) /\ Offset(j)' < Offset(i)' =>
             \/ content[j] < content[i]
             \/ hwNext' = 0 /\ ~hwOwns[0] /\ curRx # 0 /\ curRx <= i
    BY <1>4 DEF LapInv, Ordered, Offset, Stranded
  <2> QED
    BY <1>1, <1>2, <1>3, <1>4, <2>1, OrderedRefill DEF IInv
<1>8. LaterKept'
  BY <1>4, <1>5, LaterKeptSame DEF LapInv
<1>9. ContentStored'
  BY <1>4 DEF LapInv, ContentStored
<1>10. OvertakenWithinRing'
  <2>1. /\ delivered \in Seq(Frames) /\ n \in Nat /\ DOMAIN delivered = 1 .. n
        /\ content[scan] \in 1 .. stored /\ stored \in Nat
        /\ content[scan] \in Frames
    BY <1>1 DEF IInv, Types, OutTypes, HwTypes, FrameInv, FilledFrames, Frames
  <2>2. /\ DOMAIN delivered' = 1 .. n + 1
        /\ \A k \in 1 .. n : delivered'[k] = delivered[k]
        /\ delivered'[n + 1] = content[scan]
    BY <1>4, <2>1
  <2>3. stored - content[scan] < NSlots
    BY <1>1, <2>1, WithinLap DEF IInv, LapInv
  <2>4. \A k \in 1 .. n : delivered[k] \in 1 .. stored
    BY <2>1 DEF IInv, FrameInv, LeftOnce
  <2> SUFFICES ASSUME NEW p \in 1 .. n + 1, NEW q \in 1 .. n + 1, p < q
               PROVE  delivered'[p] - delivered'[q] < NSlots
    BY <2>2 DEF OvertakenWithinRing
  <2>5. p \in 1 .. n
    BY <2>1
  <2>6. CASE q = n + 1
    <3>1. delivered'[p] \in 1 .. stored
      BY <2>2, <2>4, <2>5
    <3>2. delivered'[q] = content[scan]
      BY <2>2, <2>6
    <3>3. \A m, c \in Nat : m - c < NSlots => \A x \in 1 .. m : x - c < NSlots
      OBVIOUS
    <3>4. stored \in Nat /\ content[scan] \in Nat
      BY <2>1
    <3> QED
      BY <2>3, <3>1, <3>2, <3>3, <3>4
  <2>7. CASE q # n + 1
    <3>1. q \in 1 .. n
      BY <2>1, <2>7
    <3> QED
      BY <2>1, <2>2, <2>5, <3>1 DEF LapInv, OvertakenWithinRing
  <2> QED
    BY <2>6, <2>7
<1> QED
  BY <1>6, <1>7, <1>8, <1>9, <1>10 DEF LapInv

(* An overflow, or a stopped engine: the device starts again, and the ring is *)
(* refilled.                                                               *)
LEMMA LapRestart ==
  ASSUME IInv, LapInv, EngineRestarts, Refill(buf),
         UNCHANGED <<content, stored, outVars>>
  PROVE  LapInv'
<1>1. /\ buf \in [Slots -> BOOLEAN]
      /\ \A i \in Slots : (hwOwns[i] => buf[i]) /\ (buf[i] => buf[i])
  BY DEF IInv, Types, RingTypes, BufferUnderDevice
<1>2. hwNext' \in {hwNext, 0}
  BY DEF EngineRestarts
<1>3. TwoRuns'
  BY <1>1, <1>2, TwoRunsRefill DEF IInv, LapInv
<1>4. Ordered'
  BY <1>1, OrderedRestart, OrderedRefill DEF IInv, LapInv
<1>5. \A i \in Slots : Filled(i)' => Filled(i)
  BY <1>1, RefillFacts DEF IInv, Filled
<1>6. LaterKept'
  BY <1>5, LaterKeptSame DEF LapInv
<1>7. ContentStored' /\ OvertakenWithinRing'
  BY DEF LapInv, ContentStored, OvertakenWithinRing, outVars
<1> QED
  BY <1>3, <1>4, <1>6, <1>7 DEF LapInv

(* What is only watched or latched moves no frame.                          *)
LEMMA LapSame ==
  ASSUME LapInv, UNCHANGED <<ringVars, hwNext, stored, outVars>>
  PROVE  LapInv'
<1>1. TwoRuns' /\ LaterKept' /\ ContentStored' /\ OvertakenWithinRing'
  BY DEF LapInv, TwoRuns, LaterKept, ContentStored, OvertakenWithinRing, Filled,
     ringVars, outVars
<1>2. Ordered'
  BY DEF LapInv, Ordered, Stranded, Offset, Filled, ringVars
<1> QED
  BY <1>1, <1>2 DEF LapInv

(* Every step keeps the frames within one lap of each other.               *)
LEMMA LapNext == IInv /\ LapInv /\ [Next]_vars => LapInv'
<1> SUFFICES ASSUME IInv, LapInv, [Next]_vars PROVE LapInv'
  OBVIOUS
<1>1. CASE Intr \/ IntrStorms \/ Skip \/ RxEnds \/ RecoverNothing
  BY <1>1, LapSame DEF Intr, IntrStorms, Skip, RxEnds, RecoverNothing, hwVars
<1>2. CASE HwOverflows \/ HwFault \/ HwTimer \/ UNCHANGED vars
  BY <1>2, LapSame DEF HwOverflows, HwFault, HwTimer, vars, hwVars
<1>3. CASE Deliver
  BY <1>3, LapDeliver
<1>4. CASE RecoverRebuilds \/ Up
  <2>1. PICK ok \in BOOLEAN : RingBuilt(ok)
    BY <1>4 DEF RecoverRebuilds, Up
  <2>2. stored' \in Nat /\ UNCHANGED delivered
    BY <1>4 DEF RecoverRebuilds, Up, outVars, IInv, Types, HwTypes
  <2>3. TwoRuns' /\ Ordered' /\ LaterKept' /\ ContentStored'
    BY <2>1, <2>2, LapNew DEF RingBuilt, Slotted
  <2>4. OvertakenWithinRing'
    BY <2>2 DEF LapInv, OvertakenWithinRing
  <2> QED
    BY <2>3, <2>4 DEF LapInv
<1>7. CASE Stop
  BY <1>7, LapStop
<1>5. CASE RecoverRestarts \/ Overflow
  BY <1>5, LapRestart DEF RecoverRestarts, Overflow
<1>6. CASE HwStores
  BY <1>6, LapStore
<1> QED
  BY <1>1, <1>2, <1>3, <1>4, <1>5, <1>6, <1>7 DEF Next

(* Frames may be delivered in slot order rather than in arrival order, but   *)
(* none is overtaken by a whole ring, whatever the device does when it is    *)
(* restarted.                                                              *)
THEOREM NoneOvertakenByARing == Spec => []OvertakenWithinRing
<1>1. Init => LapInv
  BY LapInit
<1>2. LapInv => OvertakenWithinRing
  BY DEF LapInv
<1> QED
  BY <1>1, <1>2, LapNext, Invariant, PTL DEF Spec

=============================================================================
