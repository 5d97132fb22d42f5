------------------------------ MODULE B43RxRing ------------------------------
(***************************************************************************)
(* The receive side of the 64-bit DMA engine (b43bsd_dma.c): the ring of    *)
(* empty buffers, the device that fills them, the parts of b43bsd_intr that *)
(* drain, refill and restart it, and the interface going down and up.       *)
(*                                                                         *)
(* Frames are numbered in the order in which the device stored them.  The  *)
(* device takes steps between any two slots of a scan.                     *)
(***************************************************************************)
EXTENDS Integers, Sequences, FiniteSets

CONSTANTS
  NSlots,      \* B43BSD_RX_SLOTS
  MaxFrames,   \* bound on the frames the device stores
  MaxFaults,   \* bound on failed allocations and DMA errors
  MaxRestarts  \* bound on down/up cycles of the interface

ASSUME RxRingAssumption ==
  /\ NSlots \in Nat \ {0}
  /\ MaxFrames \in Nat
  /\ MaxFaults \in Nat
  /\ MaxRestarts \in Nat

VARIABLES
  buf,        \* rx_slot[i].m # NULL
  hwOwns,     \* DTABLEEND of ring_desc[i].ctrl0: the device may fill the buffer
  content,    \* the frame last written to slot i, 0 for none
  curRx,      \* cur_rx, the next slot b43bsd_dma_rx looks at
  engine,     \* RX_CTL and RX_STATUS; off: there is no ring
  hwNext,     \* the descriptor the device fills next
  txFatal,    \* TX_STATUS shows a fatal error: recovery rebuilds this ring too
  irq,        \* the causes latched in GEN_IRQ_REASON
  reason,     \* b43bsd_intr's local copy of them
  storm,      \* sc_intr_count has passed its threshold: interrupts are masked
  running,    \* B43BSD_FLAG_RUNNING
  pc,         \* the part of b43bsd_intr that runs
  scan,       \* the loop index of b43bsd_dma_rx_process
  stored,     \* frames the device has stored so far
  delivered,  \* the frames given to ieee80211_input, in order
  discarded,  \* the frames freed with the ring
  keepsPos,   \* whether this device keeps its position when restarted
  faults,     \* faults taken so far
  restarts    \* down/up cycles so far

ringVars == <<buf, hwOwns, content, curRx>>
hwVars   == <<engine, hwNext, txFatal, stored>>
cpuVars  == <<reason, pc, scan>>
runVars  == <<storm, running, restarts>>
outVars  == <<delivered, discarded>>
vars == <<ringVars, hwVars, irq, cpuVars, runVars, outVars, faults, keepsPos>>

Slots == 0 .. NSlots - 1

Frames == 1 .. MaxFrames

(* B43_IRQ_MASK_NORMAL has no RX_FIFOFLOW_CTL: an overflow raises no        *)
(* interrupt of its own, but b43bsd_intr reads it with the next one.       *)
Causes == {"RX_OK", "DMA", "FIFOFLOW", "TBTT"}

Unmasked == Causes \ {"FIFOFLOW"}

After(n) == (curRx + n) % NSlots

(* b43bsd_dma_init ends with a full ring unless an allocation fails.       *)
Init ==
  /\ \E k \in 0 .. NSlots :
       /\ k = NSlots \/ MaxFaults > 0
       /\ buf = [i \in Slots |-> i < k]
       /\ hwOwns = buf
       /\ curRx = k % NSlots
       /\ faults = IF k = NSlots THEN 0 ELSE 1
  /\ content = [i \in Slots |-> 0]
  /\ engine = "run"
  /\ hwNext = 0
  /\ txFatal = FALSE
  /\ irq = {}
  /\ reason = {}
  /\ storm = FALSE
  /\ running = TRUE
  /\ restarts = 0
  /\ pc = "idle"
  /\ scan = 0
  /\ stored = 0
  /\ delivered = <<>>
  /\ discarded = {}
  /\ keepsPos \in BOOLEAN

-----------------------------------------------------------------------------
(* b43bsd_dma_rx.  Its loop looks at cur_rx only, and cur_rx moves only when *)
(* a slot is filled, so it fills the run of empty slots from cur_rx and     *)
(* stays at the first one that is not empty.                               *)

EmptyRun(b) ==
  CHOOSE n \in 0 .. NSlots :
    /\ \A j \in 0 .. n - 1 : ~b[After(j)]
    /\ n = NSlots \/ b[After(n)]

(* b is the occupation of the slots before the refill; k of the empty slots *)
(* are filled and the device owns the first h of the run.                  *)
Filling(b, k, h, cur) ==
  /\ faults' = IF k < EmptyRun(b) THEN faults + 1 ELSE faults
  /\ buf' = [i \in Slots |-> b[i] \/ i \in {After(j) : j \in 0 .. k - 1}]
  /\ hwOwns' = [i \in Slots |-> hwOwns[i] \/ i \in {After(j) : j \in 0 .. h - 1}]
  /\ curRx' = cur

FillCounts(b) == {k \in 0 .. EmptyRun(b) : k < EmptyRun(b) => faults < MaxFaults}

(* Faults: the descriptor is written before the buffer is there; cur_rx     *)
(* moves on although a buffer could not be allocated.                      *)
RefillDescriptorFirst(b) ==
  \E k \in FillCounts(b) : Filling(b, k, EmptyRun(b), After(k))

RefillMovesOn(b) ==
  \E k \in FillCounts(b) : Filling(b, k, k, After(EmptyRun(b)))

(* Fewer slots than the run are filled when MGETHDR, MCLGET or             *)
(* bus_dmamap_load_mbuf fails.                                             *)
Refill(b) == \E k \in FillCounts(b) : Filling(b, k, k, After(k))

-----------------------------------------------------------------------------
(* b43bsd_intr: acknowledge every cause, then handle RX_OK, DMA and         *)
(* RX_FIFOFLOW_CTL in that order.                                          *)

OverflowOrDone(r) == IF "FIFOFLOW" \in r THEN "overflow" ELSE "idle"

DmaOrLater(r) == IF "DMA" \in r THEN "dma" ELSE OverflowOrDone(r)

(* The handler goes on with that part, or returns and its locals are gone.  *)
GoTo(part) ==
  /\ pc' = part
  /\ reason' = IF part = "idle" THEN {} ELSE reason
  /\ scan' = 0

(* When the driver does not run, or sc_intr_count is past the storm         *)
(* threshold, the handler masks the interrupts and handles nothing.        *)
IntrDue == pc = "idle" /\ running /\ ~storm /\ irq \cap Unmasked # {}

Intr ==
  /\ IntrDue
  /\ reason' = irq
  /\ irq' = {}
  /\ scan' = 0
  /\ pc' = IF "RX_OK" \in irq THEN "rx" ELSE DmaOrLater(irq)
  /\ UNCHANGED <<ringVars, hwVars, runVars, outVars, faults, keepsPos>>

(* This interrupt takes sc_intr_count past the threshold: the handler masks *)
(* and returns, with nothing acknowledged and nothing handled.  Which one   *)
(* it is is left open, so the results hold of every threshold; B43Driver    *)
(* counts.                                                                 *)
IntrStorms ==
  /\ IntrDue
  /\ storm' = TRUE
  /\ UNCHANGED <<ringVars, hwVars, irq, cpuVars, running, restarts, outVars, faults,
                 keepsPos>>

(* b43bsd_dma_rx_process, one slot per step.                               *)

(* Fault: a slot the device still owns is taken for a filled one.          *)
FilledOwned(i) == buf[i]

Filled(i) == buf[i] /\ ~hwOwns[i]

(* Fault: the slot keeps the buffer that was given to the stack.           *)
DeliverKeeps ==
  /\ pc = "rx"
  /\ scan < NSlots
  /\ Filled(scan)
  /\ delivered' = Append(delivered, content[scan])
  /\ Refill(buf)
  /\ scan' = scan + 1
  /\ UNCHANGED <<content, hwVars, irq, reason, pc, runVars, discarded, keepsPos>>

Deliver ==
  /\ pc = "rx"
  /\ scan < NSlots
  /\ Filled(scan)
  /\ delivered' = Append(delivered, content[scan])
  /\ Refill([buf EXCEPT ![scan] = FALSE])
  /\ scan' = scan + 1
  /\ UNCHANGED <<content, hwVars, irq, reason, pc, runVars, discarded, keepsPos>>

Skip ==
  /\ pc = "rx"
  /\ scan < NSlots
  /\ ~Filled(scan)
  /\ scan' = scan + 1
  /\ UNCHANGED <<ringVars, hwVars, irq, reason, pc, runVars, outVars, faults, keepsPos>>

(* Fault: the causes are acknowledged after the scan.                      *)
RxEndsAcks ==
  /\ pc = "rx"
  /\ scan = NSlots
  /\ irq' = irq \ {"RX_OK"}
  /\ GoTo(DmaOrLater(reason))
  /\ UNCHANGED <<ringVars, hwVars, runVars, outVars, faults, keepsPos>>

RxEnds ==
  /\ pc = "rx"
  /\ scan = NSlots
  /\ GoTo(DmaOrLater(reason))
  /\ UNCHANGED <<ringVars, hwVars, irq, runVars, outVars, faults, keepsPos>>

-----------------------------------------------------------------------------
(* Recovery.  The code does not say whether an engine that is disabled and *)
(* enabled again goes on where it was or starts over at slot 0: b43bsd_dma_ *)
(* rx_overflow keeps cur_rx, b43bsd_dma_rx_flush resets it.  Both kinds of  *)
(* device are modelled.                                                    *)

EngineRestarts ==
  /\ engine' = "run"
  /\ hwNext' = IF keepsPos THEN hwNext ELSE 0

Fatal == engine = "error" \/ txFatal

(* b43bsd_dma_free frees every buffer, those not yet given to the stack     *)
(* included.                                                               *)
Discard == discarded' = discarded \cup {content[i] : i \in {j \in Slots : Filled(j)}}

(* The slots of a ring with k buffers and the device at its beginning.     *)
Slotted(k) ==
  /\ buf' = [i \in Slots |-> i < k]
  /\ hwOwns' = buf'
  /\ content' = [i \in Slots |-> 0]
  /\ hwNext' = 0
  /\ txFatal' = FALSE

(* b43bsd_dma_init: a new ring, full unless an allocation fails, or none.    *)
RingBuilt(ok) ==
  \E k \in 0 .. NSlots :
    /\ ok \/ k = 0
    /\ Slotted(k)
    /\ curRx' = k % NSlots
    /\ engine' = IF ok THEN "run" ELSE "off"
    /\ \/ ok /\ k = NSlots /\ UNCHANGED faults
       \/ ~(ok /\ k = NSlots) /\ faults < MaxFaults /\ faults' = faults + 1

(* A fatal error: the ring is freed and built again.  When that fails       *)
(* b43bsd_intr calls b43bsd_init, which returns at once because the RUNNING *)
(* flag is set.                                                            *)
RecoverRebuilds ==
  /\ pc = "dma"
  /\ Fatal
  /\ Discard
  /\ \E ok \in BOOLEAN : RingBuilt(ok)
  /\ GoTo(OverflowOrDone(reason))
  /\ UNCHANGED <<irq, runVars, stored, delivered, keepsPos>>

(* A stopped engine is started again and the ring is refilled.             *)
RecoverRestarts ==
  /\ pc = "dma"
  /\ ~Fatal
  /\ engine = "stopped"
  /\ EngineRestarts
  /\ Refill(buf)
  /\ GoTo(OverflowOrDone(reason))
  /\ UNCHANGED <<content, txFatal, irq, runVars, stored, outVars, keepsPos>>

RecoverNothing ==
  /\ pc = "dma"
  /\ ~Fatal
  /\ engine # "stopped"
  /\ GoTo(OverflowOrDone(reason))
  /\ UNCHANGED <<ringVars, hwVars, irq, runVars, outVars, faults, keepsPos>>

(* Fault: an overflow restarts the engine but does not refill the ring.    *)
OverflowKeepsHoles ==
  /\ pc = "overflow"
  /\ EngineRestarts
  /\ GoTo("idle")
  /\ UNCHANGED <<ringVars, txFatal, irq, runVars, stored, outVars, faults, keepsPos>>

(* b43bsd_dma_rx_overflow.  Without a ring its refill loads an mbuf into a   *)
(* DMA map that is not there: the machine gets no further.                  *)
Overflow ==
  /\ pc = "overflow"
  /\ engine # "off"
  /\ EngineRestarts
  /\ Refill(buf)
  /\ GoTo("idle")
  /\ UNCHANGED <<content, txFatal, irq, runVars, stored, outVars, keepsPos>>

-----------------------------------------------------------------------------
(* The interface goes down and up.                                         *)

(* b43bsd_stop: cur_rx keeps its value, the chip reset drops what is latched. *)
Stop ==
  /\ pc = "idle"
  /\ running
  /\ running' = FALSE
  /\ Discard
  /\ Slotted(0)
  /\ engine' = "off"
  /\ irq' = {}
  /\ UNCHANGED <<curRx, cpuVars, storm, restarts, stored, delivered, faults, keepsPos>>

(* b43bsd_init on an interface that is down.  The b43bsd_chip_init in it     *)
(* forgets the interrupts counted, whether or not the ring is built.       *)
Up ==
  /\ pc = "idle"
  /\ ~running
  /\ restarts < MaxRestarts
  /\ restarts' = restarts + 1
  /\ \E ok \in BOOLEAN : RingBuilt(ok) /\ running' = ok
  /\ storm' = FALSE
  /\ irq' = {}
  /\ UNCHANGED <<cpuVars, stored, outVars, keepsPos>>

-----------------------------------------------------------------------------
(* The device.                                                             *)

HwStores ==
  /\ engine = "run"
  /\ hwOwns[hwNext]
  /\ stored < MaxFrames
  /\ stored' = stored + 1
  /\ content' = [content EXCEPT ![hwNext] = stored + 1]
  /\ hwOwns' = [hwOwns EXCEPT ![hwNext] = FALSE]
  /\ hwNext' = (hwNext + 1) % NSlots
  /\ irq' = irq \cup {"RX_OK"}
  /\ UNCHANGED <<buf, curRx, engine, txFatal, cpuVars, runVars, outVars, faults,
                 keepsPos>>

(* A frame comes in and there is no buffer for it.                         *)
HwOverflows ==
  /\ engine = "run"
  /\ ~hwOwns[hwNext]
  /\ irq' = irq \cup {"FIFOFLOW"}
  /\ UNCHANGED <<ringVars, hwVars, cpuVars, runVars, outVars, faults, keepsPos>>

HwFault ==
  /\ engine = "run"
  /\ faults < MaxFaults
  /\ faults' = faults + 1
  /\ \/ engine' \in {"error", "stopped"} /\ UNCHANGED txFatal
     \/ txFatal' = TRUE /\ UNCHANGED engine
  /\ irq' = irq \cup {"DMA"}
  /\ UNCHANGED <<ringVars, hwNext, stored, cpuVars, runVars, outVars, keepsPos>>

(* The beacon timer of the MAC, which does not depend on reception.        *)
HwTimer ==
  /\ running
  /\ irq' = irq \cup {"TBTT"}
  /\ UNCHANGED <<ringVars, hwVars, cpuVars, runVars, outVars, faults, keepsPos>>

-----------------------------------------------------------------------------
RxStep      == Deliver \/ Skip \/ RxEnds
RecoverStep == RecoverRebuilds \/ RecoverRestarts \/ RecoverNothing

Next ==
  \/ Intr
  \/ IntrStorms
  \/ Deliver
  \/ Skip
  \/ RxEnds
  \/ RecoverRebuilds
  \/ RecoverRestarts
  \/ RecoverNothing
  \/ Overflow
  \/ Stop
  \/ Up
  \/ HwStores
  \/ HwOverflows
  \/ HwFault
  \/ HwTimer

(* A handler runs to its end, an unmasked cause is taken, be it by the       *)
(* interrupt that makes a storm, frames keep coming and the beacon timer    *)
(* keeps firing.                                                           *)
Fairness ==
  /\ WF_vars(RxStep)
  /\ WF_vars(RecoverStep)
  /\ WF_vars(Overflow)
  /\ WF_vars(Intr \/ IntrStorms)
  /\ WF_vars(HwStores)
  /\ WF_vars(HwOverflows)
  /\ WF_vars(HwTimer)

Spec == Init /\ [][Next]_vars

FairSpec == Spec /\ Fairness

-----------------------------------------------------------------------------
(* Properties.                                                             *)

(* Every variable has its type: the one type invariant of this module.     *)
TypeOK ==
  /\ buf \in [Slots -> BOOLEAN]
  /\ hwOwns \in [Slots -> BOOLEAN]
  /\ content \in [Slots -> 0 .. MaxFrames]
  /\ curRx \in Slots
  /\ engine \in {"run", "stopped", "error", "off"}
  /\ hwNext \in Slots
  /\ txFatal \in BOOLEAN
  /\ irq \subseteq Causes
  /\ reason \subseteq Causes
  /\ storm \in BOOLEAN
  /\ running \in BOOLEAN
  /\ pc \in {"idle", "rx", "dma", "overflow"}
  /\ scan \in 0 .. NSlots
  /\ stored \in 0 .. MaxFrames
  /\ delivered \in Seq(Frames)
  /\ discarded \subseteq Frames
  /\ faults \in 0 .. MaxFaults
  /\ restarts \in 0 .. MaxRestarts
  /\ keepsPos \in BOOLEAN

(* Every frame the device stored is in exactly one place: once in the ring, *)
(* once with the stack, or freed with the ring; none is delivered twice.   *)
FrameOnce ==
  \A f \in Frames :
    Cardinality({i \in Slots : Filled(i) /\ content[i] = f})
      + Cardinality({k \in DOMAIN delivered : delivered[k] = f})
      + (IF f \in discarded THEN 1 ELSE 0)
      = IF f <= stored THEN 1 ELSE 0

(* The device writes only to a buffer the driver has put into the slot and *)
(* not taken out again.                                                    *)
BufferUnderDevice == \A i \in Slots : hwOwns[i] => buf[i]

(* Between interrupts, once everything stored is delivered, the empty slots *)
(* are exactly the run from cur_rx, which is where b43bsd_dma_rx looks, so  *)
(* the next refill replaces every missing buffer.  This needs a device that *)
(* keeps its position when it is restarted.                                *)
HolesReachable ==
  keepsPos /\ pc = "idle" /\ (\A i \in Slots : ~Filled(i)) =>
    {i \in Slots : ~buf[i]} = {After(j) : j \in 0 .. EmptyRun(buf) - 1}

(* Frames stored before and after the ring wraps are delivered in slot     *)
(* order, not in arrival order, but none is overtaken by a whole ring.     *)
OvertakenWithinRing ==
  \A p, q \in DOMAIN delivered :
    p < q => delivered[p] - delivered[q] < NSlots

(* Reception never dies: a device without a buffer gets one, even after    *)
(* every allocation of a refill failed.  This needs a device that keeps     *)
(* its position: one that starts over at slot 0 can wait there for ever,    *)
(* while cur_rx waits at a slot the device never comes to.  And it holds as *)
(* long as there is a ring and no storm: after a storm, and after a         *)
(* rebuilding that failed, nothing is refilled until the next down and up.  *)
DeviceRefed ==
  keepsPos /\ ~hwOwns[hwNext]
    ~> hwOwns[hwNext] \/ stored = MaxFrames \/ storm \/ engine = "off"

(* Every frame stored is delivered unless a fatal DMA error or b43bsd_stop   *)
(* discards it, or a storm keeps it in the ring.                            *)
StoredDelivered ==
  \A f \in Frames :
    stored >= f
      ~> f \in discarded \/ storm \/ \E k \in DOMAIN delivered : delivered[k] = f

=============================================================================
