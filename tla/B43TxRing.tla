------------------------------ MODULE B43TxRing ------------------------------
(***************************************************************************)
(* The transmit side of the 64-bit DMA engine (b43bsd_dma.c): the if_snd   *)
(* queue, the descriptor ring, the device that consumes descriptors and    *)
(* the interrupt handler that reaps them.                                  *)
(*                                                                         *)
(* The CPU runs one handler at a time (the ring is only touched at IPL_NET *)
(* or from code called at it); pc says which one.  The device and the      *)
(* network stack take steps between any two steps of a handler.            *)
(***************************************************************************)
EXTENDS Integers, Sequences, FiniteSets

CONSTANTS
  NSlots,        \* B43BSD_TX_SLOTS
  Mbufs,         \* the frames the stack will ever submit, each once
  NoMbuf,        \* the NULL of tx_slot[i].m
  MaxFaults,     \* bound on DMA errors and failed DMA loads or allocations
  MaxRestarts    \* bound on down/up cycles of the interface

ASSUME TxRingAssumption ==
  /\ NSlots \in Nat \ {0}
  /\ NoMbuf \notin Mbufs
  /\ MaxFaults \in Nat
  /\ MaxRestarts \in Nat

VARIABLES
  slotM,     \* tx_slot[i].m
  hwOwns,    \* DTABLEEND of ring_desc[i].ctrl0: the device has not consumed it
  curTx,     \* cur_tx, the next slot to fill
  used,      \* used, the active slots
  allocated, \* ring_desc and the per-slot maps exist
  engine,    \* TX_CTL and TX_STATUS
  hwNext,    \* the descriptor the device looks at next
  rxFatal,   \* RX_STATUS shows a fatal error: recovery rebuilds this ring too
  irq,       \* the causes latched in GEN_IRQ_REASON
  reason,    \* b43bsd_intr's local copy of them
  storm,     \* sc_intr_count has passed its threshold: interrupts are masked
  ifq,       \* if_snd
  oactive,   \* IFF_OACTIVE
  running,   \* B43BSD_FLAG_RUNNING and IFF_RUNNING
  pc,        \* the handler the CPU is in
  scan,      \* the loop index of b43bsd_dma_tx_done
  handed,    \* the frames the stack has submitted
  freed,     \* how often m_freem was called on each frame
  wire,      \* the frames the device has transmitted, in order
  faults,    \* faults taken so far
  restarts   \* down/up cycles so far

ringVars  == <<slotM, hwOwns, curTx, used, allocated, engine, hwNext, rxFatal>>
irqVars   == <<irq, reason, storm>>
queueVars == <<ifq, oactive, handed>>
cpuVars   == <<pc, scan>>
countVars == <<faults, restarts>>
vars == <<ringVars, irqVars, queueVars, running, cpuVars, freed, wire, countVars>>

Slots == 0 .. NSlots - 1

(* Fault: cur_tx is advanced without wrapping.                             *)
FollowingUnwrapped(i) == i + 1

Following(i) == (i + 1) % NSlots

Occupied == {i \in Slots : slotM[i] # NoMbuf}

Init ==
  /\ slotM = [i \in Slots |-> NoMbuf]
  /\ hwOwns = [i \in Slots |-> FALSE]
  /\ curTx = 0
  /\ used = 0
  /\ allocated = TRUE
  /\ engine = "run"
  /\ hwNext = 0
  /\ rxFatal = FALSE
  /\ irq = {}
  /\ reason = {}
  /\ storm = FALSE
  /\ ifq = <<>>
  /\ oactive = FALSE
  /\ running = TRUE
  /\ pc = "idle"
  /\ scan = 0
  /\ handed = {}
  /\ freed = [m \in Mbufs |-> 0]
  /\ wire = <<>>
  /\ faults = 0
  /\ restarts = 0

-----------------------------------------------------------------------------
(* What b43bsd_dma_tx_start does.                                          *)

(* Fault: the ENOBUFS test is missing and a full ring is overwritten.      *)
RefusedUnmapped == ~allocated

(* ENOBUFS or ENXIO: the slot is taken, or it has no DMA map.              *)
TxRefused == slotM[curTx] # NoMbuf \/ ~allocated

(* Fill the slot's descriptor, give it to the device, ring the doorbell.   *)
TxPost(m) ==
  /\ ~TxRefused
  /\ slotM' = [slotM EXCEPT ![curTx] = m]
  /\ hwOwns' = [hwOwns EXCEPT ![curTx] = TRUE]
  /\ curTx' = Following(curTx)
  /\ used' = used + 1
  /\ UNCHANGED <<allocated, engine, hwNext, rxFatal>>

(* It returns an error: either refused or bus_dmamap_load_mbuf failed.     *)
TxFails ==
  \/ TxRefused /\ UNCHANGED faults
  \/ ~TxRefused /\ faults < MaxFaults /\ faults' = faults + 1

(* m_freem                                                                 *)
Free(m) == freed' = [freed EXCEPT ![m] = @ + 1]

-----------------------------------------------------------------------------
(* The network stack.                                                      *)

Enqueue(m) ==
  /\ m \notin handed
  /\ handed' = handed \cup {m}
  /\ ifq' = Append(ifq, m)
  /\ UNCHANGED <<ringVars, irqVars, oactive, running, cpuVars, freed, wire, countVars>>

(* The stack calls if_start unless the interface says it is stalled.       *)
CallStart ==
  /\ pc = "idle"
  /\ running
  /\ ~oactive
  /\ ifq # <<>>
  /\ pc' = "start"
  /\ UNCHANGED <<ringVars, irqVars, queueVars, running, scan, freed, wire, countVars>>

-----------------------------------------------------------------------------
(* b43bsd_start, one iteration of its loop per step.  pc is "start" when    *)
(* the stack called it and "restart" when b43bsd_dma_tx_done did.          *)

InStart == pc \in {"start", "restart"}

(* Where b43bsd_intr goes on after its TX_OK part.                         *)
AfterTxDone == IF "DMA" \in reason THEN "dma" ELSE "idle"

StartExit == IF pc = "restart" THEN AfterTxDone ELSE "idle"

StartPosts ==
  /\ InStart
  /\ ifq # <<>>
  /\ TxPost(Head(ifq))
  /\ ifq' = Tail(ifq)
  /\ UNCHANGED <<irqVars, oactive, handed, running, cpuVars, freed, wire, countVars>>

StartDrops ==
  /\ InStart
  /\ ifq # <<>>
  /\ TxFails
  /\ Free(Head(ifq))
  /\ ifq' = Tail(ifq)
  /\ oactive' = TRUE
  /\ pc' = StartExit
  /\ UNCHANGED <<ringVars, irqVars, handed, running, scan, wire, restarts>>

StartReturns ==
  /\ InStart
  /\ ifq = <<>>
  /\ pc' = StartExit
  /\ UNCHANGED <<ringVars, irqVars, queueVars, running, scan, freed, wire, countVars>>

(* A PS-Poll goes to the ring without the queue; an error frees it and      *)
(* leaves IFF_OACTIVE alone.                                               *)
DirectPosts(m) ==
  /\ pc = "idle"
  /\ running
  /\ m \notin handed
  /\ handed' = handed \cup {m}
  /\ TxPost(m)
  /\ UNCHANGED <<irqVars, ifq, oactive, running, cpuVars, freed, wire, countVars>>

DirectDrops(m) ==
  /\ pc = "idle"
  /\ running
  /\ m \notin handed
  /\ handed' = handed \cup {m}
  /\ TxFails
  /\ Free(m)
  /\ UNCHANGED <<ringVars, irqVars, ifq, oactive, running, cpuVars, wire, restarts>>

-----------------------------------------------------------------------------
(* b43bsd_intr: read and acknowledge every cause, then handle them in the   *)
(* order of the code.  When the driver does not run, or sc_intr_count is    *)
(* past the storm threshold, it masks the interrupts and handles nothing.  *)

IntrDue == pc = "idle" /\ running /\ irq # {} /\ ~storm

Intr ==
  /\ IntrDue
  /\ reason' = irq
  /\ irq' = {}
  /\ scan' = 0
  /\ pc' = IF "TX_OK" \in irq THEN "reap" ELSE "dma"
  /\ UNCHANGED <<ringVars, storm, queueVars, running, freed, wire, countVars>>

(* This interrupt takes sc_intr_count past the threshold: the handler masks *)
(* and returns, with nothing acknowledged and nothing handled.  Which one   *)
(* it is is left open, so the results hold of every threshold; B43Driver    *)
(* counts.                                                                 *)
IntrStorms ==
  /\ IntrDue
  /\ storm' = TRUE
  /\ UNCHANGED <<ringVars, irq, reason, queueVars, running, cpuVars, freed, wire,
                 countVars>>

(* b43bsd_dma_tx_done, one slot per step.                                  *)

(* Fault: the ownership bit is not looked at.                              *)
ReapableOwned(i) == slotM[i] # NoMbuf

Reapable(i) == slotM[i] # NoMbuf /\ ~hwOwns[i]

ReapFrees ==
  /\ pc = "reap"
  /\ scan < NSlots
  /\ Reapable(scan)
  /\ Free(slotM[scan])
  /\ slotM' = [slotM EXCEPT ![scan] = NoMbuf]
  /\ used' = used - 1
  /\ scan' = scan + 1
  /\ UNCHANGED <<hwOwns, curTx, allocated, engine, hwNext, rxFatal, irqVars,
                 queueVars, running, pc, wire, countVars>>

ReapSkips ==
  /\ pc = "reap"
  /\ scan < NSlots
  /\ ~Reapable(scan)
  /\ scan' = scan + 1
  /\ UNCHANGED <<ringVars, irqVars, queueVars, running, pc, freed, wire, countVars>>

(* Fault: IFF_OACTIVE is never cleared (plan.html, C1).                    *)
UnstallNever == FALSE

(* The loop is over: restart the queue if it was stalled and there is room. *)
Unstall == oactive /\ used < NSlots

(* Fault: the cause is acknowledged after the scan instead of before it.   *)
ReapEndsAcks ==
  /\ pc = "reap"
  /\ scan = NSlots
  /\ irq' = irq \ {"TX_OK"}
  /\ oactive' = (oactive /\ ~Unstall)
  /\ pc' = IF Unstall THEN "restart" ELSE AfterTxDone
  /\ UNCHANGED <<ringVars, reason, storm, ifq, handed, running, scan, freed, wire,
                 countVars>>

ReapEnds ==
  /\ pc = "reap"
  /\ scan = NSlots
  /\ oactive' = (oactive /\ ~Unstall)
  /\ pc' = IF Unstall THEN "restart" ELSE AfterTxDone
  /\ UNCHANGED <<ringVars, irqVars, ifq, handed, running, scan, freed, wire, countVars>>

-----------------------------------------------------------------------------
(* The ring's construction and destruction.                                *)

(* Fault: the ring is dropped with the frames in it.                       *)
FreeNone == UNCHANGED freed

(* b43bsd_dma_free_ring: every frame still in a slot is freed.             *)
FreeAll ==
  freed' = [m \in Mbufs |-> freed[m] + Cardinality({i \in Slots : slotM[i] = m})]

NoSlots ==
  /\ slotM' = [i \in Slots |-> NoMbuf]
  /\ hwOwns' = [i \in Slots |-> FALSE]

(* b43bsd_dma_free: used and cur_tx keep their values.                     *)
RingFreed ==
  /\ FreeAll
  /\ NoSlots
  /\ allocated' = FALSE
  /\ engine' = "off"
  /\ rxFatal' = FALSE

(* Faults: the softc is not zeroed, so used or cur_tx survives.            *)
RestartedKeepsUsed == curTx' = 0 /\ hwNext' = 0 /\ UNCHANGED used

RestartedKeepsCur == used' = 0 /\ hwNext' = 0 /\ UNCHANGED curTx

Restarted == curTx' = 0 /\ used' = 0 /\ hwNext' = 0

(* b43bsd_dma_init: everything is zeroed first, then it works or fails.    *)
RingBuilt(ok) ==
  /\ NoSlots
  /\ Restarted
  /\ allocated' = ok
  /\ engine' = IF ok THEN "run" ELSE "off"
  /\ rxFatal' = FALSE
  /\ faults' = IF ok THEN faults ELSE faults + 1

Fatal == engine = "error" \/ rxFatal

(* b43bsd_dma_error_recover after a fatal error.  When the rebuilding      *)
(* fails b43bsd_intr calls b43bsd_init, which returns at once because the   *)
(* RUNNING flag is set.                                                    *)
RecoverRebuilds ==
  /\ pc = "dma"
  /\ Fatal
  /\ FreeAll
  /\ \E ok \in BOOLEAN : (ok \/ faults < MaxFaults) /\ RingBuilt(ok)
  /\ pc' = "idle"
  /\ UNCHANGED <<irqVars, queueVars, running, scan, wire, restarts>>

(* Its other half: a stopped engine is started again where it stopped.     *)
RecoverRestarts ==
  /\ pc = "dma"
  /\ ~Fatal
  /\ engine' = IF engine = "stopped" THEN "run" ELSE engine
  /\ pc' = "idle"
  /\ UNCHANGED <<slotM, hwOwns, curTx, used, allocated, hwNext, rxFatal, irqVars,
                 queueVars, running, scan, freed, wire, countVars>>

(* b43bsd_stop: IFF_OACTIVE stays as it is; the chip reset drops the latched *)
(* causes.                                                                 *)
Stop ==
  /\ pc = "idle"
  /\ running
  /\ RingFreed
  /\ running' = FALSE
  /\ irq' = {}
  /\ UNCHANGED <<curTx, used, hwNext, reason, storm, queueVars, cpuVars, wire,
                 countVars>>

(* b43bsd_init on an interface that is down.  The b43bsd_chip_init in it     *)
(* forgets the interrupts counted, whether or not the ring is built.       *)
Up ==
  /\ pc = "idle"
  /\ ~running
  /\ restarts < MaxRestarts
  /\ restarts' = restarts + 1
  /\ \E ok \in BOOLEAN :
        /\ ok \/ faults < MaxFaults
        /\ RingBuilt(ok)
        /\ running' = ok
  /\ irq' = {}
  /\ storm' = FALSE
  /\ UNCHANGED <<reason, queueVars, cpuVars, freed, wire>>

-----------------------------------------------------------------------------
(* The device.  It consumes descriptors in ring order, clears DTABLEEND of *)
(* each one it has sent, and latches a cause.                              *)

HwConsume ==
  /\ engine = "run"
  /\ hwOwns[hwNext]
  /\ wire' = Append(wire, slotM[hwNext])
  /\ hwOwns' = [hwOwns EXCEPT ![hwNext] = FALSE]
  /\ hwNext' = Following(hwNext)
  /\ irq' = irq \cup {"TX_OK"}
  /\ UNCHANGED <<slotM, curTx, used, allocated, engine, rxFatal, reason, storm,
                 queueVars, running, cpuVars, freed, countVars>>

HwFault ==
  /\ engine = "run"
  /\ faults < MaxFaults
  /\ faults' = faults + 1
  /\ \/ engine' \in {"error", "stopped"} /\ UNCHANGED rxFatal
     \/ rxFatal' = TRUE /\ UNCHANGED engine
  /\ irq' = irq \cup {"DMA"}
  /\ UNCHANGED <<slotM, hwOwns, curTx, used, allocated, hwNext, reason, storm,
                 queueVars, running, cpuVars, freed, wire, restarts>>

-----------------------------------------------------------------------------
StartStep   == StartPosts \/ StartDrops \/ StartReturns
ReapStep    == ReapFrees \/ ReapSkips \/ ReapEnds
RecoverStep == RecoverRebuilds \/ RecoverRestarts

Next ==
  \/ \E m \in Mbufs : Enqueue(m)
  \/ CallStart
  \/ StartPosts
  \/ StartDrops
  \/ StartReturns
  \/ \E m \in Mbufs : DirectPosts(m)
  \/ \E m \in Mbufs : DirectDrops(m)
  \/ Intr
  \/ IntrStorms
  \/ ReapFrees
  \/ ReapSkips
  \/ ReapEnds
  \/ RecoverRebuilds
  \/ RecoverRestarts
  \/ Stop
  \/ Up
  \/ HwConsume
  \/ HwFault

(* A handler runs to its end, a latched interrupt that is not masked is      *)
(* taken, be it the one that makes a storm, the stack calls if_start when   *)
(* it may, and a running device sends what it owns.                        *)
Fairness ==
  /\ WF_vars(StartStep)
  /\ WF_vars(ReapStep)
  /\ WF_vars(RecoverStep)
  /\ WF_vars(Intr \/ IntrStorms)
  /\ WF_vars(CallStart)
  /\ WF_vars(HwConsume)

Spec == Init /\ [][Next]_vars

FairSpec == Spec /\ Fairness

-----------------------------------------------------------------------------
(* Properties.                                                             *)

(* Every variable has its type: the one type invariant of this module.     *)
TypeOK ==
  /\ slotM \in [Slots -> Mbufs \cup {NoMbuf}]
  /\ hwOwns \in [Slots -> BOOLEAN]
  /\ curTx \in Slots
  /\ used \in 0 .. NSlots
  /\ allocated \in BOOLEAN
  /\ engine \in {"run", "stopped", "error", "off"}
  /\ hwNext \in Slots
  /\ rxFatal \in BOOLEAN
  /\ irq \subseteq {"TX_OK", "DMA"}
  /\ reason \subseteq {"TX_OK", "DMA"}
  /\ storm \in BOOLEAN
  /\ ifq \in Seq(Mbufs)
  /\ oactive \in BOOLEAN
  /\ running \in BOOLEAN
  /\ pc \in {"idle", "start", "restart", "reap", "dma"}
  /\ scan \in 0 .. NSlots
  /\ handed \subseteq Mbufs
  /\ freed \in [Mbufs -> Nat]
  /\ wire \in Seq(Mbufs)
  /\ faults \in 0 .. MaxFaults
  /\ restarts \in 0 .. MaxRestarts

(* The counter by which b43bsd_dma_tx_done decides that there is room again *)
(* agrees with the slots it summarises, across every rebuilding of the ring. *)
UsedExact == allocated => used = Cardinality(Occupied)

(* m_freem is called exactly once on every frame, by whoever owns it: a    *)
(* frame submitted is in the queue, or in one slot, or freed once.         *)
SingleOwner ==
  \A m \in Mbufs :
    Cardinality({k \in DOMAIN ifq : ifq[k] = m})
      + Cardinality({i \in Slots : slotM[i] = m})
      + freed[m] = IF m \in handed THEN 1 ELSE 0

(* The device never reads freed memory: a descriptor it owns belongs to a  *)
(* ring that exists and points to a frame the driver still holds.          *)
DmaMemoryLive ==
  \A i \in Slots :
    hwOwns[i] => allocated /\ slotM[i] # NoMbuf /\ freed[slotM[i]] = 0

(* The descriptors the device owns are the cyclic interval from the one it  *)
(* looks at next up to cur_tx, so it neither skips one nor stops early,     *)
(* even when slots are reaped out of order or the ring wraps.              *)
OwnedCount == Cardinality({i \in Slots : hwOwns[i]})

OwnedWindow ==
  /\ {i \in Slots : hwOwns[i]} = {(hwNext + k) % NSlots : k \in 0 .. OwnedCount - 1}
  /\ allocated => curTx = (hwNext + OwnedCount) % NSlots

(* The frames posted and not yet transmitted, oldest first.                *)
InFlight == [k \in 1 .. OwnedCount |-> slotM[(hwNext + k - 1) % NSlots]]

(* The ring implements the FIFO a driver promises: frames go out in the     *)
(* order posted, each once, and are released only after they are sent or    *)
(* when the ring is torn down.                                             *)
Fifo == INSTANCE B43TxFifo WITH
          Frames <- Mbufs,
          queue <- InFlight,
          sent <- wire,
          released <- {m \in Mbufs : freed[m] > 0}

ImplementsFifo == Fifo!Spec

(* A frame given to the ring is eventually freed: a completion that arrives *)
(* while b43bsd_dma_tx_done scans is not lost, and a DMA error does not      *)
(* strand what is in flight.  Only a storm, after which b43bsd_intr handles *)
(* nothing until the next b43bsd_chip_init, can keep frames in the ring.    *)
InRing(m) == \E i \in Slots : slotM[i] = m

RingFramesFreed == \A m \in Mbufs : InRing(m) ~> freed[m] > 0 \/ storm

(* "TX ring fills, IFF_OACTIVE set, never cleared, interface permanently    *)
(* stalled" (plan.html, C1): a stalled running interface is restarted, as   *)
(* long as there is no storm.                                              *)
StallEnds == (running /\ oactive) ~> (~running \/ ~oactive \/ storm)

(* The same as long as the ring is never rebuilt and no load fails.        *)
StallEndsUndisturbed ==
  (running /\ oactive) ~> (~running \/ ~oactive \/ storm \/ faults + restarts > 0)

=============================================================================
