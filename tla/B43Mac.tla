------------------------------- MODULE B43Mac --------------------------------
(***************************************************************************)
(* What the driver has told the MAC: power save (ic/b43bsd_ps.c), the MAC   *)
(* control register and the keys (pci/b43bsd.c), over the net80211 states, *)
(* interrupts, ioctls, suspend and resume that change them.                *)
(*                                                                         *)
(* Every handler here runs at IPL_NET or under splnet and is one step.     *)
(* State "AUTH" stands for S_AUTH and S_ASSOC, which the driver treats the *)
(* same.  B43Driver has the timers and the interrupt mask, B43TxRing the   *)
(* transmit ring: here the ring is a count.                                *)
(***************************************************************************)
EXTENDS B43Keys

CONSTANTS
  RingSize,     \* nslots of the transmit ring
  MaxSuspends   \* bound on suspends

ASSUME MacAssumption == RingSize \in Nat \ {0} /\ MaxSuspends \in Nat

VARIABLES
  power,      \* "awake", "asleep"
  up,         \* IFF_UP
  running,    \* B43BSD_FLAG_RUNNING
  icState,    \* ic_state
  rings,      \* the DMA rings exist
  used,       \* sc_txring.used
  fw,         \* sc_fw.running
  ps,         \* sc_ps: enabled, sleeping
  psDev,      \* what the device was told: PSCTL_ENABLED, PSSTAT is AUTOSLEEP,
              \* MACCTL_PSM_MAC_INFRA
  macOn,      \* MACCTL_ENABLED
  beacons,    \* MACCTL_BEACON_PROMISC
  promisc,    \* IFF_PROMISC
  table,      \* sc_keys
  hw,         \* the words of the hardware key table
  installed,  \* history: for each index, the key net80211 last installed
  suspends    \* suspends so far

ifVars == <<power, up, running, icState, suspends>>
psVars == <<ps, psDev, used>>
keyVars == <<table, installed>>
filterVars == <<beacons, promisc>>
vars == <<ifVars, psVars, keyVars, filterVars, rings, fw, macOn, hw>>

IcStates == {"INIT", "SCAN", "AUTH", "RUN"}

Ids == 0 .. MaxKeys - 1

PsStates == [enabled : BOOLEAN, sleeping : BOOLEAN]

(* What of power save is in the device.                                    *)
PsDevices == [ctl : BOOLEAN, autosleep : BOOLEAN, psm : BOOLEAN]

PsOff == [enabled |-> FALSE, sleeping |-> FALSE]

Awake == [ctl |-> FALSE, autosleep |-> FALSE, psm |-> FALSE]

Init ==
  /\ power = "awake"
  /\ up = FALSE
  /\ running = FALSE
  /\ icState = "INIT"
  /\ rings = FALSE
  /\ used = 0
  /\ fw = FALSE
  /\ ps = PsOff
  /\ psDev = Awake
  /\ macOn = FALSE
  /\ beacons = FALSE
  /\ promisc = FALSE
  /\ table = [s \in Slots |-> NoKey]
  /\ hw = [w \in Words |-> Zero]
  /\ installed = [i \in Ids |-> NoKey]
  /\ suspends = 0

-----------------------------------------------------------------------------
(* Power save.  A power-save state is a pair: the softc's and the device's. *)

Now == [soft |-> ps, dev |-> psDev]

(* Fault: the frames that wait are not looked at.                           *)
EnterUnchecked(s, pending) ==
  IF ~s.soft.enabled \/ s.soft.sleeping THEN s
  ELSE [soft |-> [s.soft EXCEPT !.sleeping = TRUE],
        dev |-> IF fw THEN [s.dev EXCEPT !.ctl = TRUE, !.autosleep = TRUE]
                ELSE [s.dev EXCEPT !.psm = TRUE]]

PsEnter(s, pending) ==
  IF ~s.soft.enabled \/ s.soft.sleeping \/ pending > 0 THEN s
  ELSE [soft |-> [s.soft EXCEPT !.sleeping = TRUE],
        dev |-> IF fw THEN [s.dev EXCEPT !.ctl = TRUE, !.autosleep = TRUE]
                ELSE [s.dev EXCEPT !.psm = TRUE]]

PsExit(s) ==
  IF ~s.soft.sleeping THEN s
  ELSE [soft |-> [s.soft EXCEPT !.sleeping = FALSE],
        dev |-> IF fw THEN [s.dev EXCEPT !.ctl = FALSE, !.autosleep = FALSE]
                ELSE [s.dev EXCEPT !.psm = FALSE]]

(* b43bsd_ps_init, with what the load of the firmware left in the device.  *)
PsInit(dev, loaded) ==
  [soft |-> [enabled |-> TRUE, sleeping |-> FALSE],
   dev |-> IF loaded THEN [dev EXCEPT !.ctl = TRUE, !.autosleep = FALSE] ELSE dev]

PsDeinit(s) ==
  [soft |-> PsOff,
   dev |-> IF fw THEN [PsExit(s).dev EXCEPT !.ctl = FALSE] ELSE PsExit(s).dev]

PsTxDone(s, pending) == IF pending = 0 THEN PsEnter(s, pending) ELSE s

SetPs(s) == ps' = s.soft /\ psDev' = s.dev

(* dma_tx_start posts the frame, or refuses it: no room, no rings, no map.  *)
MayPost(n, frames) == n + frames <= IF rings THEN RingSize ELSE 0

-----------------------------------------------------------------------------
(* b43bsd_init and b43bsd_stop.                                            *)

(* Uploading microcode zeroes shared memory before it can fail.            *)
FwInit(dev) == {dev, [dev EXCEPT !.ctl = FALSE, !.autosleep = FALSE]}

BringUp(dev) ==
  /\ ~running
  /\ macOn' = FALSE
  /\ fw' \in {fw, TRUE}
  /\ \E after \in FwInit(dev) :
       \/ /\ running' = TRUE
          /\ rings' = TRUE
          /\ used' = 0
          /\ SetPs(PsInit(after, fw'))
       \/ /\ UNCHANGED <<running, rings, used, ps>>   \* PHY attach or DMA init failed
          /\ psDev' = after

(* The RF kill switch, or a device that is already running.                *)
NotBroughtUp(dev) == psDev' = dev /\ UNCHANGED <<running, rings, used, fw, ps, macOn>>

BInit(dev) == BringUp(dev) \/ NotBroughtUp(dev)

BStop ==
  IF ~running THEN UNCHANGED <<running, rings, used, ps, psDev, macOn>>
  ELSE /\ SetPs(PsDeinit(Now))
       /\ rings' = FALSE
       /\ used' = 0
       /\ macOn' = FALSE
       /\ running' = FALSE

-----------------------------------------------------------------------------
(* net80211.                                                                *)

ToInit ==
  /\ power = "awake"
  /\ icState # "INIT"
  /\ icState' = "INIT"
  /\ BStop
  /\ UNCHANGED <<power, up, suspends, fw, filterVars, hw, keyVars>>

ToScan ==
  /\ power = "awake"
  /\ icState # "SCAN"
  /\ icState' = "SCAN"
  /\ IF icState = "INIT" THEN BInit(psDev)
     ELSE UNCHANGED <<running, rings, fw, psVars, macOn>>
  /\ UNCHANGED <<power, up, suspends, filterVars, hw, keyVars>>

ToAuth ==
  /\ power = "awake"
  /\ icState \in {"SCAN", "RUN"}
  /\ icState' = "AUTH"
  /\ UNCHANGED <<power, up, running, suspends, rings, fw, psVars, macOn, filterVars, hw, keyVars>>

(* The association response, handed up by b43bsd_dma_rx_process.            *)
ToRun ==
  /\ power = "awake"
  /\ running /\ rings
  /\ icState = "AUTH"
  /\ icState' = "RUN"
  /\ macOn' = TRUE
  /\ beacons' = FALSE
  /\ SetPs(PsEnter(Now, used))
  /\ UNCHANGED <<power, up, running, suspends, rings, used, fw, promisc, hw, keyVars>>

-----------------------------------------------------------------------------
(* Interrupts and the transmit path.                                       *)

Tbtt ==
  /\ power = "awake" /\ running
  /\ ps.enabled /\ ps.sleeping
  /\ SetPs(PsExit(Now))
  /\ \E frames \in {0, 1} :     \* a PS-Poll when the DTIM count is 0
       MayPost(used, frames) /\ used' = used + frames
  /\ UNCHANGED <<ifVars, rings, fw, macOn, filterVars, hw, keyVars>>

(* b43bsd_start wakes the chip before it looks at the queue.                *)
Start ==
  /\ power = "awake" /\ running
  /\ SetPs(PsExit(Now))
  /\ \E frames \in 0 .. RingSize :
       MayPost(used, frames) /\ used' = used + frames
  /\ UNCHANGED <<ifVars, rings, fw, macOn, filterVars, hw, keyVars>>

(* b43bsd_dma_tx_done, which restarts a stalled queue, then b43bsd_ps_tx_done. *)
TxDone ==
  /\ power = "awake" /\ running
  /\ \E reaped \in 0 .. used, restarts \in BOOLEAN, frames \in 0 .. RingSize :
       /\ frames > 0 => restarts
       /\ MayPost(used - reaped, frames)
       /\ used' = used - reaped + frames
       /\ SetPs(PsTxDone(IF restarts THEN PsExit(Now) ELSE Now, used'))
  /\ UNCHANGED <<ifVars, rings, fw, macOn, filterVars, hw, keyVars>>

(* b43bsd_dma_error_recover after a fatal error; when the rings cannot be  *)
(* made again, the handler's b43bsd_init returns at once.                  *)
DmaRecover ==
  /\ power = "awake" /\ running
  /\ rings' \in BOOLEAN
  /\ used' = 0
  /\ UNCHANGED <<ifVars, ps, psDev, fw, macOn, filterVars, hw, keyVars>>

-----------------------------------------------------------------------------
(* ioctl.                                                                   *)

(* b43bsd_update_promisc, by ioctl and as ic_updateprot; with the interface *)
(* stopped it only notes the flag.                                         *)
UpdatePromisc ==
  IF ~running' THEN UNCHANGED <<beacons, hw>>
  ELSE /\ beacons' = promisc'
       /\ hw' = Filtered(hw, promisc')

(* SIOCSIFFLAGS.  sc_promisc is 0 or 1 and never has the bit IFF_PROMISC,   *)
(* so the filter is updated whenever the flag is set and never when it is  *)
(* cleared.                                                                *)
Flags ==
  /\ power = "awake"
  /\ up' \in BOOLEAN /\ promisc' \in BOOLEAN
  /\ IF up' THEN BInit(psDev) ELSE BStop /\ UNCHANGED fw
  /\ IF promisc' THEN UpdatePromisc ELSE UNCHANGED <<beacons, hw>>
  /\ UNCHANGED <<power, icState, suspends, keyVars>>

UpdateProt ==
  /\ power = "awake" /\ running
  /\ UNCHANGED <<ifVars, psVars, keyVars, rings, fw, macOn, promisc>>
  /\ UpdatePromisc

-----------------------------------------------------------------------------
(* Keys.  An index of MaxKeys or more is refused and changes nothing.      *)

SetKey(k) ==
  /\ power = "awake"
  /\ k.id \in Ids
  /\ installed' = [installed EXCEPT ![k.id] = k]
  /\ IF SlotFor(table, k.id) = {} THEN UNCHANGED <<table, hw>>
     ELSE \E s \in SlotFor(table, k.id) :
            /\ table' = [table EXCEPT ![s] = k]
            /\ hw' = Programmed(hw, s, k)
  /\ UNCHANGED <<ifVars, psVars, filterVars, rings, fw, macOn>>

DeleteKey(id) ==
  /\ power = "awake"
  /\ installed' = [installed EXCEPT ![id] = NoKey]
  /\ IF Matching(table, id) = {} THEN UNCHANGED <<table, hw>>
     ELSE LET s == Min(Matching(table, id))
          IN  /\ table' = [table EXCEPT ![s] = NoKey]
              /\ hw' = Cleared(hw, s)
  /\ UNCHANGED <<ifVars, psVars, filterVars, rings, fw, macOn>>

-----------------------------------------------------------------------------
(* b43bsd_activate.                                                         *)

Suspend ==
  /\ power = "awake" /\ suspends < MaxSuspends
  /\ power' = "asleep"
  /\ suspends' = suspends + 1
  /\ macOn' = FALSE
  /\ IF running THEN rings' = FALSE /\ used' = 0 ELSE UNCHANGED <<rings, used>>
  /\ UNCHANGED <<up, running, icState, ps, psDev, fw, filterVars, table, hw, installed>>

(* What the device keeps through the suspend: all, or, after a power loss,  *)
(* nothing.  The device may lose its microcode's revision only in the second. *)
Resume ==
  /\ power = "asleep"
  /\ power' = "awake"
  /\ \E lost \in BOOLEAN :
       /\ hw' = IF lost THEN [w \in Words |-> Zero] ELSE hw
       /\ beacons' = (beacons /\ ~lost)
       /\ LET dev == IF lost THEN Awake ELSE psDev
          IN  IF up THEN BInit(dev) ELSE NotBroughtUp(dev)
  /\ icState' = IF up THEN "SCAN" ELSE icState
  /\ UNCHANGED <<up, suspends, promisc, table, installed>>

-----------------------------------------------------------------------------
Next ==
  \/ ToInit \/ ToScan \/ ToAuth \/ ToRun
  \/ Tbtt \/ Start \/ TxDone \/ DmaRecover
  \/ Flags \/ UpdateProt
  \/ \E k \in Keys : SetKey(k)
  \/ \E id \in Ids : DeleteKey(id)
  \/ Suspend \/ Resume

Spec == Init /\ [][Next]_vars

-----------------------------------------------------------------------------
TypeOK ==
  /\ power \in {"awake", "asleep"}
  /\ {up, running, rings, fw, macOn, beacons, promisc} \subseteq BOOLEAN
  /\ icState \in IcStates
  /\ used \in 0 .. RingSize
  /\ ps \in PsStates
  /\ psDev \in PsDevices
  /\ table \in KeyTables
  /\ hw \in Contents
  /\ installed \in [Ids -> Keys \cup {NoKey}]
  /\ suspends \in 0 .. MaxSuspends

(* A device told to sleep, by either of the two ways, is one the driver     *)
(* believes asleep, and so will wake before it transmits, and no frame is  *)
(* waiting in the ring of a sleeping device: b43bsd_ps_enter's early return *)
(* and the wake in b43bsd_start are enough over every handler that posts,  *)
(* reaps, stops, suspends or reloads the firmware.                         *)
SleepSafe ==
  /\ psDev.autosleep \/ psDev.psm => ps.sleeping
  /\ ps.sleeping => used = 0

(* The softc's table holds each key net80211 has installed and not deleted, *)
(* once, in its latest version, and no other: b43bsd_set_key never runs out *)
(* of slots (ENOSPC), whatever the order of sets, rekeys and deletes.       *)
KeyTableIsMap ==
  \A id \in Ids :
    LET held == Matching(table, id)
    IN  IF installed[id] = NoKey THEN held = {}
        ELSE \E s \in Slots : held = {s} /\ table[s] = installed[id]

(* Although entries overlap, a word of the hardware table that holds part  *)
(* of a key is in the entry of a slot that still holds that key: rekeying  *)
(* and b43bsd_delete_key leave no material behind.                         *)
NoKeyLeftBehind ==
  \A w \in Words :
    hw[w] \in Keys => \E s \in Slots : w \in Entry(s) /\ table[s] = hw[w]

=============================================================================
