------------------------------ MODULE B43Driver ------------------------------
(***************************************************************************)
(* The life of the interface (pci/b43bsd.c): b43bsd_init and b43bsd_stop,   *)
(* who calls them (ioctl, net80211, suspend and resume, the storm timer),  *)
(* the interrupt mask, the three timeouts and the beacon and storm counters. *)
(*                                                                         *)
(* A handler is one step.  A handler that fails half way is one step with  *)
(* its failed outcome.                                                     *)
(***************************************************************************)
EXTENDS Integers

CONSTANTS
  StormThresh,   \* B43BSD_IRQ_STORM_THRESH
  MissMax,       \* B43BSD_BEACON_MISS_MAX
  StormReset,    \* b43bsd_storm_reset
  SharedLine,    \* another device shares the interrupt line
  MaxFaults,     \* bound on failed initialisations and failed DMA recoveries
  MaxSuspends,   \* bound on suspends
  MaxLosses      \* bound on beacon losses counted (losses saturates there)

ASSUME DriverAssumption ==
  /\ StormThresh \in Nat
  /\ MissMax \in Nat \ {0}
  /\ StormReset \in BOOLEAN
  /\ SharedLine \in BOOLEAN
  /\ MaxFaults \in Nat
  /\ MaxSuspends \in Nat
  /\ MaxLosses \in Nat \ {0}

VARIABLES
  life,       \* "attached", "detaching" (its timeouts are deleted), "stopping" (its
              \* rings are freed), "detached"
  power,      \* "awake", "asleep"
  up,         \* IFF_UP
  running,    \* B43BSD_FLAG_RUNNING and IFF_RUNNING, always set together
  dma,        \* whether the rings exist and the engines run
  unmasked,   \* GEN_IRQ_MASK is B43_IRQ_MASK_NORMAL
  irq,        \* the causes latched in GEN_IRQ_REASON
  intrCount,  \* sc_intr_count, saturating just above the threshold
  storm,      \* sc_irq_storm
  stormTo,    \* sc_storm_to is armed
  beaconTo,   \* sc_beacon_to is armed
  calTo,      \* sc_cal_to is armed
  miss,       \* sc_beacon_miss, saturating at MissMax
  icState,    \* ic_state
  killed,     \* the RF kill switch
  apGone,     \* the access point has stopped sending beacons
  faults, suspends, losses,  \* faults, suspends and losses so far
  unrecovered \* the last DMA recovery since the last initialisation failed

lifeVars  == <<life, power>>
initVars  == <<running, dma, unmasked, irq, intrCount, storm, beaconTo, calTo, miss,
               faults, unrecovered>>
envVars   == <<killed, apGone>>
countVars == <<suspends, losses>>
vars == <<lifeVars, initVars, stormTo, up, icState, envVars, countVars>>

IcStates == {"INIT", "SCAN", "AUTH", "ASSOC", "RUN"}

Causes == {"BEACON", "DMA", "OTHER"}

Active == life # "detached" /\ power = "awake"

(* After b43bsd_attach at level 6.                                         *)
Init ==
  /\ life = "attached"
  /\ power = "awake"
  /\ up = FALSE
  /\ running = FALSE
  /\ dma = FALSE
  /\ unmasked = FALSE
  /\ irq = {}
  /\ intrCount = 0
  /\ storm = FALSE
  /\ stormTo = FALSE
  /\ beaconTo = FALSE
  /\ calTo = FALSE
  /\ miss = 0
  /\ icState = "INIT"
  /\ killed \in BOOLEAN
  /\ apGone = FALSE
  /\ faults = 0
  /\ suspends = 0
  /\ losses = 0
  /\ unrecovered = FALSE

-----------------------------------------------------------------------------
(* b43bsd_init and b43bsd_stop, as their callers see them.                 *)

(* Fault: the mask is left as it is.                                       *)
ResetLeavesMask == irq' = {} /\ UNCHANGED unmasked

(* b43bsd_chip_reset: mask and acknowledge.                                *)
ChipReset == unmasked' = FALSE /\ irq' = {}

(* b43bsd_chip_init: the same, and forget the storm.                       *)
ChipInit == ChipReset /\ intrCount' = 0 /\ storm' = FALSE

InitSucceeds ==
  /\ running' = TRUE
  /\ dma' = TRUE
  /\ unmasked' = TRUE
  /\ irq' = {}
  /\ intrCount' = 0
  /\ storm' = FALSE
  /\ beaconTo' = TRUE
  /\ calTo' = TRUE
  /\ miss' = 0
  /\ unrecovered' = FALSE
  /\ UNCHANGED faults

(* The PHY or the DMA rings could not be set up: b43bsd_chip_reset.        *)
InitFails ==
  /\ faults < MaxFaults
  /\ faults' = faults + 1
  /\ ChipInit
  /\ UNCHANGED <<running, dma, beaconTo, calTo, miss, unrecovered>>

InitRuns == ~running /\ ~killed

(* b43bsd_init: it returns at once while the driver runs or is killed.     *)
DriverInit ==
  \/ InitRuns /\ (InitSucceeds \/ InitFails)
  \/ ~InitRuns /\ UNCHANGED initVars

(* Fault: the calibration timeout is left armed.                           *)
StopKeepsCal ==
  IF running
  THEN /\ ChipReset
       /\ beaconTo' = FALSE
       /\ dma' = FALSE
       /\ running' = FALSE
       /\ UNCHANGED <<intrCount, storm, calTo, miss, faults, unrecovered>>
  ELSE UNCHANGED initVars

(* Fault: the rings are left to the device.                                *)
StopKeepsDma ==
  IF running
  THEN /\ ChipReset
       /\ beaconTo' = FALSE
       /\ calTo' = FALSE
       /\ running' = FALSE
       /\ UNCHANGED <<dma, intrCount, storm, miss, faults, unrecovered>>
  ELSE UNCHANGED initVars

(* b43bsd_stop.  The storm timeout stays armed.                            *)
DriverStop ==
  IF running
  THEN /\ ChipReset
       /\ beaconTo' = FALSE
       /\ calTo' = FALSE
       /\ dma' = FALSE
       /\ running' = FALSE
       /\ UNCHANGED <<intrCount, storm, miss, faults, unrecovered>>
  ELSE UNCHANGED initVars

-----------------------------------------------------------------------------
(* The callers: b43bsd_ioctl and b43bsd_newstate.                          *)

IfUp ==
  /\ Active
  /\ life = "attached"
  /\ up' = TRUE
  /\ DriverInit
  /\ UNCHANGED <<lifeVars, stormTo, icState, envVars, countVars>>

IfDown ==
  /\ Active
  /\ life = "attached"
  /\ up' = FALSE
  /\ DriverStop
  /\ UNCHANGED <<lifeVars, stormTo, icState, envVars, countVars>>

(* net80211 goes back to INIT or SCAN from anywhere and forward otherwise.  *)
Successors(s) ==
  CASE s = "SCAN"  -> {"INIT", "AUTH"}
    [] s = "AUTH"  -> {"INIT", "SCAN", "ASSOC"}
    [] s = "ASSOC" -> {"INIT", "SCAN", "RUN"}
    [] OTHER       -> {"INIT", "SCAN"} \ {s}

(* b43bsd_newstate; a change to the state it is in already does nothing.    *)
NewState(n) ==
  /\ Active
  /\ life = "attached"
  /\ up \/ n = "INIT"
  /\ n \in Successors(icState)
  /\ icState' = n
  /\ \/ n = "INIT" /\ DriverStop
     \/ n = "SCAN" /\ icState = "INIT" /\ DriverInit
     \/ n # "INIT" /\ <<n, icState>> # <<"SCAN", "INIT">> /\ UNCHANGED initVars
  /\ UNCHANGED <<lifeVars, stormTo, up, envVars, countVars>>

-----------------------------------------------------------------------------
(* b43bsd_activate.                                                        *)

Suspend ==
  /\ Active
  /\ life = "attached"
  /\ suspends < MaxSuspends
  /\ suspends' = suspends + 1
  /\ power' = "asleep"
  /\ ChipReset
  /\ dma' = (dma /\ ~running)
  /\ beaconTo' = (beaconTo /\ ~running)
  /\ stormTo' = (stormTo /\ ~running)
  /\ UNCHANGED <<life, running, intrCount, storm, calTo, miss, faults, unrecovered,
                 up, icState, envVars, losses>>

(* Fault: the test of IFF_UP is missing.                                   *)
BroughtUpAlways == TRUE

BroughtUp == up

(* b43bsd_chip_init runs in any case; b43bsd_init only adds to it when it   *)
(* does not return at once.  From INIT b43bsd_newstate would call it again. *)
Resume ==
  /\ power = "asleep"
  /\ power' = "awake"
  /\ IF BroughtUp /\ InitRuns
     THEN InitSucceeds \/ InitFails
     ELSE ChipInit
          /\ UNCHANGED <<running, dma, beaconTo, calTo, miss, faults, unrecovered>>
  /\ icState' = IF BroughtUp THEN "SCAN" ELSE icState
  /\ UNCHANGED <<life, stormTo, up, envVars, countVars>>

(* b43bsd_detach deletes the timeouts, then b43bsd_stop masks the device    *)
(* and frees the rings, then resets the chip and clears the flags.  Nothing *)
(* blocks interrupts: one can be taken between any two of these.           *)
DetachBegins ==
  /\ Active
  /\ life = "attached"
  /\ life' = "detaching"
  /\ stormTo' = FALSE
  /\ beaconTo' = FALSE
  /\ calTo' = FALSE
  /\ UNCHANGED <<power, running, dma, unmasked, irq, intrCount, storm, miss, faults,
                 unrecovered, up, icState, envVars, countVars>>

DetachStops ==
  /\ Active
  /\ life = "detaching"
  /\ life' = "stopping"
  /\ unmasked' = (unmasked /\ ~running)
  /\ dma' = (dma /\ ~running)
  /\ beaconTo' = (beaconTo /\ ~running)
  /\ calTo' = (calTo /\ ~running)
  /\ UNCHANGED <<power, running, irq, intrCount, storm, miss, faults, unrecovered,
                 stormTo, up, icState, envVars, countVars>>

DetachEnds ==
  /\ Active
  /\ life = "stopping"
  /\ life' = "detached"
  /\ running' = FALSE
  /\ IF running THEN ChipReset ELSE UNCHANGED <<unmasked, irq>>
  /\ UNCHANGED <<power, dma, intrCount, storm, beaconTo, calTo, miss, faults, unrecovered,
                 stormTo, up, icState, envVars, countVars>>

-----------------------------------------------------------------------------
(* b43bsd_intr.  A masked device is still asked when another device on the *)
(* line interrupts.                                                        *)

Called == Active /\ irq # {} /\ (unmasked \/ SharedLine)

(* Not running: mask and leave.                                            *)
IntrNotRunning ==
  /\ Called
  /\ ~running
  /\ unmasked' = FALSE
  /\ UNCHANGED <<lifeVars, running, dma, irq, intrCount, storm, beaconTo, calTo, miss,
                 faults, unrecovered, stormTo, up, icState, envVars, countVars>>

(* Every interrupt counts; nothing but b43bsd_chip_init resets the count.   *)
Count == IF intrCount > StormThresh THEN intrCount ELSE intrCount + 1

IntrStorm ==
  /\ Called
  /\ running
  /\ Count > StormThresh
  /\ intrCount' = Count
  /\ storm' = TRUE
  /\ stormTo' = (stormTo \/ (StormReset /\ ~storm))
  /\ unmasked' = FALSE
  /\ UNCHANGED <<lifeVars, running, dma, irq, beaconTo, calTo, miss, faults,
                 unrecovered, up, icState, envVars, countVars>>

(* b43bsd_dma_error_recover restarts the engines or, after a fatal error,   *)
(* rebuilds the rings; when that fails it leaves none, and the b43bsd_init  *)
(* called then returns at once because the driver runs.                    *)
DmaRecovers ==
  \/ UNCHANGED <<dma, faults, unrecovered>>
  \/ /\ "DMA" \in irq
     /\ dma' = TRUE
     /\ unrecovered' = FALSE
     /\ UNCHANGED faults
  \/ /\ "DMA" \in irq
     /\ faults < MaxFaults
     /\ faults' = faults + 1
     /\ dma' = FALSE
     /\ unrecovered' = TRUE

IntrHandles ==
  /\ Called
  /\ running
  /\ Count <= StormThresh
  /\ intrCount' = Count
  /\ irq' = {}
  /\ miss' = IF "BEACON" \in irq THEN 0 ELSE miss
  /\ DmaRecovers
  /\ UNCHANGED <<lifeVars, running, unmasked, storm, beaconTo, calTo, stormTo, up,
                 icState, envVars, countVars>>

-----------------------------------------------------------------------------
(* The timeouts.                                                           *)

(* b43bsd_storm_recover                                                    *)
StormTimer ==
  /\ Active
  /\ stormTo
  /\ stormTo' = FALSE
  /\ DriverInit
  /\ UNCHANGED <<lifeVars, up, icState, envVars, countVars>>

Missed == IF miss < MissMax THEN miss + 1 ELSE miss

(* Fault: a loss is only noticed while scanning.                           *)
LossDueInScan == running /\ Missed >= MissMax /\ icState = "SCAN"

LossDue == running /\ Missed >= MissMax /\ icState = "RUN"

(* Fault: the check re-arms itself only when no beacon was missed.         *)
RearmAfterBeacon == miss = 0

Rearm == running

(* b43bsd_beacon_check that does not report a loss.                        *)
BeaconTimer ==
  /\ Active
  /\ beaconTo
  /\ ~LossDue
  /\ beaconTo' = Rearm
  /\ miss' = IF running THEN Missed ELSE miss
  /\ UNCHANGED <<lifeVars, running, dma, unmasked, irq, intrCount, storm, calTo, faults,
                 unrecovered, stormTo, up, icState, envVars, countVars>>

(* It reports a loss, starts a scan and returns without re-arming.         *)
BeaconLost ==
  /\ Active
  /\ beaconTo
  /\ LossDue
  /\ beaconTo' = FALSE
  /\ miss' = Missed
  /\ icState' = "SCAN"
  /\ losses' = IF losses < MaxLosses THEN losses + 1 ELSE losses
  /\ UNCHANGED <<lifeVars, running, dma, unmasked, irq, intrCount, storm, calTo, faults,
                 unrecovered, stormTo, up, envVars, suspends>>

(* b43bsd_periodic_cal                                                     *)
CalTimer ==
  /\ Active
  /\ calTo
  /\ calTo' = running
  /\ UNCHANGED <<lifeVars, running, dma, unmasked, irq, intrCount, storm, beaconTo, miss,
                 faults, unrecovered, stormTo, up, icState, envVars, countVars>>

-----------------------------------------------------------------------------
(* The device and the world.                                               *)

HwInterrupts ==
  /\ Active
  /\ \E c \in Causes :
       /\ c = "BEACON" => ~apGone
       /\ c = "DMA" => dma
       /\ irq' = irq \cup {c}
  /\ UNCHANGED <<lifeVars, running, dma, unmasked, intrCount, storm, beaconTo, calTo,
                 miss, faults, unrecovered, stormTo, up, icState, envVars, countVars>>

WorldChanges ==
  /\ \/ killed' = ~killed /\ UNCHANGED apGone
     \/ apGone' = ~apGone /\ UNCHANGED killed
  /\ UNCHANGED <<lifeVars, initVars, stormTo, up, icState, countVars>>

-----------------------------------------------------------------------------
Next ==
  \/ IfUp
  \/ IfDown
  \/ \E n \in IcStates : NewState(n)
  \/ Suspend
  \/ Resume
  \/ DetachBegins
  \/ DetachStops
  \/ DetachEnds
  \/ IntrNotRunning
  \/ IntrStorm
  \/ IntrHandles
  \/ StormTimer
  \/ BeaconTimer
  \/ BeaconLost
  \/ CalTimer
  \/ HwInterrupts
  \/ WorldChanges

Spec == Init /\ [][Next]_vars

(* Armed timeouts fire and a detach that has begun ends.                   *)
Fairness ==
  /\ WF_vars(StormTimer)
  /\ WF_vars(BeaconTimer \/ BeaconLost)
  /\ WF_vars(DetachStops)
  /\ WF_vars(DetachEnds)

FairSpec == Spec /\ Fairness

-----------------------------------------------------------------------------
(* Properties.                                                             *)

(* Every variable has its type: the one type invariant of this module.     *)
TypeOK ==
  /\ life \in {"attached", "detaching", "stopping", "detached"}
  /\ power \in {"awake", "asleep"}
  /\ {up, running, dma, unmasked, storm, stormTo, beaconTo, calTo} \subseteq BOOLEAN
  /\ {killed, apGone, unrecovered} \subseteq BOOLEAN
  /\ irq \subseteq Causes
  /\ intrCount \in 0 .. StormThresh + 1
  /\ miss \in 0 .. MissMax
  /\ icState \in IcStates
  /\ faults \in 0 .. MaxFaults
  /\ suspends \in 0 .. MaxSuspends
  /\ losses \in 0 .. MaxLosses

(* Rings exist only under a running driver.  b43bsd_dma_init clears the     *)
(* softc's rings without looking, so this is why b43bsd_init never leaks    *)
(* rings the device still uses, whoever calls it and however often.  Only a *)
(* DMA error taken in the middle of a detach can leave rings behind.       *)
RingsOnlyWhileRunning == dma => running \/ life = "detached"

(* The device may interrupt only while the handler has rings to work on,   *)
(* through every stop, suspend, resume and detach; a failed DMA recovery   *)
(* is the one exception.                                                   *)
UnmaskedServed == unmasked => running /\ (dma \/ unrecovered)

(* The beacon and calibration timeouts are armed only for a running        *)
(* driver, so neither fires on hardware that was stopped or detached.      *)
TimersOnlyWhileRunning == beaconTo \/ calTo => running

(* Until a first loss is reported or the machine sleeps, a running driver  *)
(* always has its beacon check armed.                                      *)
BeaconCheckArmed ==
  running /\ life = "attached" /\ losses = 0 /\ suspends = 0 => beaconTo

(* An interface that is administratively down is started by nothing but a  *)
(* storm timeout that b43bsd_stop has left armed.                          *)
OnlyStormStartsDown ==
  [][(~up' /\ ~running /\ running') => (stormTo /\ ~stormTo')]_vars

(* The first loss of the access point is noticed, interrupt storms, failed *)
(* recoveries and restarts of the interface notwithstanding.               *)
WatchedInRun == running /\ icState = "RUN" /\ apGone /\ life = "attached"

FirstLossReported ==
  (WatchedInRun /\ losses = 0 /\ suspends = 0) ~> (~WatchedInRun \/ losses + suspends > 0)

(* "Periodic beacon check: called every beacon interval. Increments miss   *)
(* counter; reports loss to net80211 if threshold exceeded."               *)
LossReported == WatchedInRun ~> ~WatchedInRun

(* "Use the sysctl hw.b43bsd.reset_on_storm to auto-recover" (b43bsd.4):    *)
(* with it set, a running driver gets out of a storm.                      *)
StormRecovered == (running /\ storm) ~> ~(running /\ storm)

(* "Post-resume: re-enable PCI, re-init chip, re-load firmware if needed,   *)
(* re-init DMA, and trigger re-association."                               *)
ResumeReinitsDma == [][(Resume /\ running') => dma']_vars

=============================================================================
