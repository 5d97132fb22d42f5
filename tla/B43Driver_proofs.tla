---------------------------- MODULE B43Driver_proofs ----------------------------
(***************************************************************************)
(* Theorems about B43Driver for every threshold, every number of faults,    *)
(* suspends and losses, and both kinds of interrupt line.                  *)
(*                                                                         *)
(* The inductive invariant is IInv: the types and the four invariants of   *)
(* the model, with two facts about the ends of an interface's life that    *)
(* they rest on.  A machine asleep is not being detached, so resume never   *)
(* starts a driver that is going away; and a detach that has begun has no   *)
(* timeout that could start it again, only a storm timeout that an          *)
(* interrupt armed, which finds it running.                                *)
(***************************************************************************)
EXTENDS B43Driver, TLAPS

(* The parts of TypeOK.                                                    *)
BoolTypes ==
  /\ up \in BOOLEAN /\ running \in BOOLEAN /\ dma \in BOOLEAN /\ unmasked \in BOOLEAN
  /\ storm \in BOOLEAN /\ stormTo \in BOOLEAN /\ beaconTo \in BOOLEAN /\ calTo \in BOOLEAN
  /\ killed \in BOOLEAN /\ apGone \in BOOLEAN /\ unrecovered \in BOOLEAN

RangeTypes ==
  /\ life \in {"attached", "detaching", "stopping", "detached"}
  /\ power \in {"awake", "asleep"}
  /\ irq \subseteq Causes
  /\ intrCount \in 0 .. StormThresh + 1
  /\ miss \in 0 .. MissMax
  /\ icState \in IcStates
  /\ faults \in 0 .. MaxFaults
  /\ suspends \in 0 .. MaxSuspends
  /\ losses \in 0 .. MaxLosses

AsleepAttached == power = "asleep" => life = "attached"

DetachQuiet ==
  life \in {"detaching", "stopping"} => ~beaconTo /\ ~calTo /\ (stormTo => running)

LifeInv ==
  /\ AsleepAttached /\ DetachQuiet
  /\ RingsOnlyWhileRunning /\ UnmaskedServed /\ TimersOnlyWhileRunning /\ BeaconCheckArmed

IInv == BoolTypes /\ RangeTypes /\ LifeInv

-----------------------------------------------------------------------------
(* Types.                                                                  *)

(* Every handler gives each flag a truth value.                            *)
LEMMA BoolNext == BoolTypes /\ [Next]_vars => BoolTypes'
<1> SUFFICES ASSUME BoolTypes, [Next]_vars PROVE BoolTypes'
  OBVIOUS
<1> USE DEF BoolTypes, lifeVars, initVars, envVars, countVars
<1>1. CASE IfUp
  BY <1>1, Zenon DEF IfUp, DriverInit, InitSucceeds, InitFails, InitRuns, ChipInit, ChipReset
<1>2. CASE IfDown
  BY <1>2, Zenon DEF IfDown, DriverStop, ChipReset
<1>3. CASE \E n \in IcStates : NewState(n)
  BY <1>3, Zenon
     DEF NewState, DriverInit, InitSucceeds, InitFails, InitRuns, ChipInit,
         DriverStop, ChipReset
<1>4. CASE Suspend
  BY <1>4, Zenon DEF Suspend, ChipReset
<1>5. CASE Resume
  BY <1>5, Zenon DEF Resume, BroughtUp, InitSucceeds, InitFails, InitRuns, ChipInit, ChipReset
<1>6. CASE DetachBegins
  BY <1>6, Zenon DEF DetachBegins
<1>7. CASE DetachStops
  BY <1>7, Zenon DEF DetachStops
<1>8. CASE DetachEnds
  BY <1>8, Zenon DEF DetachEnds, ChipReset
<1>9. CASE IntrNotRunning
  BY <1>9, Zenon DEF IntrNotRunning, Called
<1>10. CASE IntrStorm
  BY <1>10, Zenon DEF IntrStorm, Called, Count
<1>11. CASE IntrHandles
  BY <1>11, Zenon DEF IntrHandles, Called, Count, DmaRecovers
<1>12. CASE StormTimer
  BY <1>12, Zenon
     DEF StormTimer, DriverInit, InitSucceeds, InitFails, InitRuns, ChipInit,
         ChipReset
<1>13. CASE BeaconTimer
  BY <1>13, Zenon DEF BeaconTimer, Rearm, LossDue, Missed
<1>14. CASE BeaconLost
  BY <1>14, Zenon DEF BeaconLost, LossDue, Missed
<1>15. CASE CalTimer
  BY <1>15, Zenon DEF CalTimer
<1>16. CASE HwInterrupts
  BY <1>16, Zenon DEF HwInterrupts
<1>17. CASE WorldChanges
  BY <1>17, Zenon DEF WorldChanges
<1>18. CASE UNCHANGED vars
  BY <1>18, Zenon DEF vars
<1> QED
  BY <1>1, <1>2, <1>3, <1>4, <1>5, <1>6, <1>7, <1>8, <1>9, <1>10, <1>11, <1>12, <1>13, <1>14,
     <1>15, <1>16, <1>17, <1>18 DEF Next

(* b43bsd_init keeps the types, whether it runs, fails or returns at once.  *)
LEMMA InitRange ==
  ASSUME RangeTypes, DriverInit
  PROVE  /\ irq' \subseteq Causes /\ intrCount' \in 0 .. StormThresh + 1
         /\ miss' \in 0 .. MissMax /\ faults' \in 0 .. MaxFaults
<1> USE DriverAssumption DEF RangeTypes
<1>1. CASE InitSucceeds
  BY <1>1 DEF InitSucceeds
<1>2. CASE InitFails
  BY <1>2 DEF InitFails, ChipInit, ChipReset
<1>3. CASE UNCHANGED initVars
  BY <1>3 DEF initVars
<1> QED
  BY <1>1, <1>2, <1>3 DEF DriverInit

(* Every handler keeps the counters within their bounds.                   *)
LEMMA RangeNext == RangeTypes /\ [Next]_vars => RangeTypes'
<1> SUFFICES ASSUME RangeTypes, [Next]_vars PROVE RangeTypes'
  OBVIOUS
<1> USE DriverAssumption DEF RangeTypes, IcStates, Causes, lifeVars, initVars, envVars, countVars
<1>1. CASE IfUp
  BY <1>1, InitRange DEF IfUp
<1>2. CASE IfDown
  BY <1>2 DEF IfDown, DriverStop, ChipReset
<1>3. CASE \E n \in IcStates : NewState(n)
  <2>1. PICK n \in IcStates : NewState(n)
    BY <1>3
  <2>2. CASE DriverInit
    BY <2>1, <2>2, InitRange DEF NewState
  <2>3. CASE DriverStop
    BY <2>1, <2>3 DEF NewState, DriverStop, ChipReset
  <2>4. CASE UNCHANGED initVars
    BY <2>1, <2>4 DEF NewState
  <2> QED
    BY <2>1, <2>2, <2>3, <2>4 DEF NewState
<1>4. CASE Suspend
  BY <1>4 DEF Suspend, ChipReset
<1>5. CASE Resume
  BY <1>5 DEF Resume, BroughtUp, InitSucceeds, InitFails, InitRuns, ChipInit, ChipReset
<1>6. CASE DetachBegins
  BY <1>6 DEF DetachBegins
<1>7. CASE DetachStops
  BY <1>7 DEF DetachStops
<1>8. CASE DetachEnds
  BY <1>8 DEF DetachEnds, ChipReset
<1>9. CASE IntrNotRunning
  BY <1>9 DEF IntrNotRunning, Called
<1>10. CASE IntrStorm
  BY <1>10 DEF IntrStorm, Called, Count
<1>11. CASE IntrHandles
  BY <1>11 DEF IntrHandles, Called, Count, DmaRecovers
<1>12. CASE StormTimer
  BY <1>12, InitRange DEF StormTimer
<1>13. CASE BeaconTimer
  BY <1>13 DEF BeaconTimer, Rearm, LossDue, Missed
<1>14. CASE BeaconLost
  BY <1>14 DEF BeaconLost, LossDue, Missed
<1>15. CASE CalTimer
  BY <1>15 DEF CalTimer
<1>16. CASE HwInterrupts
  BY <1>16 DEF HwInterrupts
<1>17. CASE WorldChanges
  BY <1>17 DEF WorldChanges
<1>18. CASE UNCHANGED vars
  BY <1>18 DEF vars
<1> QED
  BY <1>1, <1>2, <1>3, <1>4, <1>5, <1>6, <1>7, <1>8, <1>9, <1>10, <1>11, <1>12, <1>13, <1>14,
     <1>15, <1>16, <1>17, <1>18 DEF Next

-----------------------------------------------------------------------------
(* Handlers one after another.                                             *)

(* Rings, mask and timeouts follow the driver through every handler.       *)
LEMMA LifeNext == RangeTypes /\ LifeInv /\ [Next]_vars => LifeInv'
<1> SUFFICES ASSUME RangeTypes, LifeInv, [Next]_vars PROVE LifeInv'
  OBVIOUS
<1> USE DriverAssumption
    DEF RangeTypes, LifeInv, AsleepAttached, DetachQuiet, RingsOnlyWhileRunning, UnmaskedServed,
        TimersOnlyWhileRunning, BeaconCheckArmed, Active, lifeVars, initVars, envVars, countVars
<1>1. CASE IfUp
  BY <1>1 DEF IfUp, DriverInit, InitSucceeds, InitFails, InitRuns, ChipInit, ChipReset
<1>2. CASE IfDown
  BY <1>2 DEF IfDown, DriverStop, ChipReset
<1>3. CASE \E n \in IcStates : NewState(n)
  BY <1>3
     DEF NewState, DriverInit, InitSucceeds, InitFails, InitRuns, ChipInit,
         DriverStop, ChipReset
<1>4. CASE Suspend
  <2>1. CASE running
    BY <1>4, <2>1 DEF Suspend, ChipReset
  <2>2. CASE ~running
    BY <1>4, <2>2 DEF Suspend, ChipReset
  <2> QED
    BY <2>1, <2>2
<1>5. CASE Resume
  BY <1>5 DEF Resume, BroughtUp, InitSucceeds, InitFails, InitRuns, ChipInit, ChipReset
<1>6. CASE DetachBegins
  BY <1>6 DEF DetachBegins
<1>7. CASE DetachStops
  BY <1>7 DEF DetachStops
<1>8. CASE DetachEnds
  BY <1>8 DEF DetachEnds, ChipReset
<1>9. CASE IntrNotRunning
  BY <1>9 DEF IntrNotRunning, Called
<1>10. CASE IntrStorm
  BY <1>10 DEF IntrStorm, Called, Count
<1>11. CASE IntrHandles
  BY <1>11 DEF IntrHandles, Called, Count, DmaRecovers
<1>12. CASE StormTimer
  BY <1>12 DEF StormTimer, DriverInit, InitSucceeds, InitFails, InitRuns, ChipInit, ChipReset
<1>13. CASE BeaconTimer
  BY <1>13 DEF BeaconTimer, Rearm, LossDue, Missed
<1>14. CASE BeaconLost
  BY <1>14 DEF BeaconLost, LossDue, Missed
<1>15. CASE CalTimer
  BY <1>15 DEF CalTimer
<1>16. CASE HwInterrupts
  BY <1>16 DEF HwInterrupts
<1>17. CASE WorldChanges
  BY <1>17 DEF WorldChanges
<1>18. CASE UNCHANGED vars
  BY <1>18 DEF vars
<1> QED
  BY <1>1, <1>2, <1>3, <1>4, <1>5, <1>6, <1>7, <1>8, <1>9, <1>10, <1>11, <1>12, <1>13, <1>14,
     <1>15, <1>16, <1>17, <1>18 DEF Next

-----------------------------------------------------------------------------
(* The theorems.                                                           *)

(* The driver as b43bsd_attach leaves it satisfies the invariant.          *)
LEMMA IInvInit == Init => IInv
<1> SUFFICES ASSUME Init PROVE IInv
  OBVIOUS
<1>1. BoolTypes
  BY Zenon DEF Init, BoolTypes
<1>2. RangeTypes
  BY DriverAssumption DEF Init, RangeTypes, IcStates, Causes
<1>3. LifeInv
  BY DEF Init, LifeInv, AsleepAttached, DetachQuiet, RingsOnlyWhileRunning, UnmaskedServed,
         TimersOnlyWhileRunning, BeaconCheckArmed
<1> QED
  BY <1>1, <1>2, <1>3 DEF IInv

(* The invariant holds in every reachable state.                           *)
THEOREM Invariant == Spec => []IInv
<1>1. IInv /\ [Next]_vars => IInv'
  BY BoolNext, RangeNext, LifeNext DEF IInv
<1> QED
  BY IInvInit, <1>1, PTL DEF Spec

(* Every flag is a truth value and every counter stays within its bound:    *)
(* TypeOK.                                                                 *)
THEOREM TypeCorrect == Spec => []TypeOK
<1>1. IInv => TypeOK
  <2>1. BoolTypes => /\ {up, running, dma, unmasked, storm, stormTo, beaconTo, calTo} \subseteq BOOLEAN
                     /\ {killed, apGone, unrecovered} \subseteq BOOLEAN
    BY DEF BoolTypes
  <2> QED
    BY <2>1 DEF IInv, RangeTypes, TypeOK
<1> QED
  BY <1>1, Invariant, PTL

(* Whoever calls b43bsd_init and b43bsd_stop, and however often, rings      *)
(* exist only under a running driver or after a detach that a DMA error     *)
(* interrupted: RingsOnlyWhileRunning.                                     *)
THEOREM RingsSafe == Spec => []RingsOnlyWhileRunning
  BY Invariant, PTL DEF IInv, LifeInv

(* A device that may interrupt has a running driver, with rings unless a    *)
(* DMA recovery failed: UnmaskedServed.                                    *)
THEOREM MaskSafe == Spec => []UnmaskedServed
  BY Invariant, PTL DEF IInv, LifeInv

(* No beacon or calibration timeout outlives the driver's running, through  *)
(* stops, suspends, and a detach between whose steps an interrupt comes:    *)
(* TimersOnlyWhileRunning.                                                 *)
THEOREM TimersSafe == Spec => []TimersOnlyWhileRunning
  BY Invariant, PTL DEF IInv, LifeInv

(* Until a first loss or a suspend a running driver watches its beacons:    *)
(* BeaconCheckArmed.                                                       *)
THEOREM BeaconsWatched == Spec => []BeaconCheckArmed
  BY Invariant, PTL DEF IInv, LifeInv

(* No handler but b43bsd_storm_recover starts the driver of an interface    *)
(* that is down: net80211 only stops it and resume asks for IFF_UP:         *)
(* OnlyStormStartsDown.                                                    *)
THEOREM DownStaysDown == Spec => OnlyStormStartsDown
<1>1. [Next]_vars => [(~up' /\ ~running /\ running') => (stormTo /\ ~stormTo')]_vars
  <2> SUFFICES ASSUME Next, ~up', ~running, running'
      PROVE  stormTo /\ ~stormTo'
    OBVIOUS
  <2> USE DEF Active, lifeVars, initVars, envVars, countVars
  <2>1. ~IfUp /\ ~IfDown
    BY DEF IfUp, IfDown, DriverStop
  <2>2. ~\E n \in IcStates : NewState(n)
    <3> SUFFICES ASSUME NEW n \in IcStates, NewState(n) PROVE FALSE
      OBVIOUS
    <3>1. n = "INIT"
      <4>1. up' = up
        BY DEF NewState
      <4>2. up \/ n = "INIT"
        BY Zenon DEF NewState
      <4> QED
        BY <4>1, <4>2
    <3>2. DriverStop
      BY <3>1 DEF NewState
    <3> QED
      BY <3>2, Zenon DEF DriverStop
  <2>3. ~Suspend
    BY DEF Suspend
  <2>9. ~Resume
    <3> SUFFICES ASSUME Resume PROVE FALSE
      OBVIOUS
    <3>1. up' = up
      BY DEF Resume
    <3>2. ~up
      BY <3>1
    <3>3. UNCHANGED <<running, dma, beaconTo, calTo, miss, faults, unrecovered>>
      BY <3>2, Zenon DEF Resume, BroughtUp
    <3> QED
      BY <3>3
  <2>4. ~DetachBegins /\ ~DetachStops /\ ~DetachEnds
    BY DEF DetachBegins, DetachStops, DetachEnds
  <2>5. ~IntrNotRunning /\ ~IntrStorm /\ ~IntrHandles
    BY DEF IntrNotRunning, IntrStorm, IntrHandles
  <2>6. ~BeaconTimer /\ ~BeaconLost /\ ~CalTimer
    BY DEF BeaconTimer, BeaconLost, CalTimer
  <2>7. ~HwInterrupts /\ ~WorldChanges
    BY DEF HwInterrupts, WorldChanges
  <2>8. StormTimer
    BY <2>1, <2>2, <2>3, <2>4, <2>5, <2>6, <2>7, <2>9 DEF Next
  <2> QED
    BY <2>8 DEF StormTimer
<1> QED
  BY <1>1, PTL DEF Spec, OnlyStormStartsDown

=============================================================================
