----------------------------- MODULE B43RegAccess -----------------------------
(***************************************************************************)
(* Register accesses of several steps, and the interrupt handler that may  *)
(* run between any two of them.                                            *)
(*                                                                         *)
(* b43bsd_beacon_check and b43bsd_periodic_cal run from the soft clock and *)
(* do not raise the priority: their PHY accesses (ic/b43bsd_phy_n.c), which *)
(* on a 16 KB BAR0 remap the whole window (ic/ssb.c), and their firmware   *)
(* commands (ic/b43bsd_fw.c), an address and a data register at a time, can *)
(* be interrupted.  The handler runs to its end and is one step.  It is    *)
(* modelled while the interface runs; B43Driver has the other cases.       *)
(*                                                                         *)
(* The firmware is external: it takes a command and answers when it likes. *)
(***************************************************************************)
EXTENDS Integers, Sequences

CONSTANTS
  StormThresh,  \* B43BSD_IRQ_STORM_THRESH
  Polls,        \* polls of the status before a command times out (50)
  MaxCmds       \* bound on commands sent

ASSUME RegAccessAssumption ==
  StormThresh \in Nat /\ Polls \in Nat \ {0} /\ MaxCmds \in Nat

VARIABLES
  shared,     \* another device shares the interrupt line
  irq,        \* GEN_IRQ_REASON is not 0
  unmasked,   \* GEN_IRQ_MASK is not 0
  intrCount,  \* sc_intr_count, saturating above the threshold
  storm,      \* sc_irq_storm
  window,     \* the core BAR0 shows: "MAC", "PHY"
  pc,         \* what the soft clock's code does next
  savedMask, savedWindow,  \* old_mask, old_win
  shm,        \* the cells of shared memory
  shmAddr,    \* SHM_CONTROL: the cell SHM_DATA shows
  op,         \* the next write of the command, past the last while it polls
  polls,      \* polls done
  cmd,        \* the last command sent
  fwJob,      \* the command the firmware works on, or 0
  finished,   \* history: the commands the firmware has finished
  phantom,    \* history: the handler has read and acknowledged the wrong core
  split,      \* history: the handler came between an address and its data
  timedOut    \* history: a command has timed out

irqVars == <<shared, irq, unmasked, intrCount, storm, phantom>>
phyVars == <<window, savedMask, savedWindow>>
cmdVars == <<op, polls, cmd, timedOut>>
fwVars == <<fwJob, finished>>
vars == <<irqVars, phyVars, cmdVars, fwVars, pc, shm, shmAddr, split>>

Cells == {"ARG0", "ARG1", "STAT", "CMD", "PS"}

(* Fault: the status is cleared after the command is written.               *)
StatusLast == <<"ARG0", "ARG1", "CMD", "STAT">>

(* The writes of b43bsd_fw_cmd: "Clear status, then write command".         *)
FwWrites == <<"ARG0", "ARG1", "STAT", "CMD">>

Written(cell) == IF cell = "STAT" THEN 0 ELSE cmd

Cmds == 1 .. MaxCmds

AccessSteps == {"save", "mask", "switch", "access", "restore", "unmask"}

CmdSteps == {"address", "data"}

Init ==
  /\ shared \in BOOLEAN
  /\ irq = FALSE
  /\ unmasked = TRUE
  /\ intrCount = 0
  /\ storm = FALSE
  /\ window = "MAC"
  /\ pc = "idle"
  /\ savedMask = TRUE
  /\ savedWindow = "MAC"
  /\ shm = [c \in Cells |-> 0]
  /\ shmAddr = "PS"
  /\ op = 1
  /\ polls = 0
  /\ cmd = 0
  /\ fwJob = 0
  /\ finished = {}
  /\ phantom = FALSE
  /\ split = FALSE
  /\ timedOut = FALSE

-----------------------------------------------------------------------------
(* nphy_read and nphy_write behind a 16 KB window.                          *)

(* The core's registers are reached only while BAR0 shows it.              *)
SetMask(on) == unmasked' = IF window = "MAC" THEN on ELSE unmasked

Goes(from, to) == pc = from /\ pc' = to

BeginAccess ==
  /\ Goes("idle", "save")
  /\ UNCHANGED <<irqVars, phyVars, cmdVars, fwVars, shm, shmAddr, split>>

(* Fault: the mask is saved after it has been cleared.                      *)
SaveMaskLate ==
  /\ Goes("save", "mask")
  /\ savedMask' = FALSE
  /\ UNCHANGED <<irqVars, window, savedWindow, cmdVars, fwVars, shm, shmAddr, split>>

SaveMask ==
  /\ Goes("save", "mask")
  /\ savedMask' = unmasked
  /\ UNCHANGED <<irqVars, window, savedWindow, cmdVars, fwVars, shm, shmAddr, split>>

(* Fault: the window is switched with the core unmasked.                    *)
MaskStaysOn ==
  /\ Goes("mask", "switch")
  /\ UNCHANGED <<irqVars, phyVars, cmdVars, fwVars, shm, shmAddr, split>>

MaskOff ==
  /\ Goes("mask", "switch")
  /\ SetMask(FALSE)
  /\ UNCHANGED <<shared, irq, intrCount, storm, phantom, phyVars, cmdVars, fwVars,
                 shm, shmAddr, split>>

WindowSwitch ==
  /\ Goes("switch", "access")
  /\ savedWindow' = window
  /\ window' = "PHY"
  /\ UNCHANGED <<irqVars, savedMask, cmdVars, fwVars, shm, shmAddr, split>>

Access ==
  /\ Goes("access", "restore")
  /\ UNCHANGED <<irqVars, phyVars, cmdVars, fwVars, shm, shmAddr, split>>

WindowRestore ==
  /\ Goes("restore", "unmask")
  /\ window' = savedWindow
  /\ UNCHANGED <<irqVars, savedMask, savedWindow, cmdVars, fwVars, shm, shmAddr, split>>

Unmask ==
  /\ Goes("unmask", "idle")
  /\ SetMask(savedMask)
  /\ UNCHANGED <<shared, irq, intrCount, storm, phantom, phyVars, cmdVars, fwVars,
                 shm, shmAddr, split>>

-----------------------------------------------------------------------------
(* b43bsd_fw_cmd.                                                           *)

Polling == op > Len(FwWrites)

FwCmd ==
  /\ cmd < MaxCmds
  /\ Goes("idle", "address")
  /\ cmd' = cmd + 1
  /\ op' = 1
  /\ polls' = 0
  /\ UNCHANGED <<irqVars, phyVars, timedOut, fwVars, shm, shmAddr, split>>

ShmAddress ==
  /\ Goes("address", "data")
  /\ shmAddr' = IF Polling THEN "STAT" ELSE FwWrites[op]
  /\ UNCHANGED <<irqVars, phyVars, cmdVars, fwVars, shm, split>>

ShmWrite ==
  /\ ~Polling
  /\ Goes("data", "address")
  /\ shm' = [shm EXCEPT ![shmAddr] = Written(FwWrites[op])]
  /\ op' = op + 1
  /\ UNCHANGED <<irqVars, phyVars, polls, cmd, timedOut, fwVars, shmAddr, split>>

CmdDone ==
  /\ Polling /\ shm[shmAddr] # 0
  /\ Goes("data", "idle")
  /\ UNCHANGED <<irqVars, phyVars, cmdVars, fwVars, shm, shmAddr, split>>

CmdPolls ==
  /\ Polling /\ shm[shmAddr] = 0
  /\ polls' = polls + 1
  /\ Goes("data", IF polls' < Polls THEN "address" ELSE "idle")
  /\ timedOut' = (timedOut \/ polls' = Polls)
  /\ UNCHANGED <<irqVars, phyVars, op, cmd, fwVars, shm, shmAddr, split>>

-----------------------------------------------------------------------------
(* The firmware.                                                            *)

FwTakes ==
  /\ fwJob = 0 /\ shm["CMD"] # 0
  /\ fwJob' = shm["CMD"]
  /\ shm' = [shm EXCEPT !["CMD"] = 0]
  /\ UNCHANGED <<irqVars, phyVars, cmdVars, pc, finished, shmAddr, split>>

FwAnswers ==
  /\ fwJob # 0
  /\ fwJob' = 0
  /\ finished' = finished \cup {fwJob}
  /\ shm' = [shm EXCEPT !["STAT"] = 1]
  /\ UNCHANGED <<irqVars, phyVars, cmdVars, pc, shmAddr, split>>

-----------------------------------------------------------------------------
(* b43bsd_intr.                                                             *)

Raise ==
  /\ ~irq
  /\ irq' = TRUE
  /\ UNCHANGED <<shared, unmasked, intrCount, storm, phantom, phyVars, cmdVars, fwVars,
                 pc, shm, shmAddr, split>>

Delivered == shared \/ (irq /\ unmasked)

(* The reason read: of the core, or, from the PHY, any value.               *)
ReasonRead == IF window = "MAC" THEN {irq} ELSE BOOLEAN

(* A TBTT moves the sleep state in shared memory, through the same address *)
(* register, and so may leave any value in its cells.  The PHY accesses a  *)
(* change of state makes restore the mask and the window they find.        *)
Served ==
  /\ irq' = IF window = "MAC" THEN FALSE ELSE irq
  /\ \/ UNCHANGED <<shm, shmAddr, split>>
     \/ /\ window = "MAC"
        /\ \E v \in {0, 1} : shm' = [shm EXCEPT !["PS"] = v]
        /\ shmAddr' = "PS"
        /\ split' = (split \/ pc = "data")

Intr ==
  /\ Delivered
  /\ TRUE \in ReasonRead
  /\ phantom' = (phantom \/ window = "PHY")
  /\ intrCount' = IF intrCount > StormThresh THEN intrCount ELSE intrCount + 1
  /\ IF intrCount' > StormThresh
     THEN storm' = TRUE /\ SetMask(FALSE) /\ UNCHANGED <<irq, shm, shmAddr, split>>
     ELSE Served /\ UNCHANGED <<unmasked, storm>>
  /\ UNCHANGED <<shared, phyVars, cmdVars, fwVars, pc>>

-----------------------------------------------------------------------------
Next ==
  \/ BeginAccess \/ SaveMask \/ MaskOff \/ WindowSwitch \/ Access \/ WindowRestore \/ Unmask
  \/ FwCmd \/ ShmAddress \/ ShmWrite \/ CmdDone \/ CmdPolls
  \/ FwTakes \/ FwAnswers
  \/ Raise \/ Intr

Spec == Init /\ [][Next]_vars

-----------------------------------------------------------------------------
TypeOK ==
  /\ {shared, irq, unmasked, storm, savedMask, phantom, split, timedOut} \subseteq BOOLEAN
  /\ intrCount \in 0 .. StormThresh + 1
  /\ {window, savedWindow} \subseteq {"MAC", "PHY"}
  /\ pc \in {"idle"} \cup AccessSteps \cup CmdSteps
  /\ shm \in [Cells -> 0 .. MaxCmds + 1]
  /\ shmAddr \in Cells
  /\ op \in 1 .. 5
  /\ polls \in 0 .. Polls
  /\ {cmd, fwJob} \subseteq 0 .. MaxCmds
  /\ finished \subseteq Cmds

(* nphy_read's comment: an interrupt taken while BAR0 shows the PHY would   *)
(* have the handler read garbage and acknowledge a phantom interrupt.      *)
(* Masking the core prevents it, but only on a line of its own: on a shared *)
(* line, which b43bsd_intr says is common, the handler runs all the same.  *)
PhantomOnlyIfShared == phantom => shared

(* An access leaves the window and the mask as they have to be, however    *)
(* many interrupts came in between: outside an access BAR0 shows the MAC,  *)
(* and the core's interrupts are off only because a storm turned them off. *)
AccessRestores ==
  pc \notin AccessSteps => window = "MAC" /\ (unmasked \/ storm)

(* While b43bsd_fw_cmd polls, the status is set if and only if the firmware *)
(* has finished this very command: the order "clear status, then write     *)
(* command" neither loses an answer nor believes an old one.  A command    *)
(* carries nothing to tell its answer from another's, so this ends when an *)
(* earlier command has timed out and may answer late, or when the handler  *)
(* has moved the address register between an address and its data.         *)
StatusTellsTruth ==
  pc \in CmdSteps /\ Polling /\ ~split /\ ~timedOut
    => (shm["STAT"] # 0 <=> cmd \in finished)

=============================================================================
