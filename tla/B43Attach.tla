------------------------------- MODULE B43Attach -------------------------------
(***************************************************************************)
(* Bringing the device up and tearing it down (pci/b43bsd.c): the stages of *)
(* b43bsd_attach up to the attach level, b43bsd_init with its failures, the *)
(* firmware cache through stops, suspends and resumes, and b43bsd_detach.   *)
(*                                                                         *)
(* What each of them may touch is what the model is about: BAR0 may be      *)
(* unmapped, the core list freed, a core beyond the window, net80211 never  *)
(* attached.  Every access the code makes in such a state is put in stray.  *)
(***************************************************************************)
EXTENDS B43Ssb, B43Firmware

CONSTANTS
  Devices,       \* the backplanes considered, a subset of Backplanes
  ResetStates,   \* the states the boot firmware leaves every core in
  XtalFields,    \* values of the PMU's XTALFREQ field
  Levels,        \* values of b43bsd_attach_level
  MaxInits,      \* bound on calls of b43bsd_init that get to the hardware
  MaxSuspends    \* bound on suspends

ASSUME AttachAssumption ==
  /\ Devices \subseteq Backplanes
  /\ ResetStates \subseteq CoreStates
  /\ XtalFields \subseteq 0 .. 15
  /\ Levels \subseteq 0 .. 6
  /\ MaxInits \in Nat
  /\ MaxSuspends \in Nat

VARIABLES
  dev,        \* the device, one of Devices; never changes
  level,      \* b43bsd_attach_level; never changes
  tms,        \* the clock and reset bits of the core in each slot
  killed,     \* the RF kill switch
  stage,      \* the next stage of b43bsd_attach, or how it ended: "partial" (the
              \* level stops it and nothing is kept), "failed", "complete", or
              \* "detached"
  mapped,     \* BAR0 is mapped (sc_sz # 0)
  cores,      \* sc_ssb->cores, or NoBus when sc_ssb is NULL
  net,        \* the interface is attached to net80211
  ih,         \* sc_ih: the interrupt is established
  intx,       \* PCI_COMMAND_INTERRUPT_DISABLE is clear
  pmu,        \* the PMU's registers
  pa,         \* the external PA lines are enabled (CHIPCTL register 0)
  sprom,      \* what the SPROM parse made of it: "unread", "old", "rejected", "good"
  fw,         \* sc_fw
  up,         \* IFF_UP
  running,    \* B43BSD_FLAG_RUNNING
  asleep,     \* suspended
  power,      \* the chip's: "kept" since attach, "cut" in this sleep, "back" after one
  stray,      \* the accesses made that the code had no right to
  inits, suspends  \* initialisations and suspends so far

devVars  == <<dev, level>>
busVars  == <<mapped, cores, ih, net>>
chipVars == <<tms, pmu, pa>>
vars == <<devVars, tms, pmu, killed, stage, mapped, cores, net, ih, intx, pa, sprom,
          fw, up, running, asleep, power, stray, inits, suspends>>

NoBus == << >>

Init ==
  /\ dev \in Devices
  /\ level \in Levels
  /\ \E s \in ResetStates : tms = [i \in 0 .. NSlots - 1 |-> s]
  /\ killed = FALSE
  /\ stage = "map"
  /\ mapped = FALSE
  /\ cores = NoBus
  /\ net = FALSE
  /\ ih = FALSE
  /\ intx = TRUE
  /\ pmu = PmuOff
  /\ pa = FALSE
  /\ sprom = "unread"
  /\ fw = NoFirmware
  /\ up = FALSE
  /\ running = FALSE
  /\ asleep = FALSE
  /\ power = "kept"
  /\ stray = {}
  /\ inits = 0
  /\ suspends = 0

-----------------------------------------------------------------------------
(* Accesses.                                                               *)

(* The stray part of an access to a page of BAR0.                           *)
Touch(page) ==
  (IF mapped THEN {} ELSE {"unmapped"}) \cup
  (IF page \in 0 .. dev.bar - 1 THEN {} ELSE {"pastBar"})

(* sc_11core_offset, which b43bsd_read32 and b43bsd_write32 add.            *)
MacPage == IF Has(cores, "MAC") THEN PageOf(cores, "MAC") ELSE 0

(* ssb_pmu_pll_reset and ssb_bcm4331_ext_pa_lines_ctl: nothing without a    *)
(* ChipCommon core.                                                         *)
TouchChipCommon == IF Has(cores, "CC") THEN Touch(PageOf(cores, "CC")) ELSE {}

(* b43bsd_chip_reset; b43bsd_chip_init with its PLL reset and TSF clock.      *)
ChipReset == Touch(MacPage)
ChipInit == ChipReset \cup IF mapped THEN TouchChipCommon ELSE {"nullSsb"}

(* b43bsd_wa_txqueue_limit, b43bsd_wa_tsf_spur_avoid: MAC registers.         *)
WaTxQueueLimit == Touch(MacPage)
WaTsfSpurAvoid == Touch(MacPage)

(* b43bsd_wa_pcie_tlp: a register of the PCIe core.                         *)
WaPcieTlp == IF Has(cores, "PCIE") THEN Touch(PageOf(cores, "PCIE")) ELSE {}

(* b43bsd_wa_apply_all, for a BCM4331.  Nothing sets the quirk flag that    *)
(* b43bsd_wa_efi_reset asks for.                                           *)
Workarounds ==
  IF dev.is4331 THEN WaTxQueueLimit \cup WaTsfSpurAvoid \cup WaPcieTlp ELSE {}

(* The LED is behind ChipCommon, at the start of BAR0; no bus, no LED.      *)
Led == IF cores = NoBus THEN {} ELSE Touch(0)

(* ssb_bcm4331_ext_pa_lines_ctl                                            *)
ExtPaLines(enable) == IF dev.is4331 /\ Has(cores, "CC") THEN enable ELSE pa

(* ssb_pmu_init: nothing when ChipCommon has no PMU.                        *)
PmuInit ==
  \/ UNCHANGED <<pmu, pa>>
  \/ /\ \E field \in XtalFields : pmu' = PmuSetUp(pmu, field, dev.is4331)
     /\ pa' = ExtPaLines(TRUE)

(* ssb_attach: the PCIe core is enabled, CLKREQ switched off and the exit   *)
(* from L2/L3 allowed in its registers.                                    *)
PcieSetUp(list) == IF Has(list, "PCIE") THEN Touch(PageOf(list, "PCIE")) ELSE {}

(* ssb_core_enable of some cores: each TMSLOW is reached at the page the    *)
(* list gives, if BAR0 has it.                                              *)
Enabled(bits, ids, list) ==
  LET pages == {PageOf(list, id) : id \in {i \in ids : Has(list, i)}}
  IN [i \in 0 .. NSlots - 1 |->
        IF i \in pages /\ i < dev.bar THEN AfterReset(bits[i]) ELSE bits[i]]

-----------------------------------------------------------------------------
(* b43bsd_attach.                                                          *)

(* The level ends attach here and nothing is kept.                          *)
Abandon(why) ==
  /\ stage' = why
  /\ mapped' = FALSE
  /\ cores' = NoBus

(* Stages 1 and 2: map BAR0, enable memory space, read the chip id.         *)
MapBar ==
  /\ stage = "map"
  /\ \/ stage' = "failed" /\ UNCHANGED <<mapped, cores>>
     \/ level <= 2 /\ Abandon("partial")
     \/ level > 2 /\ stage' = "bus" /\ mapped' = TRUE /\ UNCHANGED cores
  /\ UNCHANGED <<devVars, chipVars, killed, net, ih, intx, sprom, fw, up, running,
                 asleep, power, stray, inits, suspends>>

(* Stage 3: point the window at ChipCommon, disable INTx, list the cores and *)
(* enable the PCIe core.                                                    *)
AttachBus ==
  /\ stage = "bus"
  /\ intx' = FALSE
  /\ LET list == Enumerate(dev)
     IN \/ Abandon("failed") /\ UNCHANGED <<tms, stray>>
        \/ /\ tms' = Enabled(tms, {"PCIE"}, list)
           /\ stray' = stray \cup PcieSetUp(list)
           /\ IF level <= 3 THEN Abandon("partial")
              ELSE stage' = "cores" /\ cores' = list /\ UNCHANGED mapped
  /\ UNCHANGED <<devVars, killed, net, ih, pmu, pa, sprom, fw, up, running, asleep,
                 power, inits, suspends>>

(* Stage 4: the PMU, with its PA lines, and the MAC, PHY and ARM cores, by    *)
(* plain accesses, also to a PHY that the window does not reach.             *)
EnableCores ==
  /\ stage = "cores"
  /\ PmuInit
  /\ tms' = Enabled(tms, {"MAC", "PHY", "ARM"}, cores)
  /\ stray' = stray \cup TouchChipCommon \cup
       UNION {Touch(PageOf(cores, id)) :
                id \in {i \in {"MAC", "PHY", "ARM"} : Has(cores, i)}}
  /\ IF level <= 4 THEN Abandon("partial")
     ELSE stage' = "net" /\ UNCHANGED <<mapped, cores>>
  /\ UNCHANGED <<devVars, killed, net, ih, intx, sprom, fw, up, running, asleep,
                 power, inits, suspends>>

(* What the words read may amount to.  Without a ChipCommon each is ones, a *)
(* multicast address.                                                      *)
SpromOutcomes ==
  IF Has(cores, "CC") THEN {"old", "rejected", "good"} ELSE {"rejected"}

(* b43bsd_sprom_parse: the PA lines are off while it reads, and its early    *)
(* returns, an old revision and an invalid address, leave them so.          *)
SpromParse(outcome) ==
  /\ sprom' = outcome
  /\ pa' = ExtPaLines(outcome = "good")

(* Stage 5: SPROM, the PHY revision, net80211 and the MAC address filter.   *)
AttachNet ==
  /\ stage = "net"
  /\ \E outcome \in SpromOutcomes : SpromParse(outcome)
  /\ net' = TRUE
  /\ stray' = stray \cup TouchChipCommon \cup Touch(MacPage) \cup
       IF Has(cores, "PHY") THEN Touch(PageOf(cores, "PHY")) ELSE {}
  /\ stage' = IF level <= 5 THEN "complete" ELSE "intr"
  /\ UNCHANGED <<devVars, tms, pmu, killed, mapped, cores, ih, intx, fw, up,
                 running, asleep, power, inits, suspends>>

(* Stage 6: the interrupt, b43bsd_chip_reset and the LED.                    *)
AttachIntr ==
  /\ stage = "intr"
  /\ \/ Abandon("failed") /\ UNCHANGED <<ih, stray>>
     \/ /\ stage' = "complete"
        /\ ih' = TRUE
        /\ stray' = stray \cup ChipReset \cup Led
        /\ UNCHANGED <<mapped, cores>>
  /\ UNCHANGED <<devVars, chipVars, killed, net, intx, sprom, fw, up, running,
                 asleep, power, inits, suspends>>

-----------------------------------------------------------------------------
(* b43bsd_init and b43bsd_stop.                                             *)

(* b43bsd_rfkill_check: without a bus or a ChipCommon the radio is on.      *)
KilledSeen == Has(cores, "CC") /\ killed

InitRuns == ~running /\ ~KilledSeen /\ ih /\ Has(cores, "MAC")

(* Fault: the CHIPCTL register is written, not modified.                    *)
PllResetClears == IF Has(cores, "CC") THEN FALSE ELSE pa

(* ssb_pmu_pll_reset pulses one bit of the register the PA lines are in.    *)
AfterPllReset == pa

(* Chip init, workarounds, the firmware starting from f, tables, radio, PHY, *)
(* DMA and INTx.  A firmware that fails is not fatal; no PHY core, an       *)
(* unknown radio or no DMA memory is.                                       *)
BringUp(f) ==
  IF ~InitRuns
  THEN /\ fw' = f
       /\ UNCHANGED <<running, intx, pa, inits, stray>>
  ELSE /\ inits < MaxInits
       /\ inits' = inits + 1
       /\ fw' \in FwAfterInit[f]
       /\ pa' = AfterPllReset
       /\ stray' = stray \cup ChipInit \cup Workarounds \cup Led \cup
            (IF UsesFreed(f) THEN {"freed"} ELSE {})
       /\ \/ Has(cores, "PHY") /\ running' = TRUE /\ intx' = TRUE
          \/ running' = FALSE /\ UNCHANGED intx

Usable == net /\ ~asleep /\ stage \in {"failed", "complete"}

IfUp ==
  /\ Usable
  /\ up' = TRUE
  /\ BringUp(fw)
  /\ UNCHANGED <<devVars, busVars, tms, pmu, killed, stage, sprom, asleep, power,
                 suspends>>

(* b43bsd_stop touches the device only when the driver runs.                *)
StopTouches == IF running THEN ChipReset \cup Led ELSE {}

IfDown ==
  /\ Usable
  /\ up' = FALSE
  /\ running' = FALSE
  /\ stray' = stray \cup StopTouches
  /\ UNCHANGED <<devVars, busVars, chipVars, killed, stage, intx, sprom, fw, asleep,
                 power, inits, suspends>>

(* The callbacks of net80211 and the multicast ioctl write to the MAC, and  *)
(* the channel callback reads sc_ssb, without asking for anything.          *)
NetCallback ==
  /\ Usable
  /\ stray' = stray \cup Touch(MacPage) \cup IF mapped THEN {} ELSE {"nullSsb"}
  /\ UNCHANGED <<devVars, busVars, chipVars, killed, stage, intx, sprom, fw, up,
                 running, asleep, power, inits, suspends>>

-----------------------------------------------------------------------------
(* b43bsd_activate and b43bsd_detach: autoconf calls them however attach    *)
(* ended.                                                                  *)

Known == ~asleep /\ stage \in {"partial", "failed", "complete"}

(* Without power the chip forgets what attach set: the cores are as the boot *)
(* firmware finds them, the PMU and the PA lines are off.                   *)
PowerCut ==
  /\ power' = "cut"
  /\ \E s \in ResetStates : tms' = [i \in 0 .. NSlots - 1 |-> s]
  /\ pmu' = PmuOff
  /\ pa' = FALSE

(* The power may be cut while the machine sleeps.                           *)
Suspend ==
  /\ Known
  /\ suspends < MaxSuspends
  /\ suspends' = suspends + 1
  /\ asleep' = TRUE
  /\ PowerCut \/ UNCHANGED <<power, chipVars>>
  /\ stray' = stray \cup ChipReset
  /\ UNCHANGED <<devVars, busVars, killed, stage, intx, sprom, fw, up, running, inits>>

(* Whether firmware that ran is loaded again: its revision does not read     *)
(* back after a loss of power, nor, with the power kept, after a later       *)
(* start that timed out.                                                   *)
Reloads ==
  {reload \in BOOLEAN : IF reload THEN fw.running ELSE ~(fw.running /\ power = "cut")}

(* Resume: PCI, chip_init and the PLL reset, the firmware and, for an        *)
(* interface that is up, b43bsd_init.  What PowerCut lost of the cores, the  *)
(* PMU and the PA lines none of these sets again.                           *)
Resume ==
  /\ asleep
  /\ asleep' = FALSE
  /\ power' = IF power = "cut" THEN "back" ELSE power
  /\ \E reload \in Reloads : \E f \in IF reload THEN FwAfterInit[fw] ELSE {fw} :
       IF up /\ InitRuns
       THEN BringUp(f)
       ELSE /\ fw' = f
            /\ pa' = AfterPllReset
            /\ stray' = stray \cup ChipInit \cup
                 IF reload /\ UsesFreed(fw) THEN {"freed"} ELSE {}
            /\ UNCHANGED <<running, intx, inits>>
  /\ UNCHANGED <<devVars, busVars, tms, pmu, killed, stage, sprom, up, suspends>>

(* Fault: BAR0 is unmapped before the driver is stopped.                    *)
StopAfterUnmap == IF running THEN {"unmapped"} ELSE {}

DetachStops == StopTouches

Detach ==
  /\ Known
  /\ stage' = "detached"
  /\ running' = FALSE
  /\ fw' = FwFree(fw)
  /\ net' = FALSE
  /\ ih' = FALSE
  /\ mapped' = FALSE
  /\ cores' = NoBus
  /\ stray' = stray \cup DetachStops \cup
       (IF UsesFreed(fw) THEN {"freed"} ELSE {}) \cup
       (IF net THEN {} ELSE {"neverAttached"})
  /\ UNCHANGED <<devVars, chipVars, killed, intx, sprom, up, asleep, power, inits,
                 suspends>>

KillSwitch ==
  /\ killed' = ~killed
  /\ UNCHANGED <<devVars, busVars, chipVars, stage, intx, sprom, fw, up, running,
                 asleep, power, stray, inits, suspends>>

-----------------------------------------------------------------------------
Next ==
  \/ MapBar
  \/ AttachBus
  \/ EnableCores
  \/ AttachNet
  \/ AttachIntr
  \/ IfUp
  \/ IfDown
  \/ NetCallback
  \/ Suspend
  \/ Resume
  \/ Detach
  \/ KillSwitch

Spec == Init /\ [][Next]_vars

-----------------------------------------------------------------------------
(* Properties.                                                             *)

(* Every variable has its type: the one type invariant of this module.     *)
TypeOK ==
  /\ dev \in Devices
  /\ level \in Levels
  /\ tms \in [0 .. NSlots - 1 -> CoreStates]
  /\ pmu \in {PmuOff} \cup {PmuSetUp(PmuOff, f, dev.is4331) : f \in XtalFields}
  /\ stage \in {"map", "bus", "cores", "net", "intr", "partial", "failed", "complete",
                "detached"}
  /\ {killed, mapped, net, ih, intx, pa, up, running, asleep} \subseteq BOOLEAN
  /\ power \in {"kept", "cut", "back"}
  /\ cores \in CoreLists
  /\ sprom \in {"unread", "old", "rejected", "good"}
  /\ fw \in Firmwares
  /\ stray \subseteq {"unmapped", "pastBar", "nullSsb", "freed", "neverAttached"}
  /\ inits \in 0 .. MaxInits
  /\ suspends \in 0 .. MaxSuspends

(* A backplane as the window expects it: ChipCommon in slot 0 and nowhere    *)
(* else.                                                                   *)
ChipCommonFirst(bp) == \A i \in 0 .. NSlots - 1 : bp.slots[i] = "CC" <=> i = 0

(* Once attach is complete no sequence of ups, downs, callbacks, suspends,  *)
(* resumes and failed initialisations, and no detach out of it, touches an  *)
(* unmapped BAR0, a freed core list or memory twice freed.  Two causes are  *)
(* left: a backplane whose ChipCommon is not the first core, so that bases   *)
(* are not pages of BAR0, and a microcode image that was rejected.           *)
CompleteIsSafe ==
  [][stage = "complete" =>
       stray' \ stray \subseteq
         (IF ChipCommonFirst(dev) THEN {} ELSE {"pastBar"}) \cup
         (IF fw.rejected THEN {"freed"} ELSE {})]_vars

(* Whatever stage attach stops or fails at, and after detach, nothing is    *)
(* left mapped, established or cached.                                      *)
Released ==
  /\ stage \in {"partial", "failed", "detached"} =>
       ~mapped /\ cores = NoBus /\ ~ih /\ ~running
  /\ stage = "detached" => Cached(fw) = {}

(* With ChipCommon first, attach takes every core it uses out of reset  *)
(* at that core's own registers, whatever the other slots hold and whatever *)
(* state the boot firmware left it in, as far as BAR0 reaches.  A loss of    *)
(* power undoes that, and no resume or bring-up enables a core again.       *)
CoresLive ==
  /\ power = "kept" /\ stage \in {"net", "intr", "complete"}
       /\ dev.match /\ ChipCommonFirst(dev) =>
       \A i \in ReadableSlots(dev) :
         /\ dev.slots[i] \in {"PCIE", "MAC", "PHY", "ARM"}
         /\ \A j \in ReadableSlots(dev) : dev.slots[j] = dev.slots[i] => j <= i
         => Live(tms[i])
  /\ power # "kept" => \E s \in ResetStates : tms = [i \in 0 .. NSlots - 1 |-> s]

(* The core taken for the PHY is one, at its own slot, with ChipCommon       *)
(* first.  One that is made up instead stands where the window ends and      *)
(* nowhere else, whatever slots are empty: the N-PHY code switches the       *)
(* window for it, but attach itself, which enables it and reads its BBCFG,   *)
(* does not, and has accessed it past the end of BAR0 once stage 4 is over.  *)
(* (That it is a PHY is nothing the driver looks at.)                       *)
PhyIsFound ==
  cores # NoBus =>
    /\ cores # SimEnumerate(dev) =>
         /\ PageOf(cores, "PHY") = dev.bar /\ NeedsWindow(dev, cores)
         /\ stage # "cores" => "pastBar" \in stray
    /\ cores = SimEnumerate(dev) /\ Has(cores, "PHY")
         /\ dev.match /\ ChipCommonFirst(dev) =>
         dev.slots[PageOf(cores, "PHY")] = "PHY"

(* The PA lines share a register with the PLL reset that every bring-up and *)
(* every resume goes through; a good SPROM leaves them on until the power is *)
(* lost, and after that nothing turns them on again.                        *)
PaLinesKept ==
  stage \in {"intr", "complete"} /\ sprom = "good" /\ dev.is4331 /\ Has(cores, "CC") =>
    (pa <=> power = "kept")

(* Images that are cached and good stay so until detach: a reload, as after *)
(* a resume that lost the firmware, never depends on the file system again. *)
CacheKept == [][AllGood(fw) => AllGood(fw') \/ stage' = "detached"]_vars

=============================================================================
