-------------------------------- MODULE B43Ssb --------------------------------
(***************************************************************************)
(* The Sonics backplane behind BAR0 (ic/ssb.c): which cores the driver      *)
(* finds through a window of BarSlots core slots, where it believes their   *)
(* registers are, and how it takes a core out of reset.                     *)
(*                                                                         *)
(* A slot is one SSB_CORE_SIZE page.  Addresses are counted in pages; a     *)
(* backplane holds a core, nothing, or the end of the list in each slot.    *)
(***************************************************************************)
EXTENDS Integers, Sequences

CONSTANTS
  NSlots,    \* slots of the backplane, SSB_MAX_NR_CORES in the code
  EnumBase   \* page of SSB_ENUM_BASE, which BAR0_WIN puts at BAR0 offset 0

ASSUME SsbAssumption ==
  /\ NSlots \in Nat \ {0}
  /\ EnumBase \in Nat

CoreIds == {"CC", "PCIE", "MAC", "ARM", "PHY"}

SlotKinds == CoreIds \cup {"OTHER", "EMPTY", "END"}

(* What the device is: its slots, whether its address match registers are   *)
(* enabled, the pages BAR0 maps and whether it is a BCM4331.                *)
Backplanes == [slots : [0 .. NSlots - 1 -> SlotKinds], match : BOOLEAN,
               bar : 1 .. NSlots, is4331 : BOOLEAN]

(* What enumeration makes of it.                                            *)
CoreLists == Seq([id : CoreIds \cup {"OTHER"}, base : Int])

-----------------------------------------------------------------------------
(* ssb_enum_cores                                                          *)

(* The slots the loop reads: up to the end of BAR0 or of the list.          *)
ReadableSlots(bp) ==
  {i \in 0 .. NSlots - 1 : i < bp.bar /\ \A j \in 0 .. i : bp.slots[j] # "END"}

(* The slots that hold a core, and what is kept of the core in one.          *)
Listed(bp) == {i \in ReadableSlots(bp) : bp.slots[i] # "EMPTY"}

CoreAt(bp, i) == [id |-> bp.slots[i], base |-> IF bp.match THEN EnumBase + i ELSE 0]

(* The list the loop has made; after[n] is the list after n slots.           *)
Found(bp) ==
  LET after[n \in 0 .. NSlots] ==
        IF n = 0 THEN << >>
        ELSE IF n - 1 \in Listed(bp) THEN Append(after[n - 1], CoreAt(bp, n - 1))
        ELSE after[n - 1]
  IN  after[NSlots]

(* The index of the last core with an id, 0 (-1 in the code) for none.      *)
IndexOf(cores, id) ==
  LET at == {n \in DOMAIN cores : cores[n].id = id}
  IN IF at = {} THEN 0 ELSE CHOOSE n \in at : \A m \in at : m <= n

(* Fault: the check that enumeration stopped at the end of BAR0 is missing. *)
PhyPastAnyEnd(bp, cores) == Len(cores) < NSlots

(* Is the next core beyond the end of BAR0?                                 *)
PhyPastBar(bp, cores) == Len(cores) < NSlots /\ Len(cores) + 1 > bp.bar

(* A BCM4331 whose PHY was not found gets one after its last core.          *)
WithPhy(bp, cores) ==
  IF /\ IndexOf(cores, "PHY") = 0
     /\ cores # << >>
     /\ IndexOf(cores, "CC") # 0
     /\ bp.is4331
     /\ PhyPastBar(bp, cores)
  THEN Append(cores, [id |-> "PHY", base |-> cores[IndexOf(cores, "CC")].base + Len(cores)])
  ELSE cores

(* Bases become relative to ChipCommon when there is one.                   *)
Normalised(cores) ==
  LET cc == IndexOf(cores, "CC")
  IN IF cc = 0 THEN cores
     ELSE [n \in DOMAIN cores |-> [cores[n] EXCEPT !.base = @ - cores[cc].base]]

Enumerate(bp) == Normalised(WithPhy(bp, Found(bp)))

(* The page of a core's registers as ssb_core_read32 computes it.           *)
PageOf(cores, id) == cores[IndexOf(cores, id)].base

Has(cores, id) == IndexOf(cores, id) # 0

(* phy_needs_window_switch                                                  *)
NeedsWindow(bp, cores) == Has(cores, "PHY") /\ PageOf(cores, "PHY") + 1 > bp.bar

(* The enumeration of the user-space simulator: no core is made up.         *)
SimEnumerate(bp) == Normalised(Found(bp))

-----------------------------------------------------------------------------
(* ssb_core_reset.  A core is [clock, reset], its two TMSLOW bits.          *)

CoreStates == [clock : BOOLEAN, reset : BOOLEAN]

Live(c) == c.clock /\ ~c.reset

(* Fault: only a core that is held in reset is pulsed, as the comment above  *)
(* the function has it.                                                     *)
PulsesIfHeld(c) == c.reset

(* The reset bit is pulsed unless the core is live.                         *)
PulsesReset(c) == ~Live(c)

AfterReset(c) == IF PulsesReset(c) THEN [clock |-> TRUE, reset |-> FALSE] ELSE c

-----------------------------------------------------------------------------
(* ssb_pmu_init                                                             *)

(* ssb_pmu_xtalfreq_table, in kHz, by the XTALFREQ field of four bits; a     *)
(* value that is not in the table counts as 20 MHz.                        *)
CrystalOf(field) ==
  IF field < 8 THEN <<20000, 25000, 26000, 38400, 40000, 37400, 52000, 54000>>[field + 1]
  ELSE 20000

(* The divider of the ILP clock is kept in a field of one bit.              *)
IlpDivider(khz) == ((khz + 127) \div 128 - 1) % 2

(* ssb_pmu_resources_init: what may not be powered down.                    *)
MinResources(is4331) ==
  {"XTAL", "BBPLL"} \cup
    IF is4331 THEN {"CBUCK", "CLDO", "LNLDO1", "LNLDO2", "RFPLL"} ELSE {}

PmuOff == [crystal |-> 0, ilp |-> 0, spur |-> FALSE, timed |-> FALSE, min |-> {}]

(* ssb_pmu_pll_init: crystal, divider and, for a BCM4331, the PLL settings   *)
(* against spurs.                                                          *)
PllInit(pmu, field, is4331) ==
  [pmu EXCEPT !.crystal = CrystalOf(field), !.ilp = IlpDivider(CrystalOf(field)),
              !.spur = is4331]

(* ssb_pmu_res_updown_setup, with the timers of the BCM4331 on every chip.  *)
ResUpdown(pmu) == [pmu EXCEPT !.timed = TRUE]

PmuSetUp(pmu, field, is4331) ==
  [ResUpdown(PllInit(pmu, field, is4331)) EXCEPT !.min = MinResources(is4331)]

=============================================================================
