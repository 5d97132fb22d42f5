# A TLA+ model of the b43bsd driver

b43bsd is an OpenBSD driver for the Broadcom BCM4331 802.11n card (the PCI
front end in `src/src/sys/dev/pci`, the chip code in `src/src/sys/dev/ic`).
This directory holds TLA+ modules of the parts of it where behaviour over time
matters, TLC configurations that check them on small instances, and proofs
checked by TLAPS for every size. File names below without a directory are in
one of those two directories.

Paths in `PROJECT.json` start at the repository's checkout (`src/`).

## 1. The system

| component | state | operations | correct when | module |
|---|---|---|---|---|
| transmit ring (`b43bsd_dma.c`, `b43bsd_start`) | descriptors and their ownership bit, `tx_slot[]`, `cur_tx`, `used`, `if_snd`, `IFF_OACTIVE` | start, tx_done, ring init/free, error recovery | frames go out once and in order, are freed once, never while the device owns them; a full ring is restarted | B43TxRing, B43TxFifo |
| receive ring (`b43bsd_dma.c`) | descriptors, `rx_slot[]`, `cur_rx` | refill, process, overflow, recovery | no frame lost or duplicated, buffers valid under the device, reception never dies | B43RxRing |
| interface life cycle (`b43bsd.c`) | `B43BSD_FLAG_RUNNING`, `IFF_UP`, rings, interrupt mask, storm and beacon counters, three timeouts, `ic_state` | init, stop, ioctl, newstate, activate, detach, intr, storm_recover, beacon_check, periodic_cal | rings, timeouts and interrupts live exactly as long as the running driver | B43Driver |
| staged attach (`b43bsd.c`) | what is mapped, allocated, attached, established | the six stages, init, detach | a failure releases what it acquired and nothing in use; no access to what is gone | B43Attach |
| SSB bus (`ssb.c`) | core list, core reset states, PMU | enumeration, core reset, PMU, PLL reset, PA lines | the right core is addressed, out of reset | B43Ssb |
| firmware (`b43bsd_fw.c`) | cached images, `running`, revision | load, validate, upload, initvals with fallbacks, command | no use of a freed image; good images stay cached; an answer belongs to its command | B43Firmware, B43RegAccess |
| PHY register window (`b43bsd_phy_n.c`, `ssb.c`) | `BAR0_WIN`, the interrupt mask saved around it | nphy_read/write, window switch/restore | nothing else touches the chip while the window is switched; window and mask are put back | B43RegAccess |
| PHY, radio, tables (`b43bsd_phy_n.c`, `b43bsd_radio.c`, `b43bsd_tables.c`) | PHY and radio registers, table memory | phy_n_init, switch_channel, calibrations, diversity | all parts agree on a band, limits are kept, tables survive | B43Phy |
| power save (`b43bsd_ps.c`), MAC control | enabled, sleeping, what the device was told | enter, exit, dtim_wake, tx_wake, tx_done | awake while frames are on the ring | B43Mac |
| hardware keys (`b43bsd.c`) | `sc_keys[]`, key registers | set_key, delete_key | one slot per key, no material of a deleted key | B43Keys, B43Mac |
| rate control (`b43bsd_rate.c`) | per-rate statistics, best rate | init, deinit, rateidx, update, sampling | counters and estimates are sound, the best rate is chosen | B43Rate |

They interact through the softc. The stack calls `b43bsd_start`; the device
raises interrupts; `b43bsd_intr` calls tx_done (which calls `if_start` again),
rx_process, error recovery (which frees and rebuilds both rings) and overflow, in
that order; net80211, ioctl, the power framework and a timeout call
`b43bsd_init` and `b43bsd_stop`; both return at once when `B43BSD_FLAG_RUNNING`
says there is nothing to do, which is where most of the surprises come from.

What is hard: the device works between any two slots of a scan; causes are
acknowledged before they are handled; allocations fail in the middle of a
refill or a rebuilding; errors free rings under a running driver; five callers
of init and stop and three timeouts in any order; a shared interrupt line calls
the handler of a masked device, or in the middle of a register access of several
steps; attach stops at any stage and is followed by suspend, resume and detach
all the same; functions written for one band run on a PHY left on the other.
`PROJECT.json` lists these hazards at their lines, with the properties for each.

## 2. Modules

A property of a module is at its end; definitions marked "Fault" are the code
with a plausible bug in it, and show that the property would notice. The
theorems about a module and their proofs are in the module of its name with
`_proofs`; section 5 goes through them.

### B43TxRing (with B43TxFifo)

State is the code's own: `slotM[i]` is `tx_slot[i].m`, `hwOwns[i]` the
DTABLEEND bit, `curTx`, `used`, `ifq`, `oactive`, `running`; `pc`, `scan` and
`reason` are where the CPU is, its loop index and its copy of the interrupt
causes. History: `handed`, `freed` (calls of m_freem per frame), `wire` (what
the device sent). `b43bsd_start` posts one frame per step, `b43bsd_dma_tx_done`
looks at one slot per step, so the device's `HwConsume` and `HwFault` and the
stack's `Enqueue` fall between any two. Handlers do not interrupt each other:
the ring is touched at IPL_NET only. `DirectPosts` is a PS-Poll, which skips
the queue. `RecoverRebuilds`, `Stop` and `Up` are the ring's destruction and
construction with their failures. `IntrStorms` is the interrupt that takes
`sc_intr_count` past its threshold: the handler masks and returns,
acknowledging and reaping nothing, and so it goes on (`storm`) until the
`b43bsd_chip_init` in `Up`. Which interrupt that is is left open here;
B43Driver counts.

`B43TxFifo` is what a transmit ring promises: post at the end of a queue,
transmit from its head, release what was transmitted, refuse, tear down.
`ImplementsFifo` maps the ring to it: the queue is the frames in the
descriptors the device owns, counted from the one it looks at next.

### B43RxRing

`buf[i]` (a slot has a buffer), `hwOwns[i]`, `curRx`, and `content[i]`, the
number of the frame last stored there. `storm`, `running`, `IntrStorms`, `Stop`
and `Up` are as in B43TxRing; `engine` is "off" when there is no ring, after a
stop or a rebuilding that failed. `Deliver` is one filled slot of
`b43bsd_dma_rx_process`: hand the buffer to the stack and run all of
`b43bsd_dma_rx`, which may fail after any number of slots. `Overflow`,
`RecoverRebuilds` and `RecoverRestarts` follow in the handler's order. The code
does not say whether an engine that is disabled and enabled again keeps its
position; `keepsPos` makes the model cover both kinds of device.

### B43Driver

`running`, `dma`, `unmasked`, `irq`, `intrCount`, `storm`, the three `...To`
(a timeout is armed), `miss`, `icState`, `up`, `life`, `power`. A handler is one
step; `b43bsd_init` succeeds, fails or returns at once inside its caller's step.
Detach is three steps, because nothing blocks interrupts there. `DmaRecovers`
abstracts the recovery that B43TxRing models in full. The beacon counter
saturates at its threshold and the interrupt counter just above its own: beyond
that the code treats all values alike.

### B43Attach (with B43Ssb, B43Firmware, MCAttach)

`B43Ssb` and `B43Firmware` have no variables: they are the functions of `ssb.c`
and `b43bsd_fw.c` as operators, and `B43Attach` composes them.
A backplane is a core, nothing or the end of the list in each slot; addresses
are counted in core-sized pages. `Enumerate` is the loop, the PHY that is made
up when the window ends first, and the change to bases relative to ChipCommon;
`SimEnumerate` is the loop of the simulator. `UploadMicrocode` and
`UploadInitvals` map the cached images (`none`, `invalid`, `good`, `freed`) and
the files on disk to what `sc_fw` is afterwards.

The actions are the stages of `b43bsd_attach` up to `b43bsd_attach_level`
(`MapBar` ... `AttachIntr`), `IfUp`, `IfDown`, `NetCallback` (whatever net80211
calls), `Suspend`, `Resume`, `Detach`, and the kill switch. `power` says
whether the chip kept its power in every suspend: a `PowerCut` puts the cores
back in the state the boot firmware leaves, and clears the PMU and the PA
lines. `Resume` sets none of that again, and loads the firmware that was lost.
Each access the code makes in a state where it has no right to - BAR0 unmapped,
beyond the window, through a freed core list, to a freed image - goes into
`stray`.

### B43Phy (MCPhy)

`phy` is the register file; each function of `b43bsd_phy_n.c`, `b43bsd_radio.c`
and `b43bsd_tables.c` that programs registers is an operator from register
files to register files, what it reads from the hardware is a parameter, and an
action is the composition a caller runs: `BringUp`, `SetChannel`,
`PeriodicCal`, `Stop`, `Suspend`, `Resume`. Registers that always change
together are one field: `rx` is the receive path of a band, `idac` the chains'
currents; `vcm0` and `vcm1` are RXLPF_OUTVCM of the two chains, which
`b43bsd_radio_set_channel` does not mirror. `dbm` is the target power
(TXPCTL_TPWR and its indices), `chainpwr` the power registers of the three
chains, which only `nphy_core_init` writes. `owner` says which compiled-in
table was last written to each address of the table memory. `div` is the static
state of `b43bsd_phy_n_antdiv`, `heard` what the antennas measured.

### B43Mac (with B43Keys, MCMac)

What the driver told the MAC: `ps` is `sc_ps`, `psDev` the registers and shared
memory it stands for, `macOn` MACCTL_ENABLED, `beacons` and `promisc` the
promiscuous bits, `table` is `sc_keys`, `hw` the words of the key table with
their overlaps. The actions are net80211's state changes, TBTT, transmit and its
completion, a DMA recovery, ioctl, the protection callback, keys, suspend and
resume. The transmit ring is a count here. B43Mac has no timers and no
interrupt mask: B43Driver has.

### B43Rate (MCRate)

`ms` is `struct minstrel_sta`, with the code's fixed-point estimates;
`Associate`, `Lose` and `Disassociate` are what `b43bsd_newstate` does to it,
`Post` and `Complete` what the transmit path does.

### B43RegAccess

A PHY access from the soft clock through a 16 KB window is seven steps (`SaveMask`,
`MaskOff`, `WindowSwitch`, `Access`, `WindowRestore`, `Unmask` after
`BeginAccess`), a firmware command a pair of steps for every word and every poll
(`ShmAddress`, then `ShmWrite`, `CmdPolls` or `CmdDone`); `Intr` falls between any
two. The firmware takes a command and answers when it likes.

## 3. Runs

| run | asks | instance |
|---|---|---|
| `tx_ring` | is the transmit ring an exact, memory-safe FIFO that strands nothing | 3 slots, 4 frames, 1 fault, 1 down/up, a storm at any interrupt |
| `tx_stall` | does a stalled interface always recover (violated) | 2 slots, 3 frames, 1 down/up, a storm at any interrupt |
| `rx_ring` | is every frame delivered once, does reception survive | 3 slots, 4 frames, 2 faults, 1 down/up, a storm at any interrupt |
| `driver` | do rings, mask and timeouts follow the running driver | storm at 3 interrupts, loss at 2 misses, 2 faults, 1 suspend |
| `driver_resume` | does resume set up DMA again (violated) | 1 suspend, no fault |
| `driver_storm` | does the driver recover from a storm (violated) | no fault |
| `driver_beacon` | is every loss of the access point reported (violated) | 2 losses |
| `bringup` | what do attach, init and detach touch and leave behind | 16 devices, all attach levels that differ, all firmware files, 2 inits, 2 suspends with or without loss of power |
| `phy` | do the parts of the radio agree, are limits and tables kept | 2 channels of each band, 2 signal levels, 1 suspend with or without loss of power |
| `mac` | may a sleeping device have frames, does the key table hold what it should | 2 key slots, 3 keys, a ring of 2, 1 suspend |
| `rate` | are counters, estimates and choices of rate control sound | 3 streams of 3 rates, an update every 4 packets, 16 updates, 4 frames in flight |
| `regaccess` | what can an interrupt do to an access of several steps | 3 commands of 3 polls, storm at the third interrupt, own and shared line |

Bounds. Three slots give a full ring, a wrap and a gap between two used slots;
four frames go round once and fill it again. One fault in the transmit ring (an
error, a stop, a failed load or allocation) meets every state of it, but a
rebuilding that fails in the handler takes two, so that only the proofs and the
other two modules reach it there; the receive ring has two, for that and for a
hole left by one and an error on top. The driver's thresholds only have to be
reachable and not immediate. `MaxLosses` bounds a counter that only the
properties read. The devices of `bringup` are the BCM4331 of the source's
comments behind a window that ends before its last core and one that does not,
other orders of cores, a duplicate core, an empty slot, no ChipCommon, no PHY,
another chip; two initialisations are a first one and a reload; two suspends
are one that keeps the power and one that does not, in either order. Two
channels per band are a change within a band and one across; two signal levels
are one the automatic tuning leaves alone and one past the register. Two key
slots overlap each other and the MAC filter word; three keys are two indices
and a rekey with a shorter key. Three rates and three streams have equal
throughputs in different groups, which is where the order of the search
matters. A third interrupt in one access makes a storm in the middle of it;
three commands are a timeout, a late answer and a command after it.

What the properties say beyond their names: `UsedExact` ties the counter that
decides about restarting to the slots, across rebuilding. `OwnedWindow` says
the device neither skips a descriptor nor stops early. `HolesReachable` says
the next refill fills every hole, because `cur_rx` stands at the first one.
`OvertakenWithinRing` is the exact strength of receive ordering: frames can be
delivered out of order (a scan that starts at slot 0 while the device wraps or
overtakes it), but never by a whole ring. `RingsOnlyWhileRunning` is why the
memset in `b43bsd_dma_init` leaks nothing. `OnlyStormStartsDown` names the one
thing that can start an interface taken down. `StallEndsUndisturbed` and
`FirstLossReported` are what is left of the promises that `tx_stall` and
`driver_beacon` refute. `CompleteIsSafe` bounds what can go wrong after a
complete attach to two named causes. `CoresLive` says that the guesses of the
enumeration are right on every layout that has its ChipCommon in slot 0 and
nowhere else (which is what the change to relative bases presumes).
`PhyIsFound` says, on every layout, where the core taken for the PHY is: its
own slot, or, made up, where BAR0 ends. Whether that slot holds a PHY is the
backplane's affair, and the driver does not look. `PaLinesKept` and `CoresLive`
hold until the power is lost, and say what is left after that. `OneBand` states
what RXLPF_OUTVCM is left at, the one part that does not follow the band.
`PowerCapped2` is about the target power, and says that the chains' own
registers are not under the limit. `PhantomOnlyIfShared` and `StatusTellsTruth`
state the exact condition under which the comments of `nphy_read` and
`b43bsd_fw_cmd` hold. `NoKeyLeftBehind` holds in spite of the overlaps, because
every word of an entry is written each time. `BestIsFlat` also quantifies over
all small probability tables.

Deadlock is not checked, except in `phy` and `rate`: a driver may stop (detached, or all
frames sent), and most actions have bounds.

Fairness. A handler that runs finishes (it has no loop that waits); a latched
unmasked interrupt is taken, but it may be the one that makes a storm, after
which none is handled; the stack calls `if_start` when the interface is
running, not stalled and has frames; a running device works off what it owns;
the beacon timer of the MAC and armed timeouts fire; in B43Phy, the calibration
timeout of a running driver fires (it re-arms itself) and a suspended machine
resumes. Nothing is assumed of faults, callers, association or `Up`. B43Attach,
B43Mac, B43Rate and B43RegAccess have safety properties only.

What the liveness properties of the rings therefore leave open: a storm, after
which what is in a ring stays there until the interface goes down
(`RingFramesFreed`, `StallEnds`, `StallEndsUndisturbed`, `DeviceRefed` and
`StoredDelivered` end with `storm`), and a rebuilding that failed, after which
there is no ring to feed (`engine = "off"`).

Assumed of the outside, from how the code uses it: the device clears DTABLEEND
of each descriptor in ring order when it is done with it (comments in
`b43bsd_dma_tx_done` and `b43bsd_dma_rx_process`); a stopped transmit engine goes
on where it stopped; the stack does not call `if_start` while IFF_OACTIVE is set
(what `plan.html` C1 relies on); net80211 leaves INIT through SCAN, and moves an
interface only while it is up; the microcode zeroes a command when it takes it
and sets the status when it is done.

## 4. Findings

1. `tx_stall`: IFF_OACTIVE survives a stop; the restarted, empty ring has no
   completion to clear it. (`plan.html` C1 says the stall is gone.)
2. `driver_resume`: suspend leaves RUNNING set, so resume re-initialises no DMA.
3. `driver_storm`: the storm timeout's `b43bsd_init` does nothing while RUNNING
   is set; `hw.b43bsd.reset_on_storm` recovers nothing.
4. `driver_beacon`: a reported loss ends the beacon check until the next init.

Also seen while modelling. Each is in the model's behaviours or is the reason a
property is stated as it is:

- Receive: a device that restarts at slot 0 can leave reception waiting for ever
  (`DeviceRefed` and `HolesReachable` are stated for the other kind). An
  overflow handled after a rebuilding that failed loads a buffer into a DMA map
  that is not there (`Overflow` asks for a ring).
- Rings: any driver that runs long enough reaches the storm threshold, as
  `sc_intr_count` is reset only by `b43bsd_chip_init`; frames then stay in the
  rings until the interface goes down.
- Detach: a DMA error taken on a shared line in the middle of a detach can
  rebuild rings that nobody frees. A failed recovery's "full reinit" returns at
  once.
- Attach: the default `b43bsd_attach_level` is 0, and suspend, resume and detach
  touch the chip and net80211 whatever level attach stopped at. A failed last
  stage leaves net80211 attached to an unmapped BAR0. Behind a 16 KB window
  attach makes up the PHY core, and enables it and reads its BBCFG past the
  window's end, by plain accesses; only the N-PHY code switches the window.
  After a suspend that loses the power nothing takes the cores out of reset or
  sets up the PMU and the PA lines again. With the power kept, firmware is
  loaded again only after a later start that timed out. The SPROM's early returns leave
  the PA lines off.
- SSB: a second ChipCommon shifts every base, as one that is not in slot 0
  does, because the last core of a kind is the one that is remembered; proving
  `CoresLive` showed it. A PCIe core that merely lacks its clock is reset, against the comment
  above `ssb_core_reset`. The ILP divider is kept in a one-bit field.
- SPROM: the power limit is reduced by the sum of the negative offsets, against
  the comment that says the most restrictive one; the country's limits are
  overwritten by it.
- Firmware: a rejected microcode image is freed and stays cached. A rejected
  initial value image stays cached, so the fallbacks try it again. Base and band
  images may come from different revisions. `running` is never cleared.
- Register access: on a shared line the handler runs while BAR0 shows the PHY. A
  storm noticed between the saving of the mask and its restoring is unmasked.
- PHY: RXLPF_OUTVCM is set for the band on chain 0 only, and the upload of
  the radio tables that ends every PHY initialisation resets it to 4 on both
  chains. The power registers of the chains (C1 to C3_TXPCTL_PWR) stay at the
  20 dBm of `nphy_core_init`, whatever the SPROM says. The target power is not
  capped again for 5 GHz; the temperature compensation is
  computed and not applied; `b43bsd_tables_upload_noise` reads one word past its
  table; the gain tables are overwritten by the AFE and gain calibration tables;
  resume initialises the PHY only if firmware was running, and does not
  calibrate.
- MAC: down and up again in RUN leaves MACCTL_ENABLED clear; keys are not
  programmed again after a loss of power; the comment says key entries are
  32 bytes apart, the code puts them 8 apart.
- Rate control: probabilities are taken as percents in one place and as
  fixed-point in another, so an untried highest rate becomes the best after the
  first update; every completion counts as a success of `sc_cur_rateidx`, so the
  "automatic fallback" of the file's comment never happens.

## 5. Proofs

TLAPS proves, for every value of the constants, every invariant and every
action property that a run checks (but the four that runs refute). Each
`_proofs` module has one inductive invariant, `IInv`, named in its theorem
`Invariant` or `InvHolds`; the properties follow from it, the type invariant
among them. `IInv` was checked by TLC on the run's instance before it was
proved. What follows says what `IInv` needs beyond the properties, and why.

**B43TxRing** (`TypeCorrect`, `UsedIsExact`, `DmaMemoryIsLive`,
`EveryFrameHasOneOwner`, `OwnedIsWindow`, `RefinesFifo`). `used` stays below
NSlots only because a slot is filled when it is empty, so that its type needs
`UsedExact`, which needs that no ring means no occupied slot. `Ownership`:
frames in slots are distinct, frames in the queue are distinct, no frame is in
both, what is in either was submitted and not freed, what is in neither was
freed once if submitted, and an owned descriptor belongs to an occupied slot.
`SingleOwner` counts and is not convenient to carry through a step; these
set-like parts are, and imply it. The refinement adds `OwnedWindow`, by which
the frames in flight are a sequence (`Path`) that grows at `cur_tx` and shrinks
at the device's end, and `SentInv`: a frame in a slot the device gave back was
transmitted, and one transmitted is never queued again. Then every step is one of
the FIFO's or a stutter: posting one frame (`StartPosts`, `DirectPosts`) is
`Post`, a frame refused (`StartDrops`, `DirectDrops`) `Refuse`, `HwConsume`
`Transmit`, a slot freed (`ReapFrees`) `Release`, the loss of the ring
(`RecoverRebuilds`, `Stop`) `TearDown`.

**B43RxRing** (`TypeCorrect`, `BufferIsThere`, `FrameInOnePlace`,
`EveryHoleReachable`, `NoneOvertakenByARing`). Without a ring no slot has a
buffer (`DownEmpty`), so that a ring is always built on nothing. `FrameInv` accounts for each
frame the device stored: in one slot, or gone from the ring, in one way.
`OwnsRun` says that a device that keeps its position owns one run of slots,
from its own up to `cur_rx`; so the empty slots follow `cur_rx`. Overtaking is
about both kinds of device and needs `LapInv`: the device owns at most two runs
(one ending at `cur_rx`, one at the last slot) and stands at the beginning of
one or at slot 0 (`TwoRuns`); it reaches the slots in the order of the frames
that wait there, unless it is stranded at slot 0 (`Ordered`); and while a frame
waits, every later one is still in a slot (`LaterKept`), so that there are
fewer than NSlots of them.

**B43Driver** (`TypeCorrect`, `RingsSafe`, `MaskSafe`, `TimersSafe`,
`BeaconsWatched`, `DownStaysDown`). The four invariants and the types, with two
facts about the ends of an interface's life: a machine asleep is not being
detached, so resume starts nothing that is going away; and a detach under way
has no timeout left that starts an interface, only a storm timeout that finds
it running.

**B43Attach**, with B43Ssb and B43Firmware (`TypeCorrect`, `AttachReleases`,
`CoresComeUp`, `PhyCoreIsFound`, `PaLinesStay`, `CompleteStaysSafe`,
`CacheStays`), for every backplane, not only those of the run. First what
the enumeration lists (`ListOf`) and so which page a core's base is
(`PageIsSlot`, `MadeUpFacts`); then what each stage has made (`StageInv`), that
the cores enabled so far are live while the power is kept (`LiveInv`), that it
is kept until the attach is over and what is left once it was lost
(`PowerInv`), that a made-up PHY was accessed past BAR0 (`MadeUpInv`), and that
the microcode image is freed only when it was rejected and good when it runs
(`FwInv`), without which a resume could free an image no initialisation
rejected.

**B43Phy** (`TypeCorrect`, `RadioOneBand`, `PowerIsCapped`, `TablesSurvive`,
`DiversityIsRight`). A lemma per function says which fields it sets and which
it keeps. `TunedInv` is what a finished switch has tuned, and what the chains'
power registers and RXLPF_OUTVCM are, `RegInv` what holds
of any register file, `DivInv` what the diversity cycle remembers of the
antennas measured so far. `Caps`: the power limit is positive and at most the
band's, whatever the SPROM's offsets. The types are a second induction on top:
every function maps register files to register files.

**B43Mac**, with B43Keys (`TypeCorrect`, `SleepIsSafe`, `KeyTableExact`,
`NoMaterialLeft`). Power save needs that only a running interface sleeps, with
nothing posted, and that the softc has not forgotten which of the two ways it
sleeps by; the key properties are inductive with the types. That
`b43bsd_set_key` finds a slot is a counting argument.

**B43Rate** (`TypeCorrect`, `AttemptsAreConserved`, `BestIsTheFlatOne`,
`EstimatesStayBetween`). Lemmas on the fixed-point arithmetic, the sums over
the rates, and that the best of the groups' bests is the best of all, group by
group or flat. `IInv` adds that every estimate is at least one percent
while the statistics are on - else no rate need have any throughput and an
update would keep the old best - and that nothing is counted while they are off.

**B43RegAccess** (`PhantomSafe`, `AccessSafe`, `StatusTrue`, and `TypeCorrect`
in the module). A statement per program counter: what the window, the mask
and the mask saved are at each step of an access, and where the last command
is (shared memory, firmware, finished), as long as none timed out.

Assumptions. The theorems rest on the named ASSUMEs of the modules, which TLC
evaluates: counts and thresholds are naturals, rings and tables are not empty,
NoMbuf is no frame, keys have at most four words, channels are of the right band and
registers' values of the right width, the devices are backplanes. Two say
more. `RateAssumption`: no rate is slower than 100 kbps (the slowest of the
tables is 6500), for a throughput that rounds to 0 could not be the best.
`CoresLive` and `CompleteIsSafe` presume ChipCommon in slot 0 and in no other;
TLC's devices have at most one, and the statement that only asked for one
in slot 0 turned out false in the proof, for a backplane with a second.

Techniques. The recursive definitions (`Found`, `SpromLimit`, `SumRates`) are
recursive functions, and are unfolded step by step with an induction over the
subsets of an interval, derived from the library's well-founded orderings
(`LeastNatural`, repeated in the modules that need it, then `Induction`). `Word`
is written as a product because the provers cannot handle the literal.

Only model-checked: liveness (`StallEndsUndisturbed`, `RingFramesFreed`,
`DeviceRefed`, `StoredDelivered`, `FirstLossReported`, `ThresholdsRecover`),
which with fairness and ENABLED is out of the prover's reach; and the four
refutations.

## 6. Plan

An abstract specification of the receive ring (a pool that loses no frame and
delivers each once) and of the register window (an access that is one step),
each with its refinement proved from the invariants that exist. The safety
half of the liveness properties: what each waits for can always be reached,
because no step but the one that makes it true disables it.

## 7. Not modelled

- Functions nothing calls: PIO, flush, fragmented and multi-segment transmit,
  tx_status_process, AP, IBSS, WDS and monitor modes, EDCA, crypto_*,
  `b43bsd_xmit.c`, diagnostics and register dumps.
- Bluetooth coexistence: enabled only under a quirk flag nothing sets.
- A-MPDU sessions: their flags and the receive offset change nothing in the
  running driver, and the reorder buffer is never filled.
- The watchdog, whose `if_timer` is never armed.
- The PCM firmware image; the SPROM's CRC, which is only reported; the
  temperature; calibration values nothing else reads; the analogue values of
  the compiled-in tables.
- The simulator beyond its backplane and enumeration; build and install scripts.
- Node reference counts, which belong to net80211.
