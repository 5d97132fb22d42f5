------------------------------- MODULE B43Phy -------------------------------
(***************************************************************************)
(* The registers of the N-PHY and of its radio (ic/b43bsd_phy_n.c,         *)
(* ic/b43bsd_radio.c, ic/b43bsd_tables.c) through bring-up, channel        *)
(* changes, the periodic calibration, suspend and resume.                  *)
(*                                                                         *)
(* phy is one record, the register file; a C function that programs        *)
(* registers is an operator from register files to register files, what    *)
(* it reads from the hardware is a parameter, and an action is the         *)
(* composition of the functions a caller runs.  Nothing else touches these *)
(* registers, so the callers (process and softclock level) are atomic.     *)
(***************************************************************************)
EXTENDS Integers, Sequences

(* chan_5ghz_freq, and the int_div column of b2056_pll_5ghz beside it.      *)
Chan5Table == <<36, 40, 44, 48, 52, 56, 60, 64, 100, 104, 108, 112, 116, 120, 124, 128,
                132, 136, 140, 149, 153, 157, 161, 165>>

Pll5Table == <<207, 208, 208, 209, 210, 211, 212, 212, 220, 220, 221, 222, 223, 224, 224,
               225, 226, 227, 228, 229, 230, 231, 232, 233>>

(* b43bsd_setup_channels: what net80211 may tune to; B43BSD_FLAG_5GHZ is     *)
(* always set.  Where radar may be heard it may only listen.               *)
Advertised == 1 .. 14 \cup {Chan5Table[i] : i \in 1 .. 24}

Passive == {c \in Advertised : c \in 52 .. 64 \cup 100 .. 140}

Int8 == -128 .. 127
Byte == 0 .. 255
Word == 0 .. 256 * 256 - 1   \* 16 bits

CONSTANTS
  Chan2, Chan5,     \* channels of either band that net80211 may ask for
  Offsets2,         \* sc_mcs_pwr_2g, sc_mcs_pwr_5g: the SPROM's power offset of
  Offsets5,         \* each rate, in quarters of a dBm
  Rssi,             \* raw RSSI bytes the hardware may return
  RadioIds,         \* what the radio's ID register may read
  Silent,           \* sets of chains that may let a calibration time out
  Junk,             \* what may lie behind nphy_noise_2ghz in memory
  MaxSuspends       \* bound on suspends

ASSUME PhyAssumption ==
  /\ Chan2 \subseteq 1 .. 14 /\ 1 \in Chan2
  /\ Chan5 \subseteq Advertised \ 1 .. 14
  /\ Chan5 \cap Passive # {}
  /\ RadioIds \subseteq Word /\ RadioIds # {}
  /\ {Offsets2, Offsets5} \subseteq [1 .. 16 -> Int8]
  /\ Rssi \subseteq Byte /\ Rssi # {}
  /\ Junk \subseteq Word /\ Junk # {}
  /\ Silent \subseteq SUBSET (0 .. 2) /\ Silent # {}
  /\ MaxSuspends \in Nat

VARIABLES
  phy,       \* the register file
  running,   \* B43BSD_FLAG_RUNNING
  fw,        \* sc_fw.running
  div,       \* the static variables of b43bsd_phy_n_antdiv
  heard,     \* the RSSI last measured on each antenna (history)
  lost,      \* the registers lost power and b43bsd_phy_n_init has not run since
  bare,      \* ... and the compiled-in tables have not been uploaded since
  asleep, suspends

vars == <<phy, running, fw, div, heard, lost, bare, asleep, suspends>>

Channels == Chan2 \cup Chan5

Bands == {2, 5}

BandOf(c) == IF c \in Chan2 THEN 2 ELSE 5

Lower(a, b) == IF a < b THEN a ELSE b
Higher(a, b) == IF a > b THEN a ELSE b

(* b43bsd_sprom_parse: what a band's limit is reduced to.  Every negative   *)
(* offset is taken off, one after the other, although the comment there has *)
(* it that the most restrictive one is.  (The limits of the country are put *)
(* on the values of the previous attach and overwritten by these.)         *)
Reduced(limit, off) == IF off < 0 /\ off < limit THEN limit - (-off) \div 4 ELSE limit

SpromLimit(base, offsets) ==
  LET limit[n \in 0 .. 16] ==
        IF n = 0 THEN base ELSE Reduced(limit[n - 1], offsets[n])
  IN  limit[16]

(* sc_maxpwr_2ghz, sc_maxpwr_5ghz                                          *)
Limit2 == SpromLimit(20, Offsets2)
Limit5 == SpromLimit(18, Offsets5)

(* 0xff masks, halving and the offset of "dBm = (rssi / 2) - 95".           *)
Dbm(rssi) == rssi \div 2 - 95

-----------------------------------------------------------------------------
(* The table memory behind TABLE_ADDR: which upload wrote each entry last.  *)

(* The tables overlap.  Each piece their bounds cut the memory into is       *)
(* represented by its first address.                                       *)
Addresses == {0, 1, 16, 32, 33, 34, 64, 72, 80, 96, 128, 384}

(* The addresses of the compiled-in tables.  The base address of the RF     *)
(* sequence table is added to entries that already carry it.               *)
TxGainEntries  == 0 .. 31
RxGainEntries  == {1}
McsEntries     == 16 .. 39
RfSeqEntries   == 384 .. 401
AfeEntries     == 0 .. 15
GainCalEntries == 16 .. 33
PaEntries      == 96 .. 111
VcoEntries     == 128 .. 143

(* The entries of nphy_rxgain_* all go through one address; the PAPD table   *)
(* has eight for each chain.                                               *)
Region(t) ==
  Addresses \cap
    CASE t = "txgain"     -> TxGainEntries
      [] t = "rxgain"     -> RxGainEntries
      [] t = "mcs"        -> McsEntries
      [] t = "rfseq"      -> RfSeqEntries
      [] t = "afe"        -> AfeEntries
      [] t = "gaincal"    -> GainCalEntries
      [] t = "pa"         -> PaEntries
      [] t = "vco"        -> VcoEntries
      [] t = "papd"       -> 64 .. 87
      [] t = "classifier" -> {32, 34, 36, 38}

Uploads == {"txgain", "rxgain", "mcs", "rfseq", "afe", "gaincal", "pa", "vco", "papd",
            "classifier"}

(* Fault: the classifier patterns are written over the AFE table.          *)
UploadShifted(owner, t) ==
  [a \in Addresses |->
     IF a \in Region(t) \/ (t = "classifier" /\ a + 32 \in Region(t)) THEN t ELSE owner[a]]

(* nphy_write_pair_table and the loops like it.                            *)
Upload(owner, t) == [a \in Addresses |-> IF a \in Region(t) THEN t ELSE owner[a]]

(* The entries of a chain get the PAPD defaults when its training times out. *)
PapdDefaults(owner, chains) ==
  [a \in Addresses |->
     IF \E c \in chains : a \in 64 + 8 * c .. 71 + 8 * c THEN "papd" ELSE owner[a]]

(* b43bsd_tables_upload_mcs_power                                          *)
UploadMcsPower(owner) == Upload(owner, "mcs")

(* The uploads of b43bsd_init after b43bsd_tables_upload_all.              *)
InitUploads(owner) ==
  LET mcs   == UploadMcsPower(owner)
      rfseq == Upload(mcs, "rfseq")
      afe   == Upload(rfseq, "afe")
      gain  == Upload(afe, "gaincal")
      pa    == Upload(gain, "pa")
  IN  Upload(pa, "vco")

-----------------------------------------------------------------------------
(* The functions that program the PHY.                                     *)

(* nphy_core_init: SGI on, the default thresholds, 20 dBm in the power      *)
(* registers of the three chains, the 2.4 GHz loop filter, every chain on,   *)
(* the classifier on, the sampling engine at rest.  Core 3's threshold       *)
(* register is at 0x04C, where the table means to set another one.          *)
UploadCore(p) ==
  [p EXCEPT !.bbcfg = {"sgi"}, !.ed = [p.ed EXCEPT ![1] = 76, ![2] = 76, ![3] = 128],
            !.chainpwr = 20, !.loop = 2, !.txsw = 7, !.rxsw = 7, !.class = TRUE, !.samp = FALSE,
            !.iq = {}]

(* b43bsd_tables_upload_iq_defaults: no compensation in either core.       *)
UploadIqDefaults(p) == [p EXCEPT !.iq = {}]

(* b43bsd_tables_upload_txgain, _upload_rxgain                             *)
UploadGains(p) == [p EXCEPT !.owner = Upload(Upload(@, "txgain"), "rxgain")]

(* b43bsd_tables_upload_noise for 2.4 GHz.  Its second pass reads one entry *)
(* past the four of the table.                                             *)
UploadNoise(p, junk) == [p EXCEPT !.ed = [p.ed EXCEPT ![1] = 192, ![2] = junk]]

(* b43bsd_tables_upload_mimo(sc, 3)                                        *)
UploadMimo(p) == [p EXCEPT !.txsw = 7, !.rxsw = 7]

(* b43bsd_tables_upload_all                                                *)
UploadAll(p, junk) ==
  UploadMimo(UploadNoise(UploadGains(UploadIqDefaults(UploadCore(p))), junk))

(* b2056_extended_rev9 for 2.4 GHz: chain 0 only.                          *)
RadioExtended(p) == [p EXCEPT !.bias = 2, !.txpu = @ \cup {0}]

(* b43bsd_radio_reset leaves every chain powered.                          *)
RadioReset(p) == [p EXCEPT !.txpu = {0, 1}]

(* b43bsd_radio_vco_cal for the dividers that are set; that it may time out *)
(* is ignored.                                                             *)
VcoCal(p) == [p EXCEPT !.vco = p.pll]

(* Fault: the receive bank keeps the tables of the band it had.            *)
RadioInitKeeps5(p, b) ==
  VcoCal([p EXCEPT !.tables = IF @ = 5 THEN 5 ELSE b, !.idac = 2, !.vcm0 = 4, !.vcm1 = 4])

(* b43bsd_radio_2056_init: the column of b2056_rev9_* for the band, by       *)
(* radio_upload_bank.  The transmit currents are those of the 2.4 GHz band   *)
(* in both columns, RXLPF_OUTVCM of both chains is 4 in both, and           *)
(* PLL_VCOCAL1 starts a calibration of the VCO.                            *)
Radio2056Init(p, b) == VcoCal([p EXCEPT !.tables = b, !.idac = 2, !.vcm0 = 4, !.vcm1 = 4])

(* The dividers the table has for a channel.  The fractions of the 2.4 GHz  *)
(* channels differ (the channel stands for them); those of the 5 GHz        *)
(* channels are all 0, so that some neighbours share their dividers.       *)
Divider(c) ==
  IF c \in Chan2
  THEN [int |-> IF c <= 3 THEN 193 ELSE 194, frac |-> c]
  ELSE [int |-> Pll5Table[CHOOSE i \in 1 .. 24 : Chan5Table[i] = c], frac |-> 0]

(* b43bsd_phy_n_pll_tune                                                   *)
PllTune(p, c) == [p EXCEPT !.pll = Divider(c), !.loop = BandOf(c)]

(* b43bsd_radio_rssi_cal: the transmit chains are off while it measures.    *)
RssiCal(p) == [p EXCEPT !.txpu = (@ \ {0, 1}) \cup {0, 1}]

(* What RXLPF_OUTVCM is given for a channel.                               *)
OutVcm(c) == IF BandOf(c) = 5 THEN 4 ELSE 5

(* b43bsd_radio_set_channel.  The bias and the currents are mirrored to the  *)
(* second chain, RXLPF_OUTVCM is not.                                      *)
RadioSetChannel(p, c) ==
  RssiCal(VcoCal([p EXCEPT !.bias = BandOf(c), !.idac = BandOf(c), !.vcm0 = OutVcm(c)]))

(* b43bsd_phy_n_attach: the manufacturer and the version in the radio's ID. *)
KnownRadio(id) == id % 256 = 23 /\ (id \div 256) % 16 = 5

(* The fourth coefficient of a channel's filter.                           *)
FilterTap(c) == IF BandOf(c) = 2 THEN 0 ELSE 1

(* b43bsd_tables_upload_filters writes 0x049 .. 0x04D.  The RX filter is at *)
(* 0x064 .. 0x068; 0x04C is core 3's energy threshold.                     *)
UploadFilters(p, c) == [p EXCEPT !.ed = [p.ed EXCEPT ![3] = FilterTap(c)]]

(* b43bsd_phy_n_switch_channel.  (The command that tells the microcode is in *)
(* B43RegAccess.)                                                          *)
SwitchChannel(p, c) ==
  LET q == [p EXCEPT !.band = BandOf(c), !.chan = c, !.rx = BandOf(c), !.bw = BandOf(c)]
      r == PllTune(UploadFilters(Radio2056Init(q, BandOf(c)), c), c)
  IN  RadioSetChannel(r, c)

(* nphy_maskset: the bits in mask are cleared, not kept.                    *)
MaskSet(bits, mask, set) == (bits \ mask) \cup set

(* b43bsd_phy_n_set_bw(sc, 0, 0).  To clear the 40 MHz bit, all bits but    *)
(* that one are given as the mask.                                         *)
SetBw20(p) == [p EXCEPT !.bw = 2, !.bbcfg = MaskSet(@, {"sgi"}, {})]

(* A limit that is not positive is taken for none.                         *)
Cap(b) ==
  IF b = 5 THEN (IF Limit5 > 0 THEN Limit5 ELSE 18)
           ELSE (IF Limit2 > 0 THEN Limit2 ELSE 20)

(* b43bsd_phy_n_txpower: the target, its base and pilot index are capped for *)
(* the band that is set now; the power registers of the chains are left.     *)
TxPower(p, dbm) == [p EXCEPT !.dbm = Lower(Higher(dbm, 0), Cap(p.band))]

(* b43bsd_phy_n_set_antenna(sc, 0, 0)                                      *)
SetAntennaAuto(p) == [p EXCEPT !.txsw = 7, !.rxsw = 7]

(* Fault: the power is set before the band.                                *)
PhyInitPowerFirst(p) ==
  LET q == [TxPower(p, 16) EXCEPT !.band = 2, !.bw = 2, !.rxsw = 0,
                                  !.class = TRUE, !.ed = [i \in 1 .. 3 |-> 76]]
      r == SetAntennaAuto(SwitchChannel(q, 1))
  IN  Radio2056Init([r EXCEPT !.bbcfg = @ \cup {"sgi"}], 2)

(* b43bsd_phy_n_init                                                       *)
PhyInit(p) ==
  LET q == [p EXCEPT !.band = 2, !.bw = 2, !.rxsw = 0, !.class = TRUE,
                     !.ed = [i \in 1 .. 3 |-> 76]]
      r == SetAntennaAuto(SwitchChannel(TxPower(q, 16), 1))
  IN  Radio2056Init([r EXCEPT !.bbcfg = @ \cup {"sgi"}], 2)

-----------------------------------------------------------------------------
(* Calibration.                                                            *)

(* b43bsd_phy_n_tx_iq_cal: TXCTL is saved, both cores calibrate (or time    *)
(* out, which is only logged), and TXCTL is restored.                      *)
TxIqCal(p) ==
  LET calibrating == [p EXCEPT !.txctl = [i \in 1 .. 2 |-> "calibrate"]]
  IN  [calibrating EXCEPT !.txctl = p.txctl]

(* b43bsd_phy_n_rx_iq_cal: what the estimator left in the compensation       *)
(* registers of a core is written back.  Core 1 is chain 0; a core that      *)
(* times out keeps what it had.                                            *)
RxIqCal(p, silent) == [p EXCEPT !.iq = @ \cup {core \in 1 .. 2 : core - 1 \notin silent}]

(* b43bsd_phy_n_noise_cal: a threshold 10 dB over a noise floor that moved. *)
NoiseCal(p, r1, r2) ==
  LET moved(r) == Dbm(r) < -98 \/ Dbm(r) > -88
      thres(r) == (Dbm(r) + 105) * 2
  IN  [p EXCEPT !.ed = [p.ed EXCEPT ![1] = IF moved(r1) THEN thres(r1) ELSE @,
                                    ![2] = IF moved(r2) THEN thres(r2) ELSE @]]

Clamp(ed) == Lower(Higher(ed, 64), 252)

(* b43bsd_phy_n_cca_autotune; core 3 follows core 2.                       *)
CcaAutotune(p, r1, r2) ==
  [p EXCEPT !.ed = [i \in 1 .. 3 |-> Clamp((IF i = 1 THEN r1 ELSE r2) + 20)]]

(* Fault: the noise floor is calibrated last.                              *)
MaintenanceNoiseLast(p, r1, r2) == NoiseCal(CcaAutotune(p, r1, r2), r1, r2)

(* The two in the order both callers use; the RSSI of a core is taken to be *)
(* the same for both.                                                      *)
Maintenance(p, r1, r2) == CcaAutotune(NoiseCal(p, r1, r2), r1, r2)

(* b43bsd_phy_n_mimo_estimation: the engine is started and never stopped;   *)
(* the matrix is read through the table address only to be logged.         *)
MimoEstimation(p) == [p EXCEPT !.samp = TRUE]

(* b43bsd_phy_n_classifier_train                                           *)
ClassifierTrain(p) == [p EXCEPT !.owner = Upload(@, "classifier"), !.class = TRUE]

(* b43bsd_phy_n_full_calibration                                           *)
FullCalibration(p, silent, r1, r2) ==
  LET q == RxIqCal(TxIqCal(p), silent)
      r == [q EXCEPT !.owner = PapdDefaults(@, silent)]
  IN  ClassifierTrain(MimoEstimation(Maintenance(r, r1, r2)))

(* Fault: the best RSSI of the last cycle is still compared with.          *)
AntDivKeepsBest(d, dbm) ==
  CASE d.state = 0 -> [d EXCEPT !.state = 1, !.ant = 0]
    [] d.state \in {1, 2} ->
         [state |-> d.state + 1, best |-> Higher(d.best, dbm),
          ant   |-> IF dbm > d.best THEN d.state ELSE d.ant]
    [] d.state = 3 -> [d EXCEPT !.state = 0]

(* b43bsd_phy_n_antdiv, its static variables ...                           *)
AntDiv(d, dbm) ==
  CASE d.state = 0 -> [state |-> 1, best |-> dbm, ant |-> 0]
    [] d.state \in {1, 2} ->
         [state |-> d.state + 1, best |-> Higher(d.best, dbm),
          ant   |-> IF dbm > d.best THEN d.state ELSE d.ant]
    [] d.state = 3 -> [d EXCEPT !.state = 0]

(* ... and the switch it sets: one antenna.                                *)
AntSwitch(d) == CASE d.state = 0 -> 1
                  [] d.state = 1 -> 2
                  [] d.state = 2 -> 4
                  [] d.state = 3 -> 2 ^ d.ant

-----------------------------------------------------------------------------
(* The callers.                                                            *)

(* The registers.                                                          *)
RegisterFiles ==
  LET dividers == {[int |-> 0, frac |-> 0]} \cup {Divider(c) : c \in Channels}
  IN  [chan : {0} \cup Channels, pll : dividers, vco : dividers, band : Bands, rx : Bands,
       bw : Bands, tables : Bands, bias : Bands, loop : Bands, idac : Bands,
       vcm0 : {0, 4, 5}, vcm1 : {0, 4, 5}, ed : [1 .. 3 -> Word], dbm : 0 .. 20,
       chainpwr : {0, 20}, bbcfg : SUBSET {"sgi", "ht40"},
       class : BOOLEAN, samp : BOOLEAN, iq : SUBSET {1, 2}, txsw : {0, 7},
       rxsw : {0, 1, 2, 4, 7}, txpu : SUBSET {0, 1},
       txctl : [1 .. 2 -> {"normal", "calibrate"}],
       owner : [Addresses -> Uploads \cup {"none"}]]

(* What a register file without power may hold.                            *)
Unpowered ==
  [chan |-> 0, band |-> 5, rx |-> 2, bw |-> 2, tables |-> 2, bias |-> 2, loop |-> 2,
   idac |-> 2, vcm0 |-> 0, vcm1 |-> 0, pll |-> [int |-> 0, frac |-> 0],
   vco |-> [int |-> 0, frac |-> 0], ed |-> [i \in 1 .. 3 |-> 0], dbm |-> 0, chainpwr |-> 0,
   bbcfg |-> {}, class |-> FALSE, samp |-> FALSE, iq |-> {},
   txsw |-> 0, rxsw |-> 0, txpu |-> {}, txctl |-> [i \in 1 .. 2 |-> "normal"],
   owner |-> [a \in Addresses |-> "none"]]

Init ==
  /\ phy = Unpowered
  /\ running = FALSE
  /\ fw = FALSE
  /\ div = [state |-> 0, best |-> -100, ant |-> 0]
  /\ heard = [a \in 0 .. 2 |-> -100]
  /\ lost = TRUE
  /\ bare = TRUE
  /\ asleep = FALSE
  /\ suspends = 0

(* The PHY part of b43bsd_init.  It goes on without firmware, fails when    *)
(* the radio is not the one it knows, and may still fail on the DMA rings.  *)
BringUp ==
  /\ ~running
  /\ ~asleep
  /\ \E id \in RadioIds, junk \in Junk, silent \in Silent, r1, r2 \in Rssi :
       LET all  == RadioExtended(UploadAll(phy, junk))
           tabs == RadioReset([all EXCEPT !.owner = InitUploads(@)])
       IN  /\ fw' \in {fw, TRUE}
           /\ bare' = FALSE
           /\ \/ /\ KnownRadio(id)
                 /\ phy' = FullCalibration(PhyInit(tabs), silent, r1, r2)
                 /\ lost' = FALSE
                 /\ running' \in BOOLEAN
              \/ /\ ~KnownRadio(id)
                 /\ phy' = tabs
                 /\ UNCHANGED <<lost, running>>
  /\ UNCHANGED <<div, heard, asleep, suspends>>

(* b43bsd_stop programs no PHY register.                                   *)
Stop ==
  /\ running
  /\ ~asleep
  /\ running' = FALSE
  /\ UNCHANGED <<phy, fw, div, heard, lost, bare, asleep, suspends>>

(* b43bsd_set_channel.  net80211 scans even when b43bsd_init has failed.    *)
SetChannel(c) ==
  /\ ~asleep
  /\ phy' = SetBw20(SwitchChannel(phy, c))
  /\ UNCHANGED <<running, fw, div, heard, lost, bare, asleep, suspends>>

(* b43bsd_periodic_cal.  b43bsd_radio_temp_compensation only logs the power *)
(* it computes.                                                            *)
PeriodicCal ==
  /\ running
  /\ ~asleep
  /\ \E r1, r2, r \in Rssi :
       /\ phy' = [Maintenance(phy, r1, r2) EXCEPT !.rxsw = AntSwitch(div)]
       /\ div' = AntDiv(div, Dbm(r))
       /\ heard' = IF div.state < 3 THEN [heard EXCEPT ![div.state] = Dbm(r)] ELSE heard
  /\ UNCHANGED <<running, fw, lost, bare, asleep, suspends>>

(* b43bsd_activate: suspend programs no PHY register either; the power may  *)
(* be cut.                                                                 *)
Suspend ==
  /\ ~asleep
  /\ suspends < MaxSuspends
  /\ suspends' = suspends + 1
  /\ asleep' = TRUE
  /\ \/ phy' = Unpowered /\ lost' = TRUE /\ bare' = TRUE
     \/ UNCHANGED <<phy, lost, bare>>
  /\ UNCHANGED <<running, fw, div, heard>>

(* Resume: the PHY is initialised again only when firmware that was running *)
(* is found lost.  For an interface that was running, b43bsd_init returns   *)
(* at once.                                                                *)
Resume ==
  /\ asleep
  /\ asleep' = FALSE
  /\ IF fw /\ lost
     THEN phy' = PhyInit(phy) /\ lost' = FALSE
     ELSE UNCHANGED <<phy, lost>>
  /\ UNCHANGED <<running, fw, div, heard, bare, suspends>>

Next ==
  \/ BringUp
  \/ Stop
  \/ \E c \in Channels : SetChannel(c)
  \/ PeriodicCal
  \/ Suspend
  \/ Resume

Spec == Init /\ [][Next]_vars

(* The calibration timeout of a running driver is always armed, and a       *)
(* machine that sleeps wakes up.                                           *)
FairSpec == Spec /\ WF_vars(PeriodicCal) /\ WF_vars(Resume)

-----------------------------------------------------------------------------
(* Properties.                                                             *)

(* Every variable has its type: the one type invariant of this module.     *)
TypeOK ==
  /\ phy \in RegisterFiles
  /\ div.state \in 0 .. 3 /\ div.ant \in 0 .. 2
  /\ {div.best} \cup {heard[a] : a \in 0 .. 2} \subseteq -100 .. 32
  /\ {running, fw, lost, bare, asleep} \subseteq BOOLEAN
  /\ suspends \in 0 .. MaxSuspends

(* The parts of the radio agree on one channel and one band, whatever        *)
(* sequence of bring-ups, failed bring-ups, channel changes and calibrations *)
(* led here: the band select, the receive path, the synthesizer, its loop   *)
(* filter and the VCO's calibration, the bias and the currents of the chains *)
(* and the radio's register tables, each of which several functions write;  *)
(* and the transmit chains are left powered and out of the calibration mode, *)
(* timeouts included.  RXLPF_OUTVCM is the one part that does not: chain 1's *)
(* is the 4 of both columns of the tables in either band, and chain 0's is   *)
(* that of the band but on channel 1, where the tables that                 *)
(* b43bsd_phy_n_init uploads last may have left the 5 GHz value.           *)
OneBand ==
  running /\ ~lost /\ ~asleep =>
    /\ phy.pll = Divider(phy.chan) /\ phy.vco = phy.pll
    /\ {phy.band, phy.rx, phy.tables, phy.bias, phy.idac, phy.loop} = {BandOf(phy.chan)}
    /\ phy.txctl = [i \in 1 .. 2 |-> "normal"] /\ phy.txpu = {0, 1}
    /\ phy.vcm1 = 4
    /\ phy.vcm0 = OutVcm(phy.chan) \/ (phy.chan = 1 /\ phy.vcm0 = 4)

(* The SPROM limit of the 2.4 GHz band is kept by the target of the power    *)
(* control: bring-up may find the PHY left on either band, and the target    *)
(* is capped for the band selected.  (In the 5 GHz band nothing caps it      *)
(* again.)  The limit reaches no further: once nphy_core_init has run, the   *)
(* power registers of the chains ask for 20 dBm, whatever the SPROM says.    *)
PowerCapped2 ==
  running /\ ~lost /\ phy.band = 2 =>
    /\ phy.dbm <= Cap(2)
    /\ ~bare => phy.chainpwr = 20

(* Of the tables that share the table memory, the AFE, PA, VCO, RF sequence *)
(* and classifier tables survive all later uploads.  (The TX and RX gain    *)
(* tables do not: the AFE and gain calibration tables lie on top of them.)  *)
TablesKept ==
  running /\ ~bare =>
    \A t \in {"afe", "pa", "vco", "rfseq", "classifier"} :
      \A a \in Region(t) : phy.owner[a] = t

(* The antenna that diversity locks is the strongest of the last three      *)
(* measurements, bring-ups in the middle of a cycle notwithstanding.       *)
DiversityPicksBest ==
  div.state = 0 /\ phy.rxsw \in {1, 2, 4} =>
    /\ phy.rxsw = 2 ^ div.ant
    /\ \A a \in 0 .. 2 : heard[div.ant] >= heard[a]

(* Every energy threshold of a running radio that is out of the range the    *)
(* automatic tuning allows comes back into it.  Core 3's is overwritten with *)
(* a filter coefficient by every channel change, and b43bsd_phy_n_noise_cal *)
(* computes thresholds of 1 and 2 that do not fit the register.            *)
ThresholdsRecover ==
  \A i \in 1 .. 3 :
    (running /\ phy.ed[i] \notin 64 .. 252) ~> (~running \/ phy.ed[i] \in 64 .. 252)

=============================================================================
