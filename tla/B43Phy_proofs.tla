----------------------------- MODULE B43Phy_proofs -----------------------------
(***************************************************************************)
(* The proofs of B43Phy: the radio stands on one band, the power is capped  *)
(* for whatever SPROM was read, the tables survive every later switch and   *)
(* calibration, and antenna diversity picks the better chain.               *)
(*                                                                         *)
(* The properties of B43Phy are conjoined in IInv with what makes them      *)
(* inductive: every field the registers should have, the chains' states     *)
(* and the bounds of the power (RegInv), what a finished switch has tuned   *)
(* (TunedInv), and the samples' and counters' types (DivTypes, DivInv).     *)
(* Each operator of a switch or a calibration gets a lemma that says which  *)
(* fields it sets and which it keeps; one lemma per action uses them.       *)
(*                                                                         *)
(* The types are a second induction, on top of the first: each operator     *)
(* maps register files to register files, so that no register is ever left  *)
(* at a value it cannot hold.                                              *)
(***************************************************************************)
EXTENDS B43Phy, FiniteSetTheorems, WellFoundedInduction, TLAPS

(* A nonempty set of naturals has a least member.                          *)
LEMMA LeastNatural ==
  ASSUME NEW S \in SUBSET Nat, S # {}
  PROVE  \E x \in S : \A y \in S : x <= y
<1> DEFINE Below(x) == {y \in S : y <= x}
           Downs == {Below(x) : x \in S}
<1>0. \A x \in S : x \in Nat
  OBVIOUS
<1>1. \A x \in S : Below(x) \in FiniteSubsetsOf(S)
  <2> TAKE x \in S
  <2>1. \A y \in Below(x) : y \in 0 .. x
    BY <1>0
  <2>2. IsFiniteSet(0 .. x)
    BY <1>0, FS_Interval
  <2>3. IsFiniteSet(Below(x))
    BY <2>1, <2>2, FS_Subset
  <2> QED
    BY <2>3 DEF FiniteSubsetsOf
<1>2. Downs \subseteq FiniteSubsetsOf(S) /\ Downs # {}
  BY <1>1
<1>3. \E D \in Downs : \A E \in Downs : <<E, D>> \notin StrictSubsetOrdering(S)
  BY <1>2, WFMin, FS_StrictSubsetOrderingWellFounded
<1>4. PICK x \in S : \A y \in S : <<Below(y), Below(x)>> \notin StrictSubsetOrdering(S)
  BY <1>3
<1>5. ASSUME NEW y \in S, y < x PROVE FALSE
  <2>1. \A z \in S : z <= y => z <= x
    BY <1>0, <1>5
  <2>2. x \in Below(x) /\ x \notin Below(y)
    BY <1>0, <1>5
  <2> QED
    BY <1>4, <2>1, <2>2 DEF StrictSubsetOrdering
<1> QED
  BY <1>0, <1>5

(* Induction up to m, over the set of the numbers for which a claim holds.   *)
LEMMA Induction ==
  ASSUME NEW m \in Nat, NEW S, 0 \in S, \A n \in 0 .. m - 1 : n \in S => n + 1 \in S
  PROVE  \A n \in 0 .. m : n \in S
<1> DEFINE Bad == {n \in 0 .. m : n \notin S}
<1> SUFFICES ASSUME Bad # {} PROVE FALSE
  OBVIOUS
<1>1. Bad \in SUBSET Nat
  OBVIOUS
<1>2. PICK n \in Bad : \A k \in Bad : n <= k
  BY <1>1, LeastNatural
<1>3. n \in 0 .. m /\ n \notin S /\ n # 0
  BY <1>2
<1>4. n - 1 \in 0 .. m - 1 /\ n - 1 \notin Bad
  BY <1>2, <1>3
<1>5. n - 1 \in S
  BY <1>4
<1>6. (n - 1) + 1 \in S
  BY <1>4, <1>5
<1> QED
  BY <1>3, <1>6

-----------------------------------------------------------------------------
(* The power limits.                                                       *)

(* What the loop of b43bsd_sprom_parse makes of the first n offsets.        *)
Loops(base, offsets, g, n) ==
  /\ g \in [0 .. n -> Int]
  /\ g[0] = base
  /\ \A i \in 1 .. n : g[i] = Reduced(g[i - 1], offsets[i])

(* The loop of b43bsd_sprom_parse over the offsets is defined and only ever *)
(* lowers the limit.                                                       *)
LEMMA LimitIsLower ==
  ASSUME NEW base \in Int, NEW offsets \in [1 .. 16 -> Int]
  PROVE  SpromLimit(base, offsets) \in Int /\ SpromLimit(base, offsets) <= base
<1> DEFINE Runs == {n \in 0 .. 16 : \E g : Loops(base, offsets, g, n)}
           Step(f) == [n \in 0 .. 16 |-> IF n = 0 THEN base
                                         ELSE Reduced(f[n - 1], offsets[n])]
           f == CHOOSE f : f = Step(f)
           Lower0 == {n \in 0 .. 16 : f[n] \in Int /\ f[n] <= base}
<1>1. \A limit, off \in Int : Reduced(limit, off) \in Int /\ Reduced(limit, off) <= limit
  BY DEF Reduced
<1>2. 0 \in Runs
  <2>1. Loops(base, offsets, [i \in 0 .. 0 |-> base], 0)
    BY DEF Loops
  <2> QED
    BY <2>1
<1>3. ASSUME NEW n \in 0 .. 15, n \in Runs PROVE n + 1 \in Runs
  <2>1. PICK g : Loops(base, offsets, g, n)
    BY <1>3
  <2>0. n \in Nat /\ n + 1 \in 1 .. 16
    OBVIOUS
  <2>2. g \in [0 .. n -> Int] /\ g[0] = base
    BY <2>1 DEF Loops
  <2>3. PICK v \in Int : v = Reduced(g[n], offsets[n + 1])
    <3>1. g[n] \in Int
      BY <2>0, <2>2
    <3>2. offsets[n + 1] \in Int
      BY <2>0
    <3> QED
      BY <1>1, <3>1, <3>2
  <2> DEFINE h == [i \in 0 .. n + 1 |-> IF i = n + 1 THEN v ELSE g[i]]
  <2>4. h \in [0 .. n + 1 -> Int]
    <3>1. \A i \in 0 .. n + 1 : (IF i = n + 1 THEN v ELSE g[i]) \in Int
      BY <2>0, <2>2
    <3> QED
      BY <3>1
  <2>5. \A i \in 0 .. n : h[i] = g[i]
    <3> TAKE i \in 0 .. n
    <3>1. i \in 0 .. n + 1 /\ i # n + 1
      BY <2>0
    <3> QED
      BY <3>1
  <2>6. h[n + 1] = Reduced(g[n], offsets[n + 1])
    BY <2>0, <2>3
  <2>7. h[0] = base
    <3>1. 0 \in 0 .. n
      BY <2>0
    <3> HIDE DEF h
    <3> QED
      BY <2>2, <2>5, <3>1
  <2>8. \A i \in 1 .. n + 1 : h[i] = Reduced(h[i - 1], offsets[i])
    <3> HIDE DEF h
    <3> TAKE i \in 1 .. n + 1
    <3>1. CASE i = n + 1
      <4>1. h[i - 1] = g[n]
        BY <2>0, <2>5, <3>1
      <4> QED
        BY <2>6, <3>1, <4>1
    <3>2. CASE i # n + 1
      <4>1. i \in 1 .. n /\ i - 1 \in 0 .. n /\ i \in 0 .. n
        BY <3>2
      <4> QED
        BY <2>1, <2>5, <4>1 DEF Loops
    <3> QED
      BY <3>1, <3>2
  <2>9. Loops(base, offsets, h, n + 1)
    <3> HIDE DEF h
    <3> QED
      BY <2>4, <2>7, <2>8 DEF Loops
  <2> HIDE DEF h
  <2> QED
    BY <2>0, <2>9
<1>4. PICK g : Loops(base, offsets, g, 16)
  <2>1. \A n \in 0 .. 16 : n \in Runs
    <3> HIDE DEF Runs
    <3> QED
      BY <1>2, <1>3, Induction
  <2> QED
    BY <2>1
<1>5. g = Step(g)
  BY <1>4 DEF Loops
<1>6. f = Step(f)
  <2> HIDE DEF Step
  <2> QED
    BY <1>5
<1> HIDE DEF f
<1>7. f[0] = base /\ \A n \in 1 .. 16 : f[n] = Reduced(f[n - 1], offsets[n])
  BY <1>6
<1>8. ASSUME NEW n \in 0 .. 15, n \in Lower0 PROVE n + 1 \in Lower0
  <2>1. f[n + 1] = Reduced(f[n], offsets[n + 1]) /\ f[n] \in Int /\ f[n] <= base
    BY <1>7, <1>8
  <2>4. offsets[n + 1] \in Int
    OBVIOUS
  <2>2. Reduced(f[n], offsets[n + 1]) \in Int /\ Reduced(f[n], offsets[n + 1]) <= f[n]
    BY <1>1, <2>1, <2>4
  <2>3. f[n + 1] \in Int /\ f[n + 1] <= base
    BY <2>1, <2>2
  <2> QED
    BY <2>3
<1>9. 0 \in Lower0
  BY <1>7
<1>10. 16 \in Lower0
  <2>1. \A n \in 0 .. 16 : n \in Lower0
    <3> HIDE DEF Lower0
    <3> QED
      BY <1>8, <1>9, Induction
  <2> QED
    BY <2>1
<1>11. SpromLimit(base, offsets) = f[16]
  BY DEF SpromLimit, f
<1> QED
  BY <1>10, <1>11

(* The caps are positive and at most the base power of the band.           *)
LEMMA Caps == Cap(2) \in 1 .. 20 /\ Cap(5) \in 1 .. 18
<1>1. Offsets2 \in [1 .. 16 -> Int8] /\ Offsets5 \in [1 .. 16 -> Int8]
  BY PhyAssumption
<1>2. Offsets2 \in [1 .. 16 -> Int] /\ Offsets5 \in [1 .. 16 -> Int]
  <2>1. Int8 \subseteq Int
    BY DEF Int8
  <2> QED
    BY <1>1, <2>1
<1>3. Limit2 \in Int /\ Limit2 <= 20
  BY <1>2, LimitIsLower DEF Limit2
<1>4. Limit5 \in Int /\ Limit5 <= 18
  BY <1>2, LimitIsLower DEF Limit5
<1> QED
  BY <1>3, <1>4 DEF Cap

-----------------------------------------------------------------------------
(* The register file.                                                      *)

Fields ==
  {"chan", "pll", "vco", "band", "rx", "bw", "tables", "bias", "loop", "idac", "vcm0", "vcm1",
   "ed", "dbm", "chainpwr", "bbcfg", "class", "samp", "iq", "txsw", "rxsw", "txpu", "txctl",
   "owner"}

(* The parts of the radio are set for channel c and its chains are powered.  *)
TunedTo(p, c) ==
  /\ p.chan = c /\ p.pll = Divider(c) /\ p.vco = Divider(c)
  /\ p.band = BandOf(c) /\ p.rx = BandOf(c) /\ p.tables = BandOf(c)
  /\ p.bias = BandOf(c) /\ p.idac = BandOf(c) /\ p.loop = BandOf(c)
  /\ p.txpu = {0, 1} /\ p.vcm1 = 4 /\ (p.vcm0 = OutVcm(c) \/ (c = 1 /\ p.vcm0 = 4))

(* b43bsd_phy_n_switch_channel sets every part of the radio for the channel. *)
LEMMA SwitchTunes ==
  ASSUME NEW p, DOMAIN p = Fields, p.txpu \subseteq {0, 1}, NEW c
  PROVE  /\ DOMAIN SwitchChannel(p, c) = Fields
         /\ TunedTo(SwitchChannel(p, c), c)
         /\ SwitchChannel(p, c).txctl = p.txctl
         /\ SwitchChannel(p, c).dbm = p.dbm /\ SwitchChannel(p, c).chainpwr = p.chainpwr
         /\ SwitchChannel(p, c).rxsw = p.rxsw
         /\ SwitchChannel(p, c).owner = p.owner
<1> DEFINE q == [p EXCEPT !.band = BandOf(c), !.chan = c, !.rx = BandOf(c), !.bw = BandOf(c)]
           s == UploadFilters(Radio2056Init(q, BandOf(c)), c)
           t == PllTune(s, c)
           u == RadioSetChannel(t, c)
<1>1. /\ DOMAIN s = Fields
      /\ s.chan = c /\ s.band = BandOf(c) /\ s.rx = BandOf(c) /\ s.tables = BandOf(c)
      /\ s.txctl = p.txctl /\ s.dbm = p.dbm /\ s.chainpwr = p.chainpwr
      /\ s.rxsw = p.rxsw /\ s.owner = p.owner
      /\ s.txpu = p.txpu /\ s.vcm1 = 4
  BY DEF Fields, UploadFilters, Radio2056Init, VcoCal
<1>2. /\ DOMAIN t = Fields
      /\ t.chan = c /\ t.band = BandOf(c) /\ t.rx = BandOf(c) /\ t.tables = BandOf(c)
      /\ t.pll = Divider(c) /\ t.loop = BandOf(c)
      /\ t.txctl = p.txctl /\ t.dbm = p.dbm /\ t.chainpwr = p.chainpwr
      /\ t.rxsw = p.rxsw /\ t.owner = p.owner
      /\ t.txpu = p.txpu /\ t.vcm1 = 4
  <2> HIDE DEF s
  <2> QED
    BY <1>1 DEF Fields, PllTune
<1>3. DOMAIN u = Fields /\ TunedTo(u, c) /\ u.txctl = p.txctl /\ u.dbm = p.dbm
      /\ u.chainpwr = p.chainpwr
      /\ u.rxsw = p.rxsw /\ u.owner = p.owner
  <2> DEFINE a == [t EXCEPT !.bias = BandOf(c), !.idac = BandOf(c), !.vcm0 = OutVcm(c)]
             b == VcoCal(a)
  <2>1. /\ DOMAIN a = Fields
        /\ a.chan = c /\ a.band = BandOf(c) /\ a.rx = BandOf(c) /\ a.tables = BandOf(c)
        /\ a.pll = Divider(c) /\ a.loop = BandOf(c)
        /\ a.bias = BandOf(c) /\ a.idac = BandOf(c)
        /\ a.txctl = p.txctl /\ a.dbm = p.dbm /\ a.chainpwr = p.chainpwr
        /\ a.rxsw = p.rxsw /\ a.owner = p.owner
        /\ a.txpu = p.txpu /\ a.vcm1 = 4 /\ a.vcm0 = OutVcm(c)
    <3> HIDE DEF t
    <3> QED
      BY <1>2 DEF Fields
  <2>2. /\ DOMAIN b = Fields
        /\ b.chan = c /\ b.band = BandOf(c) /\ b.rx = BandOf(c) /\ b.tables = BandOf(c)
        /\ b.pll = Divider(c) /\ b.vco = Divider(c) /\ b.loop = BandOf(c)
        /\ b.bias = BandOf(c) /\ b.idac = BandOf(c)
        /\ b.txctl = p.txctl /\ b.dbm = p.dbm /\ b.chainpwr = p.chainpwr
        /\ b.rxsw = p.rxsw /\ b.owner = p.owner
        /\ b.txpu = p.txpu /\ b.vcm1 = 4 /\ b.vcm0 = OutVcm(c)
    <3> HIDE DEF a
    <3> QED
      BY <2>1 DEF Fields, VcoCal
  <2>3. u = RssiCal(b)
    BY DEF RadioSetChannel
  <2>4. (b.txpu \ {0, 1}) \cup {0, 1} = {0, 1}
    BY <2>2
  <2> HIDE DEF b, u
  <2> QED
    BY <2>2, <2>3, <2>4 DEF Fields, RssiCal, TunedTo
<1> QED
  BY <1>3 DEF SwitchChannel

(* b43bsd_phy_n_init leaves the radio on channel 1, with the power that the  *)
(* 2.4 GHz band allows and all antennas on.                                *)
LEMMA InitTunes ==
  ASSUME NEW p, DOMAIN p = Fields, p.txpu \subseteq {0, 1}
  PROVE  /\ DOMAIN PhyInit(p) = Fields
         /\ TunedTo(PhyInit(p), 1)
         /\ PhyInit(p).txctl = p.txctl
         /\ PhyInit(p).dbm \in 0 .. Cap(2) /\ PhyInit(p).chainpwr = p.chainpwr
         /\ PhyInit(p).rxsw = 7
         /\ PhyInit(p).owner = p.owner
<1> DEFINE q == [p EXCEPT !.band = 2, !.bw = 2, !.rxsw = 0, !.class = TRUE,
                          !.ed = [i \in 1 .. 3 |-> 76]]
           s == TxPower(q, 16)
           t == SwitchChannel(s, 1)
           u == SetAntennaAuto(t)
<1>1. /\ DOMAIN s = Fields /\ s.txctl = p.txctl /\ s.owner = p.owner /\ s.txpu = p.txpu
      /\ s.dbm = Lower(Higher(16, 0), Cap(2)) /\ s.chainpwr = p.chainpwr
  BY DEF Fields, TxPower
<1>2. Lower(Higher(16, 0), Cap(2)) \in 0 .. Cap(2)
  BY Caps DEF Lower, Higher
<1>3. /\ DOMAIN t = Fields /\ TunedTo(t, 1) /\ t.txctl = p.txctl /\ t.owner = p.owner
      /\ t.dbm \in 0 .. Cap(2) /\ t.chainpwr = p.chainpwr
  <2> HIDE DEF s
  <2> QED
    BY <1>1, <1>2, SwitchTunes
<1>4. /\ DOMAIN u = Fields /\ TunedTo(u, 1) /\ u.txctl = p.txctl /\ u.owner = p.owner
      /\ u.dbm \in 0 .. Cap(2) /\ u.chainpwr = p.chainpwr /\ u.rxsw = 7
  <2> HIDE DEF t
  <2> QED
    BY <1>3 DEF Fields, SetAntennaAuto, TunedTo
<1>5. PhyInit(p) = Radio2056Init([u EXCEPT !.bbcfg = @ \cup {"sgi"}], 2)
  BY DEF PhyInit
<1>6. BandOf(1) = 2
  BY PhyAssumption DEF BandOf
<1> HIDE DEF u
<1> QED
  BY <1>4, <1>5, <1>6 DEF Fields, Radio2056Init, VcoCal, TunedTo

(* The full calibration leaves the radio, its power and its antennas as they *)
(* were, and the classifier patterns in the table memory.                   *)
LEMMA CalibrationKeeps ==
  ASSUME NEW p, DOMAIN p = Fields, NEW silent, NEW r1, NEW r2, NEW c
  PROVE  LET q == FullCalibration(p, silent, r1, r2)
         IN  /\ DOMAIN q = Fields
             /\ TunedTo(p, c) => TunedTo(q, c)
             /\ q.txctl = p.txctl /\ q.dbm = p.dbm /\ q.chainpwr = p.chainpwr
             /\ q.rxsw = p.rxsw
             /\ q.owner = Upload(PapdDefaults(p.owner, silent), "classifier")
<1> DEFINE s == RxIqCal(TxIqCal(p), silent)
           t == [s EXCEPT !.owner = PapdDefaults(@, silent)]
           u == Maintenance(t, r1, r2)
<1>1. /\ DOMAIN s = Fields
      /\ TunedTo(p, c) => TunedTo(s, c)
      /\ s.txctl = p.txctl /\ s.dbm = p.dbm /\ s.chainpwr = p.chainpwr
      /\ s.rxsw = p.rxsw /\ s.owner = p.owner
  BY DEF Fields, TunedTo, RxIqCal, TxIqCal
<1>2. /\ DOMAIN t = Fields
      /\ TunedTo(p, c) => TunedTo(t, c)
      /\ t.txctl = p.txctl /\ t.dbm = p.dbm /\ t.chainpwr = p.chainpwr /\ t.rxsw = p.rxsw
      /\ t.owner = PapdDefaults(p.owner, silent)
  <2> HIDE DEF s
  <2> QED
    BY <1>1 DEF Fields, TunedTo
<1>3. /\ DOMAIN u = Fields
      /\ TunedTo(p, c) => TunedTo(u, c)
      /\ u.txctl = p.txctl /\ u.dbm = p.dbm /\ u.chainpwr = p.chainpwr /\ u.rxsw = p.rxsw
      /\ u.owner = PapdDefaults(p.owner, silent)
  <2> HIDE DEF t
  <2> QED
    BY <1>2 DEF Fields, TunedTo, Maintenance, CcaAutotune, NoiseCal
<1>4. FullCalibration(p, silent, r1, r2) = ClassifierTrain(MimoEstimation(u))
  BY DEF FullCalibration
<1> HIDE DEF u
<1> QED
  BY <1>3, <1>4 DEF Fields, TunedTo, ClassifierTrain, MimoEstimation

(* The uploads of b43bsd_init touch neither the mode of the transmit chains *)
(* nor, once they are done, any table memory but their own; the antennas    *)
(* are all on.                                                             *)
LEMMA UploadsKeep ==
  ASSUME NEW p, DOMAIN p = Fields, NEW junk
  PROVE  LET all  == RadioExtended(UploadAll(p, junk))
             tabs == RadioReset([all EXCEPT !.owner = InitUploads(@)])
         IN  /\ DOMAIN tabs = Fields
             /\ tabs.txctl = p.txctl /\ tabs.chainpwr = 20 /\ tabs.rxsw = 7
             /\ tabs.txpu = {0, 1}
             /\ \E owner : tabs.owner = InitUploads(owner)
<1> DEFINE s == UploadCore(p)
           t == UploadIqDefaults(s)
           u == UploadGains(t)
           v == UploadNoise(u, junk)
           all == RadioExtended(UploadAll(p, junk))
           tabs == RadioReset([all EXCEPT !.owner = InitUploads(@)])
<1>1. DOMAIN s = Fields /\ s.txctl = p.txctl /\ s.chainpwr = 20
  <2> DEFINE a == [p EXCEPT !.bbcfg = {"sgi"},
                            !.ed = [p.ed EXCEPT ![1] = 76, ![2] = 76, ![3] = 128],
                            !.chainpwr = 20]
             b == [a EXCEPT !.loop = 2, !.txsw = 7, !.rxsw = 7]
             c == [b EXCEPT !.class = TRUE, !.samp = FALSE, !.iq = {}]
  <2>1. DOMAIN a = Fields /\ a.txctl = p.txctl /\ a.chainpwr = 20
    BY DEF Fields
  <2>2. DOMAIN b = Fields /\ b.txctl = p.txctl /\ b.chainpwr = 20
    <3> HIDE DEF a
    <3> QED
      BY <2>1 DEF Fields
  <2>3. DOMAIN c = Fields /\ c.txctl = p.txctl /\ c.chainpwr = 20
    <3> HIDE DEF b
    <3> QED
      BY <2>2 DEF Fields
  <2>4. s = c
    BY DEF UploadCore
  <2> HIDE DEF c, s
  <2> QED
    BY <2>3, <2>4
<1>2. DOMAIN t = Fields /\ t.txctl = p.txctl /\ t.chainpwr = 20
  <2> HIDE DEF s
  <2> QED
    BY <1>1 DEF Fields, UploadIqDefaults
<1>3. DOMAIN u = Fields /\ u.txctl = p.txctl /\ u.chainpwr = 20
  <2> HIDE DEF t
  <2> QED
    BY <1>2 DEF Fields, UploadGains
<1>4. DOMAIN v = Fields /\ v.txctl = p.txctl /\ v.chainpwr = 20
  <2> HIDE DEF u
  <2> QED
    BY <1>3 DEF Fields, UploadNoise
<1>5. all = RadioExtended(UploadMimo(v))
  BY DEF UploadAll
<1>6. DOMAIN all = Fields /\ all.txctl = p.txctl /\ all.chainpwr = 20 /\ all.rxsw = 7
  <2> HIDE DEF v, all
  <2> QED
    BY <1>4, <1>5 DEF Fields, UploadMimo, RadioExtended
<1>7. /\ DOMAIN tabs = Fields
      /\ tabs.txctl = p.txctl /\ tabs.chainpwr = 20 /\ tabs.rxsw = 7 /\ tabs.txpu = {0, 1}
      /\ tabs.owner = InitUploads(all.owner)
  <2> HIDE DEF all
  <2> QED
    BY <1>6 DEF Fields, RadioReset
<1> QED
  BY <1>7

-----------------------------------------------------------------------------
(* The table memory.                                                       *)

(* Which of the pieces each of the compiled-in tables lies on.             *)
LEMMA Regions ==
  /\ Region("afe") = {0, 1} /\ Region("pa") = {96} /\ Region("vco") = {128}
  /\ Region("rfseq") = {384} /\ Region("classifier") = {32, 34}
  /\ Region("gaincal") = {16, 32, 33}
<1>1. Region("afe") = {0, 1}
  BY DEF Region, Addresses, AfeEntries
<1>2. Region("pa") = {96}
  BY DEF Region, Addresses, PaEntries
<1>3. Region("vco") = {128}
  BY DEF Region, Addresses, VcoEntries
<1>4. Region("rfseq") = {384}
  BY DEF Region, Addresses, RfSeqEntries
<1>5. Region("classifier") = {32, 34}
  BY DEF Region, Addresses
<1>6. Region("gaincal") = {16, 32, 33}
  BY DEF Region, Addresses, GainCalEntries
<1> QED
  BY <1>1, <1>2, <1>3, <1>4, <1>5, <1>6

(* Whatever lay in the table memory, and whichever chains fall back to the   *)
(* PAPD defaults, the uploads of b43bsd_init and the calibration leave the  *)
(* five tables whole.                                                      *)
LEMMA FiveTables ==
  ASSUME NEW o, NEW silent \in SUBSET (0 .. 2),
         NEW t \in {"afe", "pa", "vco", "rfseq", "classifier"}, NEW a \in Region(t)
  PROVE  Upload(PapdDefaults(InitUploads(o), silent), "classifier")[a] = t
<1> DEFINE low == Upload(Upload(o, "mcs"), "rfseq")
           afe == Upload(low, "afe")
           gain == Upload(afe, "gaincal")
           pa == Upload(gain, "pa")
           vco == Upload(pa, "vco")
           papd == PapdDefaults(vco, silent)
<1>0. \A w, u, b : b \in Addresses => Upload(w, u)[b] = IF b \in Region(u) THEN u ELSE w[b]
  BY DEF Upload
<1>1. InitUploads(o) = vco
  BY DEF InitUploads, UploadMcsPower
<1>2. \A b \in {384} : low[b] = "rfseq"
  BY <1>0, Regions DEF Addresses
<1>3. afe[384] = "rfseq" /\ afe[0] = "afe" /\ afe[1] = "afe"
  <2> HIDE DEF low
  <2> QED
    BY <1>0, <1>2, Regions DEF Addresses
<1>4. gain[384] = "rfseq" /\ gain[0] = "afe" /\ gain[1] = "afe"
  <2> HIDE DEF afe
  <2> QED
    BY <1>0, <1>3, Regions DEF Addresses
<1>5. pa[384] = "rfseq" /\ pa[0] = "afe" /\ pa[1] = "afe" /\ pa[96] = "pa"
  <2> HIDE DEF gain
  <2> QED
    BY <1>0, <1>4, Regions DEF Addresses
<1>6. vco[384] = "rfseq" /\ vco[0] = "afe" /\ vco[1] = "afe" /\ vco[96] = "pa"
      /\ vco[128] = "vco"
  <2> HIDE DEF pa
  <2> QED
    BY <1>0, <1>5, Regions DEF Addresses
<1>7. \A b \in {0, 1, 96, 128, 384} : papd[b] = vco[b]
  <2> HIDE DEF vco
  <2>1. \A b \in {0, 1, 96, 128, 384}, c \in silent : b \notin 64 + 8 * c .. 71 + 8 * c
    OBVIOUS
  <2> QED
    BY <2>1 DEF PapdDefaults, Addresses
<1>8. /\ papd[384] = "rfseq" /\ papd[0] = "afe" /\ papd[1] = "afe" /\ papd[96] = "pa"
      /\ papd[128] = "vco"
  <2> HIDE DEF papd, vco
  <2> QED
    BY <1>6, <1>7
<1> HIDE DEF papd, vco
<1>9. Upload(papd, "classifier")[a] = t
  BY <1>0, <1>8, Regions DEF Addresses
<1> QED
  BY <1>1, <1>9 DEF papd

-----------------------------------------------------------------------------
(* The inductive invariant.                                                *)

(* In every state the chains are out of the calibration mode and only the   *)
(* two transmit chains are ever powered.                                   *)
RegInv ==
  /\ DOMAIN phy = Fields
  /\ phy.txpu \subseteq {0, 1}
  /\ phy.txctl = [i \in 1 .. 2 |-> "normal"]

(* A radio that runs and did not lose power is tuned, asleep or not, and its *)
(* target power was set while the 2.4 GHz band was selected; the power      *)
(* registers of its chains are as nphy_core_init leaves them.               *)
TunedInv ==
  /\ running /\ ~lost => TunedTo(phy, phy.chan) /\ phy.dbm \in 0 .. Cap(2)
  /\ running /\ ~bare => phy.chainpwr = 20

DivTypes ==
  /\ div \in [state : 0 .. 3, best : Int, ant : 0 .. 2]
  /\ heard \in [0 .. 2 -> Int]

(* In the middle of a cycle the best of the antennas measured so far is      *)
(* remembered.                                                             *)
DivInv ==
  div.state > 0 =>
    /\ div.ant < div.state
    /\ div.best = heard[div.ant]
    /\ \A a \in 0 .. 2 : a < div.state => heard[a] <= div.best

IInv ==
  RegInv /\ TunedInv /\ TablesKept /\ DivTypes /\ DivInv /\ DiversityPicksBest

-----------------------------------------------------------------------------
(* The steps.                                                              *)

(* The registers of a chip without power.                                  *)
LEMMA UnpoweredRegs ==
  /\ DOMAIN Unpowered = Fields
  /\ Unpowered.txpu = {} /\ Unpowered.txctl = [i \in 1 .. 2 |-> "normal"]
  /\ Unpowered.rxsw = 0
  BY DEF Unpowered, Fields

(* Registers without power, and no measurement made.                       *)
LEMMA IInvInit == Init => IInv
<1> SUFFICES ASSUME Init PROVE IInv
  OBVIOUS
<1>1. RegInv
  BY UnpoweredRegs DEF Init, RegInv
<1>2. TunedInv /\ TablesKept
  BY DEF Init, TunedInv, TablesKept
<1>3. DivTypes /\ DivInv
  BY DEF Init, DivTypes, DivInv
<1>4. DiversityPicksBest
  BY UnpoweredRegs DEF Init, DiversityPicksBest
<1> QED
  BY <1>1, <1>2, <1>3, <1>4 DEF IInv

(* Bring-up, whether it fails or not.                                      *)
LEMMA BringUpStep == IInv /\ BringUp => IInv'
<1> SUFFICES ASSUME IInv, BringUp PROVE IInv'
  OBVIOUS
<1>1. PICK id \in RadioIds, junk \in Junk, silent \in Silent, r1 \in Rssi, r2 \in Rssi :
        LET all  == RadioExtended(UploadAll(phy, junk))
            tabs == RadioReset([all EXCEPT !.owner = InitUploads(@)])
        IN  /\ bare' = FALSE
            /\ \/ /\ phy' = FullCalibration(PhyInit(tabs), silent, r1, r2)
                  /\ lost' = FALSE
               \/ phy' = tabs /\ UNCHANGED <<lost, running>>
  BY DEF BringUp
<1> DEFINE all  == RadioExtended(UploadAll(phy, junk))
           tabs == RadioReset([all EXCEPT !.owner = InitUploads(@)])
           init == PhyInit(tabs)
           full == FullCalibration(init, silent, r1, r2)
<1>2. DOMAIN phy = Fields /\ phy.txctl = [i \in 1 .. 2 |-> "normal"] /\ ~running
      /\ UNCHANGED <<div, heard>>
  BY DEF IInv, RegInv, BringUp
<1>3. /\ DOMAIN tabs = Fields
      /\ tabs.txctl = phy.txctl /\ tabs.chainpwr = 20 /\ tabs.rxsw = 7 /\ tabs.txpu = {0, 1}
      /\ \E owner : tabs.owner = InitUploads(owner)
  BY <1>2, UploadsKeep
<1>4. \/ phy' = full /\ lost' = FALSE
      \/ phy' = tabs /\ UNCHANGED <<lost, running>>
  BY <1>1
<1> HIDE DEF tabs
<1>5. /\ DOMAIN init = Fields /\ TunedTo(init, 1) /\ init.txctl = phy.txctl
      /\ init.dbm \in 0 .. Cap(2) /\ init.chainpwr = 20 /\ init.rxsw = 7
      /\ init.owner = tabs.owner
  BY <1>3, InitTunes
<1> HIDE DEF init
<1>6. /\ DOMAIN full = Fields /\ TunedTo(full, 1)
      /\ full.txctl = phy.txctl /\ full.dbm \in 0 .. Cap(2) /\ full.chainpwr = 20
      /\ full.rxsw = 7
      /\ full.owner = Upload(PapdDefaults(tabs.owner, silent), "classifier")
  BY <1>5, CalibrationKeeps
<1> HIDE DEF full
<1>7. CASE phy' = full /\ lost' = FALSE
  <2>1. RegInv'
    BY <1>2, <1>6, <1>7 DEF RegInv, TunedTo
  <2>2. TunedInv'
    BY <1>6, <1>7 DEF TunedInv, TunedTo
  <2>3. TablesKept'
    <3>1. silent \in SUBSET (0 .. 2)
      BY PhyAssumption
    <3> QED
      BY <1>3, <1>6, <1>7, <3>1, FiveTables DEF TablesKept
  <2>4. DivTypes' /\ DivInv' /\ DiversityPicksBest'
    BY <1>2, <1>6, <1>7 DEF IInv, DivTypes, DivInv, DiversityPicksBest
  <2> QED
    BY <2>1, <2>2, <2>3, <2>4 DEF IInv
<1>8. CASE phy' = tabs /\ UNCHANGED <<lost, running>>
  <2>1. RegInv'
    BY <1>2, <1>3, <1>8 DEF RegInv
  <2>2. TunedInv' /\ TablesKept'
    BY <1>2, <1>8 DEF TunedInv, TablesKept
  <2>3. DivTypes' /\ DivInv' /\ DiversityPicksBest'
    BY <1>2, <1>3, <1>8 DEF IInv, DivTypes, DivInv, DiversityPicksBest
  <2> QED
    BY <2>1, <2>2, <2>3 DEF IInv
<1> QED
  BY <1>4, <1>7, <1>8

(* A channel change.                                                       *)
LEMMA SetChannelStep ==
  ASSUME IInv, NEW c \in Channels, SetChannel(c)
  PROVE  IInv'
<1> DEFINE s == SwitchChannel(phy, c)
<1>1. /\ phy' = SetBw20(s)
      /\ UNCHANGED <<running, div, heard, lost, bare>>
  BY DEF SetChannel
<1>2. /\ DOMAIN s = Fields /\ TunedTo(s, c) /\ s.txctl = phy.txctl /\ s.dbm = phy.dbm
      /\ s.chainpwr = phy.chainpwr
      /\ s.rxsw = phy.rxsw /\ s.owner = phy.owner
  BY SwitchTunes DEF IInv, RegInv
<1> HIDE DEF s
<1>3. /\ DOMAIN phy' = Fields /\ TunedTo(phy', c) /\ phy'.txctl = phy.txctl
      /\ phy'.dbm = phy.dbm /\ phy'.chainpwr = phy.chainpwr /\ phy'.rxsw = phy.rxsw
      /\ phy'.owner = phy.owner
  BY <1>1, <1>2 DEF SetBw20, Fields, TunedTo
<1>4. RegInv'
  BY <1>3 DEF IInv, RegInv, TunedTo
<1>5. TunedInv'
  BY <1>1, <1>3 DEF IInv, TunedInv, TunedTo
<1>6. TablesKept'
  BY <1>1, <1>3 DEF IInv, TablesKept
<1>7. DivTypes' /\ DivInv' /\ DiversityPicksBest'
  BY <1>1, <1>3 DEF IInv, DivTypes, DivInv, DiversityPicksBest
<1> QED
  BY <1>4, <1>5, <1>6, <1>7 DEF IInv

(* The periodic calibration: one antenna is measured, or the best of three  *)
(* is locked.                                                              *)
LEMMA PeriodicCalStep == IInv /\ PeriodicCal => IInv'
<1> SUFFICES ASSUME IInv, PeriodicCal PROVE IInv'
  OBVIOUS
<1>1. PICK r1 \in Rssi, r2 \in Rssi, r \in Rssi :
        /\ phy' = [Maintenance(phy, r1, r2) EXCEPT !.rxsw = AntSwitch(div)]
        /\ div' = AntDiv(div, Dbm(r))
        /\ heard' = IF div.state < 3 THEN [heard EXCEPT ![div.state] = Dbm(r)] ELSE heard
  BY DEF PeriodicCal
<1> DEFINE s == Maintenance(phy, r1, r2)
<1>2. UNCHANGED <<running, lost, bare>>
  BY DEF PeriodicCal
<1>3. /\ DOMAIN s = Fields /\ s.txpu = phy.txpu
      /\ \A c : TunedTo(phy, c) => TunedTo(s, c)
      /\ s.chan = phy.chan
      /\ s.txctl = phy.txctl /\ s.dbm = phy.dbm /\ s.chainpwr = phy.chainpwr
      /\ s.owner = phy.owner
  <2> DEFINE n == NoiseCal(phy, r1, r2)
  <2>1. DOMAIN phy = Fields
    BY DEF IInv, RegInv
  <2>2. /\ DOMAIN n = Fields /\ n.txpu = phy.txpu
        /\ \A c : TunedTo(phy, c) => TunedTo(n, c)
        /\ n.chan = phy.chan
        /\ n.txctl = phy.txctl /\ n.dbm = phy.dbm /\ n.chainpwr = phy.chainpwr
        /\ n.owner = phy.owner
    BY <2>1 DEF Fields, TunedTo, NoiseCal
  <2>3. s = CcaAutotune(n, r1, r2)
    BY DEF Maintenance
  <2> HIDE DEF n, s
  <2> QED
    BY <2>2, <2>3 DEF Fields, TunedTo, CcaAutotune
<1> HIDE DEF s
<1>4. /\ DOMAIN phy' = Fields /\ phy'.txpu = phy.txpu
      /\ \A c : TunedTo(s, c) => TunedTo(phy', c)
      /\ phy'.chan = phy.chan /\ phy'.rxsw = AntSwitch(div)
      /\ phy'.txctl = phy.txctl /\ phy'.dbm = phy.dbm /\ phy'.chainpwr = phy.chainpwr
      /\ phy'.owner = phy.owner
  BY <1>1, <1>3 DEF Fields, TunedTo, s
<1>5. RegInv'
  BY <1>4 DEF IInv, RegInv
<1>6. TunedInv'
  BY <1>2, <1>3, <1>4 DEF IInv, TunedInv
<1>7. TablesKept'
  BY <1>2, <1>4 DEF IInv, TablesKept
<1>8. DivTypes' /\ DivInv' /\ DiversityPicksBest'
  <2> DEFINE d == Dbm(r)
  <2>1. d \in Int
    BY PhyAssumption DEF Byte, Dbm
  <2> HIDE DEF d
  <2>2. /\ div \in [state : 0 .. 3, best : Int, ant : 0 .. 2] /\ heard \in [0 .. 2 -> Int]
        /\ div' = AntDiv(div, d)
        /\ heard' = IF div.state < 3 THEN [heard EXCEPT ![div.state] = d] ELSE heard
    BY <1>1 DEF IInv, DivTypes, d
  <2>3. CASE div.state = 0
    <3>1. div' = [state |-> 1, best |-> d, ant |-> 0] /\ heard' = [heard EXCEPT ![0] = d]
      BY <2>2, <2>3 DEF AntDiv
    <3> QED
      BY <2>1, <2>2, <3>1 DEF DivTypes, DivInv, DiversityPicksBest
  <2>4. CASE div.state \in {1, 2}
    <3>1. /\ div' = [state |-> div.state + 1, best |-> Higher(div.best, d),
                     ant |-> IF d > div.best THEN div.state ELSE div.ant]
          /\ heard' = [heard EXCEPT ![div.state] = d]
      BY <2>2, <2>4 DEF AntDiv
    <3>2. DivTypes'
      BY <2>1, <2>2, <2>4, <3>1 DEF DivTypes, Higher
    <3>3. DivInv'
      BY <2>1, <2>2, <2>4, <3>1 DEF IInv, DivInv, Higher
    <3>4. div'.state # 0
      BY <2>2, <2>4, <3>1
    <3> QED
      BY <3>2, <3>3, <3>4 DEF DiversityPicksBest
  <2>5. CASE div.state = 3
    <3>1. div' = [div EXCEPT !.state = 0] /\ heard' = heard
      BY <2>2, <2>5 DEF AntDiv
    <3>2. DivTypes' /\ DivInv'
      BY <2>2, <3>1 DEF DivTypes, DivInv
    <3>3. phy'.rxsw = 2 ^ div'.ant
      BY <1>4, <2>2, <2>5, <3>1 DEF AntSwitch
    <3>4. \A a \in 0 .. 2 : heard'[div'.ant] >= heard'[a]
      BY <2>2, <2>5, <3>1 DEF IInv, DivInv
    <3> QED
      BY <3>2, <3>3, <3>4 DEF DiversityPicksBest
  <2> QED
    BY <2>2, <2>3, <2>4, <2>5
<1> QED
  BY <1>5, <1>6, <1>7, <1>8 DEF IInv

(* Suspend, with the power cut or not.                                     *)
LEMMA SuspendStep == IInv /\ Suspend => IInv'
<1> SUFFICES ASSUME IInv, Suspend PROVE IInv'
  OBVIOUS
<1>1. UNCHANGED <<running, div, heard>>
  BY DEF Suspend
<1>2. CASE phy' = Unpowered /\ lost' = TRUE /\ bare' = TRUE
  <2>1. RegInv'
    BY <1>2, UnpoweredRegs DEF RegInv
  <2>2. TunedInv' /\ TablesKept'
    BY <1>2 DEF TunedInv, TablesKept
  <2>3. DivTypes' /\ DivInv' /\ DiversityPicksBest'
    BY <1>1, <1>2, UnpoweredRegs DEF IInv, DivTypes, DivInv, DiversityPicksBest
  <2> QED
    BY <2>1, <2>2, <2>3 DEF IInv
<1>3. CASE UNCHANGED <<phy, lost, bare>>
  BY <1>1, <1>3 DEF IInv, RegInv, TunedInv, TablesKept, DivTypes, DivInv, DiversityPicksBest
<1> QED
  BY <1>2, <1>3 DEF Suspend

(* Resume: the PHY is initialised again if its firmware is found lost.      *)
LEMMA ResumeStep == IInv /\ Resume => IInv'
<1> SUFFICES ASSUME IInv, Resume PROVE IInv'
  OBVIOUS
<1> DEFINE s == PhyInit(phy)
<1>1. UNCHANGED <<running, div, heard, bare>>
  BY DEF Resume
<1>2. CASE phy' = s /\ lost' = FALSE
  <2>1. /\ DOMAIN s = Fields /\ TunedTo(s, 1) /\ s.txctl = phy.txctl
        /\ s.dbm \in 0 .. Cap(2) /\ s.chainpwr = phy.chainpwr /\ s.rxsw = 7
        /\ s.owner = phy.owner
    BY InitTunes DEF IInv, RegInv
  <2> HIDE DEF s
  <2>2. RegInv'
    BY <1>2, <2>1 DEF IInv, RegInv, TunedTo
  <2>3. TunedInv'
    BY <1>1, <1>2, <2>1 DEF IInv, TunedInv, TunedTo
  <2>4. TablesKept'
    BY <1>1, <1>2, <2>1 DEF IInv, TablesKept
  <2>5. DivTypes' /\ DivInv' /\ DiversityPicksBest'
    BY <1>1, <1>2, <2>1 DEF IInv, DivTypes, DivInv, DiversityPicksBest
  <2> QED
    BY <2>2, <2>3, <2>4, <2>5 DEF IInv
<1>3. CASE UNCHANGED <<phy, lost>>
  BY <1>1, <1>3 DEF IInv, RegInv, TunedInv, TablesKept, DivTypes, DivInv, DiversityPicksBest
<1>4. \/ phy' = PhyInit(phy) /\ lost' = FALSE
      \/ UNCHANGED <<phy, lost>>
  <2>1. CASE fw /\ lost
    BY <2>1 DEF Resume
  <2>2. CASE ~(fw /\ lost)
    BY <2>2 DEF Resume
  <2> QED
    BY <2>1, <2>2
<1> HIDE DEF s
<1> QED
  BY <1>2, <1>3, <1>4 DEF s

(* Every step preserves the invariant.                                     *)
LEMMA IInvNext == IInv /\ [Next]_vars => IInv'
<1> SUFFICES ASSUME IInv, [Next]_vars PROVE IInv'
  OBVIOUS
<1>1. CASE BringUp
  BY <1>1, BringUpStep
<1>2. CASE Stop
  BY <1>2 DEF Stop, IInv, RegInv, TunedInv, TablesKept, DivTypes, DivInv, DiversityPicksBest
<1>3. CASE \E c \in Channels : SetChannel(c)
  BY <1>3, SetChannelStep
<1>4. CASE PeriodicCal
  BY <1>4, PeriodicCalStep
<1>5. CASE Suspend
  BY <1>5, SuspendStep
<1>6. CASE Resume
  BY <1>6, ResumeStep
<1>7. CASE UNCHANGED vars
  BY <1>7 DEF vars, IInv, RegInv, TunedInv, TablesKept, DivTypes, DivInv, DiversityPicksBest
<1> QED
  BY <1>1, <1>2, <1>3, <1>4, <1>5, <1>6, <1>7 DEF Next

-----------------------------------------------------------------------------
(* Types.  Each function that programs registers leaves a register file.    *)

(* The fields of a register file that several functions compute.            *)
LEMMA FieldTypes ==
  ASSUME NEW p \in RegisterFiles
  PROVE  /\ p.ed \in [1 .. 3 -> Word]
         /\ p.dbm \in 0 .. 20
         /\ p.bbcfg \in SUBSET {"sgi", "ht40"}
         /\ p.iq \in SUBSET {1, 2}
         /\ p.txpu \in SUBSET {0, 1}
         /\ p.band \in Bands
         /\ p.owner \in [Addresses -> Uploads \cup {"none"}]
  BY DEF RegisterFiles

(* The lemmas below say that a register file with one or a few fields      *)
(* written is a register file.                                             *)

(* Written: the energy thresholds.                                          *)
LEMMA SetEd ==
  ASSUME NEW p \in RegisterFiles, NEW e \in [1 .. 3 -> Word]
  PROVE  [p EXCEPT !.ed = e] \in RegisterFiles
  BY DEF RegisterFiles

(* Written: the baseband configuration.                                     *)
LEMMA SetBbcfg ==
  ASSUME NEW p \in RegisterFiles, NEW s \in SUBSET {"sgi", "ht40"}
  PROVE  [p EXCEPT !.bbcfg = s] \in RegisterFiles
  BY DEF RegisterFiles

(* Written: the compensated cores.                                          *)
LEMMA SetIq ==
  ASSUME NEW p \in RegisterFiles, NEW s \in SUBSET {1, 2}
  PROVE  [p EXCEPT !.iq = s] \in RegisterFiles
  BY DEF RegisterFiles

(* Written: the powered chains.                                             *)
LEMMA SetTxpu ==
  ASSUME NEW p \in RegisterFiles, NEW s \in SUBSET {0, 1}
  PROVE  [p EXCEPT !.txpu = s] \in RegisterFiles
  BY DEF RegisterFiles

(* Written: the table memory.                                               *)
LEMMA SetOwner ==
  ASSUME NEW p \in RegisterFiles, NEW o \in [Addresses -> Uploads \cup {"none"}]
  PROVE  [p EXCEPT !.owner = o] \in RegisterFiles
  BY DEF RegisterFiles

(* Written: the transmit power.                                             *)
LEMMA SetDbm ==
  ASSUME NEW p \in RegisterFiles, NEW d \in 0 .. 20
  PROVE  [p EXCEPT !.dbm = d] \in RegisterFiles
  BY DEF RegisterFiles

(* Written: the power registers of the chains.                              *)
LEMMA SetChainpwr ==
  ASSUME NEW p \in RegisterFiles
  PROVE  [p EXCEPT !.chainpwr = 20] \in RegisterFiles
  BY DEF RegisterFiles

(* Written: the channel, the band select and the receive path.              *)
LEMMA SetBand ==
  ASSUME NEW p \in RegisterFiles, NEW c \in Channels
  PROVE  [p EXCEPT !.band = BandOf(c), !.chan = c, !.rx = BandOf(c), !.bw = BandOf(c)]
           \in RegisterFiles
<1>1. PICK b \in Bands : b = BandOf(c)
  BY DEF BandOf, Bands
<1>2. [p EXCEPT !.band = b, !.chan = c] \in RegisterFiles
  BY DEF RegisterFiles
<1> DEFINE q == [p EXCEPT !.band = b, !.chan = c]
<1>3. [q EXCEPT !.rx = b, !.bw = b] \in RegisterFiles
  <2> HIDE DEF q
  <2> QED
    BY <1>2 DEF RegisterFiles, q
<1> QED
  BY <1>1, <1>3

(* Written: the bias, the currents and the filter voltage of the chains.     *)
LEMMA SetCurrents ==
  ASSUME NEW p \in RegisterFiles, NEW b \in Bands
  PROVE  \A v \in {4, 5} : [p EXCEPT !.bias = b, !.idac = b, !.vcm0 = v] \in RegisterFiles
  BY DEF RegisterFiles

(* Written: the synthesizer and its loop filter.                            *)
LEMMA SetDividers ==
  ASSUME NEW p \in RegisterFiles, NEW c \in Channels, NEW b \in Bands
  PROVE  [p EXCEPT !.pll = Divider(c), !.loop = b] \in RegisterFiles
<1> DEFINE d == Divider(c)
           dividers == {[int |-> 0, frac |-> 0]} \cup {Divider(k) : k \in Channels}
<1>1. d \in dividers
  OBVIOUS
<1> HIDE DEF d, dividers
<1>2. RegisterFiles =
        [chan : {0} \cup Channels, pll : dividers, vco : dividers, band : Bands, rx : Bands,
         bw : Bands, tables : Bands, bias : Bands, loop : Bands, idac : Bands,
         vcm0 : {0, 4, 5}, vcm1 : {0, 4, 5}, ed : [1 .. 3 -> Word], dbm : 0 .. 20,
         chainpwr : {0, 20}, bbcfg : SUBSET {"sgi", "ht40"}, class : BOOLEAN,
         samp : BOOLEAN, iq : SUBSET {1, 2}, txsw : {0, 7},
         rxsw : {0, 1, 2, 4, 7}, txpu : SUBSET {0, 1},
         txctl : [1 .. 2 -> {"normal", "calibrate"}],
         owner : [Addresses -> Uploads \cup {"none"}]]
  BY DEF RegisterFiles, dividers
<1>3. [p EXCEPT !.pll = d, !.loop = b] \in RegisterFiles
  BY <1>1, <1>2
<1> QED
  BY <1>3 DEF d

(* b43bsd_radio_vco_cal and b43bsd_radio_2056_init                          *)
LEMMA RadioTyped ==
  ASSUME NEW p \in RegisterFiles, NEW b \in Bands
  PROVE  VcoCal(p) \in RegisterFiles /\ Radio2056Init(p, b) \in RegisterFiles
<1>1. \A q \in RegisterFiles : VcoCal(q) \in RegisterFiles
  BY DEF RegisterFiles, VcoCal
<1>2. [p EXCEPT !.tables = b, !.idac = 2, !.vcm0 = 4, !.vcm1 = 4] \in RegisterFiles
  BY DEF RegisterFiles, Bands
<1> QED
  BY <1>1, <1>2 DEF Radio2056Init

(* b43bsd_phy_n_switch_channel                                              *)
LEMMA SwitchTyped ==
  ASSUME NEW p \in RegisterFiles, NEW c \in Channels
  PROVE  SwitchChannel(p, c) \in RegisterFiles
<1> DEFINE q == [p EXCEPT !.band = BandOf(c), !.chan = c, !.rx = BandOf(c), !.bw = BandOf(c)]
           s == Radio2056Init(q, BandOf(c))
           f == UploadFilters(s, c)
           t == PllTune(f, c)
           a == [t EXCEPT !.bias = BandOf(c), !.idac = BandOf(c), !.vcm0 = OutVcm(c)]
           v == VcoCal(a)
<1>1. BandOf(c) \in Bands
  BY DEF BandOf, Bands
<1>2. q \in RegisterFiles
  BY SetBand
<1> HIDE DEF q
<1>3. s \in RegisterFiles
  BY <1>1, <1>2, RadioTyped
<1> HIDE DEF s
<1>4. f \in RegisterFiles
  <2>1. s.ed \in [1 .. 3 -> Word]
    BY <1>3, FieldTypes
  <2>2. FilterTap(c) \in Word
    BY DEF FilterTap, Word
  <2>3. [s.ed EXCEPT ![3] = FilterTap(c)] \in [1 .. 3 -> Word]
    BY <2>1, <2>2
  <2> QED
    BY <1>3, <2>3, SetEd DEF UploadFilters
<1> HIDE DEF f
<1>5. t \in RegisterFiles
  BY <1>1, <1>4, SetDividers DEF PllTune
<1> HIDE DEF t
<1>6. a \in RegisterFiles
  <2>1. OutVcm(c) \in {4, 5}
    BY DEF OutVcm
  <2> QED
    BY <1>1, <1>5, <2>1, SetCurrents
<1> HIDE DEF a
<1>7. v \in RegisterFiles
  BY <1>1, <1>6, RadioTyped
<1> HIDE DEF v
<1>8. RssiCal(v) \in RegisterFiles
  <2>1. (v.txpu \ {0, 1}) \cup {0, 1} \in SUBSET {0, 1}
    BY <1>7, FieldTypes
  <2> QED
    BY <1>7, <2>1, SetTxpu DEF RssiCal
<1> QED
  BY <1>8 DEF SwitchChannel, RadioSetChannel, q, s, f, t, a, v

(* b43bsd_phy_n_init                                                        *)
LEMMA InitTyped ==
  ASSUME NEW p \in RegisterFiles
  PROVE  PhyInit(p) \in RegisterFiles
<1> DEFINE q == [p EXCEPT !.band = 2, !.bw = 2, !.rxsw = 0, !.class = TRUE,
                          !.ed = [i \in 1 .. 3 |-> 76]]
           s == TxPower(q, 16)
           t == SwitchChannel(s, 1)
           u == SetAntennaAuto(t)
           w == [u EXCEPT !.bbcfg = @ \cup {"sgi"}]
<1>1. q \in RegisterFiles
  <2> DEFINE e == [i \in 1 .. 3 |-> 76]
  <2>1. e \in [1 .. 3 -> Word]
    BY DEF Word
  <2> HIDE DEF e
  <2>2. [p EXCEPT !.band = 2, !.bw = 2, !.rxsw = 0, !.class = TRUE, !.ed = e]
          \in RegisterFiles
    BY <2>1 DEF RegisterFiles, Bands
  <2> QED
    BY <2>2 DEF e
<1> HIDE DEF q
<1>2. s \in RegisterFiles
  <2>1. q.band \in Bands
    BY <1>1, FieldTypes
  <2>2. Lower(Higher(16, 0), Cap(q.band)) \in 0 .. 20
    BY <2>1, Caps DEF Bands, Lower, Higher
  <2> QED
    BY <1>1, <2>2, SetDbm DEF TxPower
<1> HIDE DEF s
<1>3. t \in RegisterFiles
  BY <1>2, SwitchTyped, PhyAssumption DEF Channels
<1> HIDE DEF t
<1>4. u \in RegisterFiles
  BY <1>3 DEF RegisterFiles, SetAntennaAuto
<1> HIDE DEF u
<1>5. w \in RegisterFiles
  <2>1. u.bbcfg \cup {"sgi"} \in SUBSET {"sgi", "ht40"}
    BY <1>4, FieldTypes
  <2> QED
    BY <1>4, <2>1, SetBbcfg
<1> HIDE DEF w
<1>6. Radio2056Init(w, 2) \in RegisterFiles
  BY <1>5, RadioTyped DEF Bands
<1> QED
  BY <1>6 DEF PhyInit, q, s, t, u, w

(* An upload into the table memory.                                         *)
LEMMA UploadTyped ==
  ASSUME NEW o \in [Addresses -> Uploads \cup {"none"}]
  PROVE  /\ \A t \in Uploads : Upload(o, t) \in [Addresses -> Uploads \cup {"none"}]
         /\ \A chains : PapdDefaults(o, chains) \in [Addresses -> Uploads \cup {"none"}]
  BY DEF Upload, PapdDefaults, Uploads

(* The uploads of b43bsd_init                                               *)
LEMMA UploadsTyped ==
  ASSUME NEW p \in RegisterFiles, NEW junk \in Word
  PROVE  LET all == RadioExtended(UploadAll(p, junk))
         IN  RadioReset([all EXCEPT !.owner = InitUploads(@)]) \in RegisterFiles
<1> DEFINE Owners == [Addresses -> Uploads \cup {"none"}]
           s == UploadCore(p)
           t == UploadIqDefaults(s)
           u == UploadGains(t)
           v == UploadNoise(u, junk)
           m == UploadMimo(v)
           all == RadioExtended(m)
           w == [all EXCEPT !.owner = InitUploads(@)]
<1>0. p.ed \in [1 .. 3 -> Word] /\ 76 \in Word /\ 128 \in Word /\ 192 \in Word
  <2>1. 76 \in Word /\ 128 \in Word /\ 192 \in Word
    BY DEF Word
  <2> QED
    BY <2>1, FieldTypes
<1>1. s \in RegisterFiles
  <2> DEFINE e == [p.ed EXCEPT ![1] = 76, ![2] = 76, ![3] = 128]
             z == [p EXCEPT !.bbcfg = {"sgi"}]
             y == [z EXCEPT !.ed = e]
             a == [y EXCEPT !.chainpwr = 20]
             b == [a EXCEPT !.loop = 2, !.txsw = 7, !.rxsw = 7]
             c == [b EXCEPT !.class = TRUE, !.samp = FALSE, !.iq = {}]
  <2>1. e \in [1 .. 3 -> Word]
    BY <1>0
  <2> HIDE DEF e
  <2>2. z \in RegisterFiles
    BY SetBbcfg
  <2> HIDE DEF z
  <2>3. y \in RegisterFiles
    BY <2>1, <2>2, SetEd
  <2> HIDE DEF y
  <2>4. a \in RegisterFiles
    <3>1. 20 \in 0 .. 20
      OBVIOUS
    <3> QED
      BY <2>3, <3>1, SetChainpwr
  <2> HIDE DEF a
  <2>5. b \in RegisterFiles
    BY <2>4 DEF RegisterFiles, Bands
  <2> HIDE DEF b
  <2>6. c \in RegisterFiles
    BY <2>5 DEF RegisterFiles
  <2>7. s = c
    BY DEF UploadCore, z, y, a, b, e
  <2> HIDE DEF c, s
  <2> QED
    BY <2>6, <2>7
<1> HIDE DEF s
<1>2. t \in RegisterFiles
  BY <1>1, SetIq DEF UploadIqDefaults
<1> HIDE DEF t
<1>3. u \in RegisterFiles
  <2>1. t.owner \in Owners
    BY <1>2, FieldTypes
  <2>2. Upload(t.owner, "txgain") \in Owners
    BY <2>1, UploadTyped DEF Uploads
  <2>3. Upload(Upload(t.owner, "txgain"), "rxgain") \in Owners
    BY <2>2, UploadTyped DEF Uploads
  <2> QED
    BY <1>2, <2>3, SetOwner DEF UploadGains
<1> HIDE DEF u
<1>4. v \in RegisterFiles
  <2>1. u.ed \in [1 .. 3 -> Word]
    BY <1>3, FieldTypes
  <2>2. [u.ed EXCEPT ![1] = 192, ![2] = junk] \in [1 .. 3 -> Word]
    BY <1>0, <2>1
  <2> QED
    BY <1>3, <2>2, SetEd DEF UploadNoise
<1> HIDE DEF v
<1>5. m \in RegisterFiles
  BY <1>4 DEF RegisterFiles, UploadMimo
<1> HIDE DEF m
<1>6. all \in RegisterFiles
  <2>1. m.txpu \cup {0} \in SUBSET {0, 1}
    BY <1>5, FieldTypes
  <2>2. [m EXCEPT !.bias = 2, !.txpu = m.txpu \cup {0}] \in RegisterFiles
    BY <1>5, <2>1 DEF RegisterFiles, Bands
  <2> QED
    BY <2>2 DEF RadioExtended
<1> HIDE DEF all
<1>7. w \in RegisterFiles
  <2> DEFINE o == all.owner
             mcs == Upload(o, "mcs")
             rfseq == Upload(mcs, "rfseq")
             afe == Upload(rfseq, "afe")
             gain == Upload(afe, "gaincal")
             pa == Upload(gain, "pa")
  <2>0. \A x \in Owners, y \in Uploads : Upload(x, y) \in Owners
    BY UploadTyped
  <2>1. o \in Owners
    BY <1>6, FieldTypes
  <2>2. mcs \in Owners
    BY <2>0, <2>1 DEF Uploads
  <2> HIDE DEF mcs
  <2>3. rfseq \in Owners
    BY <2>0, <2>2 DEF Uploads
  <2> HIDE DEF rfseq
  <2>4. afe \in Owners
    BY <2>0, <2>3 DEF Uploads
  <2> HIDE DEF afe
  <2>5. gain \in Owners
    BY <2>0, <2>4 DEF Uploads
  <2> HIDE DEF gain
  <2>6. pa \in Owners
    BY <2>0, <2>5 DEF Uploads
  <2> HIDE DEF pa
  <2>7. Upload(pa, "vco") \in Owners
    BY <2>0, <2>6 DEF Uploads
  <2>8. InitUploads(o) = Upload(pa, "vco")
    BY DEF InitUploads, UploadMcsPower, mcs, rfseq, afe, gain, pa
  <2> QED
    BY <1>6, <2>7, <2>8, SetOwner
<1> HIDE DEF w
<1>8. RadioReset(w) \in RegisterFiles
  BY <1>7, SetTxpu DEF RadioReset
<1> QED
  BY <1>8 DEF UploadAll, s, t, u, v, m, all, w

(* A register holds what is computed from a byte.                           *)
LEMMA SmallIsWord ==
  ASSUME NEW x \in Int, 0 <= x, x <= 274
  PROVE  x \in Word
<1>1. PICK m \in Int : m = 256 * 256 - 1 /\ 274 <= m
  OBVIOUS
<1>2. x <= m
  BY <1>1
<1>3. x \in 0 .. m
  BY <1>2
<1> QED
  BY <1>1, <1>3, Zenon DEF Word

(* The thresholds that an RSSI gives fit their registers.                    *)
LEMMA ThresholdTyped ==
  ASSUME NEW r \in Byte
  PROVE  (Dbm(r) + 105) * 2 \in Word /\ Clamp(r + 20) \in Word
<1>1. r \in Int /\ 0 <= r /\ r <= 255
  BY DEF Byte
<1>2. PICK h \in Int : h = r \div 2 /\ 0 <= h /\ h <= 127
  BY <1>1
<1>3. Dbm(r) = h - 95
  BY <1>2 DEF Dbm
<1>4. /\ (Dbm(r) + 105) * 2 \in Int /\ 0 <= (Dbm(r) + 105) * 2
      /\ (Dbm(r) + 105) * 2 <= 274
  BY <1>2, <1>3
<1>5. Clamp(r + 20) \in Int /\ 64 <= Clamp(r + 20) /\ Clamp(r + 20) <= 252
  BY <1>1 DEF Clamp, Lower, Higher
<1> QED
  BY <1>4, <1>5, SmallIsWord

(* The noise floor and the energy thresholds: what the RSSI gives fits the   *)
(* register.                                                               *)
LEMMA MaintenanceTyped ==
  ASSUME NEW p \in RegisterFiles, NEW r1 \in Byte, NEW r2 \in Byte
  PROVE  Maintenance(p, r1, r2) \in RegisterFiles
<1> DEFINE n == NoiseCal(p, r1, r2)
<1>1. \A r \in Byte : (Dbm(r) + 105) * 2 \in Word /\ Clamp(r + 20) \in Word
  BY ThresholdTyped
<1>2. n \in RegisterFiles
  <2> DEFINE moved(r) == Dbm(r) < -98 \/ Dbm(r) > -88
             t1 == IF moved(r1) THEN (Dbm(r1) + 105) * 2 ELSE p.ed[1]
             t2 == IF moved(r2) THEN (Dbm(r2) + 105) * 2 ELSE p.ed[2]
  <2>1. p.ed \in [1 .. 3 -> Word]
    BY FieldTypes
  <2>2. t1 \in Word /\ t2 \in Word
    BY <1>1, <2>1
  <2>3. n = [p EXCEPT !.ed = [p.ed EXCEPT ![1] = t1, ![2] = t2]]
    BY <2>1 DEF NoiseCal
  <2> HIDE DEF t1, t2, n
  <2>4. [p.ed EXCEPT ![1] = t1, ![2] = t2] \in [1 .. 3 -> Word]
    BY <2>1, <2>2
  <2> QED
    BY <2>3, <2>4, SetEd
<1> HIDE DEF n
<1>3. [i \in 1 .. 3 |-> Clamp((IF i = 1 THEN r1 ELSE r2) + 20)] \in [1 .. 3 -> Word]
  BY <1>1
<1> QED
  BY <1>2, <1>3, SetEd DEF Maintenance, CcaAutotune, n

(* b43bsd_phy_n_full_calibration                                            *)
LEMMA CalibrationTyped ==
  ASSUME NEW p \in RegisterFiles, NEW silent \in SUBSET (0 .. 2), NEW r1 \in Byte, NEW r2 \in Byte
  PROVE  FullCalibration(p, silent, r1, r2) \in RegisterFiles
<1> DEFINE q == TxIqCal(p)
           s == RxIqCal(q, silent)
           t == [s EXCEPT !.owner = PapdDefaults(@, silent)]
           u == Maintenance(t, r1, r2)
           v == MimoEstimation(u)
<1>1. q \in RegisterFiles
  BY DEF RegisterFiles, TxIqCal
<1> HIDE DEF q
<1>2. s \in RegisterFiles
  <2>1. q.iq \cup {core \in 1 .. 2 : core - 1 \notin silent} \in SUBSET {1, 2}
    BY <1>1, FieldTypes
  <2> QED
    BY <1>1, <2>1, SetIq DEF RxIqCal
<1> HIDE DEF s
<1>3. t \in RegisterFiles
  BY <1>2, FieldTypes, UploadTyped, SetOwner
<1> HIDE DEF t
<1>4. u \in RegisterFiles
  BY <1>3, MaintenanceTyped
<1> HIDE DEF u
<1>5. v \in RegisterFiles
  BY <1>4 DEF RegisterFiles, MimoEstimation
<1> HIDE DEF v
<1>6. ClassifierTrain(v) \in RegisterFiles
  <2>1. Upload(v.owner, "classifier") \in [Addresses -> Uploads \cup {"none"}]
    BY <1>5, FieldTypes, UploadTyped DEF Uploads
  <2>2. [v EXCEPT !.owner = Upload(v.owner, "classifier")] \in RegisterFiles
    BY <1>5, <2>1, SetOwner
  <2>3. ClassifierTrain(v)
          = [[v EXCEPT !.owner = Upload(v.owner, "classifier")] EXCEPT !.class = TRUE]
    BY <1>5 DEF RegisterFiles, ClassifierTrain
  <2> DEFINE w == [v EXCEPT !.owner = Upload(v.owner, "classifier")]
  <2> HIDE DEF w
  <2>4. [w EXCEPT !.class = TRUE] \in RegisterFiles
    BY <2>2 DEF RegisterFiles, w
  <2> QED
    BY <2>3, <2>4 DEF w
<1> QED
  BY <1>6 DEF FullCalibration, q, s, t, u, v

(* A register file without power is one.                                    *)
LEMMA UnpoweredTyped == Unpowered \in RegisterFiles
<1> DEFINE zero == [int |-> 0, frac |-> 0]
           dividers == {zero} \cup {Divider(c) : c \in Channels}
           e == [i \in 1 .. 3 |-> 0]
           x == [i \in 1 .. 2 |-> "normal"]
           o == [a \in Addresses |-> "none"]
<1>1. zero \in dividers
  OBVIOUS
<1>2. e \in [1 .. 3 -> Word]
  <2>1. 0 \in Word
    BY SmallIsWord
  <2> QED
    BY <2>1
<1>3. x \in [1 .. 2 -> {"normal", "calibrate"}]
      /\ o \in [Addresses -> Uploads \cup {"none"}]
  OBVIOUS
<1>4. /\ RegisterFiles =
           [chan : {0} \cup Channels, pll : dividers, vco : dividers, band : Bands,
            rx : Bands, bw : Bands, tables : Bands, bias : Bands, loop : Bands, idac : Bands,
            vcm0 : {0, 4, 5}, vcm1 : {0, 4, 5}, ed : [1 .. 3 -> Word], dbm : 0 .. 20,
            chainpwr : {0, 20}, bbcfg : SUBSET {"sgi", "ht40"}, class : BOOLEAN,
            samp : BOOLEAN, iq : SUBSET {1, 2}, txsw : {0, 7},
            rxsw : {0, 1, 2, 4, 7}, txpu : SUBSET {0, 1},
            txctl : [1 .. 2 -> {"normal", "calibrate"}],
            owner : [Addresses -> Uploads \cup {"none"}]]
      /\ Unpowered =
           [chan |-> 0, band |-> 5, rx |-> 2, bw |-> 2, tables |-> 2, bias |-> 2, loop |-> 2,
            idac |-> 2, vcm0 |-> 0, vcm1 |-> 0, pll |-> zero, vco |-> zero, ed |-> e,
            dbm |-> 0, chainpwr |-> 0, bbcfg |-> {},
            class |-> FALSE, samp |-> FALSE, iq |-> {}, txsw |-> 0, rxsw |-> 0, txpu |-> {},
            txctl |-> x, owner |-> o]
  BY DEF RegisterFiles, Unpowered
<1> HIDE DEF zero, dividers, e, x, o
<1> QED
  BY <1>1, <1>2, <1>3, <1>4 DEF Bands

(* The measurements and the state of the diversity cycle stay in range.     *)
DivRange == {div.best} \cup {heard[a] : a \in 0 .. 2} \subseteq -100 .. 32

(* Every step preserves the types.                                          *)
LEMMA TypesNext == IInv /\ TypeOK /\ [Next]_vars => TypeOK'
<1> SUFFICES ASSUME IInv, TypeOK, [Next]_vars PROVE TypeOK'
  OBVIOUS
<1>0. /\ phy \in RegisterFiles /\ DivRange
      /\ running \in BOOLEAN /\ fw \in BOOLEAN /\ lost \in BOOLEAN /\ bare \in BOOLEAN
      /\ asleep \in BOOLEAN /\ suspends \in 0 .. MaxSuspends
  BY DEF TypeOK, DivRange
<1>1. phy' \in RegisterFiles
  <2>1. CASE BringUp
    <3>1. PICK id \in RadioIds, junk \in Junk, silent \in Silent, r1 \in Rssi, r2 \in Rssi :
            LET all  == RadioExtended(UploadAll(phy, junk))
                tabs == RadioReset([all EXCEPT !.owner = InitUploads(@)])
            IN  \/ phy' = FullCalibration(PhyInit(tabs), silent, r1, r2)
                \/ phy' = tabs
      BY <2>1 DEF BringUp
    <3> DEFINE all  == RadioExtended(UploadAll(phy, junk))
               tabs == RadioReset([all EXCEPT !.owner = InitUploads(@)])
    <3>2. junk \in Word /\ silent \in SUBSET (0 .. 2) /\ r1 \in Byte /\ r2 \in Byte
      BY PhyAssumption
    <3>3. tabs \in RegisterFiles
      BY <1>0, <3>2, UploadsTyped
    <3>4. phy' = FullCalibration(PhyInit(tabs), silent, r1, r2) \/ phy' = tabs
      BY <3>1
    <3> HIDE DEF tabs
    <3> QED
      BY <3>2, <3>3, <3>4, InitTyped, CalibrationTyped
  <2>2. CASE \E c \in Channels : SetChannel(c)
    <3>1. PICK c \in Channels : phy' = SetBw20(SwitchChannel(phy, c))
      BY <2>2 DEF SetChannel
    <3> DEFINE s == SwitchChannel(phy, c)
    <3>2. s \in RegisterFiles
      BY <1>0, SwitchTyped
    <3> HIDE DEF s
    <3>3. MaskSet(s.bbcfg, {"sgi"}, {}) \in SUBSET {"sgi", "ht40"}
      BY <3>2, FieldTypes DEF MaskSet
    <3> DEFINE w == [s EXCEPT !.bbcfg = MaskSet(s.bbcfg, {"sgi"}, {})]
    <3>4. w \in RegisterFiles
      BY <3>2, <3>3, SetBbcfg
    <3>5. SetBw20(s) = [w EXCEPT !.bw = 2]
      BY <3>2 DEF SetBw20, RegisterFiles
    <3> HIDE DEF w
    <3>6. [w EXCEPT !.bw = 2] \in RegisterFiles
      BY <3>4 DEF RegisterFiles, Bands
    <3> QED
      BY <3>1, <3>5, <3>6 DEF s
  <2>3. CASE PeriodicCal
    <3>1. PICK r1 \in Rssi, r2 \in Rssi :
            phy' = [Maintenance(phy, r1, r2) EXCEPT !.rxsw = AntSwitch(div)]
      BY <2>3 DEF PeriodicCal
    <3>2. r1 \in Byte /\ r2 \in Byte
      BY PhyAssumption
    <3>3. Maintenance(phy, r1, r2) \in RegisterFiles
      BY <1>0, <3>2, MaintenanceTyped
    <3>4. AntSwitch(div) \in {0, 1, 2, 4, 7}
      <4>1. div.state \in 0 .. 3 /\ div.ant \in {0, 1, 2}
        BY DEF TypeOK
      <4>2. 2 ^ 0 = 1 /\ 2 ^ 1 = 2 /\ 2 ^ 2 = 4
        OBVIOUS
      <4>3. 2 ^ div.ant \in {1, 2, 4}
        BY <4>1, <4>2
      <4> QED
        BY <4>1, <4>3 DEF AntSwitch
    <3>5. \A p \in RegisterFiles, s \in {0, 1, 2, 4, 7} : [p EXCEPT !.rxsw = s] \in RegisterFiles
      BY DEF RegisterFiles
    <3> QED
      BY <3>1, <3>3, <3>4, <3>5
  <2>4. CASE Suspend
    BY <1>0, <2>4, UnpoweredTyped DEF Suspend
  <2>5. CASE Resume
    BY <1>0, <2>5, InitTyped DEF Resume
  <2>6. CASE Stop \/ UNCHANGED vars
    BY <1>0, <2>6 DEF Stop, vars
  <2> QED
    BY <2>1, <2>2, <2>3, <2>4, <2>5, <2>6 DEF Next
<1>2. div'.state \in 0 .. 3 /\ div'.ant \in 0 .. 2 /\ DivRange'
  <2>1. CASE PeriodicCal
    <3>1. PICK r \in Rssi :
            /\ div' = AntDiv(div, Dbm(r))
           
            /\ heard' = IF div.state < 3 THEN [heard EXCEPT ![div.state] = Dbm(r)] ELSE heard
      BY <2>1 DEF PeriodicCal
    <3>2. Dbm(r) \in -100 .. 32
      <4>1. r \in 0 .. 255
        BY PhyAssumption DEF Byte
      <4> QED
        BY <4>1 DEF Dbm
    <3> DEFINE d == Dbm(r)
    <3> HIDE DEF d
    <3>3. /\ div \in [state : 0 .. 3, best : -100 .. 32, ant : 0 .. 2]
          /\ heard \in [0 .. 2 -> -100 .. 32]
      BY <1>0 DEF IInv, DivTypes, DivRange
    <3>4. heard' \in [0 .. 2 -> -100 .. 32]
      <4>1. CASE div.state < 3
        BY <3>1, <3>2, <3>3, <4>1
      <4>2. CASE ~(div.state < 3)
        BY <3>1, <3>3, <4>2
      <4> QED
        BY <4>1, <4>2
    <3>5. div' \in [state : 0 .. 3, best : -100 .. 32, ant : 0 .. 2]
      <4>1. div' = AntDiv(div, d) /\ d \in -100 .. 32
        BY <3>1, <3>2 DEF d
      <4>2. CASE div.state = 0
        BY <4>1, <4>2 DEF AntDiv
      <4>3. CASE div.state \in {1, 2}
        BY <3>3, <4>1, <4>3 DEF AntDiv, Higher
      <4>4. CASE div.state = 3
        BY <3>3, <4>1, <4>4 DEF AntDiv
      <4> QED
        BY <3>3, <4>2, <4>3, <4>4
    <3> QED
      BY <3>4, <3>5 DEF DivRange
  <2>2. CASE ~PeriodicCal
    <3>1. UNCHANGED <<div, heard>>
      BY <2>2 DEF Next, vars, BringUp, Stop, SetChannel, Suspend, Resume
    <3> QED
      BY <1>0, <3>1 DEF TypeOK, DivRange
  <2> QED
    BY <2>1, <2>2
<1>3. /\ running' \in BOOLEAN /\ fw' \in BOOLEAN /\ lost' \in BOOLEAN /\ bare' \in BOOLEAN
      /\ asleep' \in BOOLEAN /\ suspends' \in 0 .. MaxSuspends
  <2>1. CASE BringUp
    BY <1>0, <2>1 DEF BringUp
  <2>2. CASE \E c \in Channels : SetChannel(c)
    BY <1>0, <2>2 DEF SetChannel
  <2>3. CASE PeriodicCal
    BY <1>0, <2>3 DEF PeriodicCal
  <2>4. CASE Suspend
    <3>1. suspends' \in 0 .. MaxSuspends
      BY <1>0, <2>4, PhyAssumption DEF Suspend
    <3> QED
      BY <1>0, <2>4, <3>1 DEF Suspend
  <2>5. CASE Resume
    BY <1>0, <2>5 DEF Resume
  <2>6. CASE Stop \/ UNCHANGED vars
    BY <1>0, <2>6 DEF Stop, vars
  <2> QED
    BY <2>1, <2>2, <2>3, <2>4, <2>5, <2>6 DEF Next
<1> QED
  BY <1>1, <1>2, <1>3 DEF TypeOK, DivRange

-----------------------------------------------------------------------------
(* Theorems.                                                               *)

(* The inductive invariant holds of every run.                             *)
THEOREM Invariant == Spec => []IInv
<1>1. Init => IInv
  BY IInvInit
<1>2. IInv /\ [Next]_vars => IInv'
  BY IInvNext
<1> QED
  BY <1>1, <1>2, PTL DEF Spec

(* Every variable has its type, and every register of the file its width:   *)
(* no function leaves a register at a value it cannot hold.                 *)
THEOREM TypeCorrect == Spec => []TypeOK
<1>1. Init => TypeOK
  <2> SUFFICES ASSUME Init PROVE TypeOK
    OBVIOUS
  <2>1. phy \in RegisterFiles
    BY UnpoweredTyped DEF Init
  <2>2. div.state \in 0 .. 3 /\ div.ant \in 0 .. 2 /\ div.best \in -100 .. 32
    BY DEF Init
  <2>3. \A a \in 0 .. 2 : heard[a] \in -100 .. 32
    BY DEF Init
  <2>4. {running, fw, lost, bare, asleep} \subseteq BOOLEAN
    BY DEF Init
  <2>5. suspends \in 0 .. MaxSuspends
    BY PhyAssumption DEF Init
  <2> QED
    BY <2>1, <2>2, <2>3, <2>4, <2>5 DEF TypeOK
<1>2. IInv /\ TypeOK /\ [Next]_vars => TypeOK'
  BY TypesNext
<1> QED
  BY <1>1, <1>2, Invariant, PTL DEF Spec

(* A radio that runs is tuned to one channel in one band, but for            *)
(* RXLPF_OUTVCM, of which it says what each chain is left at.               *)
THEOREM RadioOneBand == Spec => []OneBand
<1>1. IInv => OneBand
  BY DEF IInv, RegInv, TunedInv, TunedTo, OneBand
<1> QED
  BY <1>1, Invariant, PTL

(* The SPROM limit of the 2.4 GHz band is kept by the target, and the        *)
(* chains' own power registers are never brought under it.                 *)
THEOREM PowerIsCapped == Spec => []PowerCapped2
<1>1. IInv => PowerCapped2
  <2> SUFFICES ASSUME IInv, running, ~lost
               PROVE  phy.dbm <= Cap(2) /\ (~bare => phy.chainpwr = 20)
    BY DEF PowerCapped2
  <2> QED
    BY Caps DEF IInv, TunedInv
<1> QED
  BY <1>1, Invariant, PTL

(* The five tables survive all later uploads.                              *)
THEOREM TablesSurvive == Spec => []TablesKept
<1>1. IInv => TablesKept
  BY DEF IInv
<1> QED
  BY <1>1, Invariant, PTL

(* Diversity locks the strongest antenna.                                  *)
THEOREM DiversityIsRight == Spec => []DiversityPicksBest
<1>1. IInv => DiversityPicksBest
  BY DEF IInv
<1> QED
  BY <1>1, Invariant, PTL

=============================================================================
