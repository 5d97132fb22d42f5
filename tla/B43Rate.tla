-------------------------------- MODULE B43Rate --------------------------------
(***************************************************************************)
(* Rate control (ic/b43bsd_rate.c) with its callers: b43bsd_newstate sets it *)
(* up for a BSS and tears it down, b43bsd_start asks it for the rate of each *)
(* frame, b43bsd_dma_tx_done reports every completed frame to it.           *)
(*                                                                         *)
(* A rate is g * PerStream + i, for the i-th rate of group g (g + 1 spatial *)
(* streams).  Probabilities are the code's fixed-point numbers.             *)
(***************************************************************************)
EXTENDS Integers, FiniteSetsExt

CONSTANTS
  Streams,         \* groups, 3 in the code
  PerStream,       \* rates of a group, 8 in the code
  Bitrate,         \* kbps of a rate, as mcs_to_bitrate computes it
  UpdateInterval,  \* MINSTREL_HT_UPDATE_INTERVAL
  SampleRate,      \* MINSTREL_HT_SAMPLE_RATE
  DefaultRate,     \* max_tp_rate[g] to begin with, 3 in the code
  RingSize,        \* frames the transmit ring holds
  MaxPackets       \* bound on the completions of an association

Groups == 0 .. Streams - 1
Local  == 0 .. PerStream - 1
Rates  == 0 .. Streams * PerStream - 1

ASSUME RateAssumption ==
  /\ {Streams, PerStream, UpdateInterval, SampleRate, RingSize, MaxPackets} \subseteq Nat \ {0}
  /\ DefaultRate \in Local
  /\ Bitrate \in [Rates -> Nat]
  /\ \A r \in Rates : Bitrate[r] >= 100   \* the slowest of the tables is 6500

VARIABLES
  bss,     \* "run" while associated, "idle" after a move to INIT, else "other"
  on,      \* rc_initialized
  ms,      \* minstrel_sta, one of Stations
  cur,     \* sc_cur_rateidx
  flight,  \* frames in the transmit ring
  posted   \* the rate the last of them was posted with

vars == <<bss, on, ms, cur, flight, posted>>

SampleCap == 3   \* sample_count is only asked whether it is below 3

(* The station: of each rate its attempts, its last_attempts (every report  *)
(* is a success, so last_success too) and its probability; of each group    *)
(* its max_tp_rate[g] and max_prob_rate; total_packets, the sampling state  *)
(* and max_tp_rate.                                                         *)
Stations ==
  [attempts : [Rates -> Nat], last : [Rates -> Nat], prob : [Rates -> Nat],
   maxTp : [Groups -> Local], maxProb : [Groups -> Local], total : 0 .. MaxPackets,
   samples : 0 .. SampleCap, sampleGroup : Groups, sampleIdx : Local, best : Rates]

OnePercent == 1024   \* 1 << MINSTREL_HT_PROB_SHIFT

-----------------------------------------------------------------------------
(* The algorithm.                                                          *)

(* Fault: the new sample has no weight.                                     *)
EwmaDecays(p, sample) == IF p = 0 THEN sample ELSE (75 * p) \div 100

Ewma(p, sample) == IF p = 0 THEN sample ELSE (75 * p + 25 * sample) \div 100

(* minstrel_ht_update_prob with successes out of tries.                     *)
Estimate(p, tries, successes) ==
  IF tries = 0 THEN p ELSE Ewma(p, (successes * OnePercent) \div tries)

(* minstrel_ht_calc_tp                                                      *)
Throughput(p, rate) == (Bitrate[rate] * (p \div OnePercent)) \div 100

(* Fault: the last of equal values wins.                                    *)
LastArgMax(f) ==
  Max({i \in DOMAIN f : \A j \in DOMAIN f : f[j] <= f[i]})

(* The loops of the update keep an index until a larger value is found.     *)
ArgMax(f) ==
  Min({i \in DOMAIN f : \A j \in DOMAIN f : f[j] <= f[i]})

Tp(p, r) == Throughput(p[r], r)

GroupBest(p, g) == ArgMax([i \in Local |-> Tp(p, g * PerStream + i)])

GroupReliable(p, g) == ArgMax([i \in Local |-> p[g * PerStream + i] \div OnePercent])

(* The best rate over the groups' best rates; the old one when nothing has  *)
(* any throughput.                                                          *)
StationBest(p, old) ==
  LET rate(g) == g * PerStream + GroupBest(p, g)
      g       == ArgMax([h \in Groups |-> Tp(p, rate(h))])
  IN IF Tp(p, rate(g)) > 0 THEN rate(g) ELSE old

(* Is the rate above the group's best to be sampled?                        *)
Faster(st, g) == st.samples < SampleCap /\ st.maxTp[g] + 1 < PerStream

(* minstrel_ht_get_sample_rate: the sampled rate, which is the group's own   *)
(* index, and the station after it.                                         *)
SampleIdx(st) ==
  LET g == st.sampleGroup
  IN IF Faster(st, g) THEN st.maxTp[g] + 1 ELSE st.maxProb[g]

Sampled(st) ==
  LET g == st.sampleGroup
  IN [st EXCEPT !.samples = Min({@ + 1, SampleCap}), !.sampleGroup = (@ + 1) % Streams,
                !.sampleIdx = IF Faster(st, g) THEN st.maxTp[g] + 1 ELSE @]

(* Fault: the attempts since the last update are not reset.                 *)
KeepLast(counted) == counted

(* What is left of the counters after an update.                            *)
AfterUpdate(counted) == [r \in Rates |-> 0]

(* The update of all tables, from the attempts counted since the last.      *)
Updated(st) ==
  LET p == [r \in Rates |-> Estimate(st.prob[r], st.last[r], st.last[r])]
  IN [st EXCEPT !.last = AfterUpdate(@), !.prob = p,
                !.maxTp = [g \in Groups |-> GroupBest(p, g)],
                !.maxProb = [g \in Groups |-> GroupReliable(p, g)],
                !.best = StationBest(p, @)]

(* b43bsd_rc_update with success, for the rate r.                           *)
RcUpdate(st, r) ==
  LET counted == [st EXCEPT !.total = @ + 1, !.attempts[r] = @ + 1, !.last[r] = @ + 1]
  IN IF counted.total % UpdateInterval = 0 THEN Updated(counted) ELSE counted

(* b43bsd_rc_deinit, and b43bsd_rc_init: every rate is taken to succeed half *)
(* of the time.                                                             *)
Cleared ==
  [attempts |-> [r \in Rates |-> 0], last |-> [r \in Rates |-> 0],
   prob |-> [r \in Rates |-> 0], maxTp |-> [g \in Groups |-> 0],
   maxProb |-> [g \in Groups |-> 0], total |-> 0, samples |-> 0, sampleGroup |-> 0,
   sampleIdx |-> 0, best |-> 0]

Fresh ==
  [Cleared EXCEPT !.prob = [r \in Rates |-> 50 * OnePercent],
                  !.maxTp = [g \in Groups |-> DefaultRate]]

-----------------------------------------------------------------------------
Init ==
  /\ bss = "idle"
  /\ on = FALSE
  /\ ms = Cleared
  /\ cur = 0
  /\ flight = 0
  /\ posted = 0

(* b43bsd_newstate to RUN.  The rate of the station is asked for when there *)
(* are no statistics yet: it is 0, and is not asked for again.              *)
Associate ==
  /\ bss # "run"
  /\ bss' = "run"
  /\ on' = TRUE
  /\ ms' = Fresh
  /\ cur' = Fresh.best
  /\ UNCHANGED <<flight, posted>>

(* b43bsd_newstate to SCAN, AUTH or ASSOC.                                  *)
Lose ==
  /\ bss # "other"
  /\ bss' = "other"
  /\ UNCHANGED <<on, ms, cur, flight, posted>>

(* b43bsd_newstate to INIT: b43bsd_stop empties the ring without a report.   *)
Disassociate ==
  /\ bss # "idle"
  /\ bss' = "idle"
  /\ on' = FALSE
  /\ ms' = Cleared
  /\ flight' = 0
  /\ UNCHANGED <<cur, posted>>

(* b43bsd_start: b43bsd_rc_rateidx for one frame.                           *)
Post ==
  /\ flight < RingSize
  /\ flight' = flight + 1
  /\ IF on /\ ms.total > 0 /\ ms.total % SampleRate = 0
     THEN posted' = SampleIdx(ms) /\ ms' = Sampled(ms)
     ELSE posted' = (IF on THEN ms.best ELSE 0) /\ UNCHANGED ms
  /\ UNCHANGED <<bss, on, cur>>

(* b43bsd_dma_tx_done: the frame is credited to sc_cur_rateidx.              *)
Complete ==
  /\ flight > 0
  /\ flight' = flight - 1
  /\ \/ ~on /\ UNCHANGED ms
     \/ on /\ ms.total < MaxPackets /\ ms' = RcUpdate(ms, cur)
  /\ UNCHANGED <<bss, on, cur, posted>>

Next == Associate \/ Lose \/ Disassociate \/ Post \/ Complete

Spec == Init /\ [][Next]_vars

-----------------------------------------------------------------------------
(* Properties.                                                             *)

(* Every variable has its type; the rate handed to the transmit path and    *)
(* the sampled index exist in the tables.                                   *)
TypeOK ==
  /\ bss \in {"idle", "other", "run"}
  /\ on \in BOOLEAN
  /\ ms \in Stations
  /\ {cur, posted} \subseteq Rates
  /\ flight \in 0 .. RingSize

(* Taken in one pass over all rates, the best is the lowest one no other    *)
(* beats.                                                                   *)
FlatBest(p) ==
  CHOOSE r \in Rates : \A s \in Rates :
    /\ Tp(p, s) <= Tp(p, r)
    /\ s < r => Tp(p, s) < Tp(p, r)

SmallTables == [Rates -> {0, OnePercent, 50 * OnePercent}]

(* The two levels of the table update, within groups and over groups, find  *)
(* the one rate a single pass over all rates would: for the tables that are *)
(* reached, and for every small table.                                      *)
BestIsFlat ==
  /\ ms.total >= UpdateInterval => ms.best = FlatBest(ms.prob)
  /\ bss = "idle" /\ flight = 0 /\ posted = 0 =>
       \A p \in SmallTables :
         (\E r \in Rates : Tp(p, r) > 0) => StationBest(p, 0) = FlatBest(p)

(* A counter summed over all rates.                                         *)
SumRates(f) ==
  LET upTo[n \in 0 .. Streams * PerStream] ==
        IF n = 0 THEN 0 ELSE upTo[n - 1] + f[n - 1]
  IN  upTo[Streams * PerStream]

(* However associations, losses and late completions interleave, every      *)
(* packet of total_packets is an attempt of exactly one rate, and those not *)
(* yet in the estimates are the ones since the last update.                 *)
AttemptsConserved ==
  /\ SumRates(ms.attempts) = ms.total
  /\ SumRates(ms.last) = ms.total % UpdateInterval

(* An update moves an estimate towards what was observed and never past it, *)
(* in the rounding of the fixed-point arithmetic too.                       *)
EstimateBetween ==
  [][bss' = bss =>
       \A r \in Rates :
         /\ Min({ms.prob[r], OnePercent}) <= ms'.prob[r]
         /\ ms'.prob[r] <= Max({ms.prob[r], OnePercent})]_vars

=============================================================================
