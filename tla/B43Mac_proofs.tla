----------------------------- MODULE B43Mac_proofs -----------------------------
(***************************************************************************)
(* Theorems about B43Mac for every number of key slots, every set of keys,  *)
(* every ring size and every number of suspends.                           *)
(*                                                                         *)
(* The inductive invariant has three parts that do not depend on each      *)
(* other: the types; power save (PsInv), where SleepSafe needs to know that *)
(* only a running interface sleeps and by which of the two ways; and the    *)
(* keys (KeyInv), where each of the two properties is inductive with the   *)
(* types.  That b43bsd_set_key finds a slot is a counting argument: as many *)
(* slots as indices, and an index of its own in each.                      *)
(***************************************************************************)
EXTENDS B43Mac, FiniteSetTheorems, WellFoundedInduction, TLAPS

(* The three parts of TypeOK.                                              *)
IfTypes ==
  /\ power \in {"awake", "asleep"}
  /\ up \in BOOLEAN /\ macOn \in BOOLEAN /\ beacons \in BOOLEAN /\ promisc \in BOOLEAN
  /\ icState \in IcStates
  /\ suspends \in 0 .. MaxSuspends

PsTypes ==
  /\ running \in BOOLEAN /\ rings \in BOOLEAN /\ fw \in BOOLEAN
  /\ used \in 0 .. RingSize
  /\ ps \in PsStates
  /\ psDev \in PsDevices

KeyTypes ==
  /\ table \in KeyTables
  /\ hw \in Contents
  /\ installed \in [Ids -> Keys \cup {NoKey}]

(* A power-save state sleeps in the device by the way the driver chose when *)
(* it entered power save, and the softc has not forgotten it.              *)
WayKnown(s, byFw) ==
  /\ s.dev.autosleep => byFw /\ s.soft.sleeping
  /\ s.dev.psm => ~byFw /\ s.soft.sleeping

(* Only an interface that runs sleeps, with nothing posted.                *)
SleepsRunning == ps.sleeping => running /\ used = 0

(* A ring that does not exist holds no frame.                              *)
NoRingEmpty == ~rings => used = 0

PsInv == PsTypes /\ WayKnown(Now, fw) /\ SleepsRunning /\ NoRingEmpty

(* The table and net80211 hold keys under the indices net80211 may use.     *)
IdsInTable ==
  /\ \A s \in Slots : table[s] = NoKey \/ table[s].id \in Ids
  /\ \A i \in Ids : installed[i] = NoKey \/ installed[i].id = i

KeyInv == KeyTypes /\ IdsInTable /\ KeyTableIsMap /\ NoKeyLeftBehind

IInv == IfTypes /\ PsInv /\ KeyInv

-----------------------------------------------------------------------------
(* Numbers and slots.                                                      *)

(* Min of a set of naturals is its least member.                           *)
LEMMA LeastNatural ==
  ASSUME NEW S \in SUBSET Nat, S # {}
  PROVE  Min(S) \in S /\ \A y \in S : Min(S) <= y
<1> DEFINE Below(x) == {y \in S : y <= x}
           Downs == {Below(x) : x \in S}
<1>0. \A x \in S : x \in Nat
  OBVIOUS
<1>1. \A x \in S : Below(x) \in FiniteSubsetsOf(S)
  <2> TAKE x \in S
  <2>1. \A y \in Below(x) : y \in 0 .. x
    BY <1>0
  <2>2. IsFiniteSet(0 .. x)
    BY <1>0, FS_Interval
  <2>3. IsFiniteSet(Below(x))
    BY <2>1, <2>2, FS_Subset
  <2> QED
    BY <2>3 DEF FiniteSubsetsOf
<1>2. Downs \subseteq FiniteSubsetsOf(S) /\ Downs # {}
  BY <1>1
<1>3. \E D \in Downs : \A E \in Downs : <<E, D>> \notin StrictSubsetOrdering(S)
  BY <1>2, WFMin, FS_StrictSubsetOrderingWellFounded
<1>4. PICK x \in S : \A y \in S : <<Below(y), Below(x)>> \notin StrictSubsetOrdering(S)
  BY <1>3
<1>5. ASSUME NEW y \in S, y < x PROVE FALSE
  <2>1. \A z \in S : z <= y => z <= x
    BY <1>0, <1>5
  <2>2. x \in Below(x) /\ x \notin Below(y)
    BY <1>0, <1>5
  <2> QED
    BY <1>4, <2>1, <2>2 DEF StrictSubsetOrdering
<1>6. \A y \in S : x <= y
  BY <1>0, <1>5
<1> QED
  BY <1>0, <1>6 DEF Min

(* No key is NoKey or FilterOn, and NoKey's index is no index.             *)
LEMMA KeyFacts ==
  /\ NoKey \notin Keys /\ FilterOn \notin Keys
  /\ \A k \in Keys : k.id \in Nat
  /\ NoKey.id \notin Nat
  BY KeysAssumption DEF NoKey, FilterOn

(* b43bsd_set_key's slot: the key's own if it has one, else a free one.     *)
LEMMA SlotForFacts ==
  ASSUME NEW t, NEW id
  PROVE  \A s \in SlotFor(t, id) :
           /\ s \in Slots
           /\ s \in Matching(t, id) \/ (Matching(t, id) = {} /\ s \in FreeSlots(t))
<1> DEFINE M == Matching(t, id)
           F == FreeSlots(t)
<1>1. M \in SUBSET Nat /\ F \in SUBSET Nat /\ M \subseteq Slots /\ F \subseteq Slots
  BY KeysAssumption DEF Matching, FreeSlots, Slots
<1>2. M # {} => Min(M) \in M
  BY <1>1, LeastNatural
<1>3. F # {} => Min(F) \in F
  BY <1>1, LeastNatural
<1>4. CASE M # {}
  <2>1. SlotFor(t, id) = {Min(M)}
    BY <1>4 DEF SlotFor
  <2>2. \A x \in SlotFor(t, id) : x \in M /\ x \in Slots
    BY <1>1, <1>2, <1>4, <2>1
  <2> QED
    BY <2>2
<1>5. CASE M = {}
  BY <1>1, <1>3, <1>5 DEF SlotFor
<1> QED
  BY <1>4, <1>5

(* There are as many slots as indices, so while no slot holds this index    *)
(* and none is shared by two, one is free.                                 *)
LEMMA SlotLeft ==
  ASSUME KeyInv, NEW id \in Ids, Matching(table, id) = {}
  PROVE  FreeSlots(table) # {}
<1> SUFFICES ASSUME FreeSlots(table) = {} PROVE FALSE
  OBVIOUS
<1> DEFINE Others == Ids \ {id}
           f == [s \in Slots |-> table[s].id]
<1>1. \A s \in Slots : table[s].id \in Others
  BY DEF KeyInv, IdsInTable, FreeSlots, Matching
<1>2. f \in [Slots -> Others]
  BY <1>1
<1>3. /\ IsFiniteSet(Slots) /\ Cardinality(Slots) = MaxKeys
      /\ IsFiniteSet(Ids) /\ Cardinality(Ids) = MaxKeys
  BY KeysAssumption, FS_Interval DEF Slots, Ids
<1>4. IsFiniteSet(Others) /\ Cardinality(Others) = MaxKeys - 1
  BY <1>3, FS_RemoveElement
<1>5. PICK s1 \in Slots, s2 \in Slots : s1 # s2 /\ f[s1] = f[s2]
  <2>1. Cardinality(Others) < Cardinality(Slots)
    BY <1>3, <1>4, KeysAssumption
  <2> HIDE DEF f, Others
  <2> QED
    BY <1>2, <1>3, <1>4, <2>1, FS_PigeonHole
<1>6. {s1, s2} \subseteq Matching(table, table[s1].id) /\ table[s1].id \in Ids
  BY <1>1, <1>5 DEF Matching
<1>7. \E s : Matching(table, table[s1].id) \subseteq {s}
  BY <1>6 DEF KeyInv, KeyTableIsMap
<1> QED
  BY <1>5, <1>6, <1>7

-----------------------------------------------------------------------------
(* The words of the hardware table.                                        *)

(* Writing a key, clearing an entry and switching the filter give a table   *)
(* of words, and only the first puts key material in it, in its own entry.  *)
LEMMA WordTypes ==
  ASSUME NEW h \in Contents, NEW s \in Slots, NEW k \in Keys, NEW off \in BOOLEAN
  PROVE  /\ Programmed(h, s, k) \in Contents
         /\ Cleared(h, s) \in Contents
         /\ Filtered(h, off) \in Contents
  BY DEF Contents, Programmed, Cleared, Filtered

(* A word of key memory holds a key afterwards only if the operation put    *)
(* that key into the word's own entry, or if it held the key before.        *)
LEMMA WordKeys ==
  ASSUME NEW h \in Contents, NEW w \in Words
  PROVE  /\ \A s \in Slots, k \in Keys :
              Programmed(h, s, k)[w] \in Keys =>
                IF w \in Entry(s) THEN Programmed(h, s, k)[w] = k
                ELSE Programmed(h, s, k)[w] = h[w]
         /\ \A s \in Slots :
              Cleared(h, s)[w] \in Keys => w \notin Entry(s) /\ Cleared(h, s)[w] = h[w]
         /\ \A off \in BOOLEAN :
              Filtered(h, off)[w] \in Keys => Filtered(h, off)[w] = h[w]
<1> USE KeyFacts DEF Zero
<1>1. \A s \in Slots, k \in Keys :
        Programmed(h, s, k)[w] \in Keys =>
          IF w \in Entry(s) THEN Programmed(h, s, k)[w] = k
          ELSE Programmed(h, s, k)[w] = h[w]
  BY DEF Programmed
<1>2. \A s \in Slots :
        Cleared(h, s)[w] \in Keys => w \notin Entry(s) /\ Cleared(h, s)[w] = h[w]
  BY DEF Cleared
<1>3. \A off \in BOOLEAN :
        Filtered(h, off)[w] \in Keys => Filtered(h, off)[w] = h[w]
  BY DEF Filtered, Contents
<1> QED
  BY <1>1, <1>2, <1>3

-----------------------------------------------------------------------------
(* Keys.                                                                   *)

(* Nothing but net80211's calls changes the softc's table.                 *)
LEMMA KeysKept ==
  ASSUME KeyInv, UNCHANGED keyVars, hw' \in Contents,
         \A w \in Words : hw'[w] \in Keys => hw'[w] = hw[w]
  PROVE  KeyInv'
<1>1. KeyTypes' /\ IdsInTable' /\ KeyTableIsMap'
  BY DEF keyVars, KeyInv, KeyTypes, IdsInTable, KeyTableIsMap, Matching
<1>2. NoKeyLeftBehind'
  BY DEF keyVars, KeyInv, NoKeyLeftBehind
<1> QED
  BY <1>1, <1>2 DEF KeyInv

(* b43bsd_set_key finds a slot and leaves one entry of the key, the latest. *)
LEMMA SetKeyKeeps ==
  ASSUME KeyInv, NEW k \in Keys, SetKey(k)
  PROVE  KeyInv'
<1>1. k.id \in Ids /\ k.id \in Nat /\ k # NoKey
  BY KeyFacts DEF SetKey
<1>2. SlotFor(table, k.id) # {}
  BY <1>1, SlotLeft DEF SlotFor
<1>3. PICK s \in SlotFor(table, k.id) :
        /\ table' = [table EXCEPT ![s] = k]
        /\ hw' = Programmed(hw, s, k)
  BY <1>2 DEF SetKey
<1>4. /\ s \in Slots
      /\ \/ s \in Matching(table, k.id)
         \/ Matching(table, k.id) = {} /\ s \in FreeSlots(table)
  BY <1>3, SlotForFacts
<1>5. installed' = [installed EXCEPT ![k.id] = k]
  BY DEF SetKey
<1>6. KeyTypes'
  BY <1>1, <1>3, <1>4, <1>5, WordTypes DEF KeyInv, KeyTypes, KeyTables
<1>7. IdsInTable'
  BY <1>1, <1>3, <1>4, <1>5 DEF KeyInv, KeyTypes, KeyTables, IdsInTable
<1>8. KeyTableIsMap'
  <2>1. Matching(table', k.id) = {s} /\ table'[s] = k
    <3>1. Matching(table, k.id) \subseteq {s}
      BY <1>1, <1>4 DEF KeyInv, KeyTableIsMap
    <3> QED
      BY <1>3, <1>4, <3>1 DEF Matching, KeyInv, KeyTypes, KeyTables
  <2>2. ASSUME NEW id \in Ids, id # k.id
        PROVE  /\ Matching(table', id) = Matching(table, id)
               /\ s \notin Matching(table, id)
               /\ installed'[id] = installed[id]
    <3>1. table[s].id # id
      BY <1>4, <2>2, KeyFacts DEF Matching, FreeSlots, Ids
    <3> QED
      BY <1>1, <1>3, <1>4, <1>5, <2>2, <3>1 DEF Matching, KeyInv, KeyTypes, KeyTables
  <2>3. installed'[k.id] = k
    BY <1>1, <1>5 DEF KeyInv, KeyTypes
  <2> SUFFICES ASSUME NEW id \in Ids
      PROVE  IF installed'[id] = NoKey THEN Matching(table', id) = {}
             ELSE \E r \in Slots : Matching(table', id) = {r} /\ table'[r] = installed'[id]
    BY DEF KeyTableIsMap
  <2>4. CASE id = k.id
    BY <1>1, <1>4, <2>1, <2>3, <2>4
  <2>5. CASE id # k.id
    <3>1. \A r \in Slots : Matching(table, id) = {r} => table'[r] = table[r]
      BY <1>3, <2>2, <2>5 DEF KeyInv, KeyTypes, KeyTables
    <3> QED
      BY <2>2, <2>5, <3>1 DEF KeyInv, KeyTableIsMap
  <2> QED
    BY <2>4, <2>5
<1>9. NoKeyLeftBehind'
  <2> SUFFICES ASSUME NEW w \in Words, hw'[w] \in Keys
      PROVE  \E r \in Slots : w \in Entry(r) /\ table'[r] = hw'[w]
    BY DEF NoKeyLeftBehind
  <2>1. CASE w \in Entry(s)
    BY <1>3, <1>4, <2>1, WordKeys DEF KeyInv, KeyTypes, KeyTables
  <2>2. CASE w \notin Entry(s)
    BY <1>3, <1>4, <2>2, WordKeys DEF KeyInv, KeyTypes, KeyTables, NoKeyLeftBehind
  <2> QED
    BY <2>1, <2>2
<1> QED
  BY <1>6, <1>7, <1>8, <1>9 DEF KeyInv

(* b43bsd_delete_key empties the one slot that holds the key, and its entry. *)
LEMMA DeleteKeyKeeps ==
  ASSUME KeyInv, NEW id \in Ids, DeleteKey(id)
  PROVE  KeyInv'
<1>1. installed' = [installed EXCEPT ![id] = NoKey]
  BY DEF DeleteKey
<1>2. id \in Nat
  BY DEF Ids
<1>3. CASE Matching(table, id) = {}
  <2>1. UNCHANGED <<table, hw>>
    BY <1>3 DEF DeleteKey
  <2>2. KeyTypes' /\ IdsInTable' /\ NoKeyLeftBehind'
    BY <1>1, <2>1 DEF KeyInv, KeyTypes, IdsInTable, NoKeyLeftBehind
  <2>3. KeyTableIsMap'
    BY <1>1, <1>3, <2>1 DEF KeyInv, KeyTypes, KeyTableIsMap
  <2> QED
    BY <2>2, <2>3 DEF KeyInv
<1>4. CASE Matching(table, id) # {}
  <2> DEFINE s == Min(Matching(table, id))
  <2>1. s \in Matching(table, id) /\ s \in Slots /\ Matching(table, id) = {s}
    <3>1. Matching(table, id) \in SUBSET Nat /\ Matching(table, id) \subseteq Slots
      BY DEF Matching, Slots
    <3>2. s \in Matching(table, id)
      BY <1>4, <3>1, LeastNatural
    <3>3. \E r : Matching(table, id) = {r}
      BY <1>4 DEF KeyInv, KeyTableIsMap
    <3> QED
      BY <3>1, <3>2, <3>3
  <2>2. table' = [table EXCEPT ![s] = NoKey] /\ hw' = Cleared(hw, s)
    BY <1>4 DEF DeleteKey
  <2> HIDE DEF s
  <2>3. KeyTypes' /\ IdsInTable'
    <3>1. hw' \in Contents
      BY <2>1, <2>2 DEF KeyInv, KeyTypes, Contents, Cleared
    <3> QED
      BY <1>1, <2>1, <2>2, <3>1 DEF KeyInv, KeyTypes, KeyTables, IdsInTable
  <2>4. \A i \in Ids : i # id => Matching(table', i) = Matching(table, i)
                                /\ s \notin Matching(table, i)
    BY <2>1, <2>2, KeyFacts DEF KeyInv, KeyTypes, KeyTables, Matching, Ids
  <2>5. Matching(table', id) = {}
    BY <1>2, <2>1, <2>2, KeyFacts DEF KeyInv, KeyTypes, KeyTables, Matching
  <2>6. KeyTableIsMap'
    <3> SUFFICES ASSUME NEW i \in Ids
        PROVE  IF installed'[i] = NoKey THEN Matching(table', i) = {}
               ELSE \E r \in Slots : Matching(table', i) = {r} /\ table'[r] = installed'[i]
      BY DEF KeyTableIsMap
    <3>1. CASE i = id
      BY <1>1, <2>5, <3>1 DEF KeyInv, KeyTypes
    <3>2. CASE i # id
      <4>1. installed'[i] = installed[i]
        BY <1>1, <3>2 DEF KeyInv, KeyTypes
      <4>2. \A r \in Slots : Matching(table, i) = {r} => table'[r] = table[r]
        BY <2>2, <2>4, <3>2 DEF KeyInv, KeyTypes, KeyTables
      <4> QED
        BY <2>4, <3>2, <4>1, <4>2 DEF KeyInv, KeyTableIsMap
    <3> QED
      BY <3>1, <3>2
  <2>7. NoKeyLeftBehind'
    BY <2>1, <2>2, WordKeys DEF KeyInv, KeyTypes, KeyTables, NoKeyLeftBehind
  <2> QED
    BY <2>3, <2>6, <2>7 DEF KeyInv
<1> QED
  BY <1>3, <1>4

(* A step leaves the keys consistent.                                      *)
LEMMA KeyNext == KeyInv /\ IfTypes' /\ [Next]_vars => KeyInv'
<1> SUFFICES ASSUME KeyInv, IfTypes', [Next]_vars PROVE KeyInv'
  OBVIOUS
<1>1. ASSUME UNCHANGED <<keyVars, hw>> PROVE KeyInv'
  BY <1>1, KeysKept DEF KeyInv, KeyTypes
<1>2. CASE ToInit
  BY <1>1, <1>2 DEF ToInit
<1>3. CASE ToScan
  BY <1>1, <1>3 DEF ToScan
<1>4. CASE ToAuth
  BY <1>1, <1>4 DEF ToAuth
<1>5. CASE ToRun
  BY <1>1, <1>5 DEF ToRun
<1>6. CASE Tbtt
  BY <1>1, <1>6 DEF Tbtt
<1>7. CASE Start
  BY <1>1, <1>7 DEF Start
<1>8. CASE TxDone
  BY <1>1, <1>8 DEF TxDone
<1>9. CASE DmaRecover
  BY <1>1, <1>9 DEF DmaRecover
<1>10. CASE Suspend
  BY <1>1, <1>10 DEF Suspend, keyVars
<1>11. ASSUME UNCHANGED keyVars, UpdatePromisc PROVE KeyInv'
  <2>1. CASE UNCHANGED <<beacons, hw>>
    BY <1>11, <2>1, KeysKept DEF KeyInv, KeyTypes
  <2>2. CASE hw' = Filtered(hw, promisc')
    <3>1. promisc' \in BOOLEAN /\ hw \in Contents
      BY DEF IfTypes, KeyInv, KeyTypes
    <3>2. hw' \in Contents
      BY <2>2, <3>1 DEF Filtered, Contents
    <3>3. \A w \in Words : hw'[w] \in Keys => hw'[w] = hw[w]
      BY <2>2, <3>1, WordKeys
    <3> QED
      BY <1>11, <3>2, <3>3, KeysKept
  <2> QED
    BY <1>11, <2>1, <2>2 DEF UpdatePromisc
<1>12. CASE Flags
  <2>1. CASE promisc'
    BY <1>11, <1>12, <2>1 DEF Flags
  <2>2. CASE ~promisc'
    BY <1>1, <1>12, <2>2 DEF Flags
  <2> QED
    BY <2>1, <2>2
<1>13. CASE UpdateProt
  BY <1>11, <1>13 DEF UpdateProt
<1>14. CASE Resume
  <2>1. hw' = hw \/ hw' = [w \in Words |-> Zero]
    BY <1>14 DEF Resume
  <2>2. hw' \in Contents /\ \A w \in Words : hw'[w] \in Keys => hw'[w] = hw[w]
    BY <2>1, KeyFacts DEF KeyInv, KeyTypes, Contents, Zero
  <2> QED
    BY <1>14, <2>2, KeysKept DEF Resume, keyVars
<1>15. CASE \E key \in Keys : SetKey(key)
  BY <1>15, SetKeyKeeps
<1>16. CASE \E id \in Ids : DeleteKey(id)
  BY <1>16, DeleteKeyKeeps
<1>17. CASE UNCHANGED vars
  BY <1>1, <1>17 DEF vars
<1> QED
  BY <1>2, <1>3, <1>4, <1>5, <1>6, <1>7, <1>8, <1>9, <1>10, <1>12, <1>13, <1>14,
     <1>15, <1>16, <1>17 DEF Next

-----------------------------------------------------------------------------
(* Power save.                                                             *)

PsPairs == [soft : PsStates, dev : PsDevices]

(* b43bsd_ps_exit wakes the device by the way it was put to sleep.         *)
LEMMA PsExitWakes ==
  ASSUME NEW s \in PsPairs, fw \in BOOLEAN, WayKnown(s, fw)
  PROVE  /\ PsExit(s) \in PsPairs
         /\ WayKnown(PsExit(s), fw)
         /\ ~PsExit(s).soft.sleeping
  BY DEF PsPairs, PsStates, PsDevices, WayKnown, PsExit

(* b43bsd_ps_enter sleeps by one way, and only with nothing pending.       *)
LEMMA PsEnterSleeps ==
  ASSUME NEW s \in PsPairs, NEW n \in Nat, fw \in BOOLEAN, WayKnown(s, fw)
  PROVE  /\ PsEnter(s, n) \in PsPairs
         /\ WayKnown(PsEnter(s, n), fw)
         /\ PsEnter(s, n).soft.sleeping => s.soft.sleeping \/ n = 0
<1>1. CASE ~s.soft.enabled \/ s.soft.sleeping \/ n > 0
  BY <1>1 DEF PsEnter
<1>2. CASE ~(~s.soft.enabled \/ s.soft.sleeping \/ n > 0)
  <2>1. ~s.soft.sleeping /\ n = 0 /\ ~s.dev.autosleep /\ ~s.dev.psm
    BY <1>2 DEF WayKnown
  <2>2. CASE fw
    <3>1. PsEnter(s, n) = [soft |-> [s.soft EXCEPT !.sleeping = TRUE],
                           dev |-> [s.dev EXCEPT !.ctl = TRUE, !.autosleep = TRUE]]
      BY <1>2, <2>2 DEF PsEnter
    <3>2. /\ [s.soft EXCEPT !.sleeping = TRUE] \in PsStates
          /\ [s.soft EXCEPT !.sleeping = TRUE].sleeping
      BY DEF PsPairs, PsStates
    <3>3. /\ [s.dev EXCEPT !.ctl = TRUE, !.autosleep = TRUE] \in PsDevices
          /\ [s.dev EXCEPT !.ctl = TRUE, !.autosleep = TRUE].psm = s.dev.psm
      BY DEF PsPairs, PsDevices
    <3>4. PsEnter(s, n) \in PsPairs
      BY <3>1, <3>2, <3>3 DEF PsPairs
    <3>5. PsEnter(s, n).soft.sleeping /\ ~PsEnter(s, n).dev.psm
      <4>1. /\ PsEnter(s, n).soft = [s.soft EXCEPT !.sleeping = TRUE]
            /\ PsEnter(s, n).dev = [s.dev EXCEPT !.ctl = TRUE, !.autosleep = TRUE]
        BY <3>1
      <4> QED
        BY <2>1, <3>2, <3>3, <4>1, Zenon
    <3> QED
      BY <2>1, <2>2, <3>4, <3>5 DEF WayKnown
  <2>3. CASE ~fw
    <3>1. PsEnter(s, n) = [soft |-> [s.soft EXCEPT !.sleeping = TRUE],
                           dev |-> [s.dev EXCEPT !.psm = TRUE]]
      BY <1>2, <2>3 DEF PsEnter
    <3>2. /\ [s.soft EXCEPT !.sleeping = TRUE] \in PsStates
          /\ [s.soft EXCEPT !.sleeping = TRUE].sleeping
      BY DEF PsPairs, PsStates
    <3>3. /\ [s.dev EXCEPT !.psm = TRUE] \in PsDevices
          /\ [s.dev EXCEPT !.psm = TRUE].autosleep = s.dev.autosleep
      BY DEF PsPairs, PsDevices
    <3>4. PsEnter(s, n) \in PsPairs
      BY <3>1, <3>2, <3>3 DEF PsPairs
    <3>5. PsEnter(s, n).soft.sleeping /\ ~PsEnter(s, n).dev.autosleep
      <4>1. /\ PsEnter(s, n).soft = [s.soft EXCEPT !.sleeping = TRUE]
            /\ PsEnter(s, n).dev = [s.dev EXCEPT !.psm = TRUE]
        BY <3>1
      <4> QED
        BY <2>1, <3>2, <3>3, <4>1, Zenon
    <3> QED
      BY <2>1, <2>3, <3>4, <3>5 DEF WayKnown
  <2> QED
    BY <2>2, <2>3
<1> QED
  BY <1>1, <1>2

(* b43bsd_ps_deinit leaves neither the softc nor the device asleep.        *)
LEMMA PsDeinitWakes ==
  ASSUME NEW s \in PsPairs, fw \in BOOLEAN, WayKnown(s, fw)
  PROVE  /\ PsDeinit(s) \in PsPairs
         /\ WayKnown(PsDeinit(s), fw)
         /\ ~PsDeinit(s).soft.sleeping
         /\ ~PsDeinit(s).dev.autosleep /\ ~PsDeinit(s).dev.psm
  BY PsExitWakes DEF PsPairs, PsStates, PsDevices, PsOff, WayKnown, PsDeinit

(* b43bsd_init, over what a suspend or a firmware load left in the device,  *)
(* of an interface that does not run: it was awake.                        *)
LEMMA InitKeepsPs ==
  ASSUME PsInv, NEW dev \in PsDevices, BInit(dev),
         dev.autosleep => psDev.autosleep, dev.psm => psDev.psm
  PROVE  PsInv'
<1>1. /\ Now \in PsPairs
      /\ dev.autosleep => fw /\ ps.sleeping
      /\ dev.psm => ~fw /\ ps.sleeping
  BY DEF PsInv, PsTypes, WayKnown, Now, PsPairs
<1>2. CASE NotBroughtUp(dev)
  BY <1>1, <1>2 DEF NotBroughtUp, PsInv, PsTypes, WayKnown, Now, SleepsRunning, NoRingEmpty
<1>3. CASE BringUp(dev)
  <2>1. ~running /\ ~ps.sleeping /\ ~dev.autosleep /\ ~dev.psm /\ fw' \in BOOLEAN
    BY <1>1, <1>3 DEF BringUp, PsInv, PsTypes, SleepsRunning
  <2>2. PICK after \in FwInit(dev) :
          \/ /\ running' = TRUE
             /\ rings' = TRUE
             /\ used' = 0
             /\ SetPs(PsInit(after, fw'))
          \/ /\ UNCHANGED <<running, rings, used, ps>>
             /\ psDev' = after
    BY <1>3 DEF BringUp
  <2>3. after \in PsDevices /\ ~after.autosleep /\ ~after.psm
    BY <2>1 DEF FwInit, PsDevices
  <2>4. CASE UNCHANGED <<running, rings, used, ps>> /\ psDev' = after
    BY <2>1, <2>3, <2>4 DEF PsInv, PsTypes, WayKnown, Now, SleepsRunning, NoRingEmpty
  <2>5. CASE running' = TRUE /\ rings' = TRUE /\ used' = 0 /\ SetPs(PsInit(after, fw'))
    <3>1. /\ ps' \in PsStates /\ psDev' \in PsDevices
          /\ ~ps'.sleeping /\ ~psDev'.autosleep /\ ~psDev'.psm
      BY <2>3, <2>5 DEF SetPs, PsInit, PsStates, PsDevices
    <3> QED
      BY <2>1, <2>5, <3>1, MacAssumption
      DEF PsInv, PsTypes, WayKnown, Now, SleepsRunning, NoRingEmpty
  <2> QED
    BY <2>2, <2>4, <2>5
<1> QED
  BY <1>2, <1>3 DEF BInit

(* b43bsd_stop wakes the device before it takes the rings away.            *)
LEMMA StopKeepsPs ==
  ASSUME PsInv, BStop, UNCHANGED fw
  PROVE  PsInv'
<1>1. Now \in PsPairs /\ fw \in BOOLEAN /\ WayKnown(Now, fw)
  BY DEF PsInv, PsTypes, Now, PsPairs
<1>2. CASE ~running
  BY <1>2 DEF BStop, PsInv, PsTypes, WayKnown, Now, SleepsRunning, NoRingEmpty
<1>3. CASE running
  <2>1. /\ PsDeinit(Now) \in PsPairs
        /\ ~PsDeinit(Now).soft.sleeping
        /\ ~PsDeinit(Now).dev.autosleep /\ ~PsDeinit(Now).dev.psm
    BY <1>1, PsDeinitWakes
  <2>2. /\ ps' = PsDeinit(Now).soft /\ psDev' = PsDeinit(Now).dev
        /\ rings' = FALSE /\ used' = 0 /\ running' = FALSE
    BY <1>3 DEF BStop, SetPs
  <2>3. /\ ps' \in PsStates /\ psDev' \in PsDevices
        /\ ~ps'.sleeping /\ ~psDev'.autosleep /\ ~psDev'.psm
    <3>1. \A r \in PsPairs : r.soft \in PsStates /\ r.dev \in PsDevices
      BY DEF PsPairs
    <3> QED
      BY <2>1, <2>2, <3>1
  <2>4. PsTypes'
    <3>1. running' \in BOOLEAN /\ rings' \in BOOLEAN /\ fw' \in BOOLEAN
      BY <1>1, <2>2, Zenon
    <3> QED
      BY <2>2, <2>3, <3>1, MacAssumption DEF PsTypes
  <2>5. WayKnown(Now', fw')
    BY <2>3 DEF WayKnown, Now
  <2> QED
    BY <2>2, <2>3, <2>4, <2>5 DEF PsInv, SleepsRunning, NoRingEmpty
<1> QED
  BY <1>2, <1>3

(* The power-save state after a handler that does not stop or start the     *)
(* interface: good enough if it still knows how the device sleeps, and     *)
(* sleeps only with nothing posted.                                        *)
LEMMA PsKept ==
  ASSUME PsInv, running, UNCHANGED <<running, rings, fw>>,
         NEW s \in PsPairs, WayKnown(s, fw), SetPs(s),
         used' \in 0 .. RingSize, ~rings => used' = 0, s.soft.sleeping => used' = 0
  PROVE  PsInv'
<1>1. ps' = s.soft /\ psDev' = s.dev /\ s.soft \in PsStates /\ s.dev \in PsDevices
  BY DEF SetPs, PsPairs
<1>2. PsTypes' /\ SleepsRunning' /\ NoRingEmpty'
  BY <1>1 DEF PsInv, PsTypes, SleepsRunning, NoRingEmpty
<1>3. WayKnown(Now', fw')
  BY <1>1 DEF WayKnown, Now
<1> QED
  BY <1>2, <1>3 DEF PsInv

(* Every action keeps the power-save part of the invariant.                 *)
LEMMA PsNext == PsInv /\ IfTypes /\ [Next]_vars => PsInv'
<1> SUFFICES ASSUME PsInv, IfTypes, [Next]_vars PROVE PsInv'
  OBVIOUS
<1>1. ASSUME UNCHANGED <<running, rings, fw, psVars>> PROVE PsInv'
  BY <1>1 DEF psVars, PsInv, PsTypes, WayKnown, Now, SleepsRunning, NoRingEmpty
<1>2. Now \in PsPairs /\ fw \in BOOLEAN /\ WayKnown(Now, fw) /\ used \in 0 .. RingSize
      /\ (~rings => used = 0)
  BY DEF PsInv, PsTypes, Now, PsPairs, NoRingEmpty
<1>3. Now.dev = psDev /\ psDev \in PsDevices
  BY DEF Now, PsInv, PsTypes
<1>4. /\ PsExit(Now) \in PsPairs /\ WayKnown(PsExit(Now), fw)
      /\ ~PsExit(Now).soft.sleeping
  BY <1>2, PsExitWakes
<1>5. \A n \in Nat, frames \in Nat :
        n \in 0 .. RingSize /\ (~rings => n = 0) /\ MayPost(n, frames) =>
          n + frames \in 0 .. RingSize /\ (~rings => n + frames = 0)
  BY MacAssumption DEF MayPost
<1>6. CASE ToInit
  BY <1>6, StopKeepsPs DEF ToInit
<1>7. CASE ToScan
  <2>1. CASE icState = "INIT"
    BY <1>3, <1>7, <2>1, InitKeepsPs DEF ToScan
  <2>2. CASE icState # "INIT"
    BY <1>1, <1>7, <2>2 DEF ToScan
  <2> QED
    BY <2>1, <2>2
<1>8. CASE ToAuth
  BY <1>1, <1>8 DEF ToAuth
<1>9. CASE ToRun
  <2>1. used \in Nat
    BY <1>2, MacAssumption
  <2>2. /\ PsEnter(Now, used) \in PsPairs /\ WayKnown(PsEnter(Now, used), fw)
        /\ PsEnter(Now, used).soft.sleeping => Now.soft.sleeping \/ used = 0
    BY <1>2, <2>1, PsEnterSleeps
  <2>3. Now.soft.sleeping => used = 0
    BY DEF Now, PsInv, SleepsRunning
  <2> QED
    BY <1>2, <1>9, <2>2, <2>3, PsKept DEF ToRun
<1>10. CASE Tbtt
  BY <1>2, <1>4, <1>5, <1>10, PsKept DEF Tbtt, ifVars
<1>11. CASE Start
  BY <1>2, <1>4, <1>5, <1>11, PsKept DEF Start, ifVars
<1>12. CASE TxDone
  <2>1. PICK reaped \in 0 .. used, restarts \in BOOLEAN, frames \in 0 .. RingSize :
          /\ frames > 0 => restarts
          /\ MayPost(used - reaped, frames)
          /\ used' = used - reaped + frames
          /\ SetPs(PsTxDone(IF restarts THEN PsExit(Now) ELSE Now, used'))
    BY <1>12 DEF TxDone
  <2> DEFINE woken == IF restarts THEN PsExit(Now) ELSE Now
  <2>2. used' \in 0 .. RingSize /\ (~rings => used' = 0)
    <3>1. used - reaped \in 0 .. RingSize /\ (~rings => used - reaped = 0)
      BY <1>2, MacAssumption
    <3> QED
      BY <1>5, <2>1, <3>1, MacAssumption
  <2>3. woken \in PsPairs /\ WayKnown(woken, fw)
    BY <1>2, <1>4
  <2>4. woken.soft.sleeping => used' = 0
    <3>1. CASE restarts
      BY <1>4, <3>1
    <3>2. CASE ~restarts
      <4>1. frames = 0 /\ (ps.sleeping => used = 0)
        BY <2>1, <3>2 DEF PsInv, SleepsRunning
      <4> QED
        BY <1>2, <2>1, <3>2, <4>1, MacAssumption DEF Now
    <3> QED
      BY <3>1, <3>2
  <2>5. /\ PsEnter(woken, used') \in PsPairs /\ WayKnown(PsEnter(woken, used'), fw)
        /\ PsEnter(woken, used').soft.sleeping => woken.soft.sleeping \/ used' = 0
    <3> HIDE DEF woken
    <3> QED
      BY <1>2, <2>2, <2>3, PsEnterSleeps
  <2>6. SetPs(PsTxDone(woken, used'))
    BY <2>1
  <2> HIDE DEF woken
  <2>7. PsTxDone(woken, used') \in {woken, PsEnter(woken, used')}
    BY DEF PsTxDone
  <2>8. /\ PsTxDone(woken, used') \in PsPairs /\ WayKnown(PsTxDone(woken, used'), fw)
        /\ PsTxDone(woken, used').soft.sleeping => used' = 0
    BY <2>3, <2>4, <2>5, <2>7
  <2> QED
    BY <1>12, <2>2, <2>6, <2>8, PsKept DEF TxDone, ifVars
<1>13. CASE DmaRecover
  BY <1>13, MacAssumption
  DEF DmaRecover, ifVars, PsInv, PsTypes, WayKnown, Now, SleepsRunning, NoRingEmpty
<1>14. CASE Flags
  <2>1. CASE up'
    BY <1>3, <1>14, <2>1, InitKeepsPs DEF Flags
  <2>2. CASE ~up'
    BY <1>14, <2>2, StopKeepsPs DEF Flags
  <2> QED
    BY <2>1, <2>2
<1>15. CASE UpdateProt
  BY <1>1, <1>15 DEF UpdateProt, ifVars
<1>16. CASE \E k \in Keys : SetKey(k)
  BY <1>1, <1>16 DEF SetKey, ifVars
<1>17. CASE \E id \in Ids : DeleteKey(id)
  BY <1>1, <1>17 DEF DeleteKey, ifVars
<1>18. CASE Suspend
  <2>1. /\ used' \in 0 .. RingSize
        /\ (ps.sleeping => used' = 0) /\ (~rings' => used' = 0)
    <3>1. CASE running
      BY <1>18, <3>1, MacAssumption DEF Suspend
    <3>2. CASE ~running
      BY <1>18, <3>2 DEF Suspend, PsInv, PsTypes, SleepsRunning, NoRingEmpty
    <3> QED
      BY <3>1, <3>2
  <2>2. UNCHANGED <<running, fw, ps, psDev>>
    BY <1>18 DEF Suspend
  <2>3. rings' \in BOOLEAN
    BY <1>18, Zenon DEF Suspend, PsInv, PsTypes
  <2> QED
    BY <2>1, <2>2, <2>3 DEF PsInv, PsTypes, WayKnown, Now, SleepsRunning, NoRingEmpty
<1>19. CASE Resume
  <2>1. PICK lost \in BOOLEAN :
          LET dev == IF lost THEN Awake ELSE psDev
          IN  IF up THEN BInit(dev) ELSE NotBroughtUp(dev)
    BY <1>19 DEF Resume
  <2> DEFINE dev == IF lost THEN Awake ELSE psDev
  <2>2. /\ dev \in PsDevices
        /\ dev.autosleep => psDev.autosleep
        /\ dev.psm => psDev.psm
    BY <1>3 DEF Awake, PsDevices
  <2>3. BInit(dev)
    BY <2>1 DEF BInit
  <2> HIDE DEF dev
  <2> QED
    BY <2>2, <2>3, InitKeepsPs
<1>20. CASE UNCHANGED vars
  BY <1>1, <1>20 DEF vars, ifVars
<1> QED
  BY <1>6, <1>7, <1>8, <1>9, <1>10, <1>11, <1>12, <1>13, <1>14, <1>15, <1>16, <1>17,
     <1>18, <1>19, <1>20 DEF Next

-----------------------------------------------------------------------------
(* The rest of the interface.                                              *)

(* Every action keeps the types of the interface's other variables.         *)
LEMMA IfNext == IfTypes /\ [Next]_vars => IfTypes'
<1> SUFFICES ASSUME IfTypes, [Next]_vars PROVE IfTypes'
  OBVIOUS
<1> USE DEF IfTypes, ifVars, psVars, filterVars
<1>1. ASSUME NEW dev, BInit(dev) PROVE macOn' \in BOOLEAN
  BY <1>1, Zenon DEF BInit, BringUp, NotBroughtUp
<1>2. ASSUME BStop PROVE macOn' \in BOOLEAN
  BY <1>2, Zenon DEF BStop
<1>3. ASSUME UpdatePromisc, promisc' \in BOOLEAN PROVE beacons' \in BOOLEAN
  BY <1>3, Zenon DEF UpdatePromisc
<1>4. CASE ToInit
  BY <1>2, <1>4 DEF ToInit, IcStates
<1>5. CASE ToScan
  BY <1>1, <1>5 DEF ToScan, IcStates
<1>6. CASE ToAuth
  BY <1>6 DEF ToAuth, IcStates
<1>7. CASE ToRun
  BY <1>7 DEF ToRun, IcStates
<1>8. CASE Tbtt
  BY <1>8 DEF Tbtt
<1>9. CASE Start
  BY <1>9 DEF Start
<1>10. CASE TxDone
  BY <1>10 DEF TxDone
<1>11. CASE DmaRecover
  BY <1>11 DEF DmaRecover
<1>12. CASE Flags
  <2>1. up' \in BOOLEAN /\ promisc' \in BOOLEAN /\ UNCHANGED <<power, icState, suspends>>
    BY <1>12 DEF Flags
  <2>2. macOn' \in BOOLEAN
    BY <1>1, <1>2, <1>12 DEF Flags
  <2>3. beacons' \in BOOLEAN
    BY <1>3, <1>12, <2>1 DEF Flags
  <2> QED
    BY <2>1, <2>2, <2>3
<1>13. CASE UpdateProt
  BY <1>3, <1>13 DEF UpdateProt
<1>14. CASE \E k \in Keys : SetKey(k)
  BY <1>14 DEF SetKey
<1>15. CASE \E id \in Ids : DeleteKey(id)
  BY <1>15 DEF DeleteKey
<1>16. CASE Suspend
  <2>1. macOn' \in BOOLEAN
    BY <1>16, Zenon DEF Suspend
  <2> QED
    BY <1>16, <2>1, MacAssumption DEF Suspend
<1>17. CASE Resume
  <2>1. /\ power' = "awake" /\ icState' \in IcStates
        /\ UNCHANGED <<up, suspends, promisc>>
    BY <1>17 DEF Resume, IcStates
  <2>2. macOn' \in BOOLEAN
    BY <1>1, <1>17 DEF Resume, NotBroughtUp
  <2>3. beacons' \in BOOLEAN
    BY <1>17, Zenon DEF Resume
  <2> QED
    BY <2>1, <2>2, <2>3
<1>18. CASE UNCHANGED vars
  BY <1>18 DEF vars
<1> QED
  BY <1>4, <1>5, <1>6, <1>7, <1>8, <1>9, <1>10, <1>11, <1>12, <1>13, <1>14, <1>15,
     <1>16, <1>17, <1>18 DEF Next

-----------------------------------------------------------------------------
(* The theorems.                                                           *)

(* The driver starts awake, down and without keys.                         *)
LEMMA IInvInit == Init => IInv
<1> SUFFICES ASSUME Init PROVE IInv
  OBVIOUS
<1>1. IfTypes
  <2>1. up \in BOOLEAN /\ macOn \in BOOLEAN /\ beacons \in BOOLEAN /\ promisc \in BOOLEAN
    BY Zenon DEF Init
  <2> QED
    BY <2>1, MacAssumption DEF Init, IfTypes, IcStates
<1>2. PsInv
  <2>1. running \in BOOLEAN /\ rings \in BOOLEAN /\ fw \in BOOLEAN
    BY Zenon DEF Init
  <2>2. ps \in PsStates /\ psDev \in PsDevices
    BY DEF Init, PsOff, Awake, PsStates, PsDevices
  <2>3. PsTypes
    BY <2>1, <2>2, MacAssumption DEF Init, PsTypes
  <2>4. ~ps.sleeping /\ ~psDev.autosleep /\ ~psDev.psm
    BY DEF Init, PsOff, Awake
  <2> QED
    BY <2>3, <2>4 DEF Init, PsInv, WayKnown, Now, SleepsRunning, NoRingEmpty
<1>3. KeyInv
  <2>1. KeyTypes
    BY DEF Init, KeyTypes, KeyTables, Contents
  <2>2. IdsInTable /\ NoKeyLeftBehind
    BY KeyFacts DEF Init, IdsInTable, NoKeyLeftBehind, Zero
  <2>3. KeyTableIsMap
    BY KeyFacts DEF Init, KeyTableIsMap, Matching, Ids
  <2> QED
    BY <2>1, <2>2, <2>3 DEF KeyInv
<1> QED
  BY <1>1, <1>2, <1>3 DEF IInv

(* The invariant holds in every reachable state.                           *)
THEOREM Invariant == Spec => []IInv
<1>1. IInv /\ [Next]_vars => IInv'
  BY IfNext, PsNext, KeyNext DEF IInv
<1> QED
  BY IInvInit, <1>1, PTL DEF Spec

(* Every variable has its type, the hardware key table and the count of     *)
(* frames in the ring among them: TypeOK.                                  *)
THEOREM TypeCorrect == Spec => []TypeOK
<1>1. IInv => TypeOK
  <2>1. IfTypes /\ PsTypes =>
          {up, running, rings, fw, macOn, beacons, promisc} \subseteq BOOLEAN
    BY DEF IfTypes, PsTypes
  <2> QED
    BY <2>1 DEF IInv, PsInv, KeyInv, IfTypes, PsTypes, KeyTypes, TypeOK
<1> QED
  BY <1>1, Invariant, PTL

(* A device told to sleep is one the driver will wake before it transmits, *)
(* with nothing waiting in its ring, whatever the order of beacons, frames, *)
(* stops, suspends and firmware loads: SleepSafe.                          *)
THEOREM SleepIsSafe == Spec => []SleepSafe
<1>1. IInv => SleepSafe
  BY DEF IInv, PsInv, WayKnown, Now, SleepsRunning, SleepSafe
<1> QED
  BY <1>1, Invariant, PTL

(* b43bsd_set_key and b43bsd_delete_key keep in the softc's table exactly   *)
(* the keys net80211 has, and never run out of slots: KeyTableIsMap.        *)
THEOREM KeyTableExact == Spec => []KeyTableIsMap
  BY Invariant, PTL DEF IInv, KeyInv

(* However the overlapping entries of the hardware table are written and    *)
(* cleared, no word keeps material of a key that is gone: NoKeyLeftBehind.  *)
THEOREM NoMaterialLeft == Spec => []NoKeyLeftBehind
  BY Invariant, PTL DEF IInv, KeyInv

=============================================================================
