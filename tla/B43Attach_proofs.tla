--------------------------- MODULE B43Attach_proofs ---------------------------
(***************************************************************************)
(* The proofs of B43Attach, for every backplane, level and set of files.     *)
(*                                                                         *)
(* The list of cores comes from a loop, a recursive function in Found: the   *)
(* lemma Induction shows that it is defined and, turn by turn, what it       *)
(* lists (ListOf).  From that follow the pages of the cores the driver uses *)
(* (PageOfFound, PageIsSlot, MadeUpFacts).                                 *)
(*                                                                         *)
(* IInv says what each stage of attach has made (StageInv), that the cores   *)
(* it enabled are live until the power is lost (LiveInv, PowerInv), that a   *)
(* made-up PHY was accessed past BAR0 (MadeUpInv), and that the microcode   *)
(* image is freed only when it was rejected and good when it runs (FwInv):  *)
(* without the last, a resume could free an image that no initialisation    *)
(* rejected.                                                               *)
(***************************************************************************)
EXTENDS B43Attach, FiniteSetTheorems, WellFoundedInduction, TLAPS

(* A nonempty set of naturals has a least member.                          *)
LEMMA LeastNatural ==
  ASSUME NEW S \in SUBSET Nat, S # {}
  PROVE  \E x \in S : \A y \in S : x <= y
<1> DEFINE Below(x) == {y \in S : y <= x}
           Downs == {Below(x) : x \in S}
<1>0. \A x \in S : x \in Nat
  OBVIOUS
<1>1. \A x \in S : Below(x) \in FiniteSubsetsOf(S)
  <2> TAKE x \in S
  <2>1. \A y \in Below(x) : y \in 0 .. x
    BY <1>0
  <2>2. IsFiniteSet(0 .. x)
    BY <1>0, FS_Interval
  <2>3. IsFiniteSet(Below(x))
    BY <2>1, <2>2, FS_Subset
  <2> QED
    BY <2>3 DEF FiniteSubsetsOf
<1>2. Downs \subseteq FiniteSubsetsOf(S) /\ Downs # {}
  BY <1>1
<1>3. \E D \in Downs : \A E \in Downs : <<E, D>> \notin StrictSubsetOrdering(S)
  BY <1>2, WFMin, FS_StrictSubsetOrderingWellFounded
<1>4. PICK x \in S : \A y \in S : <<Below(y), Below(x)>> \notin StrictSubsetOrdering(S)
  BY <1>3
<1>5. ASSUME NEW y \in S, y < x PROVE FALSE
  <2>1. \A z \in S : z <= y => z <= x
    BY <1>0, <1>5
  <2>2. x \in Below(x) /\ x \notin Below(y)
    BY <1>0, <1>5
  <2> QED
    BY <1>4, <2>1, <2>2 DEF StrictSubsetOrdering
<1> QED
  BY <1>0, <1>5

(* Induction up to m, over the set of the numbers for which a claim holds.   *)
LEMMA Induction ==
  ASSUME NEW m \in Nat, NEW S, 0 \in S, \A n \in 0 .. m - 1 : n \in S => n + 1 \in S
  PROVE  \A n \in 0 .. m : n \in S
<1> DEFINE Bad == {n \in 0 .. m : n \notin S}
<1> SUFFICES ASSUME Bad # {} PROVE FALSE
  OBVIOUS
<1>1. Bad \in SUBSET Nat
  OBVIOUS
<1>2. PICK n \in Bad : \A k \in Bad : n <= k
  BY <1>1, LeastNatural
<1>3. n \in 0 .. m /\ n \notin S /\ n # 0
  BY <1>2
<1>4. n - 1 \in 0 .. m - 1 /\ n - 1 \notin Bad
  BY <1>2, <1>3
<1>5. n - 1 \in S
  BY <1>4
<1>6. (n - 1) + 1 \in S
  BY <1>4, <1>5
<1> QED
  BY <1>3, <1>6

-----------------------------------------------------------------------------
(* Indices.                                                                *)

(* A nonempty set of indices has a greatest member.                        *)
LEMMA LastIndex ==
  ASSUME NEW n \in Nat, NEW S \in SUBSET (1 .. n), S # {}
  PROVE  \E x \in S : \A y \in S : y <= x
<1> DEFINE Left == {n - x : x \in S}
<1>1. Left \in SUBSET Nat /\ Left # {}
  <2>1. \A x \in S : n - x \in Nat
    OBVIOUS
  <2> QED
    BY <2>1
<1>2. PICK d \in Left : \A e \in Left : d <= e
  BY <1>1, LeastNatural
<1>3. PICK x \in S : d = n - x
  BY <1>2
<1>4. ASSUME NEW y \in S PROVE y <= x
  <2>1. n - y \in Left
    OBVIOUS
  <2>2. n - x <= n - y
    BY <1>2, <1>3, <2>1
  <2> QED
    BY <2>2
<1> QED
  BY <1>4

(* The index of a core is that of the last one with the id.                 *)
LEMMA IndexIs ==
  ASSUME NEW s \in CoreLists, NEW id, NEW n \in 1 .. Len(s), s[n].id = id,
         \A m \in 1 .. Len(s) : s[m].id = id => m <= n
  PROVE  IndexOf(s, id) = n
<1> DEFINE at == {m \in DOMAIN s : s[m].id = id}
<1>1. DOMAIN s = 1 .. Len(s) /\ Len(s) \in Nat
  BY DEF CoreLists
<1>2. n \in at /\ \A m \in at : m <= n
  BY <1>1
<1>3. \A k \in at : k \in Nat
  BY <1>1
<1>4. \A k \in at : (\A m \in at : m <= k) => k = n
  BY <1>2, <1>3
<1> HIDE DEF at
<1>5. (CHOOSE k \in at : \A m \in at : m <= k) = n
  BY <1>2, <1>4
<1>6. IndexOf(s, id) = IF at = {} THEN 0 ELSE CHOOSE k \in at : \A m \in at : m <= k
  BY DEF IndexOf, at
<1> QED
  BY <1>2, <1>5, <1>6

(* There is an index for the ids in the list, and 0 for the others.          *)
LEMMA IndexFacts ==
  ASSUME NEW s \in CoreLists, NEW id
  PROVE  /\ IndexOf(s, id) = 0 => \A m \in 1 .. Len(s) : s[m].id # id
         /\ (\A m \in 1 .. Len(s) : s[m].id # id) => IndexOf(s, id) = 0
         /\ IndexOf(s, id) # 0 =>
              /\ IndexOf(s, id) \in 1 .. Len(s)
              /\ s[IndexOf(s, id)].id = id
              /\ \A m \in 1 .. Len(s) : s[m].id = id => m <= IndexOf(s, id)
<1>1. Len(s) \in Nat /\ DOMAIN s = 1 .. Len(s)
  BY DEF CoreLists
<1> DEFINE at == {m \in 1 .. Len(s) : s[m].id = id}
<1>2. CASE at = {}
  <2>1. IndexOf(s, id) = 0
    BY <1>1, <1>2 DEF IndexOf
  <2> QED
    BY <1>2, <2>1
<1>3. CASE at # {}
  <2>1. at \in SUBSET (1 .. Len(s))
    OBVIOUS
  <2>2. PICK x \in at : \A y \in at : y <= x
    <3> HIDE DEF at
    <3> QED
      BY <1>1, <1>3, <2>1, LastIndex
  <2>3. x \in 1 .. Len(s) /\ s[x].id = id /\ \A m \in 1 .. Len(s) : s[m].id = id => m <= x
    BY <2>2
  <2>4. IndexOf(s, id) = x
    BY <2>3, IndexIs
  <2> QED
    BY <1>1, <2>3, <2>4
<1> QED
  BY <1>2, <1>3

-----------------------------------------------------------------------------
(* The enumeration of a backplane.                                         *)

(* What the list is after n slots: the cores of the slots read so far, and   *)
(* nothing else, in the order of their slots.                               *)
ListOf(bp, s, n) ==
  /\ s \in CoreLists
  /\ Len(s) <= n /\ Len(s) <= bp.bar
  /\ \A k \in 1 .. Len(s) : \E i \in Listed(bp) : i < n /\ s[k] = CoreAt(bp, i)
  /\ \A i \in Listed(bp) : i < n => \E k \in 1 .. Len(s) : s[k] = CoreAt(bp, i)
  /\ bp.match => \A j, k \in 1 .. Len(s) : j < k => s[j].base < s[k].base

(* One turn of the loop.                                                   *)
Grown(bp, s, n) == IF n \in Listed(bp) THEN Append(s, CoreAt(bp, n)) ELSE s

(* A listed slot holds a core that is a record of the list.                *)
LEMMA CoreIsTyped ==
  ASSUME NEW bp \in Backplanes, NEW i \in Listed(bp)
  PROVE  /\ CoreAt(bp, i) \in [id : CoreIds \cup {"OTHER"}, base : Int]
         /\ CoreAt(bp, i).id = bp.slots[i]
         /\ CoreAt(bp, i).base = IF bp.match THEN EnumBase + i ELSE 0
         /\ i \in 0 .. NSlots - 1 /\ i < bp.bar /\ bp.bar \in 1 .. NSlots
<1>1. /\ i \in 0 .. NSlots - 1 /\ i < bp.bar /\ bp.slots[i] # "EMPTY"
      /\ \A j \in 0 .. i : bp.slots[j] # "END"
  BY DEF Listed, ReadableSlots
<1>2. bp.slots[i] # "END"
  BY <1>1
<1>3. bp.slots[i] \in SlotKinds /\ bp.bar \in 1 .. NSlots
  BY <1>1 DEF Backplanes
<1>4. bp.slots[i] \in CoreIds \cup {"OTHER"}
  BY <1>1, <1>2, <1>3 DEF SlotKinds
<1>5. EnumBase + i \in Int
  BY <1>1, SsbAssumption
<1> QED
  BY <1>1, <1>3, <1>4, <1>5 DEF CoreAt

(* Each turn of the loop keeps what the list is.                            *)
LEMMA ListGrows ==
  ASSUME NEW bp \in Backplanes, NEW n \in 0 .. NSlots - 1, NEW s, ListOf(bp, s, n)
  PROVE  ListOf(bp, Grown(bp, s, n), n + 1)
<1>0. n \in Nat /\ s \in CoreLists /\ Len(s) \in Nat /\ \A i \in Listed(bp) : i \in Nat
  BY DEF ListOf, CoreLists, Listed, ReadableSlots
<1>1. CASE n \in Listed(bp)
  <2> DEFINE c == CoreAt(bp, n)
             t == Append(s, c)
  <2>1. /\ c \in [id : CoreIds \cup {"OTHER"}, base : Int]
        /\ c.base = (IF bp.match THEN EnumBase + n ELSE 0) /\ n < bp.bar /\ bp.bar \in Nat
    BY <1>1, CoreIsTyped
  <2> HIDE DEF c
  <2>2. /\ t \in CoreLists /\ Len(t) = Len(s) + 1
        /\ t[Len(s) + 1] = c /\ \A k \in 1 .. Len(s) : t[k] = s[k]
    BY <1>0, <2>1 DEF CoreLists
  <2> HIDE DEF t
  <2>3. Len(t) <= n + 1 /\ Len(t) <= bp.bar
    BY <1>0, <2>1, <2>2 DEF ListOf
  <2>4. \A k \in 1 .. Len(t) : \E i \in Listed(bp) : i < n + 1 /\ t[k] = CoreAt(bp, i)
    <3> TAKE k \in 1 .. Len(t)
    <3>1. CASE k = Len(s) + 1
      BY <1>0, <1>1, <2>2, <3>1 DEF c
    <3>2. CASE k # Len(s) + 1
      <4>1. k \in 1 .. Len(s)
        BY <1>0, <2>2, <3>2
      <4>2. PICK i \in Listed(bp) : i < n /\ s[k] = CoreAt(bp, i)
        BY <4>1 DEF ListOf
      <4>3. i < n + 1
        BY <1>0, <4>2
      <4> QED
        BY <2>2, <4>1, <4>2, <4>3
    <3> QED
      BY <3>1, <3>2
  <2>5. \A i \in Listed(bp) : i < n + 1 => \E k \in 1 .. Len(t) : t[k] = CoreAt(bp, i)
    <3> SUFFICES ASSUME NEW i \in Listed(bp), i < n + 1
                 PROVE  \E k \in 1 .. Len(t) : t[k] = CoreAt(bp, i)
      OBVIOUS
    <3>1. CASE i = n
      <4>1. Len(s) + 1 \in 1 .. Len(t)
        BY <1>0, <2>2
      <4> QED
        BY <2>2, <3>1, <4>1 DEF c
    <3>2. CASE i # n
      <4>1. i < n
        BY <1>0, <3>2
      <4>2. PICK k \in 1 .. Len(s) : s[k] = CoreAt(bp, i)
        BY <4>1 DEF ListOf
      <4>3. k \in 1 .. Len(t)
        BY <1>0, <2>2
      <4> QED
        BY <2>2, <4>2, <4>3
    <3> QED
      BY <3>1, <3>2
  <2>6. ASSUME bp.match, NEW j \in 1 .. Len(t), NEW k \in 1 .. Len(t), j < k
        PROVE  t[j].base < t[k].base
    <3>1. j \in 1 .. Len(s)
      BY <1>0, <2>2, <2>6
    <3>2. CASE k = Len(s) + 1
      <4>1. PICK i \in Listed(bp) : i < n /\ s[j] = CoreAt(bp, i)
        BY <3>1 DEF ListOf
      <4>2. CoreAt(bp, i).base = EnumBase + i
        BY <2>6, CoreIsTyped
      <4> QED
        BY <1>0, <2>1, <2>2, <2>6, <3>1, <3>2, <4>1, <4>2, SsbAssumption
    <3>3. CASE k # Len(s) + 1
      <4>1. k \in 1 .. Len(s)
        BY <1>0, <2>2, <3>3
      <4> QED
        BY <2>2, <2>6, <3>1, <4>1 DEF ListOf
    <3> QED
      BY <3>2, <3>3
  <2>7. ListOf(bp, t, n + 1)
    BY <2>2, <2>3, <2>4, <2>5, <2>6 DEF ListOf
  <2> QED
    BY <1>1, <2>7 DEF Grown, t, c
<1>2. CASE n \notin Listed(bp)
  <2>1. \A i \in Listed(bp) : i < n + 1 => i < n
    BY <1>0, <1>2
  <2>2. Len(s) <= n + 1
    BY <1>0 DEF ListOf
  <2>3. \A i \in Listed(bp) : i < n => i < n + 1
    BY <1>0
  <2>4. ListOf(bp, s, n + 1)
    BY <2>1, <2>2, <2>3 DEF ListOf
  <2> QED
    BY <1>2, <2>4 DEF Grown
<1> QED
  BY <1>1, <1>2

(* What the first n turns of the loop make.                                *)
Loops(bp, g, n) ==
  /\ g \in [0 .. n -> CoreLists]
  /\ g[0] = << >>
  /\ \A i \in 1 .. n : g[i] = Grown(bp, g[i - 1], i - 1)

(* ssb_enum_cores lists the cores of the readable slots in their order.      *)
LEMMA FoundFacts ==
  ASSUME NEW bp \in Backplanes
  PROVE  ListOf(bp, Found(bp), NSlots)
<1> DEFINE Runs == {n \in 0 .. NSlots : \E g : Loops(bp, g, n)}
           Step(f) == [n \in 0 .. NSlots |->
                         IF n = 0 THEN << >>
                         ELSE IF n - 1 \in Listed(bp) THEN Append(f[n - 1], CoreAt(bp, n - 1))
                         ELSE f[n - 1]]
           f == CHOOSE f : f = Step(f)
           Right == {n \in 0 .. NSlots : ListOf(bp, f[n], n)}
<1>1. NSlots \in Nat /\ NSlots # 0
  BY SsbAssumption
<1>2. 0 \in Runs
  <2>1. << >> \in CoreLists
    BY DEF CoreLists
  <2>2. Loops(bp, [i \in 0 .. 0 |-> << >>], 0)
    BY <2>1 DEF Loops
  <2> QED
    BY <1>1, <2>2
<1>3. ASSUME NEW n \in 0 .. NSlots - 1, n \in Runs PROVE n + 1 \in Runs
  <2>1. PICK g : Loops(bp, g, n)
    BY <1>3
  <2>2. n \in Nat /\ n + 1 \in 1 .. NSlots
    BY <1>1
  <2> DEFINE v == Grown(bp, g[n], n)
             h == [i \in 0 .. n + 1 |-> IF i = n + 1 THEN v ELSE g[i]]
  <2>9. v \in CoreLists
    <3>1. g[n] \in CoreLists
      BY <2>1, <2>2 DEF Loops
    <3>2. CASE n \in Listed(bp)
      BY <3>1, <3>2, CoreIsTyped DEF Grown, CoreLists
    <3>3. CASE n \notin Listed(bp)
      BY <3>1, <3>3 DEF Grown
    <3> QED
      BY <3>2, <3>3
  <2> HIDE DEF v
  <2>3. h[n + 1] = v
    BY <2>2
  <2>8. h \in [0 .. n + 1 -> CoreLists]
    <3>1. \A i \in 0 .. n + 1 : i # n + 1 => i \in 0 .. n
      BY <2>2
    <3>2. \A i \in 0 .. n + 1 : (IF i = n + 1 THEN v ELSE g[i]) \in CoreLists
      BY <2>1, <2>9, <3>1 DEF Loops
    <3> QED
      BY <3>2
  <2>4. \A i \in 0 .. n : h[i] = g[i]
    <3> TAKE i \in 0 .. n
    <3>1. i \in 0 .. n + 1 /\ i # n + 1
      BY <2>2
    <3> QED
      BY <3>1
  <2> HIDE DEF h
  <2>5. h[0] = << >>
    <3>1. 0 \in 0 .. n
      BY <2>2
    <3> QED
      BY <2>1, <2>4, <3>1 DEF Loops
  <2>6. \A i \in 1 .. n + 1 : h[i] = Grown(bp, h[i - 1], i - 1)
    <3> TAKE i \in 1 .. n + 1
    <3>1. CASE i = n + 1
      <4>1. h[i - 1] = g[n] /\ i - 1 = n
        BY <2>2, <2>4, <3>1
      <4> QED
        BY <2>3, <3>1, <4>1 DEF v
    <3>2. CASE i # n + 1
      <4>1. i \in 1 .. n /\ i - 1 \in 0 .. n /\ i \in 0 .. n
        BY <2>2, <3>2
      <4> QED
        BY <2>1, <2>4, <4>1 DEF Loops
    <3> QED
      BY <3>1, <3>2
  <2>7. Loops(bp, h, n + 1)
    BY <2>5, <2>6, <2>8 DEF Loops
  <2> QED
    BY <2>2, <2>7
<1>4. PICK g : Loops(bp, g, NSlots)
  <2>1. \A n \in 0 .. NSlots : n \in Runs
    <3> HIDE DEF Runs
    <3> QED
      BY <1>1, <1>2, <1>3, Induction
  <2> QED
    BY <1>1, <2>1
<1>5. g = Step(g)
  <2>1. \A n \in 0 .. NSlots : n # 0 => n \in 1 .. NSlots
    BY <1>1
  <2> QED
    BY <1>4, <2>1 DEF Loops, Grown
<1>6. f = Step(f)
  <2> HIDE DEF Step
  <2> QED
    BY <1>5
<1>7. Found(bp) = f[NSlots]
  BY DEF Found, f
<1> HIDE DEF f
<1>10. f[0] = << >> /\ \A n \in 0 .. NSlots - 1 : f[n + 1] = Grown(bp, f[n], n)
  <2>1. f[0] = << >>
    BY <1>1, <1>6
  <2>2. ASSUME NEW n \in 0 .. NSlots - 1 PROVE f[n + 1] = Grown(bp, f[n], n)
    <3>1. n + 1 \in 0 .. NSlots /\ n + 1 # 0 /\ (n + 1) - 1 = n
      BY <1>1
    <3> QED
      BY <1>6, <3>1 DEF Grown
  <2> QED
    BY <2>1, <2>2
<1>11. 0 \in Right
  <2>1. << >> \in CoreLists /\ Len(<< >>) = 0
    BY DEF CoreLists
  <2>2. bp.bar \in Nat /\ \A i \in Listed(bp) : ~(i < 0)
    BY <1>1 DEF Backplanes, Listed, ReadableSlots
  <2>3. ListOf(bp, << >>, 0)
    BY <2>1, <2>2 DEF ListOf
  <2> QED
    BY <1>1, <1>10, <2>3
<1>12. ASSUME NEW n \in 0 .. NSlots - 1, n \in Right PROVE n + 1 \in Right
  <2>1. ListOf(bp, f[n + 1], n + 1)
    BY <1>10, <1>12, ListGrows
  <2> QED
    BY <1>1, <2>1
<1>13. \A n \in 0 .. NSlots : n \in Right
  <2> HIDE DEF Right
  <2> QED
    BY <1>1, <1>11, <1>12, Induction
<1> QED
  BY <1>1, <1>7, <1>13

-----------------------------------------------------------------------------
(* Bases become offsets from ChipCommon's; ids and order stay.               *)
LEMMA NormalisedFacts ==
  ASSUME NEW s \in CoreLists
  PROVE  LET d == IF IndexOf(s, "CC") = 0 THEN 0 ELSE s[IndexOf(s, "CC")].base
             t == Normalised(s)
         IN /\ d \in Int /\ t \in CoreLists /\ Len(t) = Len(s)
            /\ \A k \in 1 .. Len(s) : t[k].id = s[k].id /\ t[k].base = s[k].base - d
            /\ \A id : IndexOf(t, id) = IndexOf(s, id)
<1> DEFINE cc == IndexOf(s, "CC")
           d == IF cc = 0 THEN 0 ELSE s[cc].base
           t == Normalised(s)
           Core == [id : CoreIds \cup {"OTHER"}, base : Int]
<1>1. Len(s) \in Nat /\ DOMAIN s = 1 .. Len(s) /\ \A k \in 1 .. Len(s) : s[k] \in Core
  <2>1. s \in Seq(Core)
    BY DEF CoreLists
  <2> HIDE DEF Core
  <2> QED
    BY <2>1
<1>2. cc # 0 => cc \in 1 .. Len(s)
  BY IndexFacts
<1>3. d \in Int
  BY <1>1, <1>2
<1> HIDE DEF cc
<1>4. /\ t \in CoreLists /\ Len(t) = Len(s)
      /\ \A k \in 1 .. Len(s) : t[k].id = s[k].id /\ t[k].base = s[k].base - d
  <2>1. CASE cc = 0
    <3>1. t = s
      BY <2>1 DEF Normalised, cc
    <3>2. \A k \in 1 .. Len(s) : s[k].base \in Int
      BY <1>1
    <3> QED
      BY <2>1, <3>1, <3>2
  <2>2. CASE cc # 0
    <3>1. t = [n \in 1 .. Len(s) |-> [s[n] EXCEPT !.base = @ - d]]
      BY <1>1, <2>2 DEF Normalised, cc
    <3>2. \A k \in 1 .. Len(s) : [s[k] EXCEPT !.base = @ - d] \in Core
      <4> TAKE k \in 1 .. Len(s)
      <4>1. s[k] \in Core
        BY <1>1
      <4> HIDE DEF d
      <4> QED
        BY <1>3, <4>1
    <3> HIDE DEF d, t
    <3>3. t \in Seq(Core) /\ Len(t) = Len(s)
      BY <1>1, <3>1, <3>2
    <3>4. ASSUME NEW k \in 1 .. Len(s) PROVE t[k].id = s[k].id /\ t[k].base = s[k].base - d
      <4>1. t[k] = [s[k] EXCEPT !.base = @ - d] /\ s[k] \in Core
        BY <1>1, <3>1
      <4> QED
        BY <4>1
    <3> QED
      BY <3>3, <3>4 DEF CoreLists
  <2> QED
    BY <2>1, <2>2
<1>5. ASSUME NEW id PROVE IndexOf(t, id) = IndexOf(s, id)
  <2> HIDE DEF t
  <2>1. CASE IndexOf(s, id) = 0
    <3>1. \A m \in 1 .. Len(t) : t[m].id # id
      BY <1>4, <2>1, IndexFacts
    <3> QED
      BY <1>4, <2>1, <3>1, IndexFacts
  <2>2. CASE IndexOf(s, id) # 0
    <3> DEFINE n == IndexOf(s, id)
    <3>1. /\ n \in 1 .. Len(s) /\ s[n].id = id
          /\ \A m \in 1 .. Len(s) : s[m].id = id => m <= n
      BY <2>2, IndexFacts
    <3> HIDE DEF n
    <3>2. IndexOf(t, id) = n
      BY <1>4, <3>1, IndexIs
    <3> QED
      BY <3>2 DEF n
  <2> QED
    BY <2>1, <2>2
<1> QED
  BY <1>3, <1>4, <1>5 DEF cc

(* What a PHY core made up by WithPhy changes.                              *)
LEMMA WithPhyFacts ==
  ASSUME NEW bp \in Backplanes, NEW s, ListOf(bp, s, NSlots)
  PROVE  \/ WithPhy(bp, s) = s
         \/ LET t == WithPhy(bp, s)
            IN /\ t \in CoreLists /\ Len(t) = Len(s) + 1 /\ Len(s) = bp.bar
               /\ IndexOf(s, "PHY") = 0 /\ IndexOf(s, "CC") # 0
               /\ \A k \in 1 .. Len(s) : t[k] = s[k]
               /\ t[Len(t)] = [id |-> "PHY", base |-> s[IndexOf(s, "CC")].base + Len(s)]
               /\ IndexOf(t, "PHY") = Len(t)
               /\ \A id : id # "PHY" => IndexOf(t, id) = IndexOf(s, id)
<1> DEFINE made == /\ IndexOf(s, "PHY") = 0 /\ s # << >> /\ IndexOf(s, "CC") # 0
                   /\ bp.is4331 /\ PhyPastBar(bp, s)
           phy == [id |-> "PHY", base |-> s[IndexOf(s, "CC")].base + Len(s)]
           t == Append(s, phy)
           Core == [id : CoreIds \cup {"OTHER"}, base : Int]
<1>1. CASE ~made
  BY <1>1 DEF WithPhy
<1>2. CASE made
  <2>1. s \in Seq(Core) /\ Len(s) \in Nat /\ Len(s) <= bp.bar /\ bp.bar \in 1 .. NSlots
    <3>1. s \in Seq(Core)
      BY DEF ListOf, CoreLists
    <3>2. Len(s) \in Nat
      <4> HIDE DEF Core
      <4> QED
        BY <3>1
    <3>3. Len(s) <= bp.bar /\ bp.bar \in 1 .. NSlots
      BY DEF ListOf, Backplanes
    <3> QED
      BY <3>1, <3>2, <3>3
  <2>2. Len(s) = bp.bar
    BY <1>2, <2>1, SsbAssumption DEF PhyPastBar
  <2>3. phy \in Core
    <3>1. IndexOf(s, "CC") \in 1 .. Len(s)
      BY <1>2, <2>1, IndexFacts DEF CoreLists
    <3>2. s[IndexOf(s, "CC")] \in Core
      <4> HIDE DEF Core
      <4> QED
        BY <2>1, <3>1
    <3> QED
      BY <2>1, <3>2 DEF CoreIds
  <2>4. WithPhy(bp, s) = t
    BY <1>2 DEF WithPhy
  <2>5. t[Len(s) + 1].id = "PHY"
    <3>1. phy.id = "PHY"
      OBVIOUS
    <3> HIDE DEF phy, Core
    <3> QED
      BY <2>1, <2>3, <3>1
  <2> HIDE DEF phy, made
  <2>6. /\ t \in Seq(Core) /\ Len(t) = Len(s) + 1 /\ t[Len(t)] = phy
        /\ \A k \in 1 .. Len(s) : t[k] = s[k]
    <3> HIDE DEF Core
    <3> QED
      BY <2>1, <2>3
  <2> HIDE DEF t
  <2>7. t \in CoreLists /\ s \in CoreLists
    BY <2>1, <2>6 DEF CoreLists
  <2> HIDE DEF Core
  <2>8. IndexOf(t, "PHY") = Len(t)
    <3>1. Len(t) \in 1 .. Len(t) /\ \A m \in 1 .. Len(t) : m <= Len(t)
      BY <2>1, <2>6
    <3> QED
      BY <2>5, <2>6, <2>7, <3>1, IndexIs
  <2>9. ASSUME NEW id, id # "PHY" PROVE IndexOf(t, id) = IndexOf(s, id)
    <3>1. \A m \in 1 .. Len(t) : t[m].id = id => m \in 1 .. Len(s) /\ s[m].id = id
      <4> SUFFICES ASSUME NEW m \in 1 .. Len(t), t[m].id = id
                   PROVE  m \in 1 .. Len(s) /\ s[m].id = id
        OBVIOUS
      <4>1. m # Len(s) + 1
        BY <2>5, <2>9
      <4>2. m \in 1 .. Len(s)
        BY <2>1, <2>6, <4>1
      <4> QED
        BY <2>6, <4>2
    <3>2. CASE IndexOf(s, id) = 0
      <4>1. \A m \in 1 .. Len(t) : t[m].id # id
        BY <2>7, <3>1, <3>2, IndexFacts
      <4> QED
        BY <2>7, <3>2, <4>1, IndexFacts
    <3>3. CASE IndexOf(s, id) # 0
      <4> DEFINE n == IndexOf(s, id)
      <4>1. /\ n \in 1 .. Len(s) /\ s[n].id = id
            /\ \A m \in 1 .. Len(s) : s[m].id = id => m <= n
        BY <2>7, <3>3, IndexFacts
      <4> HIDE DEF n
      <4>2. n \in 1 .. Len(t) /\ t[n].id = id
        BY <2>1, <2>6, <4>1
      <4>3. IndexOf(t, id) = n
        BY <2>7, <3>1, <4>1, <4>2, IndexIs
      <4> QED
        BY <4>3 DEF n
    <3> QED
      BY <3>2, <3>3
  <2> QED
    BY <1>2, <2>2, <2>4, <2>6, <2>7, <2>8, <2>9 DEF phy, made
<1> QED
  BY <1>1, <1>2

(* The list of a backplane is a list of cores.                              *)
LEMMA EnumerateTyped ==
  ASSUME NEW bp \in Backplanes
  PROVE  /\ Enumerate(bp) \in CoreLists
         /\ WithPhy(bp, Found(bp)) \in CoreLists /\ Found(bp) \in CoreLists
<1>1. ListOf(bp, Found(bp), NSlots)
  BY FoundFacts
<1>2. Found(bp) \in CoreLists
  BY <1>1 DEF ListOf
<1>3. WithPhy(bp, Found(bp)) \in CoreLists
  BY <1>1, <1>2, WithPhyFacts
<1> QED
  BY <1>2, <1>3, NormalisedFacts DEF Enumerate

(* With ChipCommon first, the page of a core that was found is its slot, or  *)
(* 0 when no address match register is enabled.                            *)
LEMMA PageOfFound ==
  ASSUME NEW bp \in Backplanes, ChipCommonFirst(bp), NEW id, IndexOf(Found(bp), id) # 0
  PROVE  LET n == IndexOf(Found(bp), id)
         IN /\ n \in 1 .. Len(Found(bp))
            /\ IndexOf(Enumerate(bp), id) = n
            /\ \E i \in Listed(bp) :
                 /\ bp.slots[i] = id /\ Found(bp)[n] = CoreAt(bp, i)
                 /\ PageOf(Enumerate(bp), id) = IF bp.match THEN i ELSE 0
<1> DEFINE s == Found(bp)
           w == WithPhy(bp, s)
           n == IndexOf(s, id)
           c == IndexOf(s, "CC")
<1>1. ListOf(bp, s, NSlots) /\ s \in CoreLists /\ w \in CoreLists
  BY FoundFacts, EnumerateTyped
<1>2. Enumerate(bp) = Normalised(w)
  BY DEF Enumerate
<1> HIDE DEF s, w
<1>3. /\ n \in 1 .. Len(s) /\ s[n].id = id
  BY <1>1, IndexFacts DEF s
<1>4. PICK i \in Listed(bp) : s[n] = CoreAt(bp, i)
  BY <1>1, <1>3 DEF ListOf
<1>5. c # 0 /\ s[c].base = (IF bp.match THEN EnumBase ELSE 0) /\ c \in 1 .. Len(s)
  <2>1. bp.slots[0] = "CC" /\ 0 \in Listed(bp) /\ 0 < NSlots
    <3>1. 0 \in 0 .. NSlots - 1 /\ bp.bar \in 1 .. NSlots
      BY SsbAssumption DEF Backplanes
    <3>2. bp.slots[0] = "CC"
      BY <3>1 DEF ChipCommonFirst
    <3>3. 0 \in ReadableSlots(bp)
      BY <3>1, <3>2 DEF ReadableSlots
    <3> QED
      BY <3>1, <3>2, <3>3, SsbAssumption DEF Listed
  <2>2. PICK k \in 1 .. Len(s) : s[k] = CoreAt(bp, 0)
    BY <1>1, <2>1 DEF ListOf
  <2>3. s[k].id = "CC"
    BY <2>1, <2>2, CoreIsTyped
  <2>4. c # 0 /\ c \in 1 .. Len(s) /\ s[c].id = "CC"
    BY <1>1, <2>3, IndexFacts
  <2> HIDE DEF c
  <2>5. PICK j \in Listed(bp) : s[c] = CoreAt(bp, j)
    BY <1>1, <2>4 DEF ListOf
  <2>6. bp.slots[j] = "CC" /\ j \in 0 .. NSlots - 1
    BY <2>4, <2>5, CoreIsTyped
  <2>7. j = 0
    BY <2>6 DEF ChipCommonFirst
  <2> QED
    BY <2>1, <2>4, <2>5, <2>7, CoreIsTyped, SsbAssumption
<1>6. /\ IndexOf(w, id) = n /\ w[n] = s[n]
      /\ IndexOf(w, "CC") = c /\ w[c] = s[c] /\ n \in 1 .. Len(w)
  <2>1. CASE w = s
    BY <1>3, <2>1
  <2>2. CASE w # s
    <3>1. /\ Len(w) = Len(s) + 1 /\ IndexOf(s, "PHY") = 0
          /\ \A k \in 1 .. Len(s) : w[k] = s[k]
          /\ \A e : e # "PHY" => IndexOf(w, e) = IndexOf(s, e)
      BY <1>1, <2>2, WithPhyFacts DEF w
    <3>2. id # "PHY"
      BY <3>1 DEF s
    <3>3. Len(s) \in Nat
      BY <1>1 DEF CoreLists
    <3> QED
      BY <1>3, <1>5, <3>1, <3>2, <3>3
  <2> QED
    BY <2>1, <2>2
<1> HIDE DEF c, n
<1>7. IndexOf(Enumerate(bp), id) = n
  BY <1>1, <1>2, <1>6, NormalisedFacts
<1>8. Normalised(w)[n].base = w[n].base - w[c].base
  BY <1>1, <1>5, <1>6, NormalisedFacts
<1>9. PageOf(Enumerate(bp), id) = IF bp.match THEN i ELSE 0
  <2>1. PageOf(Enumerate(bp), id) = CoreAt(bp, i).base - s[c].base
    BY <1>2, <1>4, <1>6, <1>7, <1>8 DEF PageOf
  <2>2. i \in Nat /\ CoreAt(bp, i).base = IF bp.match THEN EnumBase + i ELSE 0
    BY CoreIsTyped, SsbAssumption
  <2> QED
    BY <1>5, <2>1, <2>2, SsbAssumption
<1>10. bp.slots[i] = id
  BY <1>3, <1>4, CoreIsTyped
<1> QED
  BY <1>3, <1>4, <1>7, <1>9, <1>10 DEF n, s

(* With ChipCommon first, every core but a made-up PHY stands in BAR0.       *)
LEMMA PagesInBar ==
  ASSUME NEW bp \in Backplanes, ChipCommonFirst(bp), NEW id, id # "PHY",
         Has(Enumerate(bp), id)
  PROVE  PageOf(Enumerate(bp), id) \in 0 .. bp.bar - 1
<1> DEFINE s == Found(bp)
           w == WithPhy(bp, s)
<1>1. ListOf(bp, s, NSlots) /\ s \in CoreLists /\ w \in CoreLists
  BY FoundFacts, EnumerateTyped
<1>2. IndexOf(Enumerate(bp), id) = IndexOf(w, id)
  BY <1>1, NormalisedFacts DEF Enumerate
<1>3. IndexOf(w, id) = IndexOf(s, id)
  <2> HIDE DEF s
  <2>1. w = s \/ \A e : e # "PHY" => IndexOf(w, e) = IndexOf(s, e)
    BY <1>1, WithPhyFacts
  <2> HIDE DEF w
  <2> QED
    BY <2>1
<1>4. PICK i \in Listed(bp) : PageOf(Enumerate(bp), id) = IF bp.match THEN i ELSE 0
  BY <1>2, <1>3, PageOfFound DEF Has
<1>5. i \in 0 .. NSlots - 1 /\ i < bp.bar /\ bp.bar \in 1 .. NSlots
  BY CoreIsTyped
<1> QED
  BY <1>4, <1>5

(* With ChipCommon first and address match registers on, the last readable   *)
(* slot with a core is the page the driver uses for it.                    *)
LEMMA PageIsSlot ==
  ASSUME NEW bp \in Backplanes, ChipCommonFirst(bp), bp.match,
         NEW i \in ReadableSlots(bp), bp.slots[i] \in CoreIds,
         \A j \in ReadableSlots(bp) : bp.slots[j] = bp.slots[i] => j <= i
  PROVE  Has(Enumerate(bp), bp.slots[i]) /\ PageOf(Enumerate(bp), bp.slots[i]) = i
<1> DEFINE s == Found(bp)
           id == bp.slots[i]
           n == IndexOf(s, id)
<1>1. ListOf(bp, s, NSlots) /\ s \in CoreLists
  BY FoundFacts, EnumerateTyped
<1>2. i \in Listed(bp) /\ i \in 0 .. NSlots - 1
  BY DEF Listed, CoreIds, ReadableSlots
<1>3. PICK k \in 1 .. Len(s) : s[k] = CoreAt(bp, i)
  <2>1. i < NSlots
    BY <1>2, SsbAssumption
  <2> QED
    BY <1>1, <1>2, <2>1 DEF ListOf
<1>4. s[k].id = id
  BY <1>2, <1>3, CoreIsTyped
<1>5. n # 0 /\ k <= n
  BY <1>1, <1>4, IndexFacts
<1>6. PICK j \in Listed(bp) :
        /\ bp.slots[j] = id /\ s[n] = CoreAt(bp, j)
        /\ PageOf(Enumerate(bp), id) = j
  BY <1>5, PageOfFound
<1>7. n \in 1 .. Len(s) /\ IndexOf(Enumerate(bp), id) = n
  BY <1>5, PageOfFound
<1>8. j \in ReadableSlots(bp) /\ j \in Nat /\ i \in Nat /\ j <= i
  BY <1>6, SsbAssumption DEF Listed, ReadableSlots
<1>9. CoreAt(bp, i).base = EnumBase + i /\ CoreAt(bp, j).base = EnumBase + j
  BY <1>2, CoreIsTyped
<1>10. j = i
  <2> SUFFICES ASSUME j # i PROVE FALSE
    OBVIOUS
  <2>1. k # n
    <3> SUFFICES ASSUME k = n PROVE FALSE
      OBVIOUS
    <3>1. CoreAt(bp, i).base = CoreAt(bp, j).base
      BY <1>3, <1>6
    <3>2. EnumBase + i = EnumBase + j
      BY <1>9, <3>1
    <3> QED
      BY <1>8, <3>2, SsbAssumption
  <2>2. k < n
    BY <1>1, <1>5, <1>7, <2>1 DEF CoreLists
  <2> HIDE DEF s, n, id
  <2>3. s[k].base < s[n].base
    BY <1>1, <1>7, <2>2 DEF ListOf
  <2>4. EnumBase + i < EnumBase + j
    BY <1>3, <1>6, <1>9, <2>3
  <2> QED
    BY <1>8, <2>4, SsbAssumption
<1> QED
  BY <1>5, <1>6, <1>7, <1>10 DEF Has

(* A PHY core that was made up stands at the end of BAR0.                    *)
LEMMA MadeUpFacts ==
  ASSUME NEW bp \in Backplanes, Enumerate(bp) # SimEnumerate(bp)
  PROVE  PageOf(Enumerate(bp), "PHY") = bp.bar /\ NeedsWindow(bp, Enumerate(bp))
<1> DEFINE s == Found(bp)
           w == WithPhy(bp, s)
           c == IndexOf(s, "CC")
<1>1. ListOf(bp, s, NSlots) /\ s \in CoreLists /\ w \in CoreLists
  BY FoundFacts, EnumerateTyped
<1>2. w # s
  BY DEF Enumerate, SimEnumerate
<1>3. /\ Len(w) = Len(s) + 1 /\ Len(s) = bp.bar /\ c # 0
      /\ \A k \in 1 .. Len(s) : w[k] = s[k]
      /\ w[Len(w)] = [id |-> "PHY", base |-> s[c].base + Len(s)]
      /\ IndexOf(w, "PHY") = Len(w) /\ IndexOf(w, "CC") = c
  <2> HIDE DEF w, s
  <2> QED
    BY <1>1, <1>2, WithPhyFacts DEF w
<1>4. Enumerate(bp) = Normalised(w)
  BY DEF Enumerate
<1> HIDE DEF s, w
<1>5. c \in 1 .. Len(s) /\ Len(s) \in Nat /\ s[c].base \in Int
  <2>1. c \in 1 .. Len(s)
    BY <1>1, <1>3, IndexFacts
  <2> HIDE DEF c
  <2> DEFINE Core == [id : CoreIds \cup {"OTHER"}, base : Int]
  <2>2. s \in Seq(Core)
    BY <1>1 DEF CoreLists
  <2>3. s[c] \in Core /\ Len(s) \in Nat
    <3> HIDE DEF Core
    <3> QED
      BY <2>1, <2>2
  <2> QED
    BY <2>1, <2>3
<1> HIDE DEF c
<1>6. w[Len(w)].base = s[c].base + Len(s) /\ w[c] = s[c] /\ Len(w) \in 1 .. Len(w)
  BY <1>3, <1>5
<1>7. /\ IndexOf(Enumerate(bp), "PHY") = Len(w)
      /\ Enumerate(bp)[Len(w)].base = w[Len(w)].base - w[c].base
  BY <1>1, <1>3, <1>4, <1>6, NormalisedFacts
<1>8. PageOf(Enumerate(bp), "PHY") = Len(s)
  BY <1>5, <1>6, <1>7 DEF PageOf
<1>9. Has(Enumerate(bp), "PHY")
  BY <1>3, <1>5, <1>7 DEF Has
<1> QED
  BY <1>3, <1>5, <1>8, <1>9 DEF NeedsWindow

-----------------------------------------------------------------------------
(* The firmware.                                                           *)

(* The microcode image is used after it was freed only if it was rejected,   *)
(* and microcode that runs was good.                                       *)
FwSound(f) ==
  /\ UsesFreed(f) => f.rejected
  /\ f.running => f.ucode \in {"good", "freed"}

(* What g keeps of the cache f.                                            *)
FwKept(f, g) ==
  /\ g \in Firmwares
  /\ FwSound(f) => FwSound(g)
  /\ AllGood(f) => AllGood(g)
  /\ f.ucode \in {"good", "freed"} => g.ucode = f.ucode

(* Keeping composes.                                                       *)
LEMMA FwKeptTwice ==
  ASSUME NEW f, NEW g, NEW h, FwKept(f, g), FwKept(g, h)
  PROVE  FwKept(f, h)
BY DEF FwKept

(* An attempt at a revision touches the two initial value images only.      *)
LEMMA TryKeeps ==
  ASSUME NEW f \in Firmwares, NEW disk \in Disks, NEW rev \in Revisions
  PROVE  FwKept(f, TryRevision(f, disk, rev).fw)
<1> DEFINE iv == Load(f.iv, disk[<<"iv", rev>>])
           bs == IF iv = "good" THEN Load(f.bs, disk[<<"bs", rev>>]) ELSE f.bs
           g == [f EXCEPT !.iv = iv, !.bs = bs]
<1>1. f.iv \in Images /\ f.bs \in Images /\ f.ucode \in Images
  BY DEF Firmwares
<1>2. <<"iv", rev>> \in Files /\ <<"bs", rev>> \in Files
  BY DEF Files
<1>3. disk[<<"iv", rev>>] \in FileKinds /\ disk[<<"bs", rev>>] \in FileKinds
  BY <1>2 DEF Disks
<1>4. iv \in Images /\ bs \in Images
  BY <1>1, <1>3 DEF Load, Images, FileKinds
<1>5. f.iv = "good" /\ f.bs = "good" => iv = "good" /\ bs = "good"
  BY DEF Load
<1>6. TryRevision(f, disk, rev).fw = g
  BY DEF TryRevision
<1> HIDE DEF iv, bs
<1>7. g \in Firmwares /\ g.iv = iv /\ g.bs = bs
  BY <1>4 DEF Firmwares
<1>8. g.ucode = f.ucode /\ g.running = f.running /\ g.rejected = f.rejected
  BY DEF Firmwares
<1> HIDE DEF g
<1> QED
  BY <1>5, <1>6, <1>7, <1>8 DEF FwKept, FwSound, AllGood, UsesFreed

(* So does every start of the microcode with the images it loads.           *)
LEMMA MicrocodeKeeps ==
  ASSUME NEW f \in Firmwares, NEW disk \in Disks, NEW starts \in BOOLEAN
  PROVE  FwKept(f, UploadMicrocode(f, disk, starts).fw)
<1> DEFINE image == Load(f.ucode, disk[<<"ucode", 0>>])
           u == UploadMicrocode(f, disk, starts)
<1>1. <<"ucode", 0>> \in Files
  BY DEF Files
<1>2. disk[<<"ucode", 0>>] \in FileKinds /\ f.ucode \in Images
  BY <1>1 DEF Disks, Firmwares
<1>3. image \in Images /\ (f.ucode # "none" => image = f.ucode)
  BY <1>2 DEF Load, Images, FileKinds
<1>4. CASE image = "none"
  <2>1. u.fw = f
    BY <1>4 DEF UploadMicrocode
  <2> QED
    BY <2>1 DEF FwKept
<1>5. CASE image = "invalid"
  <2> DEFINE g == [f EXCEPT !.ucode = "freed", !.rejected = TRUE]
  <2>1. u.fw = g
    BY <1>5 DEF UploadMicrocode
  <2>2. g \in Firmwares /\ g.ucode = "freed" /\ g.rejected
    BY DEF Firmwares, Images
  <2>3. f.ucode \notin {"good", "freed"}
    BY <1>3, <1>5
  <2> HIDE DEF g
  <2> QED
    BY <2>1, <2>2, <2>3 DEF FwKept, FwSound, UsesFreed, AllGood
<1>6. CASE image \in {"good", "freed"}
  <2> DEFINE g == [f EXCEPT !.ucode = image, !.running = @ \/ starts]
  <2>1. u.fw = g
    BY <1>6 DEF UploadMicrocode
  <2>2. f.running \in BOOLEAN /\ (f.running \/ starts) \in BOOLEAN
    BY DEF Firmwares
  <2> HIDE DEF image
  <2>3. /\ g \in Firmwares /\ g.ucode = image /\ g.rejected = f.rejected
        /\ g.iv = f.iv /\ g.bs = f.bs
    BY <1>3, <2>2 DEF Firmwares
  <2>4. f.ucode = "freed" \/ image # "freed"
    BY <1>2, <1>3 DEF Load, Images, FileKinds, image
  <2>5. f.ucode \in {"good", "freed"} => image = f.ucode
    BY <1>3
  <2> HIDE DEF g
  <2> QED
    BY <1>6, <2>1, <2>3, <2>4, <2>5 DEF FwKept, FwSound, UsesFreed, AllGood
<1> QED
  BY <1>3, <1>4, <1>5, <1>6 DEF Images

(* And b43bsd_fw_init as a whole, whatever the files are.                   *)
LEMMA FwInitKeeps ==
  ASSUME NEW f \in Firmwares, NEW g \in FwAfterInit[f]
  PROVE  FwKept(f, g)
<1>1. PICK disk \in Disks, starts \in BOOLEAN : g = FwInit(f, disk, starts).fw
  BY DEF FwAfterInit
<1> DEFINE u == UploadMicrocode(f, disk, starts)
           first  == TryRevision(u.fw, disk, PhyRev)
           second == TryRevision(first.fw, disk, 16)
           third  == TryRevision(second.fw, disk, 0)
<1>2. FwKept(f, u.fw) /\ u.fw \in Firmwares
  BY MicrocodeKeeps DEF FwKept
<1>3. g \in {u.fw, first.fw, second.fw, third.fw}
  BY <1>1 DEF FwInit, UploadInitvals
<1>4. PhyRev \in Revisions /\ 16 \in Revisions /\ 0 \in Revisions
  BY DEF Revisions
<1> HIDE DEF u
<1>5. FwKept(u.fw, first.fw) /\ first.fw \in Firmwares
  BY <1>2, <1>4, TryKeeps DEF FwKept
<1> HIDE DEF first
<1>6. FwKept(first.fw, second.fw) /\ second.fw \in Firmwares
  BY <1>4, <1>5, TryKeeps DEF FwKept
<1> HIDE DEF second
<1>7. FwKept(second.fw, third.fw)
  BY <1>4, <1>6, TryKeeps
<1> HIDE DEF third
<1>8. FwKept(f, first.fw)
  BY <1>2, <1>5, FwKeptTwice
<1>9. FwKept(f, second.fw)
  BY <1>6, <1>8, FwKeptTwice
<1>10. FwKept(f, third.fw)
  BY <1>7, <1>9, FwKeptTwice
<1> QED
  BY <1>2, <1>3, <1>8, <1>9, <1>10

-----------------------------------------------------------------------------
(* The invariant.                                                          *)

Stages ==
  {"map", "bus", "cores", "net", "intr", "partial", "failed", "complete", "detached"}

Strays == {"unmapped", "pastBar", "nullSsb", "freed", "neverAttached"}

DeviceTypes ==
  /\ dev \in Devices
  /\ level \in Levels
  /\ tms \in [0 .. NSlots - 1 -> CoreStates]
  /\ pmu \in {PmuOff} \cup {PmuSetUp(PmuOff, f, dev.is4331) : f \in XtalFields}

Flags ==
  /\ killed \in BOOLEAN /\ mapped \in BOOLEAN /\ net \in BOOLEAN
  /\ ih \in BOOLEAN /\ intx \in BOOLEAN /\ pa \in BOOLEAN
  /\ up \in BOOLEAN /\ running \in BOOLEAN /\ asleep \in BOOLEAN

SoftTypes ==
  /\ stage \in Stages
  /\ sprom \in {"unread", "old", "rejected", "good"}
  /\ stray \subseteq Strays
  /\ inits \in 0 .. MaxInits
  /\ suspends \in 0 .. MaxSuspends

FwInv ==
  /\ fw \in Firmwares
  /\ stage # "detached" => FwSound(fw)

(* What each stage has made and each way out of attach has given back.      *)
StageInv ==
  /\ stage \in {"map", "partial", "failed", "detached"} => ~mapped /\ cores = NoBus
  /\ stage = "bus" => mapped /\ cores = NoBus
  /\ stage \in {"cores", "net", "intr", "complete"} => mapped /\ cores = Enumerate(dev)
  /\ stage # "complete" => ~ih /\ ~running
  /\ stage \in {"intr", "complete"} => net
  /\ stage = "detached" => ~asleep /\ Cached(fw) = {}
  /\ stage \in {"map", "bus", "cores"} => pmu = PmuOff

(* The power is kept until attach has ended; once lost, the cores stay as     *)
(* that left them and the PA lines off.                                     *)
PowerInv ==
  /\ power \in {"kept", "cut", "back"}
  /\ stage \in {"map", "bus", "cores", "net", "intr"} => power = "kept" /\ ~asleep
  /\ power # "kept" => ~pa /\ \E s \in ResetStates : tms = [i \in 0 .. NSlots - 1 |-> s]

(* Stage 4 has accessed a PHY that was made up.                             *)
MadeUpInv ==
  stage \in {"net", "intr", "complete"} /\ Enumerate(dev) # SimEnumerate(dev) =>
    "pastBar" \in stray

(* The last readable core with each of some ids is out of reset.             *)
LiveAt(bits, ids) ==
  dev.match /\ ChipCommonFirst(dev) =>
    \A i \in ReadableSlots(dev) :
      /\ dev.slots[i] \in ids
      /\ \A j \in ReadableSlots(dev) : dev.slots[j] = dev.slots[i] => j <= i
      => Live(bits[i])

LiveInv ==
  power = "kept" =>
    /\ stage \in {"cores", "net", "intr", "complete"} => LiveAt(tms, {"PCIE"})
    /\ stage \in {"net", "intr", "complete"} => LiveAt(tms, {"MAC", "PHY", "ARM"})

IInv ==
  /\ DeviceTypes
  /\ Flags
  /\ SoftTypes
  /\ FwInv
  /\ StageInv
  /\ PowerInv
  /\ MadeUpInv
  /\ LiveInv
  /\ PaLinesKept

(* It holds before attach.                                                 *)
LEMMA IInvInit == Init => IInv
<1> SUFFICES ASSUME Init PROVE IInv
  OBVIOUS
<1>1. DeviceTypes
  BY AttachAssumption DEF Init, DeviceTypes
<1>2. Flags
  BY DEF Init, Flags
<1>3. SoftTypes
  BY AttachAssumption DEF Init, SoftTypes, Stages
<1>4. FwInv
  BY DEF Init, FwInv, NoFirmware, Firmwares, Images, FwSound, UsesFreed
<1>5. StageInv
  BY DEF Init, StageInv
<1>6. PowerInv /\ MadeUpInv /\ LiveInv /\ PaLinesKept
  BY DEF Init, PowerInv, MadeUpInv, LiveInv, PaLinesKept
<1> QED
  BY <1>1, <1>2, <1>3, <1>4, <1>5, <1>6 DEF IInv

-----------------------------------------------------------------------------
(* Accesses and resets.                                                    *)

(* What an access can go wrong by.                                          *)
LEMMA StrayKinds ==
  /\ \A page : Touch(page) \subseteq Strays
  /\ \A list : PcieSetUp(list) \subseteq Strays
  /\ ChipReset \subseteq Strays /\ TouchChipCommon \subseteq Strays
  /\ ChipInit \subseteq Strays /\ Workarounds \subseteq Strays
  /\ Led \subseteq Strays /\ StopTouches \subseteq Strays
<1>1. \A page : Touch(page) \subseteq Strays
  BY DEF Touch, Strays
<1>2. \A list : PcieSetUp(list) \subseteq Strays
  BY <1>1 DEF PcieSetUp
<1>3. ChipReset \subseteq Strays /\ TouchChipCommon \subseteq Strays /\ Led \subseteq Strays
  BY <1>1 DEF ChipReset, TouchChipCommon, Led
<1>4. ChipInit \subseteq Strays
  BY <1>3 DEF ChipInit, Strays
<1>5. Workarounds \subseteq Strays
  BY <1>1 DEF Workarounds, WaTxQueueLimit, WaTsfSpurAvoid, WaPcieTlp
<1>6. StopTouches \subseteq Strays
  BY <1>3 DEF StopTouches
<1> QED
  BY <1>1, <1>2, <1>3, <1>4, <1>5, <1>6

(* What is left of it once attach is complete.                              *)
Past == IF ChipCommonFirst(dev) THEN {} ELSE {"pastBar"}

(* Every access of a complete device is in BAR0 when ChipCommon is first.    *)
LEMMA InBounds ==
  ASSUME IInv, stage = "complete"
  PROVE  /\ mapped
         /\ Touch(MacPage) \subseteq Past /\ ChipReset \subseteq Past
         /\ ChipInit \subseteq Past /\ Workarounds \subseteq Past
         /\ Led \subseteq Past /\ StopTouches \subseteq Past
<1>1. mapped /\ cores = Enumerate(dev) /\ dev \in Backplanes
  BY AttachAssumption DEF IInv, StageInv, DeviceTypes
<1>2. ASSUME NEW id, id # "PHY", Has(cores, id) PROVE Touch(PageOf(cores, id)) \subseteq Past
  <2>1. CASE ChipCommonFirst(dev)
    <3>1. PageOf(cores, id) \in 0 .. dev.bar - 1
      BY <1>1, <1>2, <2>1, PagesInBar
    <3> QED
      BY <1>1, <3>1 DEF Touch
  <2>2. CASE ~ChipCommonFirst(dev)
    BY <1>1, <2>2 DEF Touch, Past
  <2> QED
    BY <2>1, <2>2
<1>3. Touch(0) = {}
  <2>1. 0 \in 0 .. dev.bar - 1
    BY <1>1, SsbAssumption DEF Backplanes
  <2> QED
    BY <1>1, <2>1 DEF Touch
<1>4. Touch(MacPage) \subseteq Past
  BY <1>2, <1>3 DEF MacPage
<1>5. TouchChipCommon \subseteq Past
  BY <1>2 DEF TouchChipCommon
<1>6. WaPcieTlp \subseteq Past
  BY <1>2 DEF WaPcieTlp
<1>7. Led \subseteq Past
  BY <1>3 DEF Led
<1> QED
  BY <1>1, <1>4, <1>5, <1>6, <1>7
     DEF ChipReset, ChipInit, Workarounds, WaTxQueueLimit, WaTsfSpurAvoid, StopTouches

(* ssb_core_enable brings up the cores it is asked for and none goes down.   *)
LEMMA EnabledFacts ==
  ASSUME NEW bits \in [0 .. NSlots - 1 -> CoreStates], NEW ids \in SUBSET CoreIds,
         dev \in Devices
  PROVE  LET now == Enabled(bits, ids, Enumerate(dev))
         IN /\ now \in [0 .. NSlots - 1 -> CoreStates]
            /\ LiveAt(now, ids)
            /\ \A others : LiveAt(bits, others) => LiveAt(now, others)
<1> DEFINE list == Enumerate(dev)
           now == Enabled(bits, ids, list)
           pages == {PageOf(list, id) : id \in {i \in ids : Has(list, i)}}
<1>1. dev \in Backplanes
  BY AttachAssumption
<1>2. \A c \in CoreStates :
        AfterReset(c) \in CoreStates /\ Live(AfterReset(c)) /\ (Live(c) => AfterReset(c) = c)
  BY DEF AfterReset, PulsesReset, Live, CoreStates
<1>3. now = [i \in 0 .. NSlots - 1 |->
               IF i \in pages /\ i < dev.bar THEN AfterReset(bits[i]) ELSE bits[i]]
  BY DEF Enabled
<1> HIDE DEF now, pages
<1>4. now \in [0 .. NSlots - 1 -> CoreStates]
  BY <1>2, <1>3
<1>5. \A i \in 0 .. NSlots - 1 :
        /\ Live(bits[i]) => Live(now[i])
        /\ i \in pages /\ i < dev.bar => Live(now[i])
  BY <1>2, <1>3
<1>6. \A i \in ReadableSlots(dev) : i \in 0 .. NSlots - 1 /\ i < dev.bar
  BY DEF ReadableSlots
<1>7. ASSUME dev.match, ChipCommonFirst(dev), NEW i \in ReadableSlots(dev), dev.slots[i] \in ids,
             \A j \in ReadableSlots(dev) : dev.slots[j] = dev.slots[i] => j <= i
      PROVE  Live(now[i])
  <2>1. dev.slots[i] \in CoreIds
    BY <1>7
  <2>2. Has(list, dev.slots[i]) /\ PageOf(list, dev.slots[i]) = i
    BY <1>1, <1>7, <2>1, PageIsSlot
  <2>3. i \in pages
    BY <1>7, <2>2 DEF pages
  <2> QED
    BY <1>5, <1>6, <2>3
<1>8. LiveAt(now, ids)
  BY <1>7 DEF LiveAt
<1>9. ASSUME NEW others, LiveAt(bits, others) PROVE LiveAt(now, others)
  BY <1>5, <1>6, <1>9 DEF LiveAt
<1> QED
  BY <1>4, <1>8, <1>9 DEF now

-----------------------------------------------------------------------------
(* One lemma per action, or group of actions with the same effect.          *)

(* BAR0 is mapped, or attach ends.                                          *)
LEMMA MapBarStep == IInv /\ MapBar => IInv'
<1> SUFFICES ASSUME IInv, MapBar PROVE IInv'
  OBVIOUS
<1>1. /\ stage = "map" /\ stage' \in {"failed", "partial", "bus"}
      /\ stage' \in {"failed", "partial"} => mapped' = FALSE /\ cores' = NoBus
      /\ stage' = "bus" => mapped' = TRUE /\ cores' = NoBus
      /\ UNCHANGED <<dev, level, tms, pmu, pa, killed, net, ih, intx, sprom, fw, up,
                     running, asleep, power, stray, inits, suspends>>
  <2>1. ~mapped /\ cores = NoBus
    BY DEF MapBar, IInv, StageInv
  <2>2. mapped \in BOOLEAN
    BY DEF IInv, Flags
  <2>3. mapped = FALSE
    BY <2>1, <2>2
  <2> QED
    BY <2>1, <2>3 DEF MapBar, Abandon, devVars, chipVars
<1>2. DeviceTypes' /\ FwInv'
  BY <1>1 DEF IInv, DeviceTypes, FwInv
<1>3. Flags'
  BY <1>1 DEF IInv, Flags
<1>4. SoftTypes'
  BY <1>1 DEF IInv, SoftTypes, Stages
<1>5. StageInv'
  BY <1>1 DEF IInv, StageInv
<1>6. PowerInv' /\ MadeUpInv' /\ LiveInv' /\ PaLinesKept'
  BY <1>1 DEF IInv, PowerInv, MadeUpInv, LiveInv, PaLinesKept
<1> QED
  BY <1>2, <1>3, <1>4, <1>5, <1>6 DEF IInv

(* The bus is listed and the PCIe core brought up.                          *)
LEMMA AttachBusStep == IInv /\ AttachBus => IInv'
<1> SUFFICES ASSUME IInv, AttachBus PROVE IInv'
  OBVIOUS
<1> DEFINE now == Enabled(tms, {"PCIE"}, Enumerate(dev))
<1>1. /\ stage = "bus" /\ stage' \in {"failed", "partial", "cores"}
      /\ stage' \in {"failed", "partial"} => mapped' = FALSE /\ cores' = NoBus
      /\ stage' = "cores" => mapped' = mapped /\ cores' = Enumerate(dev) /\ tms' = now
      /\ tms' \in {tms, now}
      /\ stray' = stray \/ stray' = stray \cup PcieSetUp(Enumerate(dev))
      /\ intx' = FALSE
      /\ UNCHANGED <<dev, level, pmu, pa, killed, net, ih, sprom, fw, up, running,
                     asleep, power, inits, suspends>>
  BY DEF AttachBus, Abandon, devVars
<1>2. mapped /\ cores = NoBus /\ ~ih /\ ~running /\ pmu = PmuOff
  BY <1>1 DEF IInv, StageInv
<1>3. now \in [0 .. NSlots - 1 -> CoreStates] /\ LiveAt(now, {"PCIE"})
  BY EnabledFacts DEF IInv, DeviceTypes, CoreIds
<1> HIDE DEF now
<1>4. DeviceTypes' /\ FwInv'
  BY <1>1, <1>3 DEF IInv, DeviceTypes, FwInv
<1>5. Flags'
  BY <1>1 DEF IInv, Flags
<1>6. SoftTypes'
  BY <1>1, StrayKinds DEF IInv, SoftTypes, Stages
<1>7. StageInv'
  BY <1>1, <1>2 DEF IInv, StageInv
<1>8. LiveInv'
  <2>1. stage' = "cores" => LiveAt(tms, {"PCIE"})'
    BY <1>1, <1>3 DEF LiveAt
  <2> QED
    BY <1>1, <2>1 DEF LiveInv
<1>9. PowerInv' /\ MadeUpInv' /\ PaLinesKept'
  BY <1>1 DEF IInv, PowerInv, MadeUpInv, PaLinesKept
<1> QED
  BY <1>4, <1>5, <1>6, <1>7, <1>8, <1>9 DEF IInv

(* The PMU and the other cores are brought up.                              *)
LEMMA EnableCoresStep == IInv /\ EnableCores => IInv'
<1> SUFFICES ASSUME IInv, EnableCores PROVE IInv'
  OBVIOUS
<1> DEFINE ids == {"MAC", "PHY", "ARM"}
           now == Enabled(tms, ids, Enumerate(dev))
<1>1. /\ stage = "cores" /\ stage' \in {"partial", "net"}
      /\ stage' = "partial" => mapped' = FALSE /\ cores' = NoBus
      /\ stage' = "net" => mapped' = mapped /\ cores' = cores
      /\ UNCHANGED <<dev, level, killed, net, ih, intx, sprom, fw, up, running,
                     asleep, power, inits, suspends>>
  BY DEF EnableCores, Abandon, devVars
<1>2. mapped /\ cores = Enumerate(dev) /\ ~ih /\ ~running /\ pmu = PmuOff
  BY <1>1 DEF IInv, StageInv
<1>3. tms' = now
  BY <1>2 DEF EnableCores
<1>4. /\ now \in [0 .. NSlots - 1 -> CoreStates] /\ LiveAt(now, ids)
      /\ LiveAt(tms, {"PCIE"}) => LiveAt(now, {"PCIE"})
  BY EnabledFacts DEF IInv, DeviceTypes, CoreIds
<1>5. LiveAt(tms, {"PCIE"})
  BY <1>1 DEF IInv, LiveInv, PowerInv
<1> HIDE DEF now
<1>6. pmu' \in {PmuOff} \cup {PmuSetUp(PmuOff, f, dev.is4331) : f \in XtalFields}
  BY <1>2 DEF EnableCores, PmuInit
<1>7. pa' \in BOOLEAN
  BY DEF EnableCores, PmuInit, ExtPaLines, IInv, Flags
<1>8. stray' \subseteq Strays
  BY StrayKinds DEF EnableCores, IInv, SoftTypes
<1>9. DeviceTypes' /\ FwInv'
  BY <1>1, <1>3, <1>4, <1>6 DEF IInv, DeviceTypes, FwInv
<1>10. Flags'
  BY <1>1, <1>7 DEF IInv, Flags
<1>11. SoftTypes'
  BY <1>1, <1>8 DEF IInv, SoftTypes, Stages
<1>12. StageInv'
  BY <1>1, <1>2 DEF IInv, StageInv
<1>13. LiveInv'
  <2>1. LiveAt(tms, {"PCIE"})' /\ LiveAt(tms, ids)'
    BY <1>1, <1>3, <1>4, <1>5 DEF LiveAt
  <2> QED
    BY <2>1 DEF LiveInv
<1>14. PowerInv' /\ PaLinesKept'
  BY <1>1 DEF IInv, PowerInv, PaLinesKept
<1>15. MadeUpInv'
  <2> SUFFICES ASSUME stage' = "net", Enumerate(dev) # SimEnumerate(dev)
               PROVE  "pastBar" \in stray'
    BY <1>1 DEF MadeUpInv
  <2>1. PageOf(cores, "PHY") = dev.bar /\ Has(cores, "PHY") /\ dev.bar \notin 0 .. dev.bar - 1
    <3>1. dev \in Backplanes /\ dev.bar \in Int
      BY AttachAssumption DEF IInv, DeviceTypes, Backplanes
    <3> QED
      BY <1>2, <3>1, MadeUpFacts DEF NeedsWindow
  <2>2. "pastBar" \in Touch(PageOf(cores, "PHY"))
    BY <2>1 DEF Touch
  <2>3. "PHY" \in {i \in {"MAC", "PHY", "ARM"} : Has(cores, i)}
    BY <2>1
  <2> QED
    BY <2>2, <2>3 DEF EnableCores
<1> QED
  BY <1>9, <1>10, <1>11, <1>12, <1>13, <1>14, <1>15 DEF IInv

(* The SPROM is read and net80211 attached.                                 *)
LEMMA AttachNetStep == IInv /\ AttachNet => IInv'
<1> SUFFICES ASSUME IInv, AttachNet PROVE IInv'
  OBVIOUS
<1>1. /\ stage = "net" /\ stage' \in {"intr", "complete"} /\ net' = TRUE
      /\ sprom' \in {"old", "rejected", "good"}
      /\ pa' = ExtPaLines(sprom' = "good")
      /\ UNCHANGED <<dev, level, tms, pmu, killed, mapped, cores, ih, intx, fw, up,
                     running, asleep, power, inits, suspends>>
  BY DEF AttachNet, SpromParse, SpromOutcomes, devVars
<1>2. pa' \in BOOLEAN
  BY <1>1 DEF ExtPaLines, IInv, Flags
<1>3. stray' \subseteq Strays /\ stray \subseteq stray'
  BY StrayKinds DEF AttachNet, IInv, SoftTypes
<1>4. DeviceTypes' /\ FwInv'
  BY <1>1 DEF IInv, DeviceTypes, FwInv
<1>5. Flags'
  BY <1>1, <1>2 DEF IInv, Flags
<1>6. SoftTypes'
  BY <1>1, <1>3 DEF IInv, SoftTypes, Stages
<1>7. StageInv'
  BY <1>1 DEF IInv, StageInv
<1>8. LiveInv'
  BY <1>1 DEF IInv, LiveInv, LiveAt
<1>9. PaLinesKept'
  BY <1>1 DEF IInv, PowerInv, PaLinesKept, ExtPaLines
<1>10. PowerInv' /\ MadeUpInv'
  BY <1>1, <1>3 DEF IInv, PowerInv, MadeUpInv
<1> QED
  BY <1>4, <1>5, <1>6, <1>7, <1>8, <1>9, <1>10 DEF IInv

(* The interrupt is established, or attach fails.                           *)
LEMMA AttachIntrStep == IInv /\ AttachIntr => IInv'
<1> SUFFICES ASSUME IInv, AttachIntr PROVE IInv'
  OBVIOUS
<1>1. /\ stage = "intr" /\ stage' \in {"failed", "complete"}
      /\ stage' = "failed" => mapped' = FALSE /\ cores' = NoBus /\ ih' = ih
      /\ stage' = "complete" => mapped' = mapped /\ cores' = cores /\ ih' = TRUE
      /\ stray' = stray \/ stray' = stray \cup ChipReset \cup Led
      /\ UNCHANGED <<dev, level, tms, pmu, pa, killed, net, intx, sprom, fw, up,
                     running, asleep, power, inits, suspends>>
  BY DEF AttachIntr, Abandon, devVars, chipVars
<1>2. DeviceTypes' /\ FwInv'
  BY <1>1 DEF IInv, DeviceTypes, FwInv
<1>3. Flags'
  BY <1>1 DEF IInv, Flags
<1>4. SoftTypes'
  BY <1>1, StrayKinds DEF IInv, SoftTypes, Stages
<1>5. StageInv'
  <2>1. cores = Enumerate(dev) /\ ~ih /\ ~running /\ net /\ mapped
    BY <1>1 DEF IInv, StageInv
  <2>2. CASE stage' = "failed"
    BY <1>1, <2>1, <2>2 DEF StageInv
  <2>3. CASE stage' = "complete"
    BY <1>1, <2>1, <2>3 DEF StageInv
  <2> QED
    BY <1>1, <2>2, <2>3
<1>6. LiveInv'
  BY <1>1 DEF IInv, LiveInv, LiveAt
<1>7. PowerInv' /\ MadeUpInv' /\ PaLinesKept'
  BY <1>1 DEF IInv, PowerInv, MadeUpInv, PaLinesKept
<1> QED
  BY <1>2, <1>3, <1>4, <1>5, <1>6, <1>7 DEF IInv

(* What b43bsd_init leaves, from a firmware that is sound: the PA lines as    *)
(* they were, the accesses in BAR0, no driver that runs without interrupt.   *)
LEMMA BringUpFacts ==
  ASSUME IInv, NEW f \in Firmwares, FwSound(f), BringUp(f)
  PROVE  /\ FwKept(f, fw') /\ pa' = pa
         /\ running' \in BOOLEAN /\ intx' \in BOOLEAN /\ inits' \in 0 .. MaxInits
         /\ stray' \subseteq Strays /\ stray \subseteq stray'
         /\ ~ih => running' = running
         /\ stage = "complete" =>
              stray' \ stray \subseteq Past \cup (IF UsesFreed(f) THEN {"freed"} ELSE {})
<1>1. CASE ~InitRuns
  <2>1. fw' = f /\ UNCHANGED <<running, intx, pa, inits, stray>>
    BY <1>1 DEF BringUp
  <2>2. FwKept(f, f)
    BY DEF FwKept
  <2> QED
    BY <2>1, <2>2 DEF IInv, Flags, SoftTypes
<1>2. CASE InitRuns
  <2>1. /\ fw' \in FwAfterInit[f] /\ pa' = pa
        /\ inits < MaxInits /\ inits' = inits + 1
        /\ stray' = stray \cup ChipInit \cup Workarounds \cup Led \cup
             (IF UsesFreed(f) THEN {"freed"} ELSE {})
        /\ \/ running' = TRUE /\ intx' = TRUE
           \/ running' = FALSE /\ intx' = intx
    BY <1>2 DEF BringUp, AfterPllReset
  <2>2. FwKept(f, fw')
    BY <2>1, FwInitKeeps
  <2>3. running' \in BOOLEAN /\ intx' \in BOOLEAN
    BY <2>1 DEF IInv, Flags
  <2>4. inits' \in 0 .. MaxInits
    BY <2>1, AttachAssumption DEF IInv, SoftTypes
  <2>5. stray' \subseteq Strays /\ stray \subseteq stray'
    BY <2>1, StrayKinds DEF IInv, SoftTypes, Strays
  <2>6. stage = "complete" =>
          stray' \ stray \subseteq Past \cup (IF UsesFreed(f) THEN {"freed"} ELSE {})
    BY <2>1, InBounds
  <2>7. ih
    BY <1>2 DEF InitRuns
  <2> QED
    BY <2>1, <2>2, <2>3, <2>4, <2>5, <2>6, <2>7
<1> QED
  BY <1>1, <1>2

(* What is enough once attach has ended: an action that keeps the stage and  *)
(* what attach made, stops or starts the driver only with an interrupt, and  *)
(* keeps the firmware sound.                                               *)
LEMMA LaterStep ==
  ASSUME IInv, stage # "detached",
         UNCHANGED <<dev, level, mapped, cores, net, ih, stage, sprom>>,
         \/ UNCHANGED <<tms, pmu, pa>> /\ (power' = power \/ (power = "cut" /\ power' = "back"))
         \/ PowerCut,
         stage \in {"map", "bus", "cores", "net", "intr"} => power' = power /\ asleep' = asleep,
         killed' \in BOOLEAN, intx' \in BOOLEAN, up' \in BOOLEAN,
         running' \in BOOLEAN, asleep' \in BOOLEAN,
         fw' \in Firmwares, FwSound(fw'),
         running' => running \/ ih,
         stray' \subseteq Strays, stray \subseteq stray',
         inits' \in 0 .. MaxInits, suspends' \in 0 .. MaxSuspends
  PROVE  IInv'
<1>0. /\ tms' \in [0 .. NSlots - 1 -> CoreStates] /\ pmu' \in {pmu, PmuOff}
      /\ pa' \in BOOLEAN /\ PowerInv'
  <2>1. CASE UNCHANGED <<tms, pmu, pa>> /\ (power' = power \/ (power = "cut" /\ power' = "back"))
    BY <2>1 DEF IInv, DeviceTypes, Flags, PowerInv
  <2>2. CASE PowerCut
    <3>1. PICK s \in ResetStates : tms' = [i \in 0 .. NSlots - 1 |-> s]
      BY <2>2 DEF PowerCut
    <3>2. s \in CoreStates
      BY AttachAssumption
    <3>3. stage \notin {"map", "bus", "cores", "net", "intr"}
      BY <2>2 DEF PowerCut, IInv, PowerInv
    <3> QED
      BY <2>2, <3>1, <3>2, <3>3 DEF PowerCut, PowerInv
  <2> QED
    BY <2>1, <2>2
<1>1. DeviceTypes' /\ FwInv'
  BY <1>0 DEF IInv, DeviceTypes, FwInv
<1>2. Flags'
  BY <1>0 DEF IInv, Flags
<1>3. SoftTypes'
  BY DEF IInv, SoftTypes
<1>4. StageInv'
  <2>1. stage # "complete" => ~ih /\ ~running
    BY DEF IInv, StageInv
  <2>2. stage # "complete" => ~ih' /\ ~running'
    BY <2>1
  <2> QED
    BY <1>0, <2>2 DEF IInv, StageInv
<1>5. LiveInv'
  <2>1. power' = "kept" => power = "kept" /\ tms' = tms
    BY DEF PowerCut
  <2> QED
    BY <2>1 DEF IInv, LiveInv, LiveAt
<1>6. PaLinesKept'
  <2>1. power' = "kept" => power = "kept" /\ pa' = pa
    BY DEF PowerCut
  <2>2. power' # "kept" => ~pa'
    BY <1>0 DEF PowerInv
  <2>3. power = "kept" /\ PaLinesKept /\ power' = "kept" => PaLinesKept'
    BY <2>1 DEF PaLinesKept
  <2> QED
    BY <2>1, <2>2, <2>3 DEF IInv, PaLinesKept
<1>7. MadeUpInv'
  BY DEF IInv, MadeUpInv
<1> QED
  BY <1>0, <1>7, <1>1, <1>2, <1>3, <1>4, <1>5, <1>6 DEF IInv

(* The interface is brought up.                                            *)
LEMMA IfUpStep == IInv /\ IfUp => IInv'
<1> SUFFICES ASSUME IInv, IfUp PROVE IInv'
  OBVIOUS
<1>1. /\ BringUp(fw) /\ up' = TRUE /\ stage \in {"failed", "complete"}
      /\ UNCHANGED <<dev, level, tms, pmu, mapped, cores, net, ih, killed, stage, sprom,
                     asleep, power, suspends>>
  BY DEF IfUp, Usable, devVars, busVars
<1>2. fw \in Firmwares /\ FwSound(fw)
  BY <1>1 DEF IInv, FwInv
<1>3. /\ fw' \in Firmwares /\ FwSound(fw') /\ pa' = pa
      /\ running' \in BOOLEAN /\ intx' \in BOOLEAN /\ inits' \in 0 .. MaxInits
      /\ stray' \subseteq Strays /\ stray \subseteq stray' /\ (~ih => running' = running)
  BY <1>1, <1>2, BringUpFacts DEF FwKept
<1>4. killed' \in BOOLEAN /\ up' \in BOOLEAN /\ asleep' \in BOOLEAN
  BY <1>1 DEF IInv, Flags
<1>5. suspends' \in 0 .. MaxSuspends
  BY <1>1 DEF IInv, SoftTypes
<1>6. running' => running \/ ih
  BY <1>3
<1> QED
  BY <1>1, <1>3, <1>4, <1>5, <1>6, LaterStep

(* It is taken down.                                                       *)
LEMMA IfDownStep == IInv /\ IfDown => IInv'
<1> SUFFICES ASSUME IInv, IfDown PROVE IInv'
  OBVIOUS
<1>1. /\ up' = FALSE /\ running' = FALSE /\ stage \in {"failed", "complete"}
      /\ stray' = stray \cup StopTouches
      /\ UNCHANGED <<dev, level, tms, pmu, pa, mapped, cores, net, ih, killed,
                     stage, intx, sprom, fw, asleep, power, inits, suspends>>
  BY DEF IfDown, Usable, devVars, busVars, chipVars
<1>2. fw' \in Firmwares /\ FwSound(fw')
  BY <1>1 DEF IInv, FwInv, FwSound, UsesFreed
<1>3. stray' \subseteq Strays /\ stray \subseteq stray'
  BY <1>1, StrayKinds DEF IInv, SoftTypes
<1>4. killed' \in BOOLEAN /\ intx' \in BOOLEAN /\ asleep' \in BOOLEAN
  BY <1>1 DEF IInv, Flags
<1>5. suspends' \in 0 .. MaxSuspends /\ inits' \in 0 .. MaxInits
  BY <1>1 DEF IInv, SoftTypes
<1>6. up' \in BOOLEAN /\ running' \in BOOLEAN
  BY <1>1
<1> QED
  BY <1>1, <1>2, <1>3, <1>4, <1>5, <1>6, LaterStep

(* A callback of net80211 runs.                                            *)
LEMMA NetCallbackStep == IInv /\ NetCallback => IInv'
<1> SUFFICES ASSUME IInv, NetCallback PROVE IInv'
  OBVIOUS
<1>1. /\ stage \in {"failed", "complete"}
      /\ stray' = stray \cup Touch(MacPage) \cup IF mapped THEN {} ELSE {"nullSsb"}
      /\ UNCHANGED <<dev, level, tms, pmu, pa, mapped, cores, net, ih, killed,
                     stage, intx, sprom, fw, up, running, asleep, power, inits,
                     suspends>>
  BY DEF NetCallback, Usable, devVars, busVars, chipVars
<1>2. fw' \in Firmwares /\ FwSound(fw')
  BY <1>1 DEF IInv, FwInv, FwSound, UsesFreed
<1>3. stray' \subseteq Strays /\ stray \subseteq stray'
  BY <1>1, StrayKinds DEF IInv, SoftTypes, Strays
<1>4. /\ killed' \in BOOLEAN /\ intx' \in BOOLEAN /\ asleep' \in BOOLEAN
      /\ up' \in BOOLEAN /\ running' \in BOOLEAN
  BY <1>1 DEF IInv, Flags
<1>5. suspends' \in 0 .. MaxSuspends /\ inits' \in 0 .. MaxInits
  BY <1>1 DEF IInv, SoftTypes
<1> QED
  BY <1>1, <1>2, <1>3, <1>4, <1>5, LaterStep

(* The device goes to sleep.                                               *)
LEMMA SuspendStep == IInv /\ Suspend => IInv'
<1> SUFFICES ASSUME IInv, Suspend PROVE IInv'
  OBVIOUS
<1>1. /\ stage \in {"partial", "failed", "complete"}
      /\ suspends < MaxSuspends /\ suspends' = suspends + 1 /\ asleep' = TRUE
      /\ stray' = stray \cup ChipReset
      /\ UNCHANGED <<tms, pmu, pa, power>> \/ PowerCut
      /\ UNCHANGED <<dev, level, mapped, cores, net, ih, killed, stage, intx,
                     sprom, fw, up, running, inits>>
  BY DEF Suspend, Known, devVars, busVars, chipVars
<1>2. fw' \in Firmwares /\ FwSound(fw')
  BY <1>1 DEF IInv, FwInv, FwSound, UsesFreed
<1>3. stray' \subseteq Strays /\ stray \subseteq stray'
  BY <1>1, StrayKinds DEF IInv, SoftTypes
<1>4. /\ killed' \in BOOLEAN /\ intx' \in BOOLEAN
      /\ up' \in BOOLEAN /\ running' \in BOOLEAN
  BY <1>1 DEF IInv, Flags
<1>5. suspends' \in 0 .. MaxSuspends /\ inits' \in 0 .. MaxInits
  BY <1>1, AttachAssumption DEF IInv, SoftTypes
<1>6. asleep' \in BOOLEAN
  BY <1>1
<1> QED
  BY <1>1, <1>2, <1>3, <1>4, <1>5, <1>6, LaterStep

(* A resume finds the firmware kept, or loaded again from a cache in which    *)
(* the microcode was good.                                                 *)
LEMMA AfterResumeFacts ==
  ASSUME IInv, stage # "detached", NEW reload \in Reloads,
         NEW f \in IF reload THEN FwAfterInit[fw] ELSE {fw}
  PROVE  /\ f \in Firmwares /\ FwSound(f) /\ FwKept(fw, f)
         /\ UsesFreed(f) => fw.rejected
         /\ UsesFreed(fw) => fw.rejected
<1>1. fw \in Firmwares /\ FwSound(fw)
  BY DEF IInv, FwInv
<1>2. CASE f = fw
  BY <1>1, <1>2 DEF FwKept, FwSound
<1>3. CASE fw.running /\ f \in FwAfterInit[fw]
  <2>1. FwKept(fw, f)
    BY <1>1, <1>3, FwInitKeeps
  <2>2. f.ucode = fw.ucode
    BY <1>1, <1>3, <2>1 DEF FwKept, FwSound
  <2> QED
    BY <1>1, <2>1, <2>2 DEF FwKept, FwSound, UsesFreed
<1>4. f = fw \/ (fw.running /\ f \in FwAfterInit[fw])
  BY DEF Reloads
<1> QED
  BY <1>2, <1>3, <1>4

(* What a resume does, whichever way it goes.                              *)
LEMMA ResumeFacts ==
  ASSUME IInv, Resume
  PROVE  /\ stage # "detached" /\ asleep /\ asleep' = FALSE
         /\ UNCHANGED <<dev, level, tms, pmu, pa, mapped, cores, net, ih, killed, stage,
                        sprom, up, suspends>>
         /\ power' = IF power = "cut" THEN "back" ELSE power
         /\ fw' \in Firmwares /\ FwSound(fw') /\ (AllGood(fw) => AllGood(fw'))
         /\ running' \in BOOLEAN /\ intx' \in BOOLEAN /\ inits' \in 0 .. MaxInits
         /\ stray' \subseteq Strays /\ stray \subseteq stray'
         /\ ~ih => running' = running
         /\ stage = "complete" =>
              stray' \ stray \subseteq Past \cup (IF fw.rejected THEN {"freed"} ELSE {})
<1>1. /\ asleep /\ asleep' = FALSE /\ stage # "detached"
      /\ power' = IF power = "cut" THEN "back" ELSE power
  BY DEF Resume, IInv, StageInv
<1>2. UNCHANGED <<dev, level, tms, pmu, mapped, cores, net, ih, killed, stage,
                  sprom, up, suspends>>
  BY DEF Resume, devVars, busVars
<1>3. PICK reload \in Reloads : \E f \in IF reload THEN FwAfterInit[fw] ELSE {fw} :
        IF up /\ InitRuns
        THEN BringUp(f)
        ELSE /\ fw' = f
             /\ pa' = AfterPllReset
             /\ stray' = stray \cup ChipInit \cup
                  IF reload /\ UsesFreed(fw) THEN {"freed"} ELSE {}
             /\ UNCHANGED <<running, intx, inits>>
  BY DEF Resume
<1>7. PICK f \in IF reload THEN FwAfterInit[fw] ELSE {fw} :
        IF up /\ InitRuns
        THEN BringUp(f)
        ELSE /\ fw' = f
             /\ pa' = AfterPllReset
             /\ stray' = stray \cup ChipInit \cup
                  IF reload /\ UsesFreed(fw) THEN {"freed"} ELSE {}
             /\ UNCHANGED <<running, intx, inits>>
  BY <1>3
<1>4. /\ f \in Firmwares /\ FwSound(f) /\ FwKept(fw, f)
      /\ UsesFreed(f) => fw.rejected
      /\ UsesFreed(fw) => fw.rejected
  BY <1>1, AfterResumeFacts
<1>5. CASE up /\ InitRuns
  <2>1. BringUp(f)
    BY <1>7, <1>5
  <2>2. /\ FwKept(f, fw') /\ pa' = pa
        /\ running' \in BOOLEAN /\ intx' \in BOOLEAN /\ inits' \in 0 .. MaxInits
        /\ stray' \subseteq Strays /\ stray \subseteq stray'
        /\ ~ih => running' = running
        /\ stage = "complete" =>
             stray' \ stray \subseteq Past \cup (IF UsesFreed(f) THEN {"freed"} ELSE {})
    BY <1>4, <2>1, BringUpFacts
  <2>3. stage = "complete" =>
          stray' \ stray \subseteq Past \cup (IF fw.rejected THEN {"freed"} ELSE {})
    BY <1>4, <2>2
  <2>4. FwSound(fw') /\ fw' \in Firmwares /\ (AllGood(fw) => AllGood(fw'))
    BY <1>4, <2>2 DEF FwKept
  <2> QED
    BY <1>1, <1>2, <2>2, <2>3, <2>4
<1>6. CASE ~(up /\ InitRuns)
  <2>1. /\ fw' = f /\ pa' = pa /\ UNCHANGED <<running, intx, inits>>
        /\ stray' = stray \cup ChipInit \cup
             IF reload /\ UsesFreed(fw) THEN {"freed"} ELSE {}
    BY <1>7, <1>6 DEF AfterPllReset
  <2>2. stray' \subseteq Strays /\ stray \subseteq stray'
    BY <2>1, StrayKinds DEF IInv, SoftTypes, Strays
  <2>3. stage = "complete" =>
          stray' \ stray \subseteq Past \cup (IF fw.rejected THEN {"freed"} ELSE {})
    BY <1>4, <2>1, InBounds
  <2>4. running' \in BOOLEAN /\ intx' \in BOOLEAN /\ inits' \in 0 .. MaxInits
    BY <2>1 DEF IInv, Flags, SoftTypes
  <2>5. FwSound(fw') /\ fw' \in Firmwares /\ (AllGood(fw) => AllGood(fw'))
    BY <1>4, <2>1 DEF FwKept
  <2> QED
    BY <1>1, <1>2, <2>1, <2>2, <2>3, <2>4, <2>5
<1> QED
  BY <1>5, <1>6

(* The device wakes up.                                                    *)
LEMMA ResumeStep == IInv /\ Resume => IInv'
<1> SUFFICES ASSUME IInv, Resume PROVE IInv'
  OBVIOUS
<1>1. /\ stage # "detached" /\ asleep' = FALSE
      /\ UNCHANGED <<dev, level, tms, pmu, pa, mapped, cores, net, ih, killed, stage,
                     sprom, up, suspends>>
      /\ fw' \in Firmwares /\ FwSound(fw')
      /\ running' \in BOOLEAN /\ intx' \in BOOLEAN /\ inits' \in 0 .. MaxInits
      /\ stray' \subseteq Strays /\ stray \subseteq stray'
      /\ ~ih => running' = running
      /\ power' = IF power = "cut" THEN "back" ELSE power
      /\ asleep
  BY ResumeFacts
<1>2. killed' \in BOOLEAN /\ up' \in BOOLEAN /\ asleep' \in BOOLEAN
  BY <1>1 DEF IInv, Flags
<1>3. suspends' \in 0 .. MaxSuspends
  BY <1>1 DEF IInv, SoftTypes
<1>4. running' => running \/ ih
  BY <1>1
<1>5. stage \notin {"map", "bus", "cores", "net", "intr"}
  BY <1>1 DEF IInv, PowerInv
<1> QED
  BY <1>1, <1>2, <1>3, <1>4, <1>5, LaterStep

(* The kill switch is moved.                                               *)
LEMMA KillSwitchStep == IInv /\ KillSwitch => IInv'
<1> SUFFICES ASSUME IInv, KillSwitch PROVE IInv'
  OBVIOUS
<1>1. /\ killed' = ~killed
      /\ UNCHANGED <<dev, level, tms, pmu, pa, mapped, cores, net, ih, stage, intx,
                     sprom, fw, up, running, asleep, power, stray, inits, suspends>>
  BY DEF KillSwitch, devVars, busVars, chipVars
<1>2. DeviceTypes' /\ FwInv'
  BY <1>1 DEF IInv, DeviceTypes, FwInv, FwSound, UsesFreed
<1>3. Flags'
  BY <1>1 DEF IInv, Flags
<1>4. SoftTypes'
  BY <1>1 DEF IInv, SoftTypes
<1>5. StageInv'
  BY <1>1 DEF IInv, StageInv, Cached
<1>6. PowerInv' /\ MadeUpInv' /\ LiveInv' /\ PaLinesKept'
  BY <1>1 DEF IInv, PowerInv, MadeUpInv, LiveInv, LiveAt, PaLinesKept
<1> QED
  BY <1>2, <1>3, <1>4, <1>5, <1>6 DEF IInv

(* The device is detached.                                                 *)
LEMMA DetachStep == IInv /\ Detach => IInv'
<1> SUFFICES ASSUME IInv, Detach PROVE IInv'
  OBVIOUS
<1>1. /\ ~asleep /\ stage' = "detached" /\ running' = FALSE /\ fw' = FwFree(fw)
      /\ net' = FALSE /\ ih' = FALSE /\ mapped' = FALSE /\ cores' = NoBus
      /\ UNCHANGED <<dev, level, tms, pmu, pa, killed, intx, sprom, up, asleep,
                     power, inits, suspends>>
  BY DEF Detach, Known, devVars, chipVars
<1>2. fw' \in Firmwares /\ Cached(fw') = {}
  <2>1. fw.running \in BOOLEAN /\ fw.rejected \in BOOLEAN
    BY DEF IInv, FwInv, Firmwares
  <2>2. fw' = [ucode |-> "none", iv |-> "none", bs |-> "none",
               running |-> fw.running, rejected |-> fw.rejected]
    BY <1>1 DEF FwFree, NoFirmware
  <2>3. fw' \in Firmwares
    BY <2>1, <2>2 DEF Firmwares, Images
  <2>4. fw'["ucode"] = "none" /\ fw'["iv"] = "none" /\ fw'["bs"] = "none"
    BY <2>2
  <2> QED
    BY <2>3, <2>4 DEF Cached
<1>3. stray' \subseteq Strays
  BY StrayKinds DEF Detach, DetachStops, IInv, SoftTypes, Strays
<1>4. DeviceTypes' /\ FwInv'
  BY <1>1, <1>2 DEF IInv, DeviceTypes, FwInv
<1>5. Flags'
  BY <1>1 DEF IInv, Flags
<1>6. SoftTypes'
  BY <1>1, <1>3 DEF IInv, SoftTypes, Stages
<1>7. StageInv'
  BY <1>1, <1>2 DEF StageInv, Cached
<1>8. PowerInv' /\ MadeUpInv' /\ LiveInv' /\ PaLinesKept'
  BY <1>1 DEF IInv, PowerInv, MadeUpInv, LiveInv, PaLinesKept
<1> QED
  BY <1>3, <1>4, <1>5, <1>6, <1>7, <1>8 DEF IInv

(* Every step preserves the invariant.                                     *)
LEMMA IInvNext == IInv /\ [Next]_vars => IInv'
<1> SUFFICES ASSUME IInv, [Next]_vars PROVE IInv'
  OBVIOUS
<1>1. CASE MapBar
  BY <1>1, MapBarStep
<1>2. CASE AttachBus
  BY <1>2, AttachBusStep
<1>3. CASE EnableCores
  BY <1>3, EnableCoresStep
<1>4. CASE AttachNet
  BY <1>4, AttachNetStep
<1>5. CASE AttachIntr
  BY <1>5, AttachIntrStep
<1>6. CASE IfUp
  BY <1>6, IfUpStep
<1>7. CASE IfDown
  BY <1>7, IfDownStep
<1>8. CASE NetCallback
  BY <1>8, NetCallbackStep
<1>9. CASE Suspend
  BY <1>9, SuspendStep
<1>10. CASE Resume
  BY <1>10, ResumeStep
<1>11. CASE Detach
  BY <1>11, DetachStep
<1>12. CASE KillSwitch
  BY <1>12, KillSwitchStep
<1>13. CASE UNCHANGED vars
  BY <1>13 DEF vars, devVars, IInv, DeviceTypes, Flags, SoftTypes, FwInv, FwSound, UsesFreed,
               StageInv, Cached, PowerInv, MadeUpInv, LiveInv, LiveAt, PaLinesKept
<1> QED
  BY <1>1, <1>2, <1>3, <1>4, <1>5, <1>6, <1>7, <1>8, <1>9, <1>10, <1>11, <1>12, <1>13
     DEF Next

-----------------------------------------------------------------------------
(* Theorems.                                                               *)

(* The inductive invariant holds of every run: what each stage of attach has *)
(* made and each way out of it given back, on every backplane.              *)
THEOREM Invariant == Spec => []IInv
<1>1. Init => IInv
  BY IInvInit
<1>2. IInv /\ [Next]_vars => IInv'
  BY IInvNext
<1> QED
  BY <1>1, <1>2, PTL DEF Spec

(* Every variable keeps its type.                                          *)
THEOREM TypeCorrect == Spec => []TypeOK
<1>1. IInv => TypeOK
  <2> SUFFICES ASSUME IInv PROVE TypeOK
    OBVIOUS
  <2>1. dev \in Devices /\ dev \in Backplanes /\ level \in Levels
    BY AttachAssumption DEF IInv, DeviceTypes
  <2>2. /\ tms \in [0 .. NSlots - 1 -> CoreStates]
        /\ pmu \in {PmuOff} \cup {PmuSetUp(PmuOff, f, dev.is4331) : f \in XtalFields}
    BY DEF IInv, DeviceTypes
  <2>3. {killed, mapped, net, ih, intx, pa, up, running, asleep} \subseteq BOOLEAN
    BY DEF IInv, Flags
  <2>4. cores \in CoreLists
    <3>1. NoBus \in CoreLists
      BY DEF NoBus, CoreLists
    <3>2. cores \in {NoBus, Enumerate(dev)}
      BY DEF IInv, StageInv, SoftTypes, Stages
    <3> QED
      BY <2>1, <3>1, <3>2, EnumerateTyped
  <2>5. /\ stage \in Stages /\ sprom \in {"unread", "old", "rejected", "good"}
        /\ stray \subseteq Strays
        /\ inits \in 0 .. MaxInits /\ suspends \in 0 .. MaxSuspends
    BY DEF IInv, SoftTypes
  <2>6. fw \in Firmwares /\ power \in {"kept", "cut", "back"}
    BY DEF IInv, FwInv, PowerInv
  <2> QED
    BY <2>1, <2>2, <2>3, <2>4, <2>5, <2>6 DEF TypeOK, Stages, Strays
<1> QED
  BY <1>1, Invariant, PTL

(* However attach ends, and after detach, nothing is left mapped,           *)
(* established or cached.                                                  *)
THEOREM AttachReleases == Spec => []Released
<1>1. IInv => Released
  BY DEF IInv, StageInv, Released
<1> QED
  BY <1>1, Invariant, PTL

(* Every core that attach uses is out of reset, whatever the other slots of  *)
(* the backplane hold and however far BAR0 reaches, until the power is lost; *)
(* from then on every core stays as that left it.                           *)
THEOREM CoresComeUp == Spec => []CoresLive
<1>1. IInv => CoresLive
  <2>3. IInv /\ power # "kept" => \E s \in ResetStates : tms = [i \in 0 .. NSlots - 1 |-> s]
    BY DEF IInv, PowerInv
  <2> SUFFICES ASSUME IInv, power = "kept", stage \in {"net", "intr", "complete"}, dev.match,
                      ChipCommonFirst(dev), NEW i \in ReadableSlots(dev),
                      dev.slots[i] \in {"PCIE", "MAC", "PHY", "ARM"},
                      \A j \in ReadableSlots(dev) : dev.slots[j] = dev.slots[i] => j <= i
               PROVE  Live(tms[i])
    BY <2>3 DEF CoresLive
  <2>1. LiveAt(tms, {"PCIE"}) /\ LiveAt(tms, {"MAC", "PHY", "ARM"})
    BY DEF IInv, LiveInv
  <2>2. dev.slots[i] \in {"PCIE"} \/ dev.slots[i] \in {"MAC", "PHY", "ARM"}
    OBVIOUS
  <2> QED
    BY <2>1, <2>2 DEF LiveAt
<1> QED
  BY <1>1, Invariant, PTL

(* On every backplane the PHY is found at its own slot or made up where BAR0 *)
(* ends, and a made-up one was accessed by attach past that end.             *)
THEOREM PhyCoreIsFound == Spec => []PhyIsFound
<1>1. IInv => PhyIsFound
  <2> SUFFICES ASSUME IInv, cores # NoBus PROVE PhyIsFound
    BY DEF PhyIsFound
  <2>1. cores = Enumerate(dev) /\ dev \in Backplanes
    BY AttachAssumption DEF IInv, StageInv, SoftTypes, Stages, DeviceTypes
  <2>2. ASSUME cores # SimEnumerate(dev)
        PROVE  /\ PageOf(cores, "PHY") = dev.bar /\ NeedsWindow(dev, cores)
               /\ stage # "cores" => "pastBar" \in stray
    <3>1. stage \in {"cores", "net", "intr", "complete"}
      BY DEF IInv, StageInv, SoftTypes, Stages
    <3>2. stage # "cores" => "pastBar" \in stray
      BY <2>1, <2>2, <3>1 DEF IInv, MadeUpInv
    <3> QED
      BY <2>1, <2>2, <3>2, MadeUpFacts
  <2>3. ASSUME cores = SimEnumerate(dev), Has(cores, "PHY"), dev.match, ChipCommonFirst(dev)
        PROVE  dev.slots[PageOf(cores, "PHY")] = "PHY"
    <3>1. Found(dev) \in CoreLists
      BY <2>1, EnumerateTyped
    <3>2. IndexOf(Found(dev), "PHY") # 0
      BY <2>3, <3>1, NormalisedFacts DEF SimEnumerate, Has
    <3>3. PICK i \in Listed(dev) : dev.slots[i] = "PHY" /\ PageOf(Enumerate(dev), "PHY") = i
      BY <2>1, <2>3, <3>2, PageOfFound
    <3> QED
      BY <2>1, <3>3
  <2> QED
    BY <2>2, <2>3 DEF PhyIsFound
<1> QED
  BY <1>1, Invariant, PTL

(* The PA lines stay on through every PLL reset until the power is lost, and *)
(* off from then on.                                                       *)
THEOREM PaLinesStay == Spec => []PaLinesKept
<1>1. IInv => PaLinesKept
  BY DEF IInv
<1> QED
  BY <1>1, Invariant, PTL

(* Out of a complete attach no step touches what is unmapped, freed or        *)
(* beyond BAR0, but for the two causes the property names.                  *)
THEOREM CompleteStaysSafe == Spec => CompleteIsSafe
<1> DEFINE Allowed == (IF ChipCommonFirst(dev) THEN {} ELSE {"pastBar"}) \cup
                      (IF fw.rejected THEN {"freed"} ELSE {})
           Safe == stage = "complete" => stray' \ stray \subseteq Allowed
<1>1. IInv /\ [Next]_vars => [Safe]_vars
  <2> SUFFICES ASSUME IInv, Next, stage = "complete" PROVE stray' \ stray \subseteq Allowed
    OBVIOUS
  <2>1. /\ mapped /\ net
        /\ Touch(MacPage) \subseteq Past /\ ChipReset \subseteq Past /\ StopTouches \subseteq Past
    BY InBounds DEF IInv, StageInv
  <2>2. UsesFreed(fw) => fw.rejected
    BY DEF IInv, FwInv, FwSound
  <2>3. fw \in Firmwares /\ FwSound(fw)
    BY DEF IInv, FwInv
  <2>4. CASE MapBar \/ AttachBus \/ EnableCores \/ AttachNet \/ AttachIntr
    BY <2>4 DEF MapBar, AttachBus, EnableCores, AttachNet, AttachIntr
  <2>5. CASE IfUp
    <3>1. BringUp(fw)
      BY <2>5 DEF IfUp
    <3>2. stray' \ stray \subseteq Past \cup (IF UsesFreed(fw) THEN {"freed"} ELSE {})
      BY <2>3, <3>1, BringUpFacts
    <3> QED
      BY <2>2, <3>2 DEF Past
  <2>6. CASE IfDown
    BY <2>1, <2>6 DEF IfDown, Past
  <2>7. CASE NetCallback
    BY <2>1, <2>7 DEF NetCallback, Past
  <2>8. CASE Suspend
    BY <2>1, <2>8 DEF Suspend, Past
  <2>9. CASE Resume
    BY <2>9, ResumeFacts DEF Past
  <2>10. CASE Detach
    BY <2>1, <2>2, <2>10 DEF Detach, DetachStops, Past
  <2>11. CASE KillSwitch
    BY <2>11 DEF KillSwitch
  <2> QED
    BY <2>4, <2>5, <2>6, <2>7, <2>8, <2>9, <2>10, <2>11 DEF Next
<1>2. [Safe]_vars => [stage = "complete" =>
                        stray' \ stray \subseteq
                          (IF ChipCommonFirst(dev) THEN {} ELSE {"pastBar"}) \cup
                          (IF fw.rejected THEN {"freed"} ELSE {})]_vars
  OBVIOUS
<1> QED
  BY <1>1, <1>2, Invariant, PTL DEF Spec, CompleteIsSafe

(* Images cached and good stay so until detach.                             *)
THEOREM CacheStays == Spec => CacheKept
<1>1. IInv /\ [Next]_vars => [AllGood(fw) => AllGood(fw') \/ stage' = "detached"]_vars
  <2> SUFFICES ASSUME IInv, Next, AllGood(fw) PROVE AllGood(fw') \/ stage' = "detached"
    OBVIOUS
  <2>1. CASE IfUp
    <3>1. BringUp(fw) /\ stage # "detached"
      BY <2>1 DEF IfUp, Usable
    <3>2. fw \in Firmwares /\ FwSound(fw)
      BY <3>1 DEF IInv, FwInv
    <3> QED
      BY <3>1, <3>2, BringUpFacts DEF FwKept
  <2>2. CASE Resume
    BY <2>2, ResumeFacts
  <2>3. CASE Detach
    BY <2>3 DEF Detach
  <2>4. CASE MapBar \/ AttachBus \/ EnableCores \/ AttachNet \/ AttachIntr
    BY <2>4 DEF MapBar, AttachBus, EnableCores, AttachNet, AttachIntr, AllGood
  <2>5. CASE IfDown \/ NetCallback \/ Suspend \/ KillSwitch
    BY <2>5 DEF IfDown, NetCallback, Suspend, KillSwitch, AllGood
  <2> QED
    BY <2>1, <2>2, <2>3, <2>4, <2>5 DEF Next
<1> QED
  BY <1>1, Invariant, PTL DEF Spec, CacheKept

=============================================================================
