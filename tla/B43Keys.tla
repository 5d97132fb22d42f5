------------------------------- MODULE B43Keys -------------------------------
(***************************************************************************)
(* The hardware key table (pci/b43bsd.c, b43bsd_set_key, b43bsd_delete_key). *)
(* An entry is five words, four of key material and one of control, but the *)
(* entries start only Stride words apart, so an entry overlaps the two that *)
(* follow it, and word FilterWord is also the MAC filter switch.            *)
(*                                                                         *)
(* A key is a record: its index, a tag for its material and the words its  *)
(* material fills.  A word of the table holds Zero, FilterOn, or part of a *)
(* key, named by the key.                                                  *)
(***************************************************************************)
EXTENDS Integers, FiniteSetsExt

CONSTANTS
  MaxKeys,  \* B43BSD_MAX_KEYS
  Keys      \* the keys net80211 may install

ASSUME KeysAssumption ==
  /\ MaxKeys \in Nat \ {0, 1}
  /\ Keys \subseteq [id : Nat, material : Nat, words : 0 .. 4]

Stride == 2        \* slot * 8 bytes

FilterWord == 2    \* 0x3e8 - 0x3e0, in words

(* Not keys, but records too so that TLC can compare them with keys.        *)
NoKey == [id |-> -1, material |-> 0, words |-> 0]

Zero == NoKey

FilterOn == [id |-> -1, material |-> 1, words |-> 0]

Slots == 0 .. MaxKeys - 1

Base(s) == s * Stride

Entry(s) == Base(s) .. Base(s) + 4

Words == 0 .. Base(MaxKeys - 1) + 4

KeyTables == [Slots -> Keys \cup {NoKey}]

Contents == [Words -> Keys \cup {Zero, FilterOn}]

(* The slots of the softc's table that hold a key of this index.           *)
Matching(table, id) == {s \in Slots : table[s].id = id}

FreeSlots(table) == {s \in Slots : table[s] = NoKey}

(* Fault: the first free slot whether or not the key has one already.       *)
FirstFree(table, id) == IF FreeSlots(table) = {} THEN {} ELSE {Min(FreeSlots(table))}

(* Where b43bsd_set_key puts the key, {} when it returns ENOSPC.            *)
SlotFor(table, id) ==
  LET matching == Matching(table, id)
      fit == IF matching # {} THEN matching ELSE FreeSlots(table)
  IN  IF fit = {} THEN {} ELSE {Min(fit)}

(* Fault: the words that a shorter key does not fill are left.              *)
KeepsTail(hw, s, k) ==
  [w \in Words |->
     IF w \in Entry(s) /\ (w < Base(s) + k.words \/ w = Base(s) + 4) THEN k ELSE hw[w]]

(* The entry as b43bsd_set_key writes it, and as b43bsd_delete_key does.    *)
Programmed(hw, s, k) ==
  [w \in Words |->
     IF w \notin Entry(s) THEN hw[w]
     ELSE IF w < Base(s) + k.words \/ w = Base(s) + 4 THEN k ELSE Zero]

Cleared(hw, s) == [w \in Words |-> IF w \in Entry(s) THEN Zero ELSE hw[w]]

(* The MAC filter switch, as b43bsd_update_promisc writes it.               *)
Filtered(hw, off) == [hw EXCEPT ![FilterWord] = IF off THEN Zero ELSE FilterOn]

=============================================================================
