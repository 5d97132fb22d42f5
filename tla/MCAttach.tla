------------------------------- MODULE MCAttach -------------------------------
(***************************************************************************)
(* The backplanes B43Attach is checked on.                                 *)
(***************************************************************************)
EXTENDS B43Attach

Slots(s) == [i \in 0 .. NSlots - 1 |-> IF i < Len(s) THEN s[i + 1] ELSE "END"]

(* The BCM4331 of the source's comments, as other chips and with address     *)
(* match registers that are off; the same with an empty slot, with the PCIe *)
(* core elsewhere, with two MAC cores, without a PHY, without a ChipCommon, *)
(* and one that ends before BAR0 does.                                      *)
Standard == Slots(<<"CC", "PCIE", "MAC", "ARM", "PHY">>)

Layouts ==
  {Standard,
   Slots(<<"CC", "EMPTY", "MAC", "ARM", "PHY">>),
   Slots(<<"CC", "MAC", "OTHER", "PCIE", "PHY", "ARM">>),
   Slots(<<"CC", "MAC", "MAC", "PHY">>),
   Slots(<<"CC", "PCIE", "MAC">>),
   Slots(<<"PCIE", "MAC", "PHY">>),
   Slots(<<"CC", "MAC">>)}

MCDevices ==
  [slots : Layouts, match : {TRUE}, bar : {4, NSlots}, is4331 : {TRUE}] \cup
  {[slots |-> Standard, match |-> FALSE, bar |-> 4, is4331 |-> TRUE],
   [slots |-> Standard, match |-> TRUE, bar |-> 4, is4331 |-> FALSE]}

MCResetStates ==
  {[clock |-> TRUE, reset |-> TRUE], [clock |-> FALSE, reset |-> FALSE]}

=============================================================================
