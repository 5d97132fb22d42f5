--------------------------------- MODULE MCPhy ---------------------------------
(***************************************************************************)
(* The SPROM offsets B43Phy is checked with: one rate of each half of the   *)
(* table is 4 dBm down in the 2.4 GHz band, one rate in the 5 GHz band.    *)
(***************************************************************************)
EXTENDS B43Phy

MCOffsets2 == [i \in 1 .. 16 |-> IF i \in {8, 16} THEN -16 ELSE 4]
MCOffsets5 == [i \in 1 .. 16 |-> IF i = 16 THEN -18 ELSE 0]

=============================================================================
