-------------------------------- MODULE MCRate --------------------------------
(***************************************************************************)
(* B43Rate with three of the eight rates of each group: MCS 0, 1 and 3 at   *)
(* 20 MHz with the short guard interval.                                    *)
(***************************************************************************)
EXTENDS B43Rate

Kbps == <<7150, 14300, 28600, 14300, 28600, 57200, 21450, 42900, 85800>>

MCBitrate == [r \in Rates |-> Kbps[r + 1]]

=============================================================================
