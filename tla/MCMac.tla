-------------------------------- MODULE MCMac --------------------------------
(***************************************************************************)
(* The keys B43Mac is checked with.                                        *)
(***************************************************************************)
EXTENDS B43Mac

MCKeys ==
  {[id |-> 0, material |-> 1, words |-> 4],
   [id |-> 0, material |-> 2, words |-> 2],
   [id |-> 1, material |-> 3, words |-> 4]}

=============================================================================
