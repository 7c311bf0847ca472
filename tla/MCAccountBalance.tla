-------------------------- MODULE MCAccountBalance --------------------------
(* Instances of AccountBalance for TLC. *)
EXTENDS AccountBalance

CONSTANTS spot, margin, otc

Account3 == {spot, margin, otc}
=============================================================================
