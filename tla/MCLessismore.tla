---------------------------- MODULE MCLessismore ----------------------------
(* Instances of Lessismore for TLC. *)
EXTENDS Lessismore

Price2 == {1, 3}
Price3 == {1, 2, 3}
Moving == {"crash", "refusal", "moves"}
Dying == {"crash", "crashInTrade"}
Blind == {"blind"}
=============================================================================
