----------------------------- MODULE MCWatchList -----------------------------
(* Instances of WatchList for TLC. *)
EXTENDS WatchList

CONSTANTS u1, u2, j1

TwoClients == {u1, u2}
OneJob == {j1}
TwoAndOne == [u \in {u1, u2} |-> IF u = u1 THEN 2 ELSE 1]
=============================================================================
