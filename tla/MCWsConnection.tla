--------------------------- MODULE MCWsConnection ---------------------------
(* Instances of WsConnection for TLC. *)
EXTENDS WsConnection

CONSTANTS c1, c2, c3, j1

Conn2 == {c1, c2}
Conn3 == {c1, c2, c3}
Job1 == {j1}
ServerFaults == {"dialFail", "drop"}
Collide == ServerFaults \cup {"collide"}
NoSlow == {}
Switches == {"preempt"}
SlowCalls == {"dial", "handler"}
=============================================================================
