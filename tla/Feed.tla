-------------------------------- MODULE Feed --------------------------------
(***************************************************************************)
(* What a subscription promises its user, without threads, states of a     *)
(* connection or a watchdog: updates come from one source at a time; it    *)
(* may be lost, and another one take over after a gap; and once            *)
(* unsubscribe_all has returned there is none, nor will there be.          *)
(***************************************************************************)
CONSTANTS Source, NoSource

VARIABLES source, wanted

Init == source = NoSource /\ wanted = TRUE

Start ==
    /\ wanted /\ source = NoSource
    /\ source' \in Source
    /\ UNCHANGED wanted

Stop == source' = NoSource /\ UNCHANGED wanted

Unsubscribe ==
    /\ source = NoSource
    /\ wanted' = FALSE
    /\ UNCHANGED source

Next == Start \/ Stop \/ Unsubscribe

Spec == Init /\ [][Next]_<<source, wanted>>
=============================================================================
