-------------------------------- MODULE Call --------------------------------
(***************************************************************************)
(* What a call of an operation promises its caller: the call ends with the *)
(* knowledge that it was carried out, that it was not and never will be,   *)
(* or without knowledge, and only then the caller may have to repeat it.   *)
(***************************************************************************)
VARIABLES
    done,  \* the exchange has carried out this call
    known  \* what the caller knows: "open" while it is under way, "done",
           \* "nothing", "unknown"

Init == done = FALSE /\ known = "open"

\* Also when the caller has given up waiting
CarryOut ==
    /\ known \in {"open", "unknown"} /\ ~done
    /\ done' = TRUE
    /\ UNCHANGED known

Learn ==
    /\ known = "open"
    /\ known' \in {"unknown", IF done THEN "done" ELSE "nothing"}
    /\ UNCHANGED done

Repeat ==
    /\ known = "unknown"
    /\ known' = "open" /\ done' = FALSE

Next == CarryOut \/ Learn \/ Repeat

Spec == Init /\ [][Next]_<<done, known>>
=============================================================================
