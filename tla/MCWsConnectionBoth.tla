------------------------- MODULE MCWsConnectionBoth -------------------------
(***************************************************************************)
(* Three instances of WsConnection, side by side.  In the slow one (Slow), *)
(* dials and handlers may last as long as they like and everything fails   *)
(* that can; in the other two they end within a period, and only links and *)
(* dials fail: in the switching one (Switching) a thread may still be      *)
(* interrupted between any two statements, in the prompt one (Prompt) only *)
(* where it may block.  `pace' says which it is and does not change.       *)
(***************************************************************************)
EXTENDS MCWsConnection

VARIABLE pace

Prompt == INSTANCE WsConnection
            WITH Slow <- NoSlow, Fault <- ServerFaults
Switching == INSTANCE WsConnection
            WITH Slow <- Switches, Fault <- ServerFaults

allVars == <<vars, pace>>
In(prompt, switching, slow) == \/ pace = "prompt" /\ prompt
                               \/ pace = "switching" /\ switching
                               \/ pace = "slow" /\ slow

BothInit == pace \in {"prompt", "switching", "slow"} /\ Init
BothNext == In(Prompt!Next, Switching!Next, Next) /\ UNCHANGED pace

\* Fairness, of each thread in its own world
BothFairness ==
    /\ SF_vars(In(Prompt!Tick, Switching!Tick, Tick))
    /\ WF_vars(In(Prompt!UserProgress, Switching!UserProgress, UserProgress))
    /\ \A c \in Conn :
        WF_vars(In(Prompt!LoopProgress(c), Switching!LoopProgress(c), LoopProgress(c)))
    /\ \A j \in Job : WF_vars(In(Prompt!WatchDog(j), Switching!WatchDog(j), WatchDog(j)))

BothSpec == BothInit /\ [][BothNext]_allVars /\ BothFairness

\* What is said of waiting and of dials after unsubscribing holds in all three.  The rest:
Fast == pace # "slow"
OneFeedIfFast == Fast => OneFeed
FeedIsWatchedIfFast == Fast => FeedIsWatched
UnsubscribeStopsIfPrompt == pace = "prompt" => UnsubscribeStops
NeverGivesUpIfPrompt == pace = "prompt" => NeverGivesUp

-----------------------------------------------------------------------------
(* The fast ones implement Feed.                                           *)

SourceIfFast == IF Fast /\ Feeds # {} THEN CHOOSE c \in Feeds : TRUE ELSE NoConn

Promise == INSTANCE Feed WITH
    Source <- Conn,
    NoSource <- NoConn,
    source <- SourceIfFast,
    wanted <- Fast => user # "unsubscribed"

\* The manager, its threads and the watchdog are one source of updates at a time; one
\* connection takes over from another only after a gap; and when unsubscribe_all has
\* returned there is no source any more, and none comes.
KeepsPromise == Promise!Spec
=============================================================================
