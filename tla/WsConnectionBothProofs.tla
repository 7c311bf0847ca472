----------------------- MODULE WsConnectionBothProofs -----------------------
(***************************************************************************)
(* What holds of the switching world of MCWsConnectionBoth, and of the     *)
(* prompt one, whose steps are steps of it, for any number of connections  *)
(* and of watchdog jobs and any limits: dials and handlers end within a    *)
(* period, and only links and dials fail.  The proofs use no fairness, and *)
(* say nothing of the slow world.                                          *)
(***************************************************************************)
EXTENDS MCWsConnectionBoth, FiniteSetTheorems, TLAPS

Shapes ==
    /\ phase \in [Conn -> Phase] /\ job \in [Job -> JobPc]
    /\ orig \in Conn \cup {NoConn} /\ NoConn \notin registered

\* There is one thread at a time, and its connection is the manager's own, unless the
\* watchdog has let go of it: then it is closed.
Alone == \A c, d \in Conn : phase[c] # "free" /\ phase[d] # "free" => c = d
Held ==
    \A c \in Conn :
        /\ phase[c] = "spawned" => orig = NoConn
        /\ phase[c] = "created" => orig = c /\ c \notin registered
        /\ phase[c] = "registered" =>
              orig = c /\ (user \in {"forgetting", "unsubscribed"} \/ c \in registered)
        /\ phase[c] \notin {"free", "spawned", "created", "registered"} =>
              orig = c \/ (orig = NoConn /\ c \in closed)

\* One job is at work at a time, and no thread beside it but that of the silent
\* connection it closes.
OneJob == \A i, j \in Job : job[i] # "idle" /\ job[j] # "idle" => i = j
JobsAlone ==
    \A j \in Job, c \in Conn : job[j] # "idle" /\ phase[c] # "free" =>
        /\ job[j] \in {"timing", "lateClose", "lateForget", "lateState", "lateDue"}
        /\ phase[c] \in {"up", "returned", "idling"}
        /\ job[j] \in {"lateForget", "lateState", "lateDue"} => c \in closed
JobsTell ==
    \A j \in Job :
        /\ job[j] \in {"lateState", "lateDue", "errorState", "errorDue"} => orig = NoConn
        /\ job[j] \in {"reconnect", "connect"} =>
              orig = NoConn /\ (state = "WAIT_RECONNECT" \/ Unsubscribing)

\* What the state says of the thread, until the user unsubscribes
StateTells ==
    ~Unsubscribing =>
        /\ \A c \in Conn : phase[c] = "up" /\ c \notin closed => state = "CONNECTED"
        /\ state = "WAIT_RECONNECT" =>
              orig = NoConn \/ \E c \in Conn : phase[c] \notin {"free", "up", "returned", "idling"}
        /\ state = "CLOSED_ON_ERROR" => \A c \in Conn : phase[c] \in {"free", "returned", "idling"}

\* What the user's thread has done says of the others: once it has called close()
\* nothing is dialled, and once it has deleted the entry of its connection no thread
\* runs one that is a key.
UserTells ==
    /\ listed => user = "subscribed"
    /\ user = "new" => state = "IDLE" /\ orig = NoConn /\ \A c \in Conn : phase[c] = "free"
    /\ user \in {"new", "connected"} => \A j \in Job : job[j] = "idle"
    /\ user \in {"closing", "forgetting", "unsubscribed"} =>
          /\ \A c \in Conn : phase[c] # "spawned"
          /\ \A j \in Job : job[j] \notin {"reconnect", "connect"}
    /\ user \in {"forgetting", "unsubscribed"} =>
          \A c \in Conn : phase[c] # "free" => phase[c] # "created" /\ c \notin registered

PInv ==
    /\ Shapes /\ CallbacksFindManager
    /\ Alone /\ Held /\ OneJob /\ JobsAlone /\ JobsTell /\ StateTells /\ UserTells

-----------------------------------------------------------------------------
(* The prompt world is a part of the switching one.                        *)

LEMMA PromptIsSwitching == Prompt!Next => Switching!Next
<1>1. Prompt!Undisturbed => Switching!Undisturbed
  BY DEF Prompt!Undisturbed, Switching!Undisturbed, Prompt!MidLoops, Switching!MidLoops,
         Prompt!MidJobs, Switching!MidJobs, Prompt!MidUser, Switching!MidUser
<1>2. Prompt!PeriodOver => Switching!PeriodOver
  BY <1>1 DEF Prompt!PeriodOver, Switching!PeriodOver, Prompt!Busy, Switching!Busy,
         Prompt!Dialing, Switching!Dialing, Prompt!Handling, Switching!Handling, NoSlow, Switches
<1>3. Prompt!Tick => Switching!Tick
  BY <1>2 DEF Prompt!Tick, Switching!Tick, Prompt!Late, Switching!Late, Prompt!Expired, Switching!Expired
<1>4. Prompt!User => Switching!User
  BY DEF Prompt!User, Switching!User, Switching!UsersTurn, Switches, Prompt!clock, Switching!clock,
         Prompt!Subscribe, Switching!Subscribe, Prompt!connect, Switching!connect,
         Prompt!Unused, Switching!Unused, Prompt!ListCreated, Switching!ListCreated,
         Prompt!UnlistClosed, Switching!UnlistClosed, Prompt!UserClose, Switching!UserClose,
         Prompt!UserForget, Switching!UserForget, Prompt!UserClosed, Switching!UserClosed
<1>5. ASSUME NEW c \in Conn, Prompt!Loop(c) PROVE Switching!Loop(c)
  <2> USE DEF Prompt!clock, Switching!clock
  <2>1. Prompt!Runs(c) => Switching!Runs(c)
    BY DEF Prompt!Runs, Switching!Runs, Prompt!CreateApp, Switching!CreateApp,
         Prompt!Register, Switching!Register, Prompt!RunForever, Switching!RunForever,
         Prompt!InLoop, Switching!InLoop, Prompt!SetTime, Switching!SetTime,
         Prompt!SetConnected, Switching!SetConnected, Prompt!CloseOnError, Switching!CloseOnError,
         Prompt!MarkError, Switching!MarkError, Prompt!LoopDown, Switching!LoopDown,
         Prompt!SetIdle, Switching!SetIdle
  <2>2. Prompt!Open(c) \/ Prompt!Receive(c) => Switching!Open(c) \/ Switching!Receive(c)
    BY DEF Prompt!Open, Switching!Open, Prompt!Receive, Switching!Receive
  <2>3. Prompt!Fail(c) \/ Prompt!Return(c) => Switching!Fail(c) \/ Switching!Return(c)
    BY DEF Prompt!Fail, Switching!Fail, Prompt!BeingClosed, Switching!BeingClosed,
         Prompt!Return, Switching!Return
  <2> QED
    BY <1>5, <2>1, <2>2, <2>3 DEF Prompt!Loop, Switching!Loop, Switching!LoopsTurn, Switches
<1>6. ASSUME NEW j \in Job, Prompt!WatchDog(j) PROVE Switching!WatchDog(j)
  <2> USE DEF Prompt!clock, Switching!clock, Prompt!NextPc, Switching!NextPc
  <2>1. Prompt!Check(j) \/ Prompt!CheckTime(j) => Switching!Check(j) \/ Switching!CheckTime(j)
    BY <1>2 DEF Prompt!Check, Switching!Check, Prompt!CheckTime, Switching!CheckTime,
         Prompt!Silent, Switching!Silent
  <2>2. Prompt!CloseAndWait(j) \/ Prompt!ForgetConnection(j)
          => Switching!CloseAndWait(j) \/ Switching!ForgetConnection(j)
    BY DEF Prompt!CloseAndWait, Switching!CloseAndWait,
         Prompt!ForgetConnection, Switching!ForgetConnection
  <2>3. Prompt!WaitReconnect(j) \/ Prompt!SetDue(j) => Switching!WaitReconnect(j) \/ Switching!SetDue(j)
    BY DEF Prompt!WaitReconnect, Switching!WaitReconnect, Prompt!SetDue, Switching!SetDue,
         Prompt!HeartBeatWait, Switching!HeartBeatWait, Prompt!ErrorWait, Switching!ErrorWait,
         Prompt!Expired, Switching!Expired, NoSlow, Switches
  <2>4. Prompt!re_connect(j) \/ Prompt!Reconnect(j) => Switching!re_connect(j) \/ Switching!Reconnect(j)
    BY DEF Prompt!re_connect, Switching!re_connect, Prompt!Reconnect, Switching!Reconnect,
         Prompt!IsDue, Switching!IsDue, Prompt!Unused, Switching!Unused,
         Prompt!connect, Switching!connect
  <2> QED
    BY <1>6, <2>1, <2>2, <2>3, <2>4
       DEF Prompt!WatchDog, Switching!WatchDog, Switching!JobsTurn, Switches
<1> QED
  BY <1>3, <1>4, <1>5, <1>6 DEF Prompt!Next, Switching!Next

-----------------------------------------------------------------------------
(* The invariant of the switching world.                                   *)

\* When the clock moves or a job runs again nothing is under way.
LEMMA Between ==
    ASSUME Switching!PeriodOver, Shapes
    PROVE  /\ \A c \in Conn : phase[c] \in {"free", "up"} /\ (c \in closed => phase[c] # "up")
           /\ \A j \in Job : job[j] = "idle"
           /\ user \notin {"connected", "removed", "closing", "forgetting"}
  BY DEF Switching!PeriodOver, Switching!Busy, Switching!Dialing, Switching!Handling, Switches,
         Shapes, Phase, Dialing, Handling

LEMMA FastStart == Init => PInv
<1> SUFFICES ASSUME Init PROVE PInv
  OBVIOUS
<1>1. Shapes
  BY DEF Init, Shapes, Phase, JobPc
<1> QED
  BY <1>1, ConnAssumption DEF Init, PInv, CallbacksFindManager, InLoop, Alone, Held, OneJob, JobsAlone,
     JobsTell, StateTells, UserTells, Unsubscribing

\* Until the user subscribes there is nothing.
LEMMA FastSubscribe == PInv /\ Switching!Subscribe => PInv'
<1> SUFFICES ASSUME PInv, Switching!Subscribe PROVE PInv'
  OBVIOUS
<1>1. PICK c \in Conn : phase[c] = "free" /\ phase' = [phase EXCEPT ![c] = "spawned"]
  BY DEF Switching!Subscribe, Switching!connect, Switching!Unused
<1>2. /\ user = "new" /\ user' = "connected"
      /\ UNCHANGED <<state, orig, registered, listed, closed, job>>
  BY DEF Switching!Subscribe
<1>3. /\ orig = NoConn /\ ~listed
      /\ (\A d \in Conn : phase[d] = "free") /\ \A k \in Job : job[k] = "idle"
  BY <1>2 DEF PInv, UserTells
<1>4. Shapes' /\ phase'[c] = "spawned" /\ \A d \in Conn \ {c} : phase'[d] = "free"
  BY <1>1, <1>2, <1>3 DEF PInv, Shapes, Phase, Dialing
<1>5. Alone' /\ Held' /\ OneJob' /\ JobsAlone' /\ JobsTell'
  BY <1>2, <1>3, <1>4 DEF Alone, Held, OneJob, JobsAlone, JobsTell
<1>6. CallbacksFindManager'
  BY <1>2, <1>3, <1>4, ConnAssumption DEF CallbacksFindManager, InLoop
<1>7. UserTells'
  BY <1>2, <1>3 DEF UserTells
<1>8. StateTells'
  <2>1. state # "CLOSED_ON_ERROR"
    BY <1>2 DEF PInv, UserTells
  <2> QED
    BY <1>2, <1>3, <1>4, <2>1 DEF StateTells
<1> QED
  BY <1>4, <1>5, <1>6, <1>7, <1>8 DEF PInv

\* Every step of the switching world, whoever takes it
LEMMA FastStep == PInv /\ Switching!Next => PInv'
<1> SUFFICES ASSUME PInv, Switching!Next PROVE PInv'
  OBVIOUS
<1> USE ConnAssumption DEF Switching!clock, PInv, Shapes, CallbacksFindManager, InLoop, Alone, Held, OneJob,
                          JobsAlone, JobsTell, StateTells, UserTells, Unsubscribing
<1>1. CASE Switching!Tick
  BY <1>1 DEF Switching!Tick
<1>2. CASE Switching!User
  <2>1. CASE Switching!Subscribe
    BY <2>1, FastSubscribe
  <2>2. CASE Switching!ListCreated
    BY <2>2 DEF Switching!ListCreated
  <2>3. CASE Switching!UnlistClosed
    BY <2>3 DEF Switching!UnlistClosed
  <2>4. CASE Switching!UserClose
    BY <2>4 DEF Switching!UserClose
  <2>5. CASE Switching!UserForget
    BY <2>5 DEF Switching!UserForget
  <2>6. CASE Switching!UserClosed
    BY <2>6 DEF Switching!UserClosed
  <2> QED BY <1>2, <2>1, <2>2, <2>3, <2>4, <2>5, <2>6 DEF Switching!User
<1>3. ASSUME NEW c \in Conn, Switching!Loop(c) PROVE PInv'
  <2> USE DEF Phase, Dialing, Handling
  <2>1. CASE Switching!CreateApp(c)
    BY <2>1 DEF Switching!CreateApp
  <2>2. CASE Switching!Register(c)
    BY <2>2 DEF Switching!Register
  <2>3. CASE Switching!RunForever(c)
    BY <2>3 DEF Switching!RunForever, Switching!InLoop
  <2>4. CASE Switching!Open(c)
    BY <2>4 DEF Switching!Open
  <2>5. CASE Switching!SetTime(c)
    BY <2>5 DEF Switching!SetTime
  <2>6. CASE Switching!SetConnected(c)
    BY <2>6 DEF Switching!SetConnected
  <2>7. CASE Switching!Receive(c)
    BY <2>7 DEF Switching!Receive
  <2>8. CASE Switching!Fail(c)
    BY <2>8 DEF Switching!Fail, Switching!BeingClosed, ServerFaults
  <2>9. CASE Switching!Return(c)
    BY <2>9 DEF Switching!Return, ServerFaults
  <2>10. CASE Switching!CloseOnError(c)
    BY <2>10 DEF Switching!CloseOnError
  <2>11. CASE Switching!MarkError(c)
    BY <2>11 DEF Switching!MarkError
  <2>12. CASE Switching!LoopDown(c)
    BY <2>12 DEF Switching!LoopDown
  <2>13. CASE Switching!SetIdle(c)
    BY <2>13 DEF Switching!SetIdle
  <2> QED
    BY <1>3, <2>1, <2>2, <2>3, <2>4, <2>5, <2>6, <2>7, <2>8, <2>9, <2>10, <2>11, <2>12, <2>13
       DEF Switching!Loop, Switching!Runs
<1>4. ASSUME NEW j \in Job, Switching!WatchDog(j) PROVE PInv'
  <2> USE DEF JobPc, NextPc, Switching!NextPc
  <2>1. CASE Switching!Check(j)
    BY <2>1, Between DEF Switching!Check
  <2>2. CASE Switching!CheckTime(j)
    BY <2>2 DEF Switching!CheckTime
  <2>3. CASE Switching!CloseAndWait(j)
    BY <2>3 DEF Switching!CloseAndWait
  <2>4. CASE Switching!ForgetConnection(j)
    BY <2>4 DEF Switching!ForgetConnection
  <2>5. CASE Switching!WaitReconnect(j)
    BY <2>5 DEF Switching!WaitReconnect
  <2>6. CASE Switching!SetDue(j)
    BY <2>6 DEF Switching!SetDue
  <2>7. CASE Switching!re_connect(j)
    BY <2>7 DEF Switching!re_connect
  <2>8. CASE Switching!Reconnect(j)
    BY <2>8 DEF Switching!Reconnect, Switching!connect, Switching!Unused, Phase, Dialing
  <2> QED
    BY <1>4, <2>1, <2>2, <2>3, <2>4, <2>5, <2>6, <2>7, <2>8 DEF Switching!WatchDog
<1> QED BY <1>1, <1>2, <1>3, <1>4 DEF Switching!Next

LEMMA FastAlways == BothSpec => [](Fast => PInv)
<1>1. BothInit => (Fast => PInv)
  BY FastStart DEF BothInit
<1>2. (Fast => PInv) /\ [BothNext]_allVars => (Fast => PInv)'
  <2> SUFFICES ASSUME Fast => PInv, [BothNext]_allVars, Fast' PROVE PInv'
    OBVIOUS
  <2>1. CASE BothNext
    <3>1. PInv /\ (Prompt!Next \/ Switching!Next)
      BY <2>1 DEF BothNext, In, Fast
    <3> QED
      BY <3>1, FastStep, PromptIsSwitching
  <2>2. CASE UNCHANGED allVars
    BY <2>2 DEF allVars, vars, Fast, PInv, Shapes, CallbacksFindManager, InLoop, Alone, Held, OneJob,
       JobsAlone, JobsTell, StateTells, UserTells, Unsubscribing
  <2> QED
    BY <2>1, <2>2
<1> QED
  BY <1>1, <1>2, PTL DEF BothSpec

\* Where dials and handlers end within a period and only links and dials fail, every
\* connection a thread runs is a key of websocket_connection_handler until close()
\* deletes it, wherever the threads are interrupted.
THEOREM CallbacksAreFoundWhenFast == BothSpec => [](Fast => CallbacksFindManager)
<1>1. (Fast => PInv) => (Fast => CallbacksFindManager)
  BY DEF PInv
<1> QED
  BY <1>1, FastAlways, PTL

-----------------------------------------------------------------------------
(* The feed.                                                               *)

LEMMA FeedFacts ==
    ASSUME PInv
    PROVE  /\ Feeds = {} \/ (Feeds = {orig} /\ orig \in Conn)
           /\ Feeds # {} /\ ~Unsubscribing => state = "CONNECTED"
           /\ user \in {"forgetting", "unsubscribed"} => Feeds = {}
<1>1. \A c \in Feeds : c = orig /\ c \in Conn
  BY DEF PInv, Held, Feeds
<1>2. \A c \in Feeds : phase[c] = "up" /\ c \notin closed /\ c \in registered
  BY DEF Feeds
<1>3. Feeds # {} /\ ~Unsubscribing => state = "CONNECTED"
  BY <1>1, <1>2 DEF PInv, StateTells
<1>4. user \in {"forgetting", "unsubscribed"} => Feeds = {}
  BY <1>1, <1>2 DEF PInv, UserTells
<1> QED
  BY <1>1, <1>3, <1>4

\* Where dials and handlers end within a period of the watchdog and only links and dials
\* fail, at most one open connection calls the update callback: a job dials only when the
\* one before it is closed, and its thread has ended before the next job runs.
THEOREM OneFeedWhenFast == BothSpec => []OneFeedIfFast
<1>1. (Fast => PInv) => OneFeedIfFast
  <2> SUFFICES ASSUME PInv PROVE OneFeed
    BY DEF OneFeedIfFast
  <2>1. Cardinality({}) = 0 /\ Cardinality({orig}) = 1
    BY FS_EmptySet, FS_Singleton
  <2>2. Cardinality(Feeds) \in {0, 1}
    BY <2>1, FeedFacts
  <2>3. \A n \in {0, 1} : n <= 1
    OBVIOUS
  <2> QED
    BY <2>2, <2>3 DEF OneFeed
<1> QED
  BY <1>1, FastAlways, PTL

\* There too, the connection that feeds the callback is the manager's own and its state
\* says CONNECTED, until the user unsubscribes: unsubscribing would close it and the
\* watchdog watches it.
THEOREM FeedIsWatchedWhenFast == BothSpec => []FeedIsWatchedIfFast
<1>1. (Fast => PInv) => FeedIsWatchedIfFast
  BY FeedFacts DEF FeedIsWatchedIfFast, FeedIsWatched
<1> QED
  BY <1>1, FastAlways, PTL

-----------------------------------------------------------------------------
(* The refinement of Feed.                                                 *)

\* A connection comes to feed the callback by opening: no other does then.
LEMMA FeedOpens ==
    ASSUME PInv, Switching!Next, NEW c \in Conn, c \in Feeds', c \notin Feeds
    PROVE  phase[c] \notin {"free", "up"}
<1> USE DEF Feeds, PInv, Shapes, Switching!clock
<1>1. CASE Switching!Tick
  BY <1>1 DEF Switching!Tick
<1>2. CASE Switching!User
  <2>1. CASE Switching!Subscribe
    BY <2>1 DEF Switching!Subscribe, Switching!connect, Switching!Unused
  <2>2. ~Switching!Subscribe => UNCHANGED phase /\ registered' \subseteq registered /\ closed \subseteq closed'
    BY <1>2 DEF Switching!User, Switching!ListCreated, Switching!UnlistClosed, Switching!UserClose,
                Switching!UserForget, Switching!UserClosed
  <2> QED
    BY <2>1, <2>2
<1>3. ASSUME NEW d \in Conn, Switching!Loop(d) PROVE phase[c] \notin {"free", "up"}
  <2>1. CASE Switching!Register(d)
    BY <2>1, ConnAssumption DEF Switching!Register, Held, Alone
  <2>2. CASE Switching!RunForever(d)
    BY <2>2, ConnAssumption DEF Switching!RunForever, Held
  <2>3. CASE Switching!CreateApp(d) \/ Switching!Open(d) \/ Switching!Receive(d)
    BY <2>3 DEF Switching!CreateApp, Switching!Open, Switching!Receive
  <2>4. CASE Switching!SetTime(d) \/ Switching!SetConnected(d)
    BY <2>4 DEF Switching!SetTime, Switching!SetConnected
  <2>5. CASE Switching!Fail(d) \/ Switching!Return(d) \/ Switching!CloseOnError(d) \/ Switching!MarkError(d)
    BY <2>5 DEF Switching!Fail, Switching!Return, Switching!CloseOnError, Switching!MarkError
  <2>6. CASE Switching!LoopDown(d) \/ Switching!SetIdle(d)
    BY <2>6 DEF Switching!LoopDown, Switching!SetIdle
  <2> QED
    BY <1>3, <2>1, <2>2, <2>3, <2>4, <2>5, <2>6 DEF Switching!Loop, Switching!Runs
<1>4. ASSUME NEW j \in Job, Switching!WatchDog(j) PROVE phase[c] \notin {"free", "up"}
  BY <1>4 DEF Switching!WatchDog, Switching!Check, Switching!CheckTime, Switching!CloseAndWait,
              Switching!ForgetConnection, Switching!WaitReconnect, Switching!SetDue,
              Switching!re_connect, Switching!Reconnect, Switching!connect, Switching!Unused
<1> QED
  BY <1>1, <1>2, <1>3, <1>4 DEF Switching!Next

\* unsubscribe_all returns once, and for good.
LEMMA Returns ==
    ASSUME Switching!Next
    PROVE  /\ user = "unsubscribed" => user' = "unsubscribed"
           /\ user # "unsubscribed" /\ user' = "unsubscribed"
                => user = "forgetting" /\ UNCHANGED <<phase, closed>>
<1>1. CASE Switching!Tick
  BY <1>1 DEF Switching!Tick
<1>2. CASE Switching!User
  BY <1>2 DEF Switching!User, Switching!Subscribe, Switching!ListCreated, Switching!UnlistClosed,
              Switching!UserClose, Switching!UserForget, Switching!UserClosed
<1>3. ASSUME NEW c \in Conn, Switching!Loop(c) PROVE user' = user
  BY <1>3 DEF Switching!Loop, Switching!Runs, Switching!CreateApp, Switching!Register,
              Switching!RunForever, Switching!Open, Switching!SetTime, Switching!SetConnected,
              Switching!Receive, Switching!Fail, Switching!Return, Switching!CloseOnError,
              Switching!MarkError, Switching!LoopDown, Switching!SetIdle
<1>4. ASSUME NEW j \in Job, Switching!WatchDog(j) PROVE user' = user
  BY <1>4 DEF Switching!WatchDog, Switching!Check, Switching!CheckTime, Switching!CloseAndWait,
              Switching!ForgetConnection, Switching!WaitReconnect, Switching!SetDue,
              Switching!re_connect, Switching!Reconnect
<1> QED
  BY <1>1, <1>2, <1>3, <1>4 DEF Switching!Next

\* The one source: the manager's connection while it feeds the callback
SourceTells ==
    /\ Feeds = {} => SourceIfFast = NoConn
    /\ Feeds # {} => SourceIfFast = orig /\ orig \in Conn /\ Feeds = {orig} /\ user # "unsubscribed"
LEMMA SourceFacts == BothSpec => [](Fast => SourceTells)
<1>1. ASSUME PInv, Fast PROVE SourceTells
  <2>1. Feeds # {} => Feeds = {orig} /\ orig \in Conn /\ user # "unsubscribed"
    BY <1>1, FeedFacts
  <2>2. (CHOOSE c \in {orig} : TRUE) = orig
    OBVIOUS
  <2> QED
    BY <1>1, <2>1, <2>2 DEF SourceIfFast, SourceTells
<1>2. (Fast => PInv) => (Fast => SourceTells)
  BY <1>1
<1> QED
  BY <1>2, FastAlways, PTL

\* The manager with its threads and the watchdog is one source of updates at a time, one
\* takes over from another only after a gap, and after unsubscribe_all has returned there
\* is none again: the switching world and the prompt one implement Feed, step by step.
THEOREM PromiseIsKept == BothSpec => KeepsPromise
<1> DEFINE wanted == Fast => user # "unsubscribed"
           source == SourceIfFast
<1>1. BothInit => Promise!Init
  BY DEF BothInit, Init, Promise!Init, SourceIfFast, Feeds
<1>2. /\ Fast => PInv
      /\ (Fast => SourceTells) /\ (Fast => SourceTells)'
      /\ [BothNext]_allVars
      => [Promise!Next]_<<source, wanted>>
  <2> SUFFICES ASSUME Fast => PInv, Fast => SourceTells,
                      (Fast => SourceTells)', [BothNext]_allVars
               PROVE  Promise!Next \/ UNCHANGED <<source, wanted>>
    OBVIOUS
  <2>1. pace' = pace
    BY DEF BothNext, allVars
  <2>2. CASE ~Fast
    BY <2>1, <2>2 DEF Fast, SourceIfFast
  <2>3. CASE UNCHANGED allVars
    BY <2>3 DEF allVars, vars, Fast, SourceIfFast, Feeds
  <2>4. CASE Fast /\ BothNext
    <3>1. Switching!Next /\ PInv /\ SourceTells /\ SourceTells' /\ Fast /\ Fast'
      BY <2>1, <2>4, PromptIsSwitching DEF BothNext, In, Fast
    <3>2. /\ Feeds = {} => source = NoConn
          /\ Feeds # {} => source = orig /\ Feeds = {orig}
          /\ Feeds' = {} => source' = NoConn
          /\ Feeds' # {} => /\ source' = orig' /\ orig' \in Conn /\ Feeds' = {orig'}
                             /\ user' # "unsubscribed"
      BY <3>1 DEF SourceTells
    <3>3. CASE user # "unsubscribed" /\ user' = "unsubscribed"
      <4>1. user = "forgetting" /\ UNCHANGED <<phase, closed>>
        BY <3>1, <3>3, Returns
      <4>2. Feeds = {}
        BY <3>1, <4>1 DEF PInv, UserTells, Feeds
      <4>3. Feeds' = {}
        BY <3>2, <3>3
      <4> QED
        BY <3>1, <3>2, <3>3, <4>2, <4>3 DEF Promise!Next, Promise!Unsubscribe
    <3>4. CASE ~(user # "unsubscribed" /\ user' = "unsubscribed")
      <4>1. wanted' = wanted
        BY <3>1, <3>4, Returns
      <4>2. CASE Feeds' = {}
        BY <3>2, <4>1, <4>2 DEF Promise!Next, Promise!Stop
      <4>3. CASE Feeds' # {} /\ orig' \in Feeds
        BY <3>2, <4>1, <4>3
      <4>4. CASE Feeds' # {} /\ orig' \notin Feeds
        <5>1. orig' \in Conn /\ orig' \in Feeds'
          BY <3>2, <4>4
        <5>2. phase[orig'] \notin {"free", "up"}
          BY <3>1, <4>4, <5>1, FeedOpens
        <5>3. Feeds = {}
          BY <3>1, <4>4, <5>1, <5>2 DEF PInv, Alone, Feeds
        <5>4. wanted
          BY <3>1, <3>2, <4>1, <4>4
        <5> QED
          BY <3>2, <4>1, <4>4, <5>1, <5>3, <5>4 DEF Promise!Next, Promise!Start
      <4> QED
        BY <4>2, <4>3, <4>4
    <3> QED
      BY <3>3, <3>4
  <2> QED
    BY <2>2, <2>3, <2>4
<1> QED
  BY <1>1, <1>2, FastAlways, SourceFacts, PTL DEF BothSpec, KeepsPromise, Promise!Spec
=============================================================================
