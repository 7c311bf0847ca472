------------------------- MODULE WsConnectionProofs -------------------------
(***************************************************************************)
(* What holds of WsConnection for any number of connections and of         *)
(* overlapping watchdog jobs, any limits and any environment.  The proofs  *)
(* use no fairness.                                                        *)
(***************************************************************************)
EXTENDS WsConnection, TLAPS

\* A thread is started by connect() alone, which takes a free number and no
\* other: the fact about one call that both invariants rest on.
LEMMA ConnectTakesFree ==
    ASSUME phase \in [Conn -> Phase], NEW c \in Conn, connect(c)
    PROVE  /\ phase' \in [Conn -> Phase]
           /\ \A d \in Conn : phase'[d] # phase[d] => phase[d] = "free" /\ phase'[d] = "spawned"
  BY DEF connect, Unused, Phase, Dialing

\* The fields of the manager, the registry and the program counters keep to
\* their types in every interleaving.
THEOREM TypeCorrect == Spec => []TypeOK
<1> USE LimitAssumption DEF TypeOK, clock
<1>1. Init => TypeOK
  <2> SUFFICES ASSUME Init PROVE TypeOK
    OBVIOUS
  <2>1. age \in 0 .. Late /\ due \in Expired .. ReconnectAfter
    BY DEF Init, Late, Expired
  <2>2. phase \in [Conn -> Phase] /\ job \in [Job -> JobPc]
    BY DEF Init, Phase, JobPc
  <2>3. /\ state \in ConnectionState /\ orig \in Conn \cup {NoConn} /\ user \in UserPc
        /\ registered \subseteq Conn \cup {NoConn} /\ closed \subseteq Conn /\ listed \in BOOLEAN
    BY DEF Init, ConnectionState, UserPc
  <2> QED BY <2>1, <2>2, <2>3
<1>2. TypeOK /\ [Next]_vars => TypeOK'
  <2> SUFFICES ASSUME TypeOK, [Next]_vars PROVE TypeOK'
    OBVIOUS
  <2>1. CASE Tick
    BY <2>1 DEF Tick, Late, Expired
  <2>2. CASE User
    <3>1. CASE Subscribe
      BY <3>1, ConnectTakesFree DEF Subscribe, UserPc
    <3>2. CASE ListCreated
      BY <3>2 DEF ListCreated, UserPc
    <3>3. CASE UnlistClosed
      BY <3>3 DEF UnlistClosed, UserPc
    <3>4. CASE UserClose
      BY <3>4 DEF UserClose, UserPc
    <3>5. CASE UserForget
      BY <3>5 DEF UserForget, UserPc
    <3>6. CASE UserClosed
      BY <3>6 DEF UserClosed, UserPc, ConnectionState
    <3> QED BY <2>2, <3>1, <3>2, <3>3, <3>4, <3>5, <3>6 DEF User
  <2>3. ASSUME NEW c \in Conn, Loop(c) PROVE TypeOK'
    <3> USE DEF Phase, Dialing, Handling
    <3>1. CASE CreateApp(c)
      BY <3>1 DEF CreateApp
    <3>2. CASE Register(c)
      BY <3>2 DEF Register
    <3>3. CASE RunForever(c)
      BY <3>3 DEF RunForever
    <3>4. CASE Open(c)
      BY <3>4 DEF Open
    <3>5. CASE SetTime(c)
      BY <3>5 DEF SetTime, Late
    <3>6. CASE SetConnected(c)
      BY <3>6 DEF SetConnected, ConnectionState
    <3>7. CASE Receive(c)
      BY <3>7 DEF Receive, Late
    <3>8. CASE Fail(c)
      BY <3>8 DEF Fail
    <3>9. CASE Return(c)
      BY <3>9 DEF Return
    <3>10. CASE CloseOnError(c)
      BY <3>10 DEF CloseOnError
    <3>11. CASE MarkError(c)
      BY <3>11 DEF MarkError, ConnectionState
    <3>12. CASE LoopDown(c)
      BY <3>12 DEF LoopDown
    <3>13. CASE SetIdle(c)
      BY <3>13 DEF SetIdle, ConnectionState
    <3> QED
      BY <2>3, <3>1, <3>2, <3>3, <3>4, <3>5, <3>6, <3>7, <3>8, <3>9, <3>10, <3>11, <3>12, <3>13
         DEF Loop, Runs
  <2>4. ASSUME NEW j \in Job, WatchDog(j) PROVE TypeOK'
    <3>1. CASE Check(j)
      BY <3>1 DEF Check, JobPc, NextPc
    <3>2. CASE CheckTime(j)
      BY <3>2 DEF CheckTime, JobPc, NextPc
    <3>3. CASE CloseAndWait(j)
      BY <3>3 DEF CloseAndWait, JobPc, NextPc
    <3>4. CASE ForgetConnection(j)
      BY <3>4 DEF ForgetConnection, JobPc, NextPc
    <3>5. CASE WaitReconnect(j)
      BY <3>5 DEF WaitReconnect, JobPc, NextPc, ConnectionState
    <3>6. CASE SetDue(j)
      BY <3>6 DEF SetDue, JobPc, HeartBeatWait, ErrorWait, Expired
    <3>7. CASE re_connect(j)
      BY <3>7 DEF re_connect, JobPc
    <3>8. CASE Reconnect(j)
      BY <3>8, ConnectTakesFree DEF Reconnect, JobPc
    <3> QED BY <2>4, <3>1, <3>2, <3>3, <3>4, <3>5, <3>6, <3>7, <3>8 DEF WatchDog
  <2>5. CASE UNCHANGED vars
    BY <2>5 DEF vars
  <2> QED BY <2>1, <2>2, <2>3, <2>4, <2>5 DEF Next
<1> QED BY <1>1, <1>2, PTL DEF Spec

\* What a thread relies on between the assignment of original_connection and
\* run_forever: it is still its own, and becomes a key before it is run.
Starts ==
    /\ CallbacksFindManager
    /\ \A c \in Conn : phase[c] \in {"created", "registered"} =>
          /\ orig = c
          /\ phase[c] = "registered" /\ user \notin {"forgetting", "unsubscribed"} => c \in registered

\* As long as a thread is not interrupted between two statements that cannot block,
\* every connection that is run is a key of websocket_connection_handler until close()
\* deletes it, however long dials and handlers last and whatever fails.  (Two threads
\* between lines 44 and 52 at once can run a connection that is none.)
THEOREM CallbacksAreFound ==
    ASSUME "preempt" \notin Slow
    PROVE  Spec => []CallbacksFindManager
<1>1. Init => Starts
  BY ConnAssumption DEF Init, Starts, CallbacksFindManager, InLoop
<1>2. TypeOK /\ Starts /\ [Next]_vars => Starts'
  <2> SUFFICES ASSUME TypeOK, Starts, [Next]_vars
               PROVE  Starts'
    OBVIOUS
  <2> USE DEF TypeOK, Starts, CallbacksFindManager, InLoop, clock
  <2>1. CASE Tick
    BY <2>1 DEF Tick
  <2>2. CASE User
    <3>1. \A c \in Conn : phase[c] \notin {"created", "registered"}
      BY <2>2 DEF User, UsersTurn, MidLoops
    <3>2. CASE Subscribe
      BY <3>1, <3>2, ConnectTakesFree DEF Subscribe
    <3>3. CASE ListCreated \/ UnlistClosed \/ UserClose
      BY <3>3 DEF ListCreated, UnlistClosed, UserClose
    <3>4. CASE UserForget \/ UserClosed
      BY <3>1, <3>4 DEF UserForget, UserClosed
    <3> QED BY <2>2, <3>2, <3>3, <3>4 DEF User
  <2>3. ASSUME NEW c \in Conn, Loop(c) PROVE Starts'
    <3>1. \A d \in Conn \ {c} : phase[d] \notin {"created", "registered"}
      BY <2>3 DEF Loop, LoopsTurn, MidLoops
    <3>2. CASE CreateApp(c)
      BY <3>1, <3>2 DEF CreateApp
    <3>3. CASE Register(c) \/ RunForever(c)
      BY <3>1, <3>3, ConnAssumption DEF Register, RunForever
    <3>4. CASE Open(c) \/ SetTime(c) \/ SetConnected(c)
      BY <3>1, <3>4 DEF Open, SetTime, SetConnected
    <3>5. CASE Receive(c) \/ Fail(c) \/ Return(c)
      BY <3>5 DEF Receive, Fail, Return
    <3>6. CASE CloseOnError(c) \/ MarkError(c) \/ LoopDown(c) \/ SetIdle(c)
      BY <3>6 DEF CloseOnError, MarkError, LoopDown, SetIdle
    <3> QED BY <2>3, <3>2, <3>3, <3>4, <3>5, <3>6 DEF Loop, Runs
  <2>4. ASSUME NEW j \in Job, WatchDog(j) PROVE Starts'
    <3>1. \A c \in Conn : phase[c] \notin {"created", "registered"}
      BY <2>4 DEF WatchDog, JobsTurn, MidLoops
    <3>2. CASE Reconnect(j)
      BY <3>1, <3>2, ConnectTakesFree DEF Reconnect
    <3>3. CASE ~Reconnect(j)
      BY <2>4, <3>1, <3>3 DEF WatchDog, Check, CheckTime, CloseAndWait, ForgetConnection,
                              WaitReconnect, SetDue, re_connect
    <3> QED BY <3>2, <3>3
  <2>5. CASE UNCHANGED vars
    BY <2>5 DEF vars
  <2> QED BY <2>1, <2>2, <2>3, <2>4, <2>5 DEF Next
<1>3. Starts => CallbacksFindManager
  BY DEF Starts
<1> QED BY <1>1, <1>2, <1>3, TypeCorrect, PTL DEF Spec

\* From on_connection_closed on the manager is off the watchdog's list: nothing
\* puts it there again.
LEMMA StaysUnlisted == Spec => [](Unsubscribing => ~listed)
<1>1. Init => (Unsubscribing => ~listed)
  BY DEF Init, Unsubscribing
<1>2. (Unsubscribing => ~listed) /\ [Next]_vars => (Unsubscribing => ~listed)'
  <2> SUFFICES ASSUME Unsubscribing => ~listed, [Next]_vars
               PROVE  (Unsubscribing => ~listed)'
    OBVIOUS
  <2> USE DEF Unsubscribing
  <2>1. CASE Tick
    BY <2>1 DEF Tick
  <2>2. CASE User
    BY <2>2 DEF User, Subscribe, ListCreated, UnlistClosed, UserClose, UserForget, UserClosed
  <2>3. ASSUME NEW c \in Conn, Loop(c) PROVE UNCHANGED <<user, listed>>
    BY <2>3 DEF Loop, Runs, CreateApp, Register, RunForever, Open, SetTime, SetConnected, Receive,
                Fail, Return, CloseOnError, MarkError, LoopDown, SetIdle
  <2>4. ASSUME NEW j \in Job, WatchDog(j) PROVE UNCHANGED <<user, listed>>
    BY <2>4 DEF WatchDog, Check, CheckTime, CloseAndWait, ForgetConnection, WaitReconnect, SetDue,
                re_connect, Reconnect
  <2>5. CASE UNCHANGED vars
    BY <2>5 DEF vars
  <2> QED BY <2>1, <2>2, <2>3, <2>4, <2>5 DEF Next
<1> QED BY <1>1, <1>2, PTL DEF Spec

\* After on_connection_closed each job dials for the manager once more at most:
\* removing it from the list is enough to stop the watchdog, whatever the jobs
\* and the event loops are doing.
THEOREM UnsubscribedIsNotDialled == Spec => NoDialAfterUnsubscribe
<1> DEFINE Dialled(c) == phase[c] = "free" /\ phase'[c] = "spawned"
<1> DEFINE Excused == \E j \in Job : job[j] = "connect" /\ job'[j] = "idle"
<1>1. ASSUME TypeOK, Next, Unsubscribing, NEW c \in Conn, Dialled(c)
      PROVE  Excused
  <2> USE <1>1 DEF TypeOK
  <2>1. ~Tick
    BY DEF Tick
  <2>2. ~User
    BY DEF User, Subscribe, ListCreated, UnlistClosed, UserClose, UserForget, UserClosed, Unsubscribing
  <2>3. \A d \in Conn : ~Loop(d)
    <3> SUFFICES ASSUME NEW d \in Conn, Loop(d) PROVE FALSE
      OBVIOUS
    <3>1. CASE RunForever(d)
      BY <3>1 DEF RunForever
    <3>2. CASE ~RunForever(d)
      BY <3>2 DEF Loop, Runs, CreateApp, Register, Open, SetTime, SetConnected, Receive,
                  Fail, Return, CloseOnError, MarkError, LoopDown, SetIdle
    <3> QED BY <3>1, <3>2
  <2>4. PICK j \in Job : WatchDog(j)
    BY <2>1, <2>2, <2>3 DEF Next
  <2>5. Reconnect(j)
    BY <2>4 DEF WatchDog, Check, CheckTime, CloseAndWait, ForgetConnection, WaitReconnect,
                SetDue, re_connect
  <2> QED BY <2>5 DEF Reconnect
<1>2. ASSUME TypeOK, Next, Unsubscribing => ~listed, Unsubscribing,
             NEW k \in Job, job[k] = "idle"
      PROVE  job'[k] = "idle"
  <2> USE <1>2 DEF TypeOK
  <2>1. CASE Tick \/ User
    BY <2>1 DEF Tick, User, Subscribe, ListCreated, UnlistClosed, UserClose, UserForget, UserClosed
  <2>2. ASSUME NEW c \in Conn, Loop(c) PROVE job' = job
    BY <2>2 DEF Loop, Runs, CreateApp, Register, RunForever, Open, SetTime, SetConnected, Receive,
                Fail, Return, CloseOnError, MarkError, LoopDown, SetIdle
  <2>3. ASSUME NEW j \in Job, WatchDog(j) PROVE job'[k] = "idle"
    <3>1. ~Check(j)
      BY DEF Check
    <3>2. j # k /\ job'[k] = job[k]
      BY <2>3, <3>1 DEF WatchDog, CheckTime, CloseAndWait, ForgetConnection, WaitReconnect,
                        SetDue, re_connect, Reconnect
    <3> QED BY <3>2
  <2> QED BY <2>1, <2>2, <2>3 DEF Next
<1>3. TypeOK /\ (Unsubscribing => ~listed) /\ [Next]_vars
        => [Unsubscribing => /\ \A j \in Job : job[j] = "idle" => job'[j] = "idle"
                             /\ \A c \in Conn : Dialled(c) => Excused]_vars
  BY <1>1, <1>2
<1> QED BY <1>3, TypeCorrect, StaysUnlisted, PTL DEF Spec, NoDialAfterUnsubscribe
=============================================================================
