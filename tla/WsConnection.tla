---------------------------- MODULE WsConnection ----------------------------
(***************************************************************************)
(* One subscription of the SDK and the threads that share its              *)
(* WebsocketManage object: the user's thread (subscribe and                *)
(* unsubscribe_all), one event-loop thread per attempt to connect          *)
(* (websocket_func and the callbacks the library runs on it) and the       *)
(* instances of the watchdog's job.  No lock protects the object: every    *)
(* write to it is a step of its own, and with "preempt" in Slow a step of  *)
(* any thread may come between two steps of another.  Without it a thread  *)
(* is not interrupted between two statements that cannot block.            *)
(*                                                                         *)
(* A "connection" is one WebSocketApp together with the thread that runs   *)
(* its event loop.  Time is kept relative to now, in periods of the        *)
(* watchdog: `age' is now - last_receive_time and `due' is                 *)
(* reconnect_at - now, both cut off where the code stops telling values    *)
(* apart.                                                                  *)
(***************************************************************************)
EXTENDS Integers, FiniteSets

CONSTANTS
    Conn,            \* connections that can exist at once (a bound)
    NoConn,          \* None
    Job,             \* instances of the watchdog job that may overlap
    HeartBeatLimit,  \* CONNECT_HEART_BEAT_LIMIT_MS, in periods
    ReconnectAfter,  \* RECONNECT_AFTER_TIME_MS, in periods
    Fault,           \* what the network and the library may do
    Slow             \* "dial", "handler": what may outlast a period of the
                     \* watchdog; "preempt": a thread may be interrupted
                     \* between any two statements

AllFaults == {"dialFail",     \* a dial ends in an exception
              "drop",         \* an open connection ends in an exception
              "serverClose",  \* an open connection ends by a close frame
              "collide"}      \* it ends in one while a job or close() is at it

ASSUME ConnAssumption == NoConn \notin Conn
ASSUME LimitAssumption == /\ HeartBeatLimit \in Nat \ {0}
                          /\ ReconnectAfter \in Nat
                          /\ ReconnectAfter >= HeartBeatLimit
ASSUME EnvAssumption == Fault \subseteq AllFaults /\ Slow \subseteq {"dial", "handler", "preempt"}

VARIABLES
    state,       \* the manager's ConnectionState
    orig,        \* the manager's original_connection
    age,         \* now - last_receive_time
    due,         \* reconnect_at - now, -1 when it has passed
    registered,  \* the keys of websocket_connection_handler
    listed,      \* the manager is in the watchdog's list
    phase,       \* where the thread of each connection is
    closed,      \* connections on which close() has been called
    user,        \* where the user's thread is
    job          \* where each instance of the watchdog job is

vars == <<state, orig, age, due, registered, listed, phase, closed, user, job>>
clock == <<age, due>>

ConnectionState == {"IDLE", "CONNECTED", "WAIT_RECONNECT", "CLOSED_ON_ERROR", "CLOSED"}
InLoop == {"dialing", "opening", "stamped", "up", "failing", "marking"}
Dialing == {"spawned", "created", "registered", "dialing", "opening", "stamped"}
Handling == {"failing", "marking", "returned", "idling"}
Phase == {"free", "up"} \cup Dialing \cup Handling
UserPc == {"new", "connected", "subscribed", "removed", "closing", "forgetting", "unsubscribed", "raised"}

\* close_and_wait_reconnect, statement by statement, for silence and for an error
NextPc == [lateClose |-> "lateForget", lateForget |-> "lateState", lateState |-> "lateDue",
           errorClose |-> "errorForget", errorForget |-> "errorState", errorState |-> "errorDue"]
JobPc == {"idle", "timing", "lateDue", "errorDue", "reconnect", "connect"} \cup DOMAIN NextPc

Expired == -1
Late == HeartBeatLimit + 1

\* wait_reconnect_millisecond() - now
HeartBeatWait == IF ReconnectAfter > HeartBeatLimit
                 THEN ReconnectAfter - HeartBeatLimit ELSE 1
\* The error path passes reconnect_after_ms itself: as a timestamp it lies
\* 63 seconds after 1970, which has passed.
ErrorWait == Expired

TypeOK ==
    /\ state \in ConnectionState
    /\ orig \in Conn \cup {NoConn}
    /\ age \in 0 .. Late
    /\ due \in Expired .. ReconnectAfter
    /\ registered \subseteq Conn \cup {NoConn}
    /\ listed \in BOOLEAN
    /\ phase \in [Conn -> Phase]
    /\ closed \subseteq Conn
    /\ user \in UserPc
    /\ job \in [Job -> JobPc]

Init ==
    /\ state = "IDLE"
    /\ orig = NoConn
    /\ age = Late
    /\ due = Expired
    /\ registered = {}
    /\ listed = FALSE
    /\ phase = [c \in Conn |-> "free"]
    /\ closed = {}
    /\ user = "new"
    /\ job = [j \in Job |-> "idle"]

-----------------------------------------------------------------------------
(* What the environment may do within one period of the watchdog.          *)

Busy(phases) == \E c \in Conn : phase[c] \in phases

\* Without "preempt" a thread between two statements that cannot block goes first.
MidLoops == {c \in Conn : phase[c] \in {"created", "registered", "opening", "stamped", "idling"}}
MidJobs == {j \in Job : job[j] \in {"timing", "lateState", "lateDue", "errorState", "errorDue", "connect"}}
MidUser == user = "forgetting"

Undisturbed == MidLoops = {} /\ MidJobs = {} /\ ~MidUser
LoopsTurn(c) == "preempt" \in Slow \/ (MidLoops \subseteq {c} /\ MidJobs = {} /\ ~MidUser)
JobsTurn(j) == "preempt" \in Slow \/ (MidLoops = {} /\ MidJobs \subseteq {j} /\ ~MidUser)
UsersTurn == "preempt" \in Slow \/ (MidLoops = {} /\ MidJobs = {})

\* The handlers and dials that are not slow have ended before the clock moves
\* or the job runs again.
PeriodOver ==
    /\ "preempt" \notin Slow => Undisturbed
    /\ "dial" \notin Slow => ~Busy(Dialing)
    /\ "handler" \notin Slow => /\ ~Busy(Handling)
                                /\ \A c \in closed : phase[c] # "up"
                                /\ \A j \in Job : job[j] = "idle"
                                /\ user \notin {"connected", "removed", "closing", "forgetting"}

Tick ==
    /\ PeriodOver
    /\ age' = IF age < Late THEN age + 1 ELSE Late
    /\ due' = IF due > Expired THEN due - 1 ELSE Expired
    /\ UNCHANGED <<state, orig, registered, listed, phase, closed, user, job>>

-----------------------------------------------------------------------------
(* WebsocketManage.connect: a new thread, whatever else is running.  A      *)
(* number no thread uses is taken; the manager's own is never reused.       *)

Unused == {c \in Conn : phase[c] = "free" /\ c # orig}

connect(c) ==
    /\ c \in Unused
    /\ phase' = [phase EXCEPT ![c] = "spawned"]

(* The event-loop thread of connection c.                                  *)

\* websocket_func: the manager gets a new WebSocketApp ...
CreateApp(c) ==
    /\ phase[c] = "spawned"
    /\ phase' = [phase EXCEPT ![c] = "created"]
    /\ orig' = c
    /\ registered' = registered \ {c}
    /\ closed' = closed \ {c}
    /\ UNCHANGED <<state, clock, listed, user, job>>

\* Mutants, here and below: a definition as a slip in the code would have it.
Register_Forgotten(c) ==
    /\ phase[c] = "created"
    /\ phase' = [phase EXCEPT ![c] = "registered"]
    /\ UNCHANGED <<state, orig, clock, registered, listed, closed, user, job>>

\* ... what is original_connection by now becomes a key (None is one too) ...
Register(c) ==
    /\ phase[c] = "created"
    /\ phase' = [phase EXCEPT ![c] = "registered"]
    /\ registered' = registered \cup {orig}
    /\ UNCHANGED <<state, orig, clock, listed, closed, user, job>>

\* ... and what it is then is run: None has no run_forever, and the library
\* raises for a loop that runs already.  A thread that runs the connection of
\* another takes over its number.  (Lines 51 and 52 read it once here.)
RunForever(c) ==
    /\ phase[c] = "registered"
    /\ IF orig = NoConn \/ phase[orig] \in InLoop
       THEN /\ phase' = [phase EXCEPT ![c] = "free"]
            /\ UNCHANGED closed
       ELSE /\ phase' = [phase EXCEPT ![c] = phase[orig], ![orig] = "dialing"]
            /\ closed' = closed \ {orig}
    /\ UNCHANGED <<state, orig, clock, registered, listed, user, job>>

\* on_open: the lookup fails where the connection is no key; original_connection ...
Open(c) ==
    /\ phase[c] = "dialing"
    /\ IF c \in registered
       THEN phase' = [phase EXCEPT ![c] = "opening"] /\ orig' = c
       ELSE phase' = [phase EXCEPT ![c] = "up"] /\ UNCHANGED orig
    /\ UNCHANGED <<state, clock, registered, listed, closed, user, job>>

\* ... then last_receive_time ...
SetTime(c) ==
    /\ phase[c] = "opening"
    /\ phase' = [phase EXCEPT ![c] = "stamped"]
    /\ age' = 0
    /\ UNCHANGED <<state, orig, due, registered, listed, closed, user, job>>

SetConnected_NoState(c) ==
    /\ phase[c] = "stamped"
    /\ phase' = [phase EXCEPT ![c] = "up"]
    /\ UNCHANGED <<state, orig, clock, registered, listed, closed, user, job>>

\* ... then the state.
SetConnected(c) ==
    /\ phase[c] = "stamped"
    /\ phase' = [phase EXCEPT ![c] = "up"]
    /\ state' = "CONNECTED"
    /\ UNCHANGED <<orig, clock, registered, listed, closed, user, job>>

\* on_message of anything the server sends, pings included
Receive(c) ==
    /\ phase[c] = "up"
    /\ c \in registered \ closed
    /\ age' = 0
    /\ UNCHANGED <<state, orig, due, registered, listed, phase, closed, user, job>>

\* Another thread of the program is closing connection c.
BeingClosed(c) == c \in closed \/ (c = orig /\ \E j \in Job : job[j] # "idle")

\* The loop ends in an exception: the library calls on_error, whose lookup of
\* the manager fails once close() has deleted the entry.
Fail(c) ==
    /\ \/ phase[c] = "dialing" /\ ("dialFail" \in Fault \/ c \in closed)
       \/ phase[c] = "up" /\ (IF BeingClosed(c) THEN "collide" ELSE "drop") \in Fault
    /\ phase' = [phase EXCEPT ![c] = IF c \in registered THEN "failing" ELSE "returned"]
    /\ UNCHANGED <<state, orig, clock, registered, listed, closed, user, job>>

\* The loop ends without one: on_close does nothing the manager can see.
Return(c) ==
    /\ phase[c] = "up"
    /\ c \in closed \/ "serverClose" \in Fault
    /\ phase' = [phase EXCEPT ![c] = "returned"]
    /\ UNCHANGED <<state, orig, clock, registered, listed, closed, user, job>>

\* close_on_error, after the user's error handler: close() may block ...  If
\* original_connection becomes None after the test, close() raises where it
\* would not have been called: the library catches that, and nothing is written.
CloseOnError(c) ==
    /\ phase[c] = "failing"
    /\ IF orig = NoConn
       THEN /\ phase' = [phase EXCEPT ![c] = "returned"]
            /\ UNCHANGED closed
       ELSE /\ phase' = [phase EXCEPT ![c] = "marking"]
            /\ closed' = closed \cup {orig}
    /\ UNCHANGED <<state, orig, clock, registered, listed, user, job>>

MarkError_Closed(c) ==
    /\ phase[c] = "marking"
    /\ phase' = [phase EXCEPT ![c] = "returned"]
    /\ state' = "CLOSED"
    /\ UNCHANGED <<orig, clock, registered, listed, closed, user, job>>

\* ... and the state is written after it.
MarkError(c) ==
    /\ phase[c] = "marking"
    /\ phase' = [phase EXCEPT ![c] = "returned"]
    /\ state' = "CLOSED_ON_ERROR"
    /\ UNCHANGED <<orig, clock, registered, listed, closed, user, job>>

\* "Connection event loop down": websocket_func tests the state ...
LoopDown(c) ==
    /\ phase[c] = "returned"
    /\ phase' = [phase EXCEPT ![c] = IF state = "CONNECTED" THEN "idling" ELSE "free"]
    /\ UNCHANGED <<state, orig, clock, registered, listed, closed, user, job>>

\* ... and writes it.
SetIdle(c) ==
    /\ phase[c] = "idling"
    /\ phase' = [phase EXCEPT ![c] = "free"]
    /\ state' = "IDLE"
    /\ UNCHANGED <<orig, clock, registered, listed, closed, user, job>>

-----------------------------------------------------------------------------
(* The user's thread.                                                      *)

\* __create_websocket_manage: connect ...
Subscribe ==
    /\ user = "new"
    /\ user' = "connected"
    /\ \E c \in Conn : connect(c)
    /\ UNCHANGED <<state, orig, clock, registered, listed, closed, job>>

\* ... then on_connection_created
ListCreated ==
    /\ user = "connected"
    /\ user' = "subscribed"
    /\ listed' = TRUE
    /\ UNCHANGED <<state, orig, clock, registered, phase, closed, job>>

UnlistClosed_Forgotten ==
    /\ user = "subscribed"
    /\ user' = "removed"
    /\ UNCHANGED <<state, orig, clock, registered, listed, phase, closed, job>>

\* unsubscribe_all: on_connection_closed ...
UnlistClosed ==
    /\ user = "subscribed"
    /\ user' = "removed"
    /\ listed' = FALSE
    /\ UNCHANGED <<state, orig, clock, registered, phase, closed, job>>

UserClose_Skipped ==
    /\ user = "removed"
    /\ user' = IF orig = NoConn THEN "raised" ELSE "closing"
    /\ UNCHANGED <<state, orig, clock, registered, listed, phase, closed, job>>

UserClose_Lenient ==
    /\ user = "removed"
    /\ user' = IF orig = NoConn THEN "unsubscribed" ELSE "closing"
    /\ closed' = closed \cup ({orig} \ {NoConn})
    /\ UNCHANGED <<state, orig, clock, registered, listed, phase, job>>

\* ... then close(): original_connection.close(), an AttributeError on None ...
UserClose ==
    /\ user = "removed"
    /\ IF orig = NoConn
       THEN user' = "raised" /\ UNCHANGED closed
       ELSE user' = "closing" /\ closed' = closed \cup {orig}
    /\ UNCHANGED <<state, orig, clock, registered, listed, phase, job>>

\* ... then the entry of what is original_connection by now, a KeyError if it has none ...
UserForget ==
    /\ user = "closing"
    /\ user' = IF orig \in registered THEN "forgetting" ELSE "raised"
    /\ registered' = registered \ {orig}
    /\ UNCHANGED <<state, orig, clock, listed, phase, closed, job>>

\* ... then the state.
UserClosed ==
    /\ user = "forgetting"
    /\ user' = "unsubscribed"
    /\ state' = "CLOSED"
    /\ UNCHANGED <<orig, clock, registered, listed, phase, closed, job>>

-----------------------------------------------------------------------------
(* An instance j of watch_dog_job, when its loop reaches the manager.      *)

\* The state is read again for each branch; the read of the branch taken counts.
Check(j) ==
    /\ PeriodOver
    /\ job[j] = "idle"
    /\ listed
    /\ \/ /\ state = "CONNECTED"
          /\ job' = [job EXCEPT ![j] = "timing"]
       \/ /\ state = "WAIT_RECONNECT"
          /\ job' = [job EXCEPT ![j] = "reconnect"]
       \/ /\ state = "CLOSED_ON_ERROR"
          /\ job' = [job EXCEPT ![j] = "errorClose"]
    /\ UNCHANGED <<state, orig, clock, registered, listed, phase, closed, user>>

Silent_OneLater == age > HeartBeatLimit + 1

Silent == age > HeartBeatLimit

CheckTime(j) ==
    /\ job[j] = "timing"
    /\ job' = [job EXCEPT ![j] = IF Silent THEN "lateClose" ELSE "idle"]
    /\ UNCHANGED <<state, orig, clock, registered, listed, phase, closed, user>>

CloseAndWait_NoClose(j) ==
    /\ job[j] \in {"lateClose", "errorClose"}
    /\ job' = [job EXCEPT ![j] = IF orig = NoConn THEN "idle" ELSE NextPc[@]]
    /\ UNCHANGED <<state, orig, clock, registered, listed, phase, closed, user>>

\* close_and_wait_reconnect: close() may block ...  If original_connection becomes
\* None after the test, close() raises and ends the job: as if the test had failed.
CloseAndWait(j) ==
    /\ job[j] \in {"lateClose", "errorClose"}
    /\ job' = [job EXCEPT ![j] = IF orig = NoConn THEN "idle" ELSE NextPc[@]]
    /\ closed' = closed \cup ({orig} \ {NoConn})
    /\ UNCHANGED <<state, orig, clock, registered, listed, phase, user>>

\* ... then original_connection ...
ForgetConnection(j) ==
    /\ job[j] \in {"lateForget", "errorForget"}
    /\ job' = [job EXCEPT ![j] = NextPc[@]]
    /\ orig' = NoConn
    /\ UNCHANGED <<state, clock, registered, listed, phase, closed, user>>

\* ... then the state ...
WaitReconnect(j) ==
    /\ job[j] \in {"lateState", "errorState"}
    /\ job' = [job EXCEPT ![j] = NextPc[@]]
    /\ state' = "WAIT_RECONNECT"
    /\ UNCHANGED <<orig, clock, registered, listed, phase, closed, user>>

\* ... then reconnect_at, computed before close(): part of the wait may be over.
SetDue(j) ==
    /\ \/ /\ job[j] = "lateDue"
          /\ due' \in IF "handler" \in Slow THEN Expired .. HeartBeatWait ELSE {HeartBeatWait}
       \/ /\ job[j] = "errorDue"
          /\ due' = ErrorWait
    /\ job' = [job EXCEPT ![j] = "idle"]
    /\ UNCHANGED <<state, orig, age, registered, listed, phase, closed, user>>

IsDue_Reversed == due > 0

\* get_current_timestamp() > reconnect_at
IsDue == due < 0

\* A dial has to wait for an unused number: the bound on threads.
re_connect(j) ==
    /\ job[j] = "reconnect"
    /\ IsDue /\ state # "CONNECTED" => Unused # {}
    /\ job' = [job EXCEPT ![j] = IF IsDue THEN "connect" ELSE "idle"]
    /\ UNCHANGED <<state, orig, clock, registered, listed, phase, closed, user>>

\* connect, when the time has come
Reconnect(j) ==
    /\ job[j] = "connect"
    /\ job' = [job EXCEPT ![j] = "idle"]
    /\ IF state # "CONNECTED" THEN \E c \in Conn : connect(c) ELSE UNCHANGED phase
    /\ UNCHANGED <<state, orig, clock, registered, listed, closed, user>>

-----------------------------------------------------------------------------
\* What a loop's thread does on its own, and what the library and the server make of it
Runs(c) == \/ CreateApp(c) \/ Register(c) \/ RunForever(c) \/ SetTime(c) \/ SetConnected(c)
           \/ CloseOnError(c) \/ MarkError(c) \/ LoopDown(c) \/ SetIdle(c)
Loop(c) == LoopsTurn(c) /\ (Runs(c) \/ Open(c) \/ Receive(c) \/ Fail(c) \/ Return(c))
User == UsersTurn /\ (\/ Subscribe \/ ListCreated \/ UnlistClosed
                      \/ UserClose \/ UserForget \/ UserClosed)
WatchDog(j) == JobsTurn(j) /\ (\/ Check(j) \/ CheckTime(j) \/ CloseAndWait(j)
                               \/ ForgetConnection(j) \/ WaitReconnect(j) \/ SetDue(j)
                               \/ re_connect(j) \/ Reconnect(j))

Next == \/ Tick
        \/ User
        \/ \E c \in Conn : Loop(c)
        \/ \E j \in Job : WatchDog(j)

Spec == Init /\ [][Next]_vars

\* Time passes, the scheduler keeps running the job, a thread that can run
\* does, a dial comes to an end, and so does a loop whose connection this
\* program has closed.  Nothing obliges the server to answer or the user to
\* unsubscribe.
LoopProgress(c) ==
    /\ LoopsTurn(c)
    /\ \/ Runs(c)
       \/ phase[c] = "dialing" /\ (Open(c) \/ Fail(c))
       \/ c \in closed /\ (Fail(c) \/ Return(c))
UserProgress == UsersTurn /\ (ListCreated \/ UserClose \/ UserForget \/ UserClosed)
Fairness ==
    /\ SF_vars(Tick)
    /\ WF_vars(UserProgress)
    /\ \A c \in Conn : WF_vars(LoopProgress(c))
    /\ \A j \in Job : WF_vars(WatchDog(j))

FairSpec == Spec /\ Fairness

-----------------------------------------------------------------------------
(* Properties.                                                             *)

Unsubscribing == user \in {"removed", "closing", "forgetting", "unsubscribed", "raised"}

\* Until close() has deleted its entry, every connection a thread runs is a key of
\* websocket_connection_handler: no callback is lost to a KeyError.
CallbacksFindManager ==
    user \notin {"forgetting", "unsubscribed"}
        => \A c \in Conn : phase[c] \in InLoop => c \in registered

\* Once on_connection_closed has taken the manager off the watchdog's list, no
\* job of the watchdog takes it up any more, and a thread is started for it only
\* by a job that was already at re_connect and has done with it then: each of
\* them dials once more at most.
NoDialAfterUnsubscribe ==
    [][Unsubscribing =>
         /\ \A j \in Job : job[j] = "idle" => job'[j] = "idle"
         /\ \A c \in Conn : phase[c] = "free" /\ phase'[c] = "spawned"
               => \E j \in Job : job[j] = "connect" /\ job'[j] = "idle"]_vars

\* WAIT_RECONNECT ends: while the manager is listed, the watchdog starts a
\* connection, and a connection that is started opens or fails.
WaitingEnds == (state = "WAIT_RECONNECT" /\ listed) ~> (state # "WAIT_RECONNECT" \/ ~listed)

\* A connection that has been silent for longer than the limit does not stay
\* CONNECTED: a message comes, or the watchdog or the loop changes the state.
SilenceIsNoticed ==
    (state = "CONNECTED" /\ age = Late /\ listed)
        ~> (state # "CONNECTED" \/ age < Late \/ ~listed)

Feeds == {c \in Conn : phase[c] = "up" /\ c \in registered \ closed}

\* At most one open connection calls the user's update callback: no update of
\* the subscription is delivered twice.
OneFeed == Cardinality(Feeds) <= 1

\* Every connection that feeds the callback is the one the manager holds, in
\* state CONNECTED: unsubscribing closes it and the watchdog watches it.
FeedIsWatched == Feeds # {} /\ ~Unsubscribing => Feeds = {orig} /\ state = "CONNECTED"

\* After unsubscribe_all has returned, all the threads of the subscription end.
UnsubscribeStops == (user = "unsubscribed") ~> [](\A c \in Conn : phase[c] = "free")

\* While the user wants the subscription it is never left off for good: again
\* and again it is connected or being dialled.
NeverGivesUp == []<>(state = "CONNECTED" \/ Busy(Dialing) \/ ~listed)

\* "Lost connectiong for %d ms, will try reconnecting" (websocket_manage.py:100):
\* a job that calls close_and_wait_reconnect is followed by a new dial.
WillTryReconnecting ==
    (\E j \in Job : job[j] \in {"lateClose", "errorClose"}) ~> (Busy(Dialing) \/ ~listed)
=============================================================================
