------------------------------ MODULE WatchList ------------------------------
(***************************************************************************)
(* The list of managers that all SubscribeClients share with the watchdog, *)
(* its lock, and the instances of watch_dog_job that walk over the list    *)
(* without taking the lock.  Every client is used by a thread of its own.  *)
(* The life of a single manager is WsConnection's matter: here only as     *)
(* much of it is left as the list's users look at.                         *)
(***************************************************************************)
EXTENDS Naturals, FiniteSets, SequencesExt

CONSTANTS
    Client, \* the SubscribeClients
    Job,    \* instances of the watchdog job that may overlap
    MaxSub, \* bound on the subscriptions of each client
    Nobody  \* no thread

ASSUME ClientAssumption == Nobody \notin Client
ASSUME SubAssumption == MaxSub \in [Client -> Nat]

\* A manager is named by its client and its number there.
Manager == UNION {{u} \X (1 .. MaxSub[u]) : u \in Client}

VARIABLES
    list,    \* websocket_manage_list of the watchdog
    mutex,   \* the thread that holds its lock
    own,     \* each client's own list
    created, \* the number of subscriptions it has made
    pc,      \* where its thread is
    at,      \* the index of its loop over its own list
    aborted, \* an unsubscribe_all of the client has raised
    conn,    \* the state of each manager
    pass     \* each job's walk over the list

vars == <<list, mutex, own, created, pc, at, aborted, conn, pass>>

\* "creating" and "closing" wait for the lock, "appending" and "removing" hold it, and
\* so does "stuck", for ever.
UserPc == {"idle", "creating", "appending", "closing", "removing", "shutting", "stuck"}

\* There is no original_connection, or one that is no key yet ("none"), before the
\* thread has made one and after close_and_wait_reconnect; "open" is one that is dialling
\* or connected, "error" one that is CLOSED_ON_ERROR; a manager is "stranded" when it is
\* CLOSED_ON_ERROR and has none.
Conn == {"unused", "none", "open", "error", "stranded", "closed"}
Unclosable == {"none", "stranded"}

\* A walk: the next index, and (for the properties) the managers that were listed when
\* it began, still are and have not been looked at, and the number of removals since.
NoPass == [next |-> 0, missed |-> {}, removed |-> 0]

Listed == {list[k] : k \in DOMAIN list}
Current(u) == own[u][at[u]]

Init ==
    /\ list = <<>>
    /\ mutex = Nobody
    /\ own = [u \in Client |-> <<>>]
    /\ created = [u \in Client |-> 0]
    /\ pc = [u \in Client |-> "idle"]
    /\ at = [u \in Client |-> 0]
    /\ aborted = [u \in Client |-> FALSE]
    /\ conn = [m \in Manager |-> "unused"]
    /\ pass = [j \in Job |-> NoPass]

-----------------------------------------------------------------------------
(* The thread of client u.                                                 *)

\* execute_subscribe_*, __create_websocket_manage: append to its own list, connect ...
Subscribe(u) ==
    /\ pc[u] = "idle" /\ created[u] < MaxSub[u]
    /\ LET m == <<u, created[u] + 1>> IN
        /\ own' = [own EXCEPT ![u] = Append(@, m)]
        /\ conn' = [conn EXCEPT ![m] = "none"]
    /\ created' = [created EXCEPT ![u] = @ + 1]
    /\ pc' = [pc EXCEPT ![u] = "creating"]
    /\ UNCHANGED <<list, mutex, at, aborted, pass>>

\* Mutants, here and below: a definition as a slip in the code would have it.
Acquire_NoLock(u) ==
    /\ pc[u] \in {"creating", "closing"}
    /\ mutex' = u
    /\ pc' = [pc EXCEPT ![u] = IF @ = "creating" THEN "appending" ELSE "removing"]
    /\ UNCHANGED <<list, own, created, at, aborted, conn, pass>>

\* ... on_connection_created and on_connection_closed: mutex.acquire()
Acquire(u) ==
    /\ pc[u] \in {"creating", "closing"} /\ mutex = Nobody
    /\ mutex' = u
    /\ pc' = [pc EXCEPT ![u] = IF @ = "creating" THEN "appending" ELSE "removing"]
    /\ UNCHANGED <<list, own, created, at, aborted, conn, pass>>

AppendToList_Keeps(u) ==
    /\ pc[u] = "appending"
    /\ list' = Append(list, Last(own[u]))
    /\ pc' = [pc EXCEPT ![u] = "idle"]
    /\ UNCHANGED <<mutex, own, created, at, aborted, conn, pass>>

AppendToList_Twice(u) ==
    /\ pc[u] = "appending"
    /\ list' = list \o <<Last(own[u]), Last(own[u])>>
    /\ mutex' = Nobody
    /\ pc' = [pc EXCEPT ![u] = "idle"]
    /\ UNCHANGED <<own, created, at, aborted, conn, pass>>

AppendToList(u) ==
    /\ pc[u] = "appending"
    /\ list' = Append(list, Last(own[u]))
    /\ mutex' = Nobody
    /\ pc' = [pc EXCEPT ![u] = "idle"]
    /\ UNCHANGED <<own, created, at, aborted, conn, pass>>

\* unsubscribe_all: the loop over its own list, which may be empty
Unsubscribe(u) ==
    /\ pc[u] = "idle" /\ own[u] # <<>>
    /\ pc' = [pc EXCEPT ![u] = "closing"]
    /\ at' = [at EXCEPT ![u] = 1]
    /\ UNCHANGED <<list, mutex, own, created, aborted, conn, pass>>

\* list.remove() raises a ValueError when the manager is not there, and the lock is not
\* released then.
RemoveFromList(u) ==
    /\ pc[u] = "removing"
    /\ IF Current(u) \in Listed
       THEN /\ list' = RemoveFirst(list, Current(u))
            /\ pass' = [j \in Job |-> IF pass[j] = NoPass THEN NoPass
                                       ELSE [next |-> pass[j].next,
                                             missed |-> pass[j].missed \ {Current(u)},
                                             removed |-> pass[j].removed + 1]]
            /\ mutex' = Nobody
            /\ pc' = [pc EXCEPT ![u] = "shutting"]
       ELSE /\ pc' = [pc EXCEPT ![u] = "stuck"]
            /\ UNCHANGED <<list, pass, mutex>>
    /\ UNCHANGED <<own, created, at, aborted, conn>>

Close_OneMore(u) ==
    /\ pc[u] = "shutting"
    /\ conn' = [conn EXCEPT ![Current(u)] = "closed"]
    /\ IF at[u] <= Len(own[u])
       THEN /\ at' = [at EXCEPT ![u] = @ + 1]
            /\ pc' = [pc EXCEPT ![u] = "closing"]
            /\ UNCHANGED own
       ELSE /\ own' = [own EXCEPT ![u] = <<>>]
            /\ pc' = [pc EXCEPT ![u] = "idle"]
            /\ UNCHANGED at
    /\ UNCHANGED <<list, mutex, created, pass, aborted>>

Close_KeepsOwn(u) ==
    /\ pc[u] = "shutting"
    /\ LET m == Current(u) IN
       IF conn[m] \in Unclosable
       THEN /\ aborted' = [aborted EXCEPT ![u] = TRUE]
            /\ pc' = [pc EXCEPT ![u] = "idle"]
            /\ UNCHANGED <<own, at, conn>>
       ELSE /\ conn' = [conn EXCEPT ![m] = "closed"]
            /\ IF at[u] < Len(own[u])
               THEN at' = [at EXCEPT ![u] = @ + 1] /\ pc' = [pc EXCEPT ![u] = "closing"]
               ELSE at' = at /\ pc' = [pc EXCEPT ![u] = "idle"]
            /\ UNCHANGED <<own, aborted>>
    /\ UNCHANGED <<list, mutex, created, pass>>

\* close() raises an AttributeError without a connection and a KeyError for one that is
\* no key: the rest of the loop is left out and the client's list is not cleared.
Close(u) ==
    /\ pc[u] = "shutting"
    /\ LET m == Current(u) IN
       IF conn[m] \in Unclosable
       THEN /\ aborted' = [aborted EXCEPT ![u] = TRUE]
            /\ pc' = [pc EXCEPT ![u] = "idle"]
            /\ UNCHANGED <<own, at, conn>>
       ELSE /\ conn' = [conn EXCEPT ![m] = "closed"]
            /\ IF at[u] < Len(own[u])
               THEN /\ at' = [at EXCEPT ![u] = @ + 1]
                    /\ pc' = [pc EXCEPT ![u] = "closing"]
                    /\ UNCHANGED own
               ELSE /\ own' = [own EXCEPT ![u] = <<>>]
                    /\ pc' = [pc EXCEPT ![u] = "idle"]
                    /\ UNCHANGED at
            /\ UNCHANGED aborted
    /\ UNCHANGED <<list, mutex, created, pass>>

-----------------------------------------------------------------------------
(* The managers' own threads, as WsConnection has them: a thread makes a   *)
(* connection (at first, or when the watchdog has called re_connect),      *)
(* makes it a key and runs it, and it ends in an error.                    *)

Live(m) ==
    /\ \/ conn[m] = "none" /\ conn' = [conn EXCEPT ![m] = "open"]
       \/ conn[m] = "open" /\ conn' = [conn EXCEPT ![m] = "error"]
    /\ UNCHANGED <<list, mutex, own, created, pc, at, aborted, pass>>

-----------------------------------------------------------------------------
(* An instance j of watch_dog_job: an iterator over the list as it is at   *)
(* each step.                                                              *)

Begin(j) ==
    /\ pass[j] = NoPass
    /\ pass' = [pass EXCEPT ![j] = [next |-> 1, missed |-> Listed, removed |-> 0]]
    /\ UNCHANGED <<list, mutex, own, created, pc, at, aborted, conn>>

Treated_ErrorIgnored(s) == IF s = "open" THEN {"open", "none", "stranded"} ELSE {s}

\* What the job does with a manager: nothing, or close_and_wait_reconnect of one that is
\* silent or closed on an error, which skips one without a connection.  The loop of the
\* silent one may write CLOSED_ON_ERROR after it (WsConnection_stuck).
Treated(s) ==
    IF s = "error" THEN {"none"} ELSE IF s = "open" THEN {"open", "none", "stranded"} ELSE {s}

Examine_Skips(j) ==
    /\ pass[j].next \in DOMAIN list
    /\ LET m == list[pass[j].next] IN
        /\ \E s \in Treated(conn[m]) : conn' = [conn EXCEPT ![m] = s]
        /\ pass' = [pass EXCEPT ![j].next = IF conn[m] = "none" THEN @ + 2 ELSE @ + 1,
                                ![j].missed = @ \ {m}]
    /\ UNCHANGED <<list, mutex, own, created, pc, at, aborted>>

Examine(j) ==
    /\ pass[j].next \in DOMAIN list
    /\ LET m == list[pass[j].next] IN
        /\ \E s \in Treated(conn[m]) : conn' = [conn EXCEPT ![m] = s]
        /\ pass' = [pass EXCEPT ![j] = [next |-> @.next + 1, missed |-> @.missed \ {m},
                                         removed |-> @.removed]]
    /\ UNCHANGED <<list, mutex, own, created, pc, at, aborted>>

End(j) ==
    /\ pass[j].next > Len(list)
    /\ pass' = [pass EXCEPT ![j] = NoPass]
    /\ UNCHANGED <<list, mutex, own, created, pc, at, aborted, conn>>

-----------------------------------------------------------------------------
User(u) == \/ Subscribe(u) \/ Acquire(u) \/ AppendToList(u)
           \/ Unsubscribe(u) \/ RemoveFromList(u) \/ Close(u)
WatchDog(j) == Begin(j) \/ Examine(j) \/ End(j)

Next == \/ \E u \in Client : User(u)
        \/ \E m \in Manager : Live(m)
        \/ \E j \in Job : WatchDog(j)

Spec == Init /\ [][Next]_vars

\* The scheduler keeps running the job; a thread that may go on with what it has begun
\* does; the lock is given to one that keeps asking.  Nobody has to subscribe, and no
\* connection to open or fail.
FairSpec ==
    /\ Spec
    /\ \A j \in Job : WF_vars(WatchDog(j))
    /\ \A u \in Client : /\ SF_vars(Acquire(u))
                         /\ WF_vars(AppendToList(u) \/ RemoveFromList(u) \/ Close(u))

-----------------------------------------------------------------------------
(* Properties.                                                             *)

TypeOK ==
    /\ list \in Seq(Manager)
    /\ mutex \in Client \cup {Nobody}
    /\ \A u \in Client : own[u] \in Seq({u} \X (1 .. created[u]))
    /\ \A u \in Client : created[u] \in 0 .. MaxSub[u]
    /\ pc \in [Client -> UserPc]
    /\ aborted \in [Client -> BOOLEAN]
    /\ conn \in [Manager -> Conn]
    /\ \A u \in Client : pc[u] \in {"closing", "removing", "shutting", "stuck"} => at[u] \in DOMAIN own[u]

\* The lock is held by the one thread that is between acquire and release, or by none.
Holding(u) == pc[u] \in {"appending", "removing", "stuck"}
OneHolder == \A u \in Client : Holding(u) <=> mutex = u

\* The watchdog's list holds every manager once that a client has created and not yet
\* taken off: no append or removal of one client is lost to another's.
ToCome(u) == IF pc[u] \in {"creating", "appending"} THEN {Last(own[u])} ELSE {}
TakenOff(u) ==
    IF pc[u] \in {"closing", "removing"} THEN {own[u][k] : k \in 1 .. at[u] - 1}
    ELSE IF pc[u] = "shutting" THEN {own[u][k] : k \in 1 .. at[u]} ELSE {}
ListIsExact ==
    /\ Cardinality(Listed) = Len(list)
    /\ \A u \in Client : ~aborted[u] =>
          {m \in Listed : m[1] = u} = ({own[u][k] : k \in DOMAIN own[u]} \ ToCome(u)) \ TakenOff(u)

\* The lock is lost for good only by a second unsubscribe_all, of a client whose first
\* one broke off: whatever the other clients and the watchdog do meanwhile.
StuckOnlyAfterAbort == \A u \in Client : pc[u] = "stuck" => aborted[u]

\* A walk over the list looks at every manager that was listed when it began and still
\* is, but for at most one for each removal meanwhile (enumerate() over a list that
\* shrinks passes over the one that moves up).
MissesOnePerRemoval ==
    \A j \in Job : pass[j].next > Len(list) => Cardinality(pass[j].missed) <= pass[j].removed

\* A manager that was closed on an error and has its connection does not stay so while
\* it is listed, though a walk may pass over it.  (A stranded one stays so.)
ErrorIsNoticed ==
    \A m \in Manager : (conn[m] = "error" /\ m \in Listed) ~> (conn[m] # "error" \/ m \notin Listed)

\* A client that has subscribed or unsubscribes comes to an end with it, unless the lock
\* was lost.
Waits(u) == pc[u] \in {"creating", "closing"}
EveryoneGetsTheLock ==
    \A u \in Client : Waits(u) ~> (~Waits(u) \/ \E v \in Client : pc[v] = "stuck")
=============================================================================
