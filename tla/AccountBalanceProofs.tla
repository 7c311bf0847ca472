------------------------ MODULE AccountBalanceProofs ------------------------
(***************************************************************************)
(* What get_account_balance returns and what the robot makes of it, for    *)
(* any number of accounts, any order of the answers and any failures.      *)
(***************************************************************************)
EXTENDS AccountBalance, TLAPS

\* A task runs only while run_until_complete waits for it, and what it was
\* answered is its own account's.
TasksInCall ==
    /\ \A a \in Account : task[a].at \in {"sent", "served"} => pc = "asking"
    /\ \A a \in Account : task[a].at = "served" => task[a].data \in had[a] \cup {NoData}

\* The map holds what the tasks that ended well were answered, each once.
MapIsExact ==
    /\ \A k \in DOMAIN ret_map :
          /\ task[ret_map[k].id].at = "ok"
          /\ ret_map[k].data \in had[ret_map[k].id] \cup {NoData}
    /\ \A j, k \in DOMAIN ret_map : ret_map[j].id = ret_map[k].id => j = k
    /\ \A a \in Account : task[a].at = "ok" => \E k \in DOMAIN ret_map : ret_map[k].id = a

IInv ==
    /\ TypeOK
    /\ \A a \in Account : money[a] \in had[a]
    /\ TasksInCall
    /\ pc \in {"asking", "listed"} => MapIsExact
    /\ pc = "listed" => list = ret_map /\ AllEnded
    /\ BalanceIsReal

\* An entry of the list is never the error that NoData stands for.
LEMMA EntryHasData ==
    ASSUME NEW l \in Seq(Entry), NEW k \in DOMAIN l
    PROVE  l[k].data \in Amount /\ l[k].data # NoData
<1>1. l[k] \in Entry
  OBVIOUS
<1>2. l[k].data \in Amount
  BY <1>1 DEF Entry
<1> QED BY <1>2 DEF Amount, NoData

\* An entry of the map is a record of an account and of a balance or an error.
LEMMA MapEntry ==
    ASSUME TypeOK, NEW k \in DOMAIN ret_map
    PROVE  /\ ret_map[k] = [id |-> ret_map[k].id, data |-> ret_map[k].data]
           /\ ret_map[k].id \in Account /\ ret_map[k].data \in Amount \cup {NoData}
<1> DEFINE R == [id : Account, data : Amount \cup {NoData}]
<1>1. ret_map \in Seq(R)
  BY DEF TypeOK
<1> HIDE DEF R
<1>2. ret_map[k] \in R
  BY <1>1
<1> QED BY <1>2 DEF R

\* The first call, for the list of the accounts, and the making of the tasks.
LEMMA GetAccountsKeeps == IInv /\ GetAccounts => IInv'
<1> SUFFICES ASSUME IInv, GetAccounts PROVE IInv'
  OBVIOUS
<1>1. pc = "start" /\ UNCHANGED <<money, list, answer>>
  BY DEF GetAccounts
<1>2. ASSUME NEW accounts \in SUBSET Account, Ask(accounts), ret_map' = <<>> PROVE IInv'
  <2>1. /\ pc' = "asking" /\ had' = [a \in Account |-> {money[a]}]
        /\ task' = [a \in Account |-> [at |-> IF a \in accounts THEN "sent" ELSE "none",
                                       data |-> NoData]]
    BY <1>2 DEF Ask
  <2>2. TypeOK'
    BY <1>1, <1>2, <2>1 DEF IInv, TypeOK, Ended, Amount
  <2>3. MapIsExact' /\ TasksInCall'
    BY <1>2, <2>1 DEF MapIsExact, TasksInCall
  <2> QED BY <1>1, <2>1, <2>2, <2>3 DEF IInv, BalanceIsReal
<1>3. CASE pc' = "asleep" /\ UNCHANGED <<task, had, ret_map>>
  BY <1>1, <1>3 DEF IInv, TypeOK, TasksInCall, BalanceIsReal
<1> QED BY <1>2, <1>3 DEF GetAccounts

\* Money moves: the new balance is one the account has had during the call.
LEMMA TransferKeeps == IInv /\ Transfer => IInv'
<1> SUFFICES ASSUME IInv, Transfer PROVE IInv'
  OBVIOUS
<1>1. UNCHANGED <<pc, task, ret_map, list, answer>>
  BY DEF Transfer
<1>2. money' \in [Account -> Amount]
  <2>1. PICK a \in Account, b \in Account : \E n \in 1 .. money[a] :
              a # b /\ money' = [money EXCEPT ![a] = @ - n, ![b] = @ + n]
    BY DEF Transfer
  <2>2. money \in [Account -> Nat] /\ Amount = Nat
    BY DEF IInv, TypeOK, Amount
  <2>3. PICK n \in 1 .. money[a] : a # b /\ money' = [money EXCEPT ![a] = @ - n, ![b] = @ + n]
    BY <2>1
  <2>4. money[a] - n \in Nat /\ money[b] + n \in Nat
    BY <2>2, <2>3
  <2> QED BY <2>2, <2>3, <2>4
<1>3. /\ had' \in [Account -> SUBSET Amount]
      /\ \A a \in Account : money'[a] \in had'[a] /\ (Calling => had[a] \subseteq had'[a])
  BY <1>2 DEF Transfer, IInv, TypeOK
<1>4. TypeOK'
  BY <1>1, <1>2, <1>3 DEF IInv, TypeOK
<1>5. TasksInCall'
  BY <1>1, <1>3 DEF IInv, TasksInCall, Calling
<1>6. pc \in {"asking", "listed"} => MapIsExact'
  <2> SUFFICES ASSUME pc \in {"asking", "listed"} PROVE MapIsExact'
    OBVIOUS
  <2>1. \A k \in DOMAIN ret_map : ret_map[k].id \in Account
    BY MapEntry DEF IInv
  <2> QED BY <1>1, <1>3, <2>1 DEF IInv, MapIsExact, Calling
<1>7. BalanceIsReal'
  BY <1>1, <1>3, AccountAssumption DEF IInv, BalanceIsReal, Calling
<1> QED BY <1>1, <1>3, <1>4, <1>5, <1>6, <1>7 DEF IInv, AllEnded

\* One task, and what it adds to the map.
LEMMA TaskKeeps ==
    ASSUME IInv, NEW a \in Account, Serve(a) \/ Arrive(a) \/ Raise(a)
    PROVE  IInv'
<1>1. /\ pc = "asking" /\ UNCHANGED <<money, had, pc, list, answer>>
      /\ task \in [Account -> [at : {"none", "sent", "served"} \cup Ended,
                               data : Amount \cup {NoData}]]
      /\ ret_map \in Seq([id : Account, data : Amount \cup {NoData}])
  BY DEF Serve, Arrive, Raise, IInv, TasksInCall, TypeOK
<1>2. CASE Serve(a)
  <2>1. PICK v \in {money[a], NoData} : task' = [task EXCEPT ![a] = [at |-> "served", data |-> v]]
    BY <1>2 DEF Serve
  <2>2. ret_map' = ret_map /\ task[a].at = "sent" /\ v \in Amount \cup {NoData}
    BY <1>2 DEF Serve, IInv, TypeOK
  <2>3. TypeOK'
    BY <1>1, <2>1, <2>2 DEF IInv, TypeOK, Ended
  <2>4. TasksInCall'
    BY <1>1, <2>1 DEF IInv, TasksInCall
  <2>5. MapIsExact'
    BY <1>1, <2>1, <2>2 DEF IInv, MapIsExact
  <2> QED BY <1>1, <2>3, <2>4, <2>5 DEF IInv, BalanceIsReal
<1>3. CASE Arrive(a)
  <2> DEFINE e == [id |-> a, data |-> task[a].data]
  <2>1. /\ task[a].at = "served" /\ ret_map' = Append(ret_map, e)
        /\ task' = [task EXCEPT ![a].at = "ok"]
    BY <1>3 DEF Arrive
  <2>2. e \in [id : Account, data : Amount \cup {NoData}] /\ e.data \in had[a] \cup {NoData}
    BY <1>1, <2>1 DEF IInv, TasksInCall
  <2>3. TypeOK'
    BY <1>1, <2>1, <2>2 DEF IInv, TypeOK, Ended
  <2>4. TasksInCall'
    BY <1>1, <2>1 DEF IInv, TasksInCall
  <2>5. /\ DOMAIN ret_map = 1 .. Len(ret_map) /\ Len(ret_map) \in Nat
        /\ DOMAIN ret_map' = 1 .. Len(ret_map) + 1
        /\ \A k \in DOMAIN ret_map : ret_map'[k] = ret_map[k] /\ ret_map[k].id \in Account
        /\ ret_map'[Len(ret_map) + 1] = e
    <3> DEFINE R == [id : Account, data : Amount \cup {NoData}]
    <3>1. ret_map \in Seq(R) /\ e \in R
      BY <1>1, <2>2
    <3>2. \A k \in DOMAIN ret_map : ret_map[k].id \in Account
      BY MapEntry DEF IInv
    <3> HIDE DEF R, e
    <3> QED BY <3>1, <3>2, <2>1
  <2>6. \A k \in DOMAIN ret_map : ret_map[k].id # a
    <3>1. \A k \in DOMAIN ret_map : task[ret_map[k].id].at = "ok"
      BY <1>1 DEF IInv, MapIsExact
    <3> QED BY <3>1, <2>1 DEF Ended
  <2>7. /\ task'[a].at = "ok"
        /\ \A b \in Account : b # a => task'[b] = task[b]
    BY <1>1, <2>1
  <2> HIDE DEF e
  <2>8. e.id = a
    BY DEF e
  <2>9. MapIsExact'
    <3>1. \A k \in DOMAIN ret_map' : /\ task'[ret_map'[k].id].at = "ok"
                                    /\ ret_map'[k].data \in had[ret_map'[k].id] \cup {NoData}
      BY <1>1, <2>2, <2>5, <2>6, <2>7, <2>8 DEF IInv, MapIsExact
    <3>2. \A j, k \in DOMAIN ret_map' : ret_map'[j].id = ret_map'[k].id => j = k
      BY <1>1, <2>5, <2>6, <2>8 DEF IInv, MapIsExact
    <3>3. \A b \in Account : task'[b].at = "ok" => \E k \in DOMAIN ret_map' : ret_map'[k].id = b
      BY <1>1, <2>5, <2>7, <2>8 DEF IInv, MapIsExact
    <3> QED BY <1>1, <3>1, <3>2, <3>3 DEF MapIsExact
  <2> QED BY <1>1, <2>3, <2>4, <2>9 DEF IInv, BalanceIsReal
<1>4. CASE Raise(a)
  <2>1. /\ task[a].at \in {"sent", "served"} /\ ret_map' = ret_map
        /\ task' = [task EXCEPT ![a].at = "raised"]
    BY <1>4 DEF Raise
  <2>2. TypeOK'
    BY <1>1, <2>1 DEF IInv, TypeOK, Ended
  <2>3. TasksInCall'
    BY <1>1, <2>1 DEF IInv, TasksInCall
  <2>4. MapIsExact'
    BY <1>1, <2>1 DEF IInv, MapIsExact
  <2> QED BY <1>1, <2>2, <2>3, <2>4 DEF IInv, BalanceIsReal
<1> QED BY <1>2, <1>3, <1>4

\* The list is the map, unless an entry of it is an error.
LEMMA BuildListKeeps == IInv /\ BuildList => IInv'
<1> SUFFICES ASSUME IInv, BuildList PROVE IInv'
  OBVIOUS
<1>1. pc = "asking" /\ AllEnded /\ UNCHANGED <<money, had, task, ret_map, answer>>
  BY DEF BuildList
<1>2. CASE NoErrors /\ list' = ret_map /\ pc' = "listed"
  <2>1. ASSUME NEW k \in DOMAIN ret_map PROVE ret_map[k] \in Entry
    <3>1. /\ ret_map[k] = [id |-> ret_map[k].id, data |-> ret_map[k].data]
          /\ ret_map[k].id \in Account /\ ret_map[k].data \in Amount \cup {NoData}
      BY MapEntry DEF IInv
    <3>2. ret_map[k].data # NoData
      BY <1>2 DEF NoErrors
    <3>3. ret_map[k] \in [id : Account, data : Amount]
      BY <3>1, <3>2
    <3> QED BY <3>3 DEF Entry
  <2>2. ret_map \in Seq(Entry)
    BY <2>1 DEF IInv, TypeOK
  <2>3. TypeOK'
    BY <1>1, <1>2, <2>2 DEF IInv, TypeOK
  <2>4. TasksInCall' /\ MapIsExact' /\ AllEnded'
    BY <1>1, <1>2 DEF IInv, TasksInCall, MapIsExact, AllEnded, Ended
  <2> QED BY <1>1, <1>2, <2>3, <2>4 DEF IInv, BalanceIsReal
<1>3. CASE pc' = "asleep" /\ list' = list
  <2>1. TasksInCall'
    BY <1>1, <1>3 DEF IInv, TasksInCall, AllEnded, Ended
  <2> QED BY <1>1, <1>3, <2>1 DEF IInv, TypeOK, BalanceIsReal
<1> QED BY <1>2, <1>3 DEF BuildList

\* What the robot sees of its money is off by half a Grain at most.
LEMMA RoundedNear ==
    ASSUME NEW usdt \in Nat
    PROVE  /\ Rounded(usdt) \in Nat
           /\ 2 * (Rounded(usdt) - usdt) <= Grain /\ 2 * (usdt - Rounded(usdt)) <= Grain
<1> DEFINE n == 2 * usdt + Grain
           w == 2 * Grain
           k == n \div w
<1>1. Grain \in Nat \ {0} /\ n \in Nat /\ w \in Nat \ {0}
  BY AccountAssumption
<1>2. k \in Nat /\ w * k <= n /\ n < w * k + w
  <2> HIDE DEF n, w
  <2> QED BY <1>1
<1>3. Rounded(usdt) = Grain * k
  BY DEF Rounded
<1>4. Grain * k \in Nat /\ w * k = 2 * (Grain * k)
  <2> HIDE DEF k
  <2> QED BY <1>1, <1>2
<1> HIDE DEF k
<1> QED BY <1>1, <1>2, <1>3, <1>4

\* The robot looks for the spot account.
LEMMA GetBalanceKeeps == IInv /\ GetBalance => IInv'
<1> SUFFICES ASSUME IInv, GetBalance PROVE IInv'
  OBVIOUS
<1>1. /\ pc = "listed" /\ pc' = "done" /\ UNCHANGED <<money, had, task, ret_map, list>>
      /\ list = ret_map /\ AllEnded /\ MapIsExact /\ list \in Seq(Entry)
  BY DEF GetBalance, IInv, TypeOK
<1>2. CASE OfSpot(list) = {} /\ answer' = 0
  <2>1. \A k \in DOMAIN list : list[k].id # Spot
    BY <1>2 DEF OfSpot
  <2>2. task[Spot].at \in {"none", "raised"}
    BY <1>1, <2>1, AccountAssumption DEF MapIsExact, AllEnded, Ended
  <2>3. TypeOK' /\ TasksInCall' /\ BalanceIsReal'
    BY <1>1, <1>2, <2>2 DEF IInv, TypeOK, TasksInCall, BalanceIsReal, Amount
  <2> QED BY <1>1, <2>3 DEF IInv
<1>3. ASSUME NEW usdt \in OfSpot(list), answer' = Rounded(usdt) PROVE IInv'
  <2>1. PICK k \in DOMAIN list : list[k].id = Spot /\ usdt = list[k].data
    BY <1>3 DEF OfSpot
  <2>2. list[k].data \in Amount /\ list[k].data # NoData
    BY <1>1, EntryHasData
  <2>3. usdt \in had[Spot] /\ usdt \in Nat
    BY <1>1, <2>1, <2>2 DEF MapIsExact, Amount
  <2>4. /\ answer' \in Nat /\ 2 * (answer' - usdt) <= Grain /\ 2 * (usdt - answer') <= Grain
    BY <1>3, <2>3, RoundedNear, AccountAssumption
  <2>5. TypeOK' /\ TasksInCall'
    BY <1>1, <2>4 DEF IInv, TypeOK, TasksInCall, Amount
  <2>6. BalanceIsReal'
    BY <1>1, <2>3, <2>4 DEF BalanceIsReal
  <2> QED BY <1>1, <2>5, <2>6 DEF IInv
<1> QED BY <1>2, <1>3 DEF GetBalance

\* A call has ended, with or without a result.
LEMMA ReturnKeeps == IInv /\ (Retry \/ Again) => IInv'
<1> SUFFICES ASSUME IInv, Return("start") PROVE IInv'
  BY DEF Retry, Again
<1> QED BY DEF Return, IInv, TypeOK, TasksInCall, BalanceIsReal, Entry, Ended, Amount

\* The variables keep their types, a task runs only while the call waits for it,
\* and the map is exactly what the tasks were answered, in every behaviour.
THEOREM Invariance == Spec => []IInv
<1>1. Init => IInv
  BY AccountAssumption
     DEF Init, IInv, TypeOK, TasksInCall, BalanceIsReal, Amount, Entry, Ended
<1>2. IInv /\ [Next]_vars => IInv'
  <2> SUFFICES ASSUME IInv, [Next]_vars PROVE IInv'
    OBVIOUS
  <2>1. CASE UNCHANGED vars
    BY <2>1 DEF vars, IInv, TypeOK, TasksInCall, MapIsExact, AllEnded, BalanceIsReal
  <2> QED BY <2>1, GetAccountsKeeps, TransferKeeps, TaskKeeps, BuildListKeeps,
             GetBalanceKeeps, ReturnKeeps DEF Next, Run
<1> QED BY <1>1, <1>2, PTL DEF Spec

\* The types of the variables: a list once built holds balances, and no error
\* response among them.
THEOREM TypeCorrect == Spec => []TypeOK
<1>1. IInv => TypeOK
  BY DEF IInv
<1> QED BY <1>1, Invariance, PTL

\* No account is listed twice, and each with a balance that was its own during
\* the call, whatever the order in which the answers arrived.
THEOREM ListIsOwnAndRecent == Spec => []OwnAndRecent
<1>1. IInv => OwnAndRecent
  <2> SUFFICES ASSUME IInv, pc = "listed"
               PROVE  /\ \A j, k \in DOMAIN list : list[j].id = list[k].id => j = k
                      /\ \A k \in DOMAIN list : list[k].data \in had[list[k].id]
    BY DEF OwnAndRecent
  <2>1. MapIsExact /\ list = ret_map /\ list \in Seq(Entry)
    BY DEF IInv, TypeOK
  <2>2. \A k \in DOMAIN list : list[k].data # NoData
    BY <2>1, EntryHasData
  <2> QED BY <2>1, <2>2 DEF MapIsExact
<1> QED BY <1>1, Invariance, PTL

\* What is missing from the list is what failed on the network or was not asked for,
\* and nothing else.
THEOREM OnlyFailuresAreMissing == Spec => []MissingHasFailed
<1>1. IInv => MissingHasFailed
  BY DEF IInv, MissingHasFailed, MapIsExact, AllEnded, Ended
<1> QED BY <1>1, Invariance, PTL

\* The robot takes a balance that the spot account had during the call, rounded to
\* 0.1, or zero when the query for that account failed or the exchange did not list it.
THEOREM RobotsBalanceIsReal == Spec => []BalanceIsReal
<1>1. IInv => BalanceIsReal
  BY DEF IInv
<1> QED BY <1>1, Invariance, PTL
=============================================================================
