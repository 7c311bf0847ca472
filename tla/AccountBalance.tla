--------------------------- MODULE AccountBalance ---------------------------
(***************************************************************************)
(* How the robot learns its balance: reliable_get_balance of               *)
(* my/lessismore.py over AccountClient.get_account_balance, which asks for *)
(* the list of the accounts by a REST call and then for the balance of     *)
(* each, all at once, in tasks on the asyncio loop.  The list may lack     *)
(* accounts, or be empty; the answers come in any order, any of them may   *)
(* fail, and money moves between the accounts in the meantime.             *)
(***************************************************************************)
EXTENDS Integers, Sequences

CONSTANTS
    Account,  \* the accounts of the user
    Spot,     \* the one of type 'spot'
    Total,    \* the money on all of them
    Grain     \* 0.1 usdt

ASSUME AccountAssumption == Spot \in Account /\ Total \in Nat /\ Grain \in Nat \ {0}

VARIABLES
    money,   \* the balance of each account at the exchange
    had,     \* the balances each account has had since the tasks were made
    pc,      \* "start", "asking", "listed", "asleep" or "done"
    task,    \* async_get_account_balance of each account
    ret_map, \* account_balance_json_map: what has arrived, in that order
    list,    \* account_balance_list, the value of get_account_balance
    answer   \* the value of get_balance

vars == <<money, had, pc, task, ret_map, list, answer>>

Amount == Nat
NoData == -1       \* "data" of an error, and the answer before there is one
Entry == [id : Account, data : Amount]
Ended == {"ok", "raised"}

Init ==
    /\ money = [a \in Account |-> IF a = Spot THEN Total ELSE 0]
    /\ had = [a \in Account |-> {money[a]}]
    /\ pc = "start"
    /\ task = [a \in Account |-> [at |-> "none", data |-> NoData]]
    /\ ret_map = <<>>
    /\ list = <<>>
    /\ answer = NoData

Calling == pc \in {"asking", "listed", "done"}

\* The owner, or an order, moves money from one account to another.
Transfer ==
    /\ \E a, b \in Account : \E n \in 1 .. money[a] :
          /\ a # b
          /\ money' = [money EXCEPT ![a] = @ - n, ![b] = @ + n]
    /\ had' = [a \in Account |-> (IF Calling THEN had[a] ELSE {}) \cup {money'[a]}]
    /\ UNCHANGED <<pc, task, ret_map, list, answer>>

-----------------------------------------------------------------------------
(* get_account_balance.                                                    *)

\* What check_response tells apart in a response.
Response == [status : {"none", "ok", "error", "other"},
             code : {"none", "200", "500"}, success : {"none", "true", "false"}]
Passes(r) ==
    \/ r.status = "ok"
    \/ r.status = "none" /\ r.code = "200"
    \/ r.status = "none" /\ r.code = "none" /\ r.success = "true"

\* A task for each account of a list.
Ask(accounts) ==
    /\ pc' = "asking"
    /\ task' = [a \in Account |-> [at |-> IF a \in accounts THEN "sent" ELSE "none",
                                   data |-> NoData]]
    /\ had' = [a \in Account |-> {money[a]}]

\* Mutants, here and below: a definition as a slip in the code would have it.
GetAccounts_KeepsMap ==
    /\ pc = "start"
    /\ \E r \in Response, accounts \in SUBSET Account :
          IF Passes(r) THEN Ask(accounts) ELSE pc' = "asleep" /\ UNCHANGED <<task, had>>
    /\ UNCHANGED <<money, ret_map, list, answer>>

\* get_accounts, by RestApiSyncClient, which raises what check_response does; then
\* a task for each account it listed and an empty map.
GetAccounts ==
    /\ pc = "start"
    /\ \E r \in Response, accounts \in SUBSET Account :
          IF Passes(r) THEN Ask(accounts) /\ ret_map' = <<>>
                       ELSE pc' = "asleep" /\ UNCHANGED <<task, had, ret_map>>
    /\ UNCHANGED <<money, list, answer>>

\* The exchange answers for account a, with its balance or with an error (of the
\* rate limit, say), which is a response too.
Serve(a) ==
    /\ task[a].at = "sent"
    /\ \E v \in {money[a], NoData} : task' = [task EXCEPT ![a] = [at |-> "served", data |-> v]]
    /\ UNCHANGED <<money, had, pc, ret_map, list, answer>>

\* The answer arrives; check_response is not asked.
Arrive(a) ==
    /\ task[a].at = "served"
    /\ task' = [task EXCEPT ![a].at = "ok"]
    /\ ret_map' = Append(ret_map, [id |-> a, data |-> task[a].data])
    /\ UNCHANGED <<money, had, pc, list, answer>>

\* The network fails the task; asyncio.wait keeps its exception and nobody looks.
Raise(a) ==
    /\ task[a].at \in {"sent", "served"}
    /\ task' = [task EXCEPT ![a].at = "raised"]
    /\ UNCHANGED <<money, had, pc, ret_map, list, answer>>

AllEnded_Well == \A a \in Account : task[a].at \in {"none", "ok"}

\* run_until_complete(asyncio.wait(tasks)); of no tasks, it raises a ValueError, which
\* is printed and passed over.
AllEnded == \A a \in Account : task[a].at \in {"none"} \cup Ended

NoErrors == \A k \in DOMAIN ret_map : ret_map[k].data # NoData

BuildList_SkipsErrors ==
    /\ pc = "asking" /\ AllEnded
    /\ list' = SelectSeq(ret_map, LAMBDA e : e.data # NoData) /\ pc' = "listed"
    /\ UNCHANGED <<money, had, task, ret_map, answer>>

\* json_parse returns None for a response without data, and the assignment to
\* subtype raises.
BuildList ==
    /\ pc = "asking" /\ AllEnded
    /\ IF NoErrors
       THEN list' = ret_map /\ pc' = "listed"
       ELSE pc' = "asleep" /\ UNCHANGED list
    /\ UNCHANGED <<money, had, task, ret_map, answer>>

-----------------------------------------------------------------------------
(* The robot.                                                              *)

OfSpot_Any(l) == {l[k].data : k \in DOMAIN l}

\* The balances in the list that get_balance looks at
OfSpot(l) == {l[k].data : k \in {j \in DOMAIN l : l[j].id = Spot}}

\* float_1f: the nearest multiple of Grain
Rounded(usdt) == Grain * ((2 * usdt + Grain) \div (2 * Grain))

\* get_balance starts from zero and keeps what the spot account overwrites; of an
\* empty list it answers zero at once.
GetBalance ==
    /\ pc = "listed"
    /\ pc' = "done"
    /\ IF OfSpot(list) = {} THEN answer' = 0
       ELSE \E usdt \in OfSpot(list) : answer' = Rounded(usdt)
    /\ UNCHANGED <<money, had, task, ret_map, list>>

\* The call has ended: what it kept on its stack is gone (ret_map, too, is a new
\* one in the next call, see GetAccounts).
Return(next) ==
    /\ pc' = next
    /\ task' = [a \in Account |-> [at |-> "none", data |-> NoData]]
    /\ had' = [a \in Account |-> {money[a]}]
    /\ list' = <<>> /\ answer' = NoData
    /\ UNCHANGED <<money, ret_map>>

\* reliable_get_balance: whatever it was, again in 5 seconds; or run() goes on and
\* calls it again some time.
Retry == pc = "asleep" /\ Return("start")
Again == pc = "done" /\ Return("start")

Run == GetAccounts \/ BuildList \/ GetBalance \/ Retry
Next == Transfer \/ Run \/ Again \/ \E a \in Account : Serve(a) \/ Arrive(a) \/ Raise(a)

Spec == Init /\ [][Next]_vars

\* The thread runs, and every request is answered or times out.
FairSpec == /\ Spec /\ WF_vars(Run)
            /\ \A a \in Account : WF_vars(Serve(a) \/ Arrive(a) \/ Raise(a))

-----------------------------------------------------------------------------
(* Properties.                                                             *)

TypeOK ==
    /\ money \in [Account -> Amount]
    /\ had \in [Account -> SUBSET Amount]
    /\ pc \in {"start", "asking", "listed", "asleep", "done"}
    /\ task \in [Account -> [at : {"none", "sent", "served"} \cup Ended,
                             data : Amount \cup {NoData}]]
    /\ ret_map \in Seq([id : Account, data : Amount \cup {NoData}])
    /\ list \in Seq(Entry)
    /\ answer \in Amount \cup {NoData}

\* No account is in the list twice, and each is there with a balance that was its
\* own at a time during the call: not another's, whatever the order in which the
\* answers came, and not one of an earlier call.
OwnAndRecent ==
    pc = "listed" =>
        /\ \A j, k \in DOMAIN list : list[j].id = list[k].id => j = k
        /\ \A k \in DOMAIN list : list[k].data \in had[list[k].id]

\* An account is missing from the result only if its request failed on the network or
\* was never made, the exchange having left the account out of its list.
MissingHasFailed ==
    pc = "listed" => \A a \in Account :
        (\A k \in DOMAIN list : list[k].id # a) => task[a].at \in {"none", "raised"}

\* The robot takes for its balance one that the spot account had during the call,
\* rounded, or zero when the request for that account failed or was never made.
BalanceIsReal ==
    pc = "done" => \/ \E usdt \in had[Spot] : /\ 2 * (answer - usdt) <= Grain
                                             /\ 2 * (usdt - answer) <= Grain
                   \/ answer = 0 /\ task[Spot].at \in {"none", "raised"}

\* A call of get_account_balance comes to an end.
CallEnds == (pc = "asking") ~> (pc # "asking")
=============================================================================
