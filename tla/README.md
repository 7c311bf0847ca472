# Formal models of the Huobi SDK and its trading robot

This directory holds TLA+ specifications of this repository: the WebSocket
connections of the SDK (`huobi/connection`), the calls of every operation of its
nine clients (`huobi/client`, `huobi/service`), the concurrent balance query of the
account client, and the trading robot built on the SDK (`my/`). TLC checks them on
small instances; TLAPS proves the theorems for every value of the
constants. Source paths below are relative to `src/`.

## 1. Inventory of the system

| Part | State it keeps | Operations | Talks to |
|---|---|---|---|
| WebSocket manager `huobi/connection/impl/websocket_manage.py` | `state`, `original_connection`, `last_receive_time`, `reconnect_at`; the global `websocket_connection_handler` | `connect`, `re_connect`, `close`, `close_and_wait_reconnect`, `close_on_error`, the callbacks `on_open`, `on_message`, `on_failure` and the thread function `websocket_func` | the library's `WebSocketApp` (one thread per dial), the watchdog, the user's callbacks |
| Watchdog `websocket_watchdog.py` | one list of managers and one lock for the whole process, limits | `watch_dog_job` every second (up to 10 overlapping), `on_connection_created`, `on_connection_closed` | every listed manager, without a lock on it |
| Subscribe client `subscribe_client.py` | its own list of managers | `execute_subscribe_*`, `unsubscribe_all` | managers, watchdog |
| Request client `websocket_req_client.py` | none | `execute_subscribe_*` with `auto_close` | a manager that no watchdog watches |
| WebSocket services `huobi/service/**/sub_*`, `req_*` | none | a subscription handler that sends one request per topic, a parser | the manager, on its event-loop thread |
| Clients `huobi/client/*` | their keyword arguments | 105 operations: check the arguments, put them into a dictionary, call a service | services |
| REST services `huobi/service/**` | none | a method, a path, a parser | REST client |
| REST client `restapi_sync_client.py`, `restapi_invoker.py` | an HTTP session | build, sign, call, `check_response`, parse | the exchange |
| Account client's fan-out `client/account.py:56-105` | a map of answers while it runs | one asyncio task per account | the exchange |
| Utilities, models, constants, exceptions | none | argument checks, JSON to objects, signatures, channel names | - |
| Robot `my/lessismore.py` | position, last direction, `_need_monitor` | `run()` every 30 s; `buy_done`, `sell_done`; three retry loops | clients, journal |
| Journal `my/lessdb.py` | a SQLite table of trades | insert, read the last row of an operation | disk: survives a crash |
| Candle window `my/organized.py` | lists of prices, MACD | `get_latest_first_hist_position`, indicators by talib | the robot |
| Configuration, performance tools, examples, tests | - | scripts | - |

**What is hard here.**

* *Threads without locks.* A manager is written by the user's thread, by one
  event-loop thread per dial and by up to ten instances of the watchdog's job.
  The watchdog's mutex protects only its list, and the job walks over the list
  without it. `connect` leaves the state as it is until `on_open`;
  `close_and_wait_reconnect` closes, then forgets, then changes the state, and
  the closing may block. `websocket_func` sets `original_connection`, makes it a key and
  runs it in three statements, and each reads it again.
* *Exceptions between two steps.* `unsubscribe_all` may break off in its loop; the
  lock is not released when the removal raises.
* *Time.* Reconnecting depends on timestamps; on the error path a duration is
  passed where a timestamp is meant (`websocket_watchdog.py:27`).
* *A protocol told apart by a chain of tests.* `on_message` recognises three
  dialects by the keys that are present, and so does `check_response`; what no branch
  takes is lost or misread.
* *Partial failure.* A request may be carried out and its answer lost, or not
  parse. `asyncio.wait` keeps the exceptions of its tasks; the account that
  failed is missing.
* *Rounding.* The robot sees its money rounded to 0.1 usdt, which may be more than it has,
  and books what it asked for.
* *Many operations, one path.* An argument crosses the client's check, its
  dictionary, the service and the builder of the url or the body; at each of these it can be
  dropped, renamed or refused.
* *Crash and restart.* The robot's truth is in two places, the exchange and a
  journal written after the order and after a balance query that may be retried
  for long. What it does after a restart depends on rows and coins agreeing.

**What makes each part correct.** Connections: an outage ends in a new dial, at
most one connection feeds the callback and the manager holds it, unsubscribing
ends everything, no callback loses its manager. The shared list: exact, whoever
subscribes and unsubscribes, and nobody is locked out of it. Session: each topic is
asked for once per connection, after the sign-in, in order; updates are neither lost
nor reordered; pings are answered; a request has one answer; refusals are reported.
Calls: what the caller gives reaches the exchange; what the documentation allows is
not refused; what the caller concludes from the outcome is true; an order that
identifies itself is placed once. Balance: each entry is the account's own and recent;
nothing goes missing but what failed; the caller returns. Robot: one order per LONG
period whatever is restarted; the journal describes the account, but for what rounding may cost; the plan can be paid;
coins are sold only at the configured profit. Candle search: the candle found opens
the latest run, and 0 means that the run goes back to the beginning or there is none.

## 2. Modules

| Module | Models | Proofs | Runs |
|---|---|---|---|
| `WsConnection` | one subscription: manager, threads, watchdog, user | `WsConnectionProofs`, `WsConnectionBothProofs` | `WsConnection` (`MCWsConnectionBoth`), `WsConnection_stuck` (`MCWsConnection`) |
| `Feed` | what a subscription promises its user; implemented by `WsConnection` | `WsConnectionBothProofs` | `WsConnection` |
| `WatchList` | the list all subscribe clients share with the watchdog, its lock, `unsubscribe_all` over several managers | `WatchListProofs` | `WatchList` (`MCWatchList`) |
| `WsSession` | the conversation with the server over successive connections | `WsSessionProofs` | `WsSession`, `WsSession_symbols`, `_refusal` (`MCWsSession`) |
| `RestApi` | the vocabulary of the operations: checks, parsers, services, requests | - | below |
| `TradeClient`, `AlgoClient`, `AccountClient`, `MarginClient`, `WalletClient`, `SubuserClient`, `MarketClient`, `GenericClient`, `EtfClient` | every operation of the client of that name with its services and channels | - | `RestCall`, and the feeds in `WsSession` |
| `RestCall` | one call of any of these operations, and its repetitions | `RestCallProofs` | `RestCall` (`MCRestCall`) |
| `Call` | what a call promises its caller; implemented by `RestCall` | `RestCallProofs` | `RestCall` |
| `AccountBalance` | the fan-out of balance queries and the robot's retry loop around it | `AccountBalanceProofs` | `AccountBalance` (`MCAccountBalance`) |
| `Lessismore` | the robot, its journal, the exchange as the robot sees it | `LessismoreProofs` | `Lessismore` (`MCLessismoreBoth`), `_restart`, `_blind` (`MCLessismore`) |
| `HistPosition` | `get_latest_first_hist_position` | `HistPositionProofs` | `HistPosition` |

The modules meet in these places: the operations of the client modules are the
constant `Clients` of `RestCall`, and what their services make of client, version,
channel and `is_trading` is the constant `Kind` of `WsSession`. A feed's call ends, in `RestCall`,
where its manager is created: what becomes of the manager is `WsConnection`'s,
and of several of them `WatchList`'s matter. `WsSession` takes reconnecting as one
action and `WsConnection` takes messages as one.

Definitions named `X_Something` beside a definition `X` are mutants: `X` with a
plausible slip. Each property has one that breaks it; the specification uses
none of them.

### WsConnection and Feed

State: `state`, `orig` (`original_connection`), `age` (now minus
`last_receive_time`) and `due` (`reconnect_at` minus now) of the manager,
`registered` (the keys of `websocket_connection_handler`), `listed` (in the
watchdog's list), and for each thread where it is: `phase[c]` for the event loop
of connection `c`, `user`, `job[j]`.

No function of the manager is one action: each write to the shared object is a step of its
own, and so is each read that a later write depends on. What may come between two of them is the
constant `Slow`. A call that can block (`close()`, a dial, the user's handler) always
leaves room for the other threads; between two statements that cannot block they come in
only when `Slow` has `"preempt"`. `"dial"` and `"handler"` say that dials and handlers
may outlast a period of the watchdog.

| Action | Code |
|---|---|
| `Subscribe`, `ListCreated` | `SubscribeClient.__create_websocket_manage` |
| `CreateApp` (44), `Register` (49), `RunForever` (51-52) | `websocket_func`; if `original_connection` has become None or another's, that is what is registered or run |
| `Open` (126), `SetTime` (127), `SetConnected` (128) | `on_open` |
| `Receive`, `Fail`, `Return` | `on_message`, `on_error`, `on_close` |
| `LoopDown`, `SetIdle` (54-55) | the end of `websocket_func` |
| `CloseOnError`, `MarkError` | `on_failure`, `close_on_error` (277-279) |
| `Check`, `CheckTime`, `CloseAndWait` (95-96), `ForgetConnection` (97), `WaitReconnect` (98), `SetDue` (99), `re_connect`, `Reconnect` | an instance of `watch_dog_job` |
| `UnlistClosed`, `UserClose` (119), `UserForget` (120), `UserClosed` (121) | `unsubscribe_all`, `close` |
| `Tick` | one second |

Three places read `original_connection` more than once and are one step all the same. At lines 95
and 96, and 278 and 279, the test is followed by the use: a None that arrives in between makes
`close()` raise, the job or the callback ends there and nothing has been written, which is
how it ends when the test fails. Lines 51 and 52 read it once here for an argument and the call.

Time is relative and cut off where the code stops distinguishing values, so the
state space is finite without a bound on time. A connection number is free again
once its thread is gone, so `Conn` bounds only how many threads run at once.

`Feed` has a source of updates and a wish: a source starts when there is none,
stops, and once the wish is withdrawn (which needs that there is none) never starts
again. `KeepsPromise` maps the connection that feeds the callback to the source and
`unsubscribe_all` having returned to the withdrawn wish.

### WatchList

Each client is used by a thread of its own: `Subscribe`, `Acquire` and
`AppendToList` are `__create_websocket_manage` with `on_connection_created`;
`Unsubscribe`, `Acquire`, `RemoveFromList` and `Close` are `unsubscribe_all` with
`on_connection_closed`, a manager at a time. The two exceptions are in the model:
`close()` of a manager without a connection, or with one that is no key yet (`aborted`), and `list.remove` of a
manager that is not in the list, which leaves the lock held (`"stuck"`).
`Begin`, `Examine`, `End` are the job's walk with an index over a list that changes under
it. Of a manager only `conn` is left; `"stranded"` is what `WsConnection_stuck` shows, a
manager CLOSED_ON_ERROR without a connection, which the job leaves as it is
(`websocket_manage.py:95`). `pass[j].missed` and `.removed` are history
variables.

In the repository the services drop the `SubscribeClient` they make, so that
`unsubscribe_all` is reached only by a program that uses `SubscribeClient` itself.

### WsSession

One behaviour is one subscription or request, of one of the kinds the
services make (`MCWsSession` computes them from the client modules). `toServer` and
`toClient` are the frames on the way, `server` is what the server knows of this
connection. Updates and pings are numbered, which is all the properties need. `Open`
signs in or starts the subscription handler; without keys, for an unknown version or on a
link that has gone it calls the error handler and leaves the connection open, unsigned. `Subscribe` is one turn of the handler's loop (it
can find the link gone). A message carries what the server means by it, which the properties read,
and the dialect it is written in; `Keys` is what the dialect makes of the meaning, the keys
`on_message` tests, and `Dispatch` is its chain of tests over these keys (with `OnOp`, `OnAction` and `Failure`).
`OnAuth`, `OnLog`, `OnFailure`, `OnPing`, `Receive` are what the branches do; that a
ping is answered, or an update delivered, depends on the chain taking it there.
`OnFailure` can raise before it calls the handler, by a numeric `err-code` or one that is a word where
a status is missing; `Deliver` is `__on_receive` with `auto_close`. How the
watchdog comes to reconnect is WsConnection's matter, here it is one action,
`Reconnect`. The server and the network are external: `Serve`, `Push`, `PushBlank` (an update of the
second version without data, which is only logged), `Ping`, `Drop`;
each line of the server understands channels of its own (`Dialect`).

### RestApi, the clients and RestCall

An operation is data: what it takes, the checks it makes in their order, the keys it
puts into the request, and the service. A service is a method, a path (with the
parameter in it), a parser and what the parser is given when the reply has no `data`;
or, for a feed, a client, a version, a line and a channel. An argument has one of six
values, which is what the checks tell apart: absent; unfit; fit; crooked, a name with a bad
character behind a good start, which `re.match` lets pass (`input_checker.py:12`); and,
for the type of an order, a market or a limit order. A check is the combination of values it refuses and the exceptions it does that by (a limit order needs a price). An operation can
withhold an argument: on a market order the code sets the price to None. A parser is a table from the shape of the data to a value, None or an
exception.

| Action of RestCall | Code |
|---|---|
| `Refuse` | a check of the client raises |
| `Subscribe` | the service of a feed: `execute_subscribe_*` |
| `Send` | `create_request`, `create_request_post_batch`, `put_url`, `put_post`, the signature's need of the keys |
| `Receive` | `call_sync`: `json.loads`, `check_response` with `etf_result_check`, the service's parser |
| `CarryOut`, `Answer`, `Break` | the exchange and the network (external) |
| `Repeat` | a caller who calls again because the outcome leaves open what happened |

A parser's exception is an AttributeError or a TypeError, and so is a client's: the
caller sees the same name, so that these names tell him nothing. Of what comes back the model
has the answers of the exchange, the page of a gateway, and JSON that is no
object, whose status is a number, or whose code is a word.

A call that is repeated starts afresh: what becomes of an earlier request still under way is
then not followed any more.

Four constants are read off the operations and their documentation. `Needed` is in which calls an argument is
mandatory, where the docstring says more than the signature: a price with a limit order
only, and never the currency that `wallet.py:91` calls optional. The other three name the operations for which a promise does not hold, so that it is checked
for all others: `Kept` (arguments that do not reach the exchange), `Unguarded`
(operations that do not check what they put into the path), `Refusing` (arguments the
code refuses although the documentation allows them). Section 3 lists what they hold.

`Call` is the contract: a call is carried out or not; the caller comes to know that it
was, that it was not and never will be, or does not know, and only in that case repeats it.

### AccountBalance

`GetAccounts` is the first REST call with everything `check_response` tells
apart; the list it returns may lack accounts, or be empty, when `asyncio.wait` of no tasks raises and
the exception is printed and passed over. Each account listed then has a task: `Serve` (external), `Arrive`
(`async_get_account_balance`), `Raise`. `BuildList` is the loop that parses the
map, `GetBalance` (with `float_1f` as `Rounded`) and `Retry` are the robot's. `had` is a history variable: the
balances each account has had since the tasks were made.

### Lessismore

`ReadCandles`, `Decide`, `ExecuteBuy` / `ExecuteSell`, `BuyBalance` /
`SellBalance`, `BuyRecord` / `SellRecord` are `run()` cut where it calls the
exchange or the journal, so that the market, the owner and a crash can come in
between. `Decide` contains the whole decision, with every early return. The journal is
reduced to the last BUY_DONE and SELL_DONE row, which is all the robot reads.
`Fault` says what may go wrong; each run names its choice. Money and coins are
integers: `Scale` coins cost one unit of money at price 1, and is a multiple of
all prices so that what is bought divides exactly; no price is above it, so that a unit
of money always buys something. `Grain` units are 0.1 usdt: the robot sees its
money rounded to it (`Rounded`, `float_1f`, `lessismore.py:125-126,162`), down or up. An
order beyond the account is refused as "not enough" and reduced until it passes (198-205):
`ExecuteBuy` spends what there is, while `BuyBalance` books what was asked for (229).

### HistPosition

The two loops of the search, one action per turn, over histograms reduced to
their signs.

## 3. Runs

Two runs look at several *worlds* of one component, told apart by a variable that never
changes (`pace`, `world`): a harsh one, in which everything goes wrong that can, and
one that keeps to what the code can stand; the connection has a third between them.
Properties that hold in all are checked in all; those named `...IfPrompt`, `...IfFast` and `...IfMild` only
in the milder ones.

| World of `WsConnection` | `Slow` | `Fault` | Also holds there |
|---|---|---|---|
| slow | dials, handlers | all | - |
| switching | preemption | failed dials, broken links | `OneFeed`, `FeedIsWatched`, `Feed` |
| prompt | nothing | failed dials, broken links | these, `UnsubscribeStops`, `NeverGivesUp` |

In switching, `NeverGivesUp` fails by a switch of threads between lines 54 and 55 (the old
loop writes IDLE over what the job has written), and `UnsubscribeStops` by a
`close()` that comes before `run_forever`. With dials, handlers *and* preemption in `Slow` nothing
is promised but `TypeOK` and `NoDialAfterUnsubscribe`, which are proved for any `Slow`:
two threads between lines 44 and 52 run a connection that is no key, and `close()`
raises a KeyError there; and the interleaving 126, 97-98, 128 leaves CONNECTED without a connection, which
line 95 then skips for ever. So `CallbacksFindManager`, `WaitingEnds` and `SilenceIsNoticed` hold in the three worlds and not
in every interleaving. These are listed as hazards.

Runs that must pass:

| Run | Instance | Shows |
|---|---|---|
| `WsConnection` | 2 connections, 1 job, limit 2, delay 3; the three worlds above | all: `CallbacksFindManager`, `NoDialAfterUnsubscribe`, `WaitingEnds`, `SilenceIsNoticed`; switching and prompt: `OneFeedIfFast`, `FeedIsWatchedIfFast`, and `KeepsPromise` (it implements `Feed`); prompt: `UnsubscribeStopsIfPrompt`, `NeverGivesUpIfPrompt` |
| `WatchList` | 2 clients with 2 and 1 subscriptions, 1 job | `TypeOK`, `OneHolder`, `ListIsExact`, `StuckOnlyAfterAbort`, `MissesOnePerRemoval`, `ErrorIsNoticed`, `EveryoneGetsTheLock` |
| `WsSession` | 2 topics, 3 updates, 2 pings, 2 broken links; every kind of feed the services make, with and without keys; refusals, updates without data | `TypeOK`, `AsksOnce`, `SignedInFirst`, `DeliversInOrder`, `AnswersPings`, `OneAnswer`, `Resubscribes` |
| `RestCall` | every operation of the nine clients; up to 2 arguments out of place; with and without keys; up to 3 calls | `PlacedOnce`, `CarriesArguments`, `PathIsWhole`, `DocumentedUseIsSent`, and `ImplementsCall` |
| `AccountBalance` | 3 accounts, 2 units of money moving between them, rounded to even numbers; lists that lack accounts | `OwnAndRecent`, `MissingHasFailed`, `BalanceIsReal`, `CallEnds` |
| `Lessismore` | mild: 3 prices, 3 shares of 1.2 usdt and more, 3.85 usdt in steps of 0.01, 4 candles, 4 orders, moving market, refusals, crashes outside a trade; hard: 2 prices, 3 shares, 5 units, 3 candles, 3 orders, every fault | both: `TypeOK`, `RepeatedAtMostOnce`; mild: `OncePerPeriod`, `BooksMatch`, `PlanIsAffordable`, `SellsAtProfit` |
| `HistPosition` | every histogram of 1 to 7 candles, both directions | `OpensLatestRun`, `ZeroMeansBeginning` |

The type invariants of `WsConnection`, `RestCall`, `AccountBalance` and `HistPosition`, and
`OutcomeTellsEffect` of `RestCall` (which `ImplementsCall` contains), are proved and not checked
again.

Runs that must find a violation, each a disagreement between the code and
something the repository says of it:

| Run | Says | Does |
|---|---|---|
| `WsConnection_stuck` | "Lost connectiong for %d ms, will try reconnecting" (`websocket_manage.py:100`) | an error in the loop of the connection that the job is closing for silence leaves CLOSED_ON_ERROR with no connection: it is never dialled again |
| `WsSession_symbols` | "Use comma to separate multi symbols" (`client/market.py:75`) | a request is closed after the first answer |
| `WsSession_refusal` | "The error handler will be called if subscription failed" (`client/trade.py:63`) | on the second version's line a refusal is only logged |
| `Lessismore_restart` | "check whether it has been bought already, because the program may have been restarted" (comment at `my/lessismore.py:461`) | a crash between order and row: the period is bought twice |
| `Lessismore_blind` | "the profit must be at least this many points before the position is closed" (`my/config.xml:17`) | a balance without the spot account records a cost average of 0, and the coins are later sold at a loss |

Further disagreements were met while modelling and have no run of their own.

* Behind `Refusing`: `algo.py:108` calls `check_time_in_force` without its second
  argument, so that every conditional order with a `time_in_force` raises a
  TypeError; the documentation of `batch_create_order` (`trade.py:477-486`) lists neither the
  `account_id` nor the `source` the code requires (`trade.py:497`, `500`); `account.py:350` calls `upper()` on an optional
  argument; `margin.py:159` and `wallet.py:94` check an argument their docstrings call optional.
* Behind `Kept`: `batch_create_order` reads `stop-price` (`trade.py:503`) where its
  documentation says `stop_price`, and nothing reads the `account_type` it documents; `req_mbp` ignores `auto_close` (`market.py:470`);
  `margin.py:342` sends the currency only if there is an account id. The other entries
  are arguments that are checked or used on the result and not sent.
* Behind `Unguarded`: `post_cancel_withdraw` (`wallet.py:73`) puts an id into the path it does
  not check for None.
* In the tables of `RestApi` and `RestCall`: a bad level of `sub_mbp_full` raises a TypeError instead of an
  InputError, because the message joins numbers (`input_checker.py:61`), and so does a size that is no number (`input_checker.py:42`); `get_account_point` cannot parse
  a non-empty list of groups; refusals with a null message and most refusals of the ETFs come out
  as a TypeError.
* `HistPosition`: a run that opens at candle 1 is answered by 0, as if it opened at candle 0,
  because the loop ends before it looks there (`organized.py:106-117`; a histogram of -1, 1 shows it). With talib the first 33
  values are NaN, which goes against nothing.
* `Lessismore`: `buy_done` books the amount asked for and not the amount reduced
  (`lessismore.py:229`): the row overstates by up to 0.05 usdt what an order that emptied the account has cost.
* `private_def.py:11` promises that after an error the connection "will connect after
  setting times"; the watchdog passes the duration itself as a time (`ErrorWait` in
  WsConnection), so it reconnects at the next job.
* `OncePerPeriod` ("buy only once in each period", `my/lessismore.py:475`) fails with
  `"lostAnswer"` in `Fault` as it does with a crash; `RepeatedAtMostOnce` says how far.

**Why the bounds are enough.** *WsConnection*: two connections are an old and a new
one; with prompt threads TLC finds no state with more than two threads even when
three are allowed. The proofs about the milder worlds are for any number. The limit and the delay matter through their order only, and both the
expired and the waiting side of each test occur. *WatchList*: two managers of one
client let an unsubscribe_all break off between them, the manager of the other client is the one a walk
passes over. A second walk adds nothing to what can happen to the list, which walks
do not change. *WsSession*: two topics let the first answer overtake the
second request and let the link break between them; updates and pings can be
swapped; two breaks give a connection that was itself a replacement. *RestCall*: the checks look at one argument
or two together (a price and the type of the order), so two out of place meet every pair; three
calls let an order be carried out late, after its repetition. *AccountBalance*: three
accounts give all orders of arrival with two failing; two units tell a stale balance
from a moved one. *Lessismore*: four candles hold two periods of either direction,
three shares the first, a middle and the last of the plan, four orders a round trip
and a second purchase. The deposit is one that rounding raises above the account, in steps fine enough
that an order is beyond it by less than half a `Grain`. *HistPosition*: the proofs cover every length.

**Fairness.** `WsConnection`: time passes and threads run; a dial ends one way or
the other; a connection *this program* has closed ends. Nothing obliges the server
to answer or the user to unsubscribe. Strong fairness is asked of `Tick` alone, which
is disabled while handlers that are not slow are at work and enabled again after
each. `WatchList`: the scheduler runs the job, a client goes on with what it has
begun, and a thread that asks for the lock again and again gets it (strong
fairness of `Acquire`: `threading.Lock` wakes some waiter, and does not starve one
for ever); nobody has to subscribe, no connection to open or fail. `WsSession`: the
loop's thread runs and the server answers what it has been sent.
`AccountBalance`: the thread runs, and each request is answered or fails.
`Lessismore`, `RestCall` and `HistPosition` are checked for safety only: the
robot's retry loops are unbounded by intention, and `session.get` has no timeout, so
nothing makes a call end.

The milder worlds of `WsConnection` assume that a dial and a handler take less than a
second and that connections are not closed by the server.
Both are real limits of the code: with `"dial"` in `Slow` a dial that outlasts a
second is followed by another and `OneFeed` fails; with `"serverClose"` in
`Fault` the manager becomes IDLE, which the watchdog does not handle, and
`NeverGivesUp` fails. They are listed as hazards in `PROJECT.json`.

**Deadlock** is checked in `WsConnection`, `WatchList`, `Lessismore` and
`AccountBalance`. A closed session, an ended call and a finished search really stop,
so the configurations of `WsSession`, `RestCall` and `HistPosition` switch the check off.

## 4. Proofs

| Theorem | Property | Argument |
|---|---|---|
| `WsConnectionProofs!TypeCorrect` | `TypeOK` | inductive; `ConnectTakesFree` is the one fact about starting threads |
| `WsConnectionProofs!CallbacksAreFound` | `CallbacksFindManager` | for any `Slow` without `"preempt"`; inductive with `TypeOK` and `Starts`: one thread at a time is between lines 44 and 52, and what it is about to run is the manager's own and by then a key |
| `WsConnectionBothProofs!CallbacksAreFoundWhenFast` | `CallbacksFindManager` | the switching and the prompt world: `PInv` below |
| `WsConnectionProofs!UnsubscribedIsNotDialled` | `NoDialAfterUnsubscribe` | `StaysUnlisted`: from `on_connection_closed` on the manager is not listed, so no job can pass `Check`; what is left is a case split on who can start a thread. For any `Slow` |
| `WsConnectionBothProofs!OneFeedWhenFast`, `FeedIsWatchedWhenFast` | `OneFeedIfFast`, `FeedIsWatchedIfFast` | `PInv` below |
| `WsConnectionBothProofs!PromiseIsKept` | `KeepsPromise` | refinement: `FeedOpens` and `Returns` give the steps of `Feed`, every other step is a stutter |
| `WatchListProofs!LockIsExclusive` | `OneHolder` | inductive with the type of `pc` |
| `WatchListProofs!ListHoldsItsManagers` | `ListIsExact` | `Contents` below |
| `WatchListProofs!LostOnlyAfterAbort` | `StuckOnlyAfterAbort` | inductive with `Contents`: as long as no removal broke off, what is to be removed is listed |
| `WatchListProofs!WalksMissFew` | `MissesOnePerRemoval` | `Walks` below |
| `WatchListProofs!TypeCorrect` | `TypeOK` | `Typed`, inductive with `Contents`, which says that a client in its loop has a manager |
| `WsSessionProofs!SignsInFirst` | `SignedInFirst` | `IInv` below |
| `WsSessionProofs!RequestsAnsweredOnce` | `OneAnswer` | inductive with: the connection of an answered request is closed, and a closed one has nothing in hand |
| `WsSessionProofs!PingsAreAnswered` | `AnswersPings` | inductive with `IInv` |
| `WsSessionProofs!UpdatesInOrder` | `DeliversInOrder` | `InOrder`: with it, that an update in hand is alone |
| `WsSessionProofs!TopicsAskedInTurn` | `AsksOnce` | `AskInv` below |
| `WsSessionProofs!TypeCorrect` | `TypeOK` | `Typed`: what is left of the topics is always an end of their list |
| `RestCallProofs!TypeCorrect`, `CallerMayTrust`, `OrdersPlacedOnce` | `TypeOK`, `OutcomeTellsEffect`, `PlacedOnce` | `Invariant`: `IInv` below |
| `RestCallProofs!PathsAreWhole` | `PathIsWhole` | from `Called`: what was sent was accepted by the checks, one of which refuses None |
| `RestCallProofs!DocumentedUseWorks` | `DocumentedUseIsSent` | `Given` below |
| `RestCallProofs!CallsAreCalls` | `ImplementsCall` | `StepOfCall`: every step is a step of `Call` or a stutter |
| `LessismoreProofs!AtMostOnePerMishap` | `RepeatedAtMostOnce` | `IInv` below |
| `LessismoreProofs!BuysOncePerPeriod`, `BuysOncePerPeriodWhenMild` | `OncePerPeriod`, `OncePerPeriodIfMild` | no `lostAnswer` and no `crashInTrade` in `Fault` means no mishaps |
| `LessismoreProofs!BooksMatchWhenMild` | `BooksMatchIfMild` | `Books` below |
| `LessismoreProofs!SellsAtProfitWhenMild` | `SellsAtProfitIfMild` | `Books`, with the lemmas `RebuiltIsTheAccount` and `Sells` |
| `LessismoreProofs!PlanIsAffordableWhenMild` | `PlanIsAffordableIfMild` | `Plan` below |
| `LessismoreProofs!TypeCorrect` | `TypeOK` | `Typed`, in the hard world as well |
| `HistPositionProofs!ReturnsTheOpening`, `ZeroIsTheBeginning`, `TypeCorrect` | `OpensLatestRun`, `ZeroMeansBeginning`, `TypeOK` | loop invariant `Passed` / `Found` |
| `AccountBalanceProofs!ListIsOwnAndRecent`, `OnlyFailuresAreMissing`, `RobotsBalanceIsReal`, `TypeCorrect` | `OwnAndRecent`, `MissingHasFailed`, `BalanceIsReal`, `TypeOK` | `Invariance`: `IInv` below |

So each invariant, action property and refinement that a passing run checks is
proved as well, save `CarriesArguments`. That argument values arrive is a fact about each of the 105
dictionaries, not about the calls: an assumption strong enough to prove it from would state it.

**Assumptions.** The theorems hold for any number of connections, clients, overlapping jobs
(the code allows ten) and accounts, any limits, prices, shares, markets, topics and histograms,
and for any set of operations that keeps to what `RestCall` assumes. The assumptions are those
the modules name: `ConnAssumption` (None is no connection), `LimitAssumption` (what
the watchdog's constructor enforces), `EnvAssumption`, `ClientAssumption` and `SubAssumption`,
`KindAssumption`, `TopicsAssumption`, `AccountAssumption`, `MoneyAssumption` (positive
shares), `CoinAssumption` (a unit of money buys coins at every price), `MaxLastAssumption`; the theorem about the plan
assumes a base above 1.1 usdt (`Base > 11 * Grain`), because `try_buy` answers BUY_ERROR for 1 usdt and less;
and for calls

* `ClientsAssumption`: the shape of an operation;
* `IdAssumption`: a service that creates an order is given the client's id;
* `GuardAssumption`: what goes into a path is checked, save in `Unguarded`;
* `CheckAssumption`: each check refuses, of one of the arguments it looks at, only what the documentation does
  not allow, save in `Refusing`.

The last two are facts about the operations, one operation at a time; TLC evaluates them for the
105 operations of the nine clients in the run `RestCall`. What is proved from
them is about calls: with any number of arguments out of place, through the order of the checks and
the paths that end a call early, over any number of repetitions.

The theorems named `...WhenFast` and `...WhenMild` are about the milder worlds of a run, for any
size of them. Those of `Lessismore` name the faults they exclude: a crash within a trade,
a lost answer, a balance that lags or lacks the spot account, and for the plan a withdrawal too.
Candles, refusals, restarts elsewhere and moves of the market are any.

**WsConnection.** `OneFeed` is not inductive: a second thread may be dialling while the first feeds.
`PInv` says what it takes that dials and handlers end within a period; that threads are interrupted anywhere
does not matter to it, and a lemma shows the prompt world to be a part of the switching one. There is one thread at a time and its connection is
the manager's, or closed (`Alone`, `Held`); one job is at work, beside no thread but the
silent one it closes (`OneJob`, `JobsAlone`); a job that is about to dial finds nothing
connected (`JobsTell`); and what the state and the user's place say of the threads
(`StateTells`, `UserTells`). `Between` is where the clock comes in: when it moves, or a job
starts, nothing is under way. In the slow world none of this holds.

**WatchList.** `ListIsExact` speaks of every client that has not broken off. For the step it needs that
the next manager is new (`Numbered`, `NewIsApart`), that no list holds one twice, and what a client in
the middle of `unsubscribe_all` has already taken off (`Exact`). The mutex is used in the lemmas:
only the holder changes the list, and `Bystander` says that a step of one client leaves the
managers of another alone. `Walks` counts, for a walk, the managers before its index that it has not looked at:
a removal before the index moves one across it, an append moves none.

**WsSession.** `Understood` is the lemma about the chain of tests: what the server means by a
message in the dialect of its line is the branch the chain takes. The other proofs rest on
it. `SignedInFirst` does not say that nothing is on its way.
`Unsigned` says that before the acceptance no topic is being sent, none travels and
no acceptance travels back; `NothingTravels` that nothing of a broken connection is
left for the next one. `AsksOnce` needs to know what travels as well: either nothing has been asked for and
at most one acceptance is to come (`Fresh`), or none is to come, the topics under way stand together in
their order and the handler has the rest (`Asking`, `InLine`). `DeliversInOrder` and
`AnswersPings` say of the n-th update or pong on the way which number it has, with `Carries` and
`Sent` for the place it stands at. `TakesFirst` and `AddsLast` are the lemmas about a queue that
these proofs share: what a message read from one end or added at the other does to those places.

**RestCall.** The properties speak of the outcome, so `Called` adds what holds
while a call is under way: the request is the one made of these arguments and they were
accepted, the exchange has carried out at most what was sent, and a reply is an acceptance only of what was
carried out. `Verdict` is the lemma about `check_response`: no refusal passes and no
acceptance is taken for one. `OrdersPlacedOnce` needs that the id passes unchanged
through dictionary and body (`Passed`). `Given` adds what an ended call says of its
arguments: a call refused by the client had some the checks do not accept, and a subscription carries
the names of its channel.

**Lessismore.** `RepeatedAtMostOnce` does not say why a second order is not
placed. `IInv` adds `Times` (candle numbers never run
backwards: period, journal and what `run()` has seen are at most the present candle)
and `Accounted`: outside the window between an order and its row, a period that is
later than the last BUY_DONE row can have had only orders nothing accounts for, and
the same at the moment of ordering. `Decisions` is the lemma that `Decide` buys
in a LONG period only when the journal shows no purchase in it, whichever branch
it takes. This proof does not depend on prices or amounts. `BooksMatch` is about the moments between
two runs; `Books` adds who describes the account meanwhile: the last row that
counts, except between an order and its row, where what `run()` holds in memory does.
`RebuiltIsTheAccount` then says that the position `run()` makes of row and balance is the
account's, which is what `SellsAtProfit` rests on. `CoinAssumption` is needed here: a purchase too small to
buy anything would leave money spent and no coins, and the journal would be taken for a closed position.
What rounding costs comes in at the last order only: `Booked` says that the row and the money differ only when the
account is empty, and by half a `Grain` at most (`RoundedNear`); an empty account has no next share, so it does not add up.
`Plan` is arithmetic: with `i` of `MaxCount` shares bought for `basis`, what
was spent above the bases, `basis - i * Base`, is at most the part of the surplus
that belongs to `i` shares (`Pays`, multiplied out so that no quotient is left). `NextShare` shows that
the next share, rounded down and reckoned from the rounded money, keeps it.

**HistPosition.** The invariant says what the loops have established at
index `i`: nothing of the wanted direction lies after it (`Passed`), or the
last such candle has been seen and nothing from `i + 1` to it goes against it
(`Found`).

**AccountBalance.** The invariant relates the tasks to the map while the call
lasts: a task runs only then and what it was answered is its own account's
(`TasksInCall`), and the map has one entry for each task that ended well and no other
(`MapIsExact`). `OwnAndRecent` alone speaks only of the finished list and so
is not inductive.

**Only model-checked** are the liveness properties, because fairness and ENABLED are outside the
prover's reach: `WaitingEnds`, `SilenceIsNoticed`, `NeverGivesUpIfPrompt` and
`UnsubscribeStopsIfPrompt` of a connection, `ErrorIsNoticed` and `EveryoneGetsTheLock` of the shared
list, `Resubscribes` of a session, `CallEnds` of a balance query; and what the five
runs refute. `CarriesArguments` is checked for the operations there are. That the operations of the client modules meet `CheckAssumption` and
`GuardAssumption` is evaluated, not proved: it is a finite fact about 105 constants.

## 5. What is not modelled

* The characters of paths, signatures, channel names and messages; the fields of the
  models; the enumerations, which are what a check takes for fit.
* `get_exchange_info` of the generic client: two of the modelled calls, one after the
  other.
* The performance variant of the REST client, which does the same with a stopwatch and
  returns a triple.
* A call without an end: `session.get` and `session.post` have no timeout; in `RestCall` such a call
  stays in `"sent"`.
* talib's indicators; the robot sees the histogram through the two searches, which
  `Lessismore` takes as `market.first` and `HistPosition` models.
* Rounding of averages and of coins; the balance's is modelled. A tie is rounded up, where Python
  formats the nearest binary number. The exchange's fee, taken in coins, is left out.
* The time an order beyond the account takes: it is reduced by 0.000001 usdt at a time, 3 seconds
  and more apart (`lessismore.py:198-206`); 0.05 usdt are up to 50,000 attempts, some 40 hours, in the model one step.
* Names of arguments in the documentation that are misspelt (`etf_symbol`, `load_id`,
  the `account_type` of `cancel_open_orders`) are taken for the arguments they mean.
* A user's `close()` before `on_open` has signed in is `WsConnection`'s matter where it raises; in `WsSession` it closes.
* The library `websocket_client`, except for what its callbacks see: an exception ends the
  loop with `on_error`, a close frame without it.
* Logging, configuration, the performance tools, the examples and tests.

## 6. Plan

1. The safety part of the liveness properties: that a connection waiting to be dialled stays so
   until it is dialled, that a thread of `WatchList` asking for the lock goes on asking, and that the map of an
   unfinished balance query only grows. The fairness steps stay with TLC.
2. The lock of `WatchList` as a contract of its own, an abstract list with atomic operations,
   and the module shown to implement it.
3. The robot placing its orders through `RestCall` instead of its own view of the
   exchange.
