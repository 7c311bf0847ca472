----------------------------- MODULE Lessismore -----------------------------
(***************************************************************************)
(* The trading robot of my/lessismore.py against the exchange, with its    *)
(* journal of trades in SQLite (my/lessdb.py).  Every 30 seconds run()     *)
(* reads the candles; if the direction of the MACD histogram changed, or   *)
(* while it monitors, it reads the balance and the last BUY_DONE and       *)
(* SELL_DONE rows, rebuilds its position from them and may trade.  The     *)
(* calls it makes to the exchange may fail, be retried or be answered too  *)
(* early, and the process may die between any two of them.                 *)
(*                                                                         *)
(* A run on a histogram of zero returns before it changes anything and is  *)
(* left out.  Money and coins are integers; `Scale' coins are bought for   *)
(* one unit of money at price 1.  The robot sees its money rounded to one  *)
(* decimal, that is to a multiple of `Grain', which may be more than the   *)
(* account holds.                                                          *)
(***************************************************************************)
EXTENDS Integers

CONSTANTS
    Price,        \* the prices that occur
    Scale,        \* a multiple of all of them
    Grain,        \* 0.1 usdt
    Base,         \* LESS_BASE: the first share, in money
    MaxCount,     \* LESS_MAX_COUNT: the number of shares
    LeastProfit,  \* LESS_LEAST_PROFIT
    AddDiff,      \* LESS_ADD_DIFF
    PeakDiff,     \* LESS_PEAK_DIFF
    Deposit,      \* money on the account at first
    MaxCandle,    \* bound on the candles of a behaviour
    MaxTrade,     \* bound on the orders the exchange executes
    Fault         \* what may go wrong

AllFaults == {"crash",       \* the process dies where the journal is complete
              "crashInTrade",\* ... or between an order and its row
              "refusal",     \* an order is refused and the ValueError escapes
              "lostAnswer",  \* an order is executed, its answer never arrives
              "lag",         \* a balance does not show the last order yet
              "blind",       \* the spot account is missing: 0 money, 0 coins
              "moves",       \* the market moves while run() is at work
              "withdraw"}    \* the owner takes money from the account

ASSUME MoneyAssumption ==
    /\ Price \subseteq Nat \ {0} /\ Price # {}
    /\ Scale \in Nat \ {0} /\ Grain \in Nat \ {0} /\ Base \in Nat \ {0} /\ MaxCount \in Nat \ {0}
    /\ LeastProfit \in Nat /\ AddDiff \in Nat /\ PeakDiff \in Nat /\ Deposit \in Nat
    /\ MaxCandle \in Nat /\ MaxTrade \in Nat
    /\ Fault \subseteq AllFaults

\* The unit of coins is small: a unit of money buys some at every price.
ASSUME CoinAssumption == \A p \in Price : p <= Scale

VARIABLES
    market,   \* candle, its direction, the first candles of the last runs, price
    account,  \* the exchange's money and coins; what the coins cost, in how many
              \* buys; the last LONG period bought in and the orders in it;
              \* orders whose answer was lost or whose row was never written
    shown,    \* what get_account_balance may still answer instead
    journal,  \* the last BUY_DONE and the last SELL_DONE row of BTC_OPS
    memory,   \* _trade_direction_his and _need_monitor
    pc,       \* where run() is
    seen,     \* what run() knows of the market: _cur_*, _real_time_close
    data,     \* its position and balance: _count, _cost_*, _last_*, ...
    trades    \* orders executed so far (bounds the model)

vars == <<market, account, shown, journal, memory, pc, seen, data, trades>>

Direction == {"LONG", "SHORT"}
Pc == {"idle", "balance", "buy", "buyBalance", "buyRecord",
       "sell", "sellBalance", "sellRecord"}

NoRow == [time |-> 0]
Zero == [used |-> 0, coins |-> 1]        \* a cost_average of 0
Fresh == [his |-> "INVALID", monitor |-> TRUE]
NoData == [amount |-> 0]
Unread == [dir |-> "NONE"]

\* float_1f: the nearest multiple of Grain
Rounded(usdt) == Grain * ((2 * usdt + Grain) \div (2 * Grain))

\* get_balance of an account the exchange shows, and of one it does not
Balance(a) == [usdt |-> Rounded(a.usdt), coins |-> a.coins]
Answers(b) == {b} \cup (IF "blind" \in Fault THEN {[usdt |-> 0, coins |-> 0]} ELSE {})

Init ==
    /\ \E d \in Direction, p \in Price :
          market = [candle |-> 1, dir |-> d, price |-> p,
                    first |-> [e \in Direction |-> 1],
                    close |-> [e \in Direction |-> p]]
    /\ account = [usdt |-> Deposit, coins |-> 0, basis |-> 0, buys |-> 0,
                  period |-> 0, inPeriod |-> 0, mishaps |-> 0]
    /\ shown = Balance(account)
    /\ journal = [buy |-> NoRow, sell |-> NoRow]
    /\ memory = Fresh
    /\ pc = "idle"
    /\ seen = Unread
    /\ data = NoData
    /\ trades = 0

-----------------------------------------------------------------------------
(* The market: `first' and `close' are the time and the closing price at    *)
(* get_latest_first_hist_position, for either direction.                    *)

MarketMoves ==
    /\ pc = "idle" \/ "moves" \in Fault
    /\ \E p \in Price :
          \/ /\ p # market.price
             /\ market' = [market EXCEPT !.price = p]
          \/ /\ market.candle < MaxCandle
             /\ \E d \in Direction :
                   LET k == market.candle + 1
                       turned == [market EXCEPT !.first[d] = k, !.close[d] = market.price]
                   IN  market' = [(IF d = market.dir THEN market ELSE turned)
                                    EXCEPT !.candle = k, !.dir = d, !.price = p]
    /\ UNCHANGED <<account, shown, journal, memory, pc, seen, data, trades>>

Withdraw ==
    /\ "withdraw" \in Fault
    /\ pc = "idle"
    /\ \E left \in 0 .. account.usdt - 1 : account' = [account EXCEPT !.usdt = left]
    /\ shown' = Balance(account')
    /\ UNCHANGED <<market, journal, memory, pc, seen, data, trades>>

-----------------------------------------------------------------------------
(* run(), up to the first order.                                           *)

\* reliable_get_candlestick and the test that opens the body of run(); by now,
\* 30 seconds later, every balance shows the last order.
ReadCandles ==
    /\ pc = "idle"
    /\ trades < MaxTrade
    /\ memory.his # market.dir \/ memory.monitor
    /\ pc' = "balance"
    /\ seen' = market
    /\ shown' = Balance(account)
    /\ UNCHANGED <<market, account, journal, memory, data, trades>>

\* set_running_data: the position a BUY_DONE row describes, or none
Position(row, b) ==
    [budget |-> b.usdt, coins |-> b.coins, amount |-> 0,
     count     |-> IF row = NoRow THEN 0 ELSE row.count,
     used      |-> IF row = NoRow THEN 0 ELSE row.used,
     average   |-> IF row = NoRow THEN Zero ELSE row.average,
     lastPrice |-> IF row = NoRow THEN 0 ELSE row.price,
     lastDir   |-> IF row = NoRow THEN "NONE" ELSE row.dir,
     lastTime  |-> row.time]

OpenRow_Strict(coins) ==
    IF journal.buy.time > journal.sell.time /\ (coins > 0 \/ journal.sell = NoRow)
    THEN journal.buy ELSE NoRow

\* The row run() rebuilds the position from when it holds that many coins.
OpenRow(coins) ==
    IF journal.buy.time >= journal.sell.time /\ (coins > 0 \/ journal.sell = NoRow)
    THEN journal.buy ELSE NoRow

\* Where it also stops monitoring, before it has traded.
StopsMonitoring(coins) == journal.sell # NoRow /\ OpenRow(coins) = NoRow

\* ret_list of get_next_usdt has an element for the next share.
HasShare(d) ==
    /\ MaxCount > 1
    /\ Base * MaxCount < d.used + d.budget
    /\ d.count < MaxCount

Share_Steep(d) ==
    Base + ((d.count * 2 * (d.used + d.budget - MaxCount * Base)) \div MaxCount)

\* get_next_usdt, cut off to the smallest unit
Share(d) ==
    Base + ((d.count * 2 * (d.used + d.budget - MaxCount * Base))
               \div (MaxCount * (MaxCount - 1)))

\* What try_buy orders: the share, or all that is left, or 0 for BUY_ERROR.
Amount(d) == IF d.budget > Share(d) THEN Share(d)
             ELSE IF d.budget > 10 * Grain THEN d.budget ELSE 0

Profitable_NoLeast(d) == seen.price * d.average.coins > d.average.used * Scale

\* try_sell: real_time_close - cost_average > profit_at_least
Profitable(d) ==
    (seen.price - LeastProfit) * d.average.coins > d.average.used * Scale

\* A position opened in a SHORT run waits for the LONG and SHORT runs after it.
MaySell(d) ==
    (d.count = 1 /\ d.lastDir = "SHORT")
        => d.lastTime < seen.first["LONG"] /\ seen.first["LONG"] < seen.first["SHORT"]

AlreadyBought_Strict == journal.buy # NoRow /\ seen.first["LONG"] < journal.buy.time

\* "Already bought in this period"
AlreadyBought == journal.buy # NoRow /\ seen.first["LONG"] <= journal.buy.time

\* condition of the LONG branch
Cheap(d) == IF d.lastPrice = 0 THEN seen.price < seen.close["LONG"]
            ELSE d.lastPrice - seen.price >= AddDiff

\* the tests of the SHORT branch for a sudden fall
AtPeak(d) == (IF d.coins > 0 THEN d.lastPrice ELSE seen.close["SHORT"]) - seen.price
                >= PeakDiff

\* run() ends by itself, or by an exception that the main loop swallows.
End(his, monitor) ==
    /\ pc' = "idle"
    /\ seen' = Unread
    /\ data' = NoData
    /\ memory' = [his |-> his, monitor |-> monitor]
Finish(monitor) == End(seen.dir, monitor)
Escape(monitor) == End(memory.his, monitor)

Order(d, side, monitor) ==
    /\ pc' = side
    /\ data' = d
    /\ memory' = [memory EXCEPT !.monitor = monitor]
    /\ UNCHANGED seen

\* try_buy(condition) and what run() makes of its result
TryBuy(d, condition, monitor) ==
    IF ~HasShare(d) THEN Escape(monitor)
    ELSE IF condition /\ Amount(d) > 0
         THEN Order([d EXCEPT !.amount = Amount(d)], "buy", monitor)
         ELSE Finish(seen.dir = "SHORT" \/ ~condition)

Long(d, monitor) ==
    IF AlreadyBought THEN Finish(FALSE) ELSE TryBuy(d, Cheap(d), monitor)

Short(d, monitor) ==
    IF d.coins > 0 /\ MaySell(d) /\ Profitable(d) THEN Order(d, "sell", monitor)
    ELSE IF AtPeak(d) THEN TryBuy(d, TRUE, monitor)
    ELSE Finish(TRUE)

\* reliable_get_balance has answered: run() reads the rows and takes a branch.
Decide ==
    /\ pc = "balance"
    /\ \E b \in Answers(Balance(account)) :
          LET d == Position(OpenRow(b.coins), b)
              monitor == memory.monitor /\ ~StopsMonitoring(b.coins)
          IN  IF seen.dir = "LONG" THEN Long(d, monitor) ELSE Short(d, monitor)
    /\ UNCHANGED <<market, account, shown, journal, trades>>

-----------------------------------------------------------------------------
(* reliable_create_order.                                                  *)

\* The exchange executes the order.  A balance read soon after may not show it;
\* when the answer is lost the loop orders once more.
Execute(a, next) ==
    /\ shown' = IF "lag" \in Fault THEN shown ELSE Balance(a)
    /\ trades' = trades + 1
    /\ \/ pc' = next /\ account' = a
       \/ /\ "lostAnswer" \in Fault /\ trades < MaxTrade
          /\ account' = [a EXCEPT !.mishaps = @ + 1]
          /\ UNCHANGED pc
    /\ UNCHANGED <<market, journal, memory, seen, data>>

Orders(a) == IF a.period = seen.first["LONG"] THEN a.inPeriod + 1 ELSE 1

\* BUY_MARKET: an amount the account has "not enough" for is reduced until it has.
ExecuteBuy ==
    /\ pc = "buy"
    /\ account.usdt > 0
    /\ LET spent == IF data.amount <= account.usdt THEN data.amount ELSE account.usdt
       IN  Execute([account EXCEPT
                      !.usdt = @ - spent,
                      !.coins = @ + ((spent * Scale) \div market.price),
                      !.basis = @ + spent,
                      !.buys = @ + 1,
                      !.period = IF seen.dir = "LONG" THEN seen.first["LONG"] ELSE @,
                      !.inPeriod = IF seen.dir = "LONG" THEN Orders(account) ELSE @],
                   "buyBalance")

\* SELL_MARKET of the whole holding
ExecuteSell ==
    /\ pc = "sell"
    /\ account.coins > 0
    /\ Execute([account EXCEPT
                   !.usdt = @ + ((account.coins * market.price) \div Scale),
                   !.coins = 0, !.basis = 0, !.buys = 0],
               "sellBalance")

\* The order is refused for good: index("not enough") raises a ValueError.
Refuse ==
    /\ \/ pc = "buy" /\ ("refusal" \in Fault \/ account.usdt = 0)
       \/ pc = "sell" /\ ("refusal" \in Fault \/ account.coins = 0)
    /\ Escape(memory.monitor)
    /\ UNCHANGED <<market, account, shown, journal, trades>>

-----------------------------------------------------------------------------
(* buy_done and sell_done after the order.                                 *)

BuyBalance ==
    /\ pc = "buyBalance"
    /\ pc' = "buyRecord"
    /\ \E b \in Answers(Balance(account)) \cup {shown} :
          LET used == data.used + data.amount
          IN  data' = [data EXCEPT
                         !.budget = b.usdt, !.coins = b.coins,
                         !.count = @ + 1, !.used = used,
                         !.average = IF b.coins > 0 THEN [used |-> used, coins |-> b.coins]
                                                    ELSE Zero]
    /\ UNCHANGED <<market, account, shown, journal, memory, seen, trades>>

BuyRecord_Ahead ==
    /\ pc = "buyRecord"
    /\ journal' = [journal EXCEPT !.buy =
           [time |-> seen.candle + 1, dir |-> seen.dir, price |-> seen.price,
            count |-> data.count, used |-> data.used, average |-> data.average]]
    /\ Finish(seen.dir = "SHORT")
    /\ UNCHANGED <<market, account, shown, trades>>

BuyRecord_NoInsert ==
    /\ pc = "buyRecord"
    /\ Finish(seen.dir = "SHORT")
    /\ UNCHANGED <<market, account, shown, journal, trades>>

\* the row is inserted, and run() ends
BuyRecord ==
    /\ pc = "buyRecord"
    /\ journal' = [journal EXCEPT !.buy =
           [time |-> seen.candle, dir |-> seen.dir, price |-> seen.price,
            count |-> data.count, used |-> data.used, average |-> data.average]]
    /\ Finish(seen.dir = "SHORT")
    /\ UNCHANGED <<market, account, shown, trades>>

\* set_running_data(coin_num=0, ops=None)
SellBalance ==
    /\ pc = "sellBalance"
    /\ pc' = "sellRecord"
    /\ \E b \in Answers(Balance(account)) \cup {shown} :
          data' = Position(NoRow, [usdt |-> b.usdt, coins |-> 0])
    /\ UNCHANGED <<market, account, shown, journal, memory, seen, trades>>

\* the row is inserted; _last_price is 0 now, so no fall is seen, and run() ends
SellRecord ==
    /\ pc = "sellRecord"
    /\ journal' = [journal EXCEPT !.sell = [time |-> seen.candle]]
    /\ Finish(TRUE)
    /\ UNCHANGED <<market, account, shown, trades>>

InTrade == pc \in {"buyBalance", "buyRecord", "sellBalance", "sellRecord"}

\* The process dies and is started again: __init__.
Crash ==
    /\ (IF InTrade THEN "crashInTrade" ELSE "crash") \in Fault
    /\ pc # "idle" \/ memory # Fresh
    /\ pc' = "idle"
    /\ seen' = Unread
    /\ data' = NoData
    /\ memory' = Fresh
    /\ account' = IF InTrade THEN [account EXCEPT !.mishaps = @ + 1] ELSE account
    /\ UNCHANGED <<market, shown, journal, trades>>

-----------------------------------------------------------------------------
Run == \/ ReadCandles \/ Decide \/ ExecuteBuy \/ ExecuteSell \/ Refuse
       \/ BuyBalance \/ BuyRecord \/ SellBalance \/ SellRecord

Next == MarketMoves \/ Withdraw \/ Run \/ Crash

Spec == Init /\ [][Next]_vars

-----------------------------------------------------------------------------
(* Properties.                                                             *)

TypeOK ==
    /\ market \in [candle : Nat, dir : Direction, price : Price,
                   first : [Direction -> Nat], close : [Direction -> Price]]
    /\ account \in [usdt : Nat, coins : Nat, basis : Nat, buys : Nat,
                    period : Nat, inPeriod : Nat, mishaps : Nat]
    /\ memory \in [his : Direction \cup {"INVALID"}, monitor : BOOLEAN]
    /\ pc \in Pc
    /\ pc # "idle" => seen.dir \in Direction
    /\ data.amount \in Nat
    /\ journal.buy.time \in 0 .. market.candle /\ journal.sell.time \in 0 .. market.candle
    /\ trades \in 0 .. MaxTrade + 1

\* In one LONG period the LONG branch places at most one order, whatever
\* restarts come between ("check whether it has been bought already, because
\* the program may have been restarted"; "buy only once in each period",
\* lessismore.py:461, 475).
OncePerPeriod == account.inPeriod <= 1

\* Whatever goes wrong, an order whose answer was lost or whose row was never
\* written is repeated at most once: each of them costs at most one order more
\* than the one the period may have.
RepeatedAtMostOnce == account.inPeriod <= 1 + account.mishaps

\* What was spent, as buy_done books it.
Booked(used) ==
    /\ account.basis <= used /\ 2 * (used - account.basis) <= Grain
    /\ used > account.basis => account.usdt = 0

\* Between runs the journal describes the position the account is in: the row
\* run() would rebuild it from has the number of buys and the coins held, and there
\* is none when there are no coins.  The money it says was spent was spent, but for
\* what a last order was reduced by (buy_done books the amount it asked for): half a
\* Grain at most, and only if that order emptied the account.
BooksMatch ==
    pc = "idle" =>
        LET row == OpenRow(account.coins) IN
        IF account.coins = 0 THEN row = NoRow
        ELSE /\ row # NoRow
             /\ row.count = account.buys
             /\ row.average = [used |-> row.used, coins |-> account.coins]
             /\ Booked(row.used)

\* The pyramid is paid for, as long as nobody takes money away: the account holds
\* enough for every share but the last, and try_buy orders it whole.  The last takes
\* what is left: short of the share by a Grain at most, never a BUY_ERROR, and
\* beyond the account, which is then refused and reduced, by half a Grain at most.
PlanIsAffordable ==
    pc = "balance" =>
        LET d == Position(OpenRow(account.coins), Balance(account))
        IN  HasShare(d) =>
              /\ d.count < MaxCount - 1 => Amount(d) = Share(d) /\ Share(d) <= account.usdt
              /\ Amount(d) > 0 /\ Share(d) - Amount(d) <= Grain
              /\ 2 * (Amount(d) - account.usdt) <= Grain

\* run() decides to sell only what has gained: at the price it decides by, the
\* coins of the account are worth more than they cost, by more than LeastProfit
\* on each ("when the trend turns short, the profit must be at least this many
\* points before the position is closed", config.xml:17).
AtProfit ==
    pc = "balance" /\ pc' = "sell" =>
        (seen.price - LeastProfit) * account.coins > account.basis * Scale
SellsAtProfit == [][AtProfit]_vars
=============================================================================
